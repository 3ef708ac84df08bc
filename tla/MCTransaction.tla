----------------------------- MODULE MCTransaction -----------------------------
(***************************************************************************)
(* The handle of one request on a pool whose connections may be lost: at   *)
(* any time, also in the middle of a transaction; or only outside of one,  *)
(* when the server may refuse a new connection too.                        *)
(***************************************************************************)
EXTENDS DbHandle

DeploymentChoices ==
    {[pool |-> TRUE, size |-> 2, persistent |-> FALSE, losses |-> 1, inside |-> TRUE,
      failing |-> FALSE, requests |-> 1]}
FailingChoices ==
    {[pool |-> TRUE, size |-> 2, persistent |-> FALSE, losses |-> 1, inside |-> FALSE,
      failing |-> TRUE, requests |-> 1]}

(* The pool counts every connection that waits in it: "the decrement       *)
(* symmetric to the successful reservation/overflow increment" (put() in   *)
(* db/pool.c).                                                             *)
StockCounted == deployment.pool => Cardinality(idle) <= count
================================================================================
