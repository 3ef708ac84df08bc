----------------------------- MODULE GenePoolLease -----------------------------
(***************************************************************************)
(* GenePool as an implementation of ConnectionLease: what the borrowers    *)
(* hold is lent, what is on the stack or out for a liveness probe is in    *)
(* stock, and the lender is open until close() has marked the pool.        *)
(***************************************************************************)
EXTENDS GenePool

LeaseOf == [b \in Borrowers |-> IF pc[b] = "using" THEN conn[b] ELSE NoConn]
Kept == Idle \cup ({conn[p] : p \in Recyclers \cup Checkers} \ {NoConn})

Lease == INSTANCE ConnectionLease WITH lease <- LeaseOf, stock <- Kept, open <- ~closed

(* The pool implements the lending contract: every step of get(), put(),   *)
(* remove(), the recycler, a health check and close() is one that a lender *)
(* may take, or none that its borrowers notice (pool.c:580-1130).          *)
ImplementsLease == Lease!Spec
=============================================================================
