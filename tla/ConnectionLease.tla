--------------------------- MODULE ConnectionLease ---------------------------
(***************************************************************************)
(* What a connection pool promises its users, whatever its mechanism: a    *)
(* connection is lent to one borrower at a time, a borrower gives it back  *)
(* or discards it, and a pool that was shut lends nothing any more.        *)
(***************************************************************************)
CONSTANTS Conns, Borrowers, NoConn

VARIABLES
    lease,  \* the connection each borrower has, or NoConn
    stock,  \* open connections the pool keeps for itself
    open    \* whether the pool still lends

vars == <<lease, stock, open>>

Leased == {lease[b] : b \in Borrowers} \ {NoConn}

Init ==
    /\ lease = [b \in Borrowers |-> NoConn]
    /\ stock \in SUBSET Conns
    /\ open = TRUE

(* A borrower gets a connection nobody else has: from stock, or a new one. *)
Lend(b, c) ==
    /\ open /\ lease[b] = NoConn /\ c \notin Leased
    /\ lease' = [lease EXCEPT ![b] = c]
    /\ stock' = stock \ {c}
    /\ UNCHANGED open

(* It comes back into stock, or is closed.                                 *)
GiveBack(b) ==
    /\ open /\ lease[b] # NoConn
    /\ stock' = stock \cup {lease[b]}
    /\ lease' = [lease EXCEPT ![b] = NoConn]
    /\ UNCHANGED open

Discard(b) ==
    /\ lease[b] # NoConn
    /\ lease' = [lease EXCEPT ![b] = NoConn]
    /\ UNCHANGED <<stock, open>>

(* It goes straight to another borrower.                                   *)
PassOn(b, d) ==
    /\ open /\ lease[b] # NoConn /\ lease[d] = NoConn
    /\ lease' = [lease EXCEPT ![b] = NoConn, ![d] = lease[b]]
    /\ UNCHANGED <<stock, open>>

(* The pool opens connections in advance and closes those it keeps.        *)
Supply(c) ==
    /\ open /\ c \notin Leased
    /\ stock' = stock \cup {c}
    /\ UNCHANGED <<lease, open>>

Retire(c) ==
    /\ c \in stock
    /\ stock' = stock \ {c}
    /\ UNCHANGED <<lease, open>>

Shut ==
    /\ open' = FALSE
    /\ UNCHANGED <<lease, stock>>

Next ==
    \/ \E b \in Borrowers : \/ \E c \in Conns : Lend(b, c)
                            \/ \E d \in Borrowers : PassOn(b, d)
                            \/ GiveBack(b)
                            \/ Discard(b)
    \/ \E c \in Conns : Supply(c) \/ Retire(c)
    \/ Shut

Spec == Init /\ [][Next]_vars
=============================================================================
