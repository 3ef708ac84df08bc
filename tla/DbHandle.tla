------------------------------- MODULE DbHandle -------------------------------
(***************************************************************************)
(* The database handle of a request and its connection: Gene\Db\Mysql and  *)
(* its siblings (db/mysql.c, db/pdo.c), the borrowing and returning that   *)
(* they share (db/pool.c) and the clean-up at the end of a request         *)
(* (gene.c).                                                               *)
(*                                                                         *)
(* A handle has a connection from the named pool, or one of its own when   *)
(* there is no pool or the pool has none to give; an own connection may be *)
(* persistent, so that the next request of the process gets it again.  The *)
(* pool is abstracted to its idle connections and its count, which goes    *)
(* above the maximum when get() waits in vain (see GenePool for what is    *)
(* behind them).  The server is what it has stored and what    *)
(* is pending on each connection; it rolls back what is pending on a       *)
(* connection that is lost, of which the client learns at its next         *)
(* statement.  A statement that finds its connection lost gets another     *)
(* connection and is executed once more.                                   *)
(***************************************************************************)
EXTENDS Naturals, FiniteSets

CONSTANTS
    Coroutines, Conns, Writes, Absent,
    Deployments     \* [pool: a pool is configured, size: its maximum, persistent,
                    \*  losses: bound on lost connections, inside: also in the middle of a
                    \*  transaction, and not only between them or with the answer to COMMIT,
                    \*  failing: the connects that replace a lost connection of a pool may
                    \*  fail, requests: bound on requests]

Handle == [pool: BOOLEAN, pdo: Conns \cup {Absent}]
Frame == [own: BOOLEAN, depth: {1, 2}, writes: SUBSET Writes]
Deployment ==
    [pool: BOOLEAN, size: Nat \ {0}, persistent: BOOLEAN, losses: Nat, inside: BOOLEAN,
     failing: BOOLEAN, requests: Nat]

(* NULL is none of the things that may be there.                           *)
HandleAssumption ==
    /\ Deployments \subseteq Deployment
    /\ \A d \in Deployments : d.pool => ~d.persistent
    /\ IsFiniteSet(Coroutines) /\ IsFiniteSet(Conns)
    /\ Absent \notin Conns \cup Handle \cup Frame

VARIABLES
    deployment,
    handle,     \* a Handle, of each coroutine; Absent without a request
    idle,       \* connections in the pool, or the persistent one that is kept
    count,      \* the count of the pool
    alive, tx,  \* of a connection: not lost; the client takes it to be in a transaction
    pending,    \* what the server holds for the transaction of a connection
    stored,     \* the writes that the server keeps
    frame,      \* the transaction() that a request is in, a Frame or Absent
    ended,      \* the writes of each transaction() that owned its transaction, when it has ended
    issued, losses, requests

handleVars == <<deployment, handle, idle, count, alive, tx, pending, stored, frame, ended,
                issued, losses, requests>>

InUse == {handle[c].pdo : c \in {b \in Coroutines : handle[b] # Absent}} \ {Absent}
Unused == Conns \ (InUse \cup idle)

-----------------------------------------------------------------------------
(* Opening: what a handle may get, with the pool's new idle set and count. *)

Opened(x) == [alive |-> [alive EXCEPT ![x] = TRUE], tx |-> [tx EXCEPT ![x] = FALSE]]
Kept == [alive |-> alive, tx |-> tx]

(* gene_pool_get_pdo(): an idle connection, or a new one: below the        *)
(* maximum, or above it after waiting in vain.                             *)
PoolGet(n) ==
    {[pool |-> TRUE, pdo |-> x, idle |-> idle \ {x}, count |-> n, line |-> Kept] : x \in idle}
      \cup {[pool |-> TRUE, pdo |-> x, idle |-> idle, count |-> n + 1, line |-> Opened(x)] :
               x \in IF idle = {} THEN Unused ELSE {}}

(* A connection of the handle's own; a persistent one is the one that was  *)
(* left.                                                                   *)
Direct(n) ==
    IF deployment.persistent /\ idle # {}
      THEN {[pool |-> FALSE, pdo |-> x, idle |-> idle \ {x}, count |-> n,
             line |-> IF alive[x] THEN Kept ELSE Opened(x)] : x \in idle}
      ELSE {[pool |-> FALSE, pdo |-> x, idle |-> idle, count |-> n, line |-> Opened(x)] : x \in Unused}

(* InitPdo(): an own connection without a pool, and when the pool's        *)
(* connects have failed; for a handle that replaces a connection of the    *)
(* pool only where the deployment says so.                                 *)
Gets(n, replaces) ==
    IF ~deployment.pool THEN Direct(n)
    ELSE PoolGet(n) \cup
           IF idle = {} /\ (replaces => deployment.failing) THEN Direct(n) ELSE {}

Take(got) == /\ idle' = got.idle /\ count' = got.count
             /\ alive' = got.line.alive /\ tx' = got.line.tx

-----------------------------------------------------------------------------
Begin(c) ==
    /\ handle[c] = Absent /\ requests > 0
    /\ deployment.persistent => \A b \in Coroutines : handle[b] = Absent
    /\ \E got \in Gets(count, FALSE) :
         /\ Take(got)
         /\ handle' = [handle EXCEPT ![c] = [pool |-> got.pool, pdo |-> got.pdo]]
    /\ requests' = requests - 1
    /\ UNCHANGED <<deployment, pending, stored, frame, ended, issued, losses>>

Open(c) == handle[c] # Absent /\ handle[c].pdo # Absent

(* What a write does on connection x, which is alive: it is pending in a   *)
(* transaction and stored at once outside.                                 *)
Written(x, inTx, w) ==
    IF inTx THEN pending' = [pending EXCEPT ![x] = @ \cup {w}] /\ stored' = stored
            ELSE stored' = stored \cup {w} /\ pending' = pending

Noted(f, w) == IF f = Absent THEN f ELSE [f EXCEPT !.writes = @ \cup {w}]

(* execute(): when the statement finds its connection lost,                *)
(* gene_pool_notify_remove(), InitPdo() and the same statement on the new  *)
(* connection, once: when that one is lost too, the statement throws.  The *)
(* handle keeps its reference to the pool.  A preparation that asks the    *)
(* server and finds the connection lost throws at once, and the handle     *)
(* keeps what it has; it also keeps it when every connect fails.           *)
Execute(c, w) ==
    /\ Open(c) /\ w \notin issued
    /\ issued' = issued \cup {w}
    /\ frame' = [frame EXCEPT ![c] = Noted(@, w)]
    /\ LET x == handle[c].pdo
           left == IF handle[c].pool /\ count > 0 THEN count - 1 ELSE count
       IN  \/ /\ alive[x]
              /\ Written(x, tx[x], w)
              /\ UNCHANGED <<handle, idle, count, alive, tx>>
           \/ ~alive[x] /\ UNCHANGED <<handle, idle, count, alive, tx, pending, stored>>
           \/ /\ ~alive[x] /\ deployment.failing
              /\ count' = left
              /\ UNCHANGED <<handle, idle, alive, tx, pending, stored>>
           \/ /\ ~alive[x]
              /\ \E got \in Gets(left, handle[c].pool) :
                   /\ Take(got)
                   /\ handle' = [handle EXCEPT ![c] = [pool |-> @.pool \/ got.pool, pdo |-> got.pdo]]
                   /\ IF got.line.alive[got.pdo] THEN Written(got.pdo, got.line.tx[got.pdo], w)
                                                 ELSE UNCHANGED <<pending, stored>>
    /\ UNCHANGED <<deployment, ended, losses, requests>>

-----------------------------------------------------------------------------
(* beginTransaction(), commit() and rollBack() of a request that manages   *)
(* its transaction itself.  A lost connection throws and stays.            *)

BeginTransaction(c) ==
    /\ Open(c) /\ frame[c] = Absent /\ ~tx[handle[c].pdo] /\ alive[handle[c].pdo]
    /\ tx' = [tx EXCEPT ![handle[c].pdo] = TRUE]
    /\ UNCHANGED <<deployment, handle, idle, count, alive, pending, stored, frame, ended, issued,
                   losses, requests>>

(* COMMIT at the server; the answer may be lost with the connection.       *)
Committed(x) ==
    /\ stored' = stored \cup pending[x] /\ pending' = [pending EXCEPT ![x] = {}]
    /\ \/ tx' = [tx EXCEPT ![x] = FALSE] /\ UNCHANGED <<alive, losses>>
       \/ /\ losses > 0 /\ losses' = losses - 1
          /\ alive' = [alive EXCEPT ![x] = FALSE] /\ UNCHANGED tx
CommitOf(x) ==
    \/ alive[x] /\ tx[x] /\ Committed(x)
    \/ ~(alive[x] /\ tx[x]) /\ UNCHANGED <<stored, pending, tx, alive, losses>>
RolledBack(x) ==
    IF alive[x] THEN pending' = [pending EXCEPT ![x] = {}] /\ tx' = [tx EXCEPT ![x] = FALSE]
                ELSE UNCHANGED <<pending, tx>>

Commit(c) ==
    /\ Open(c) /\ frame[c] = Absent /\ tx[handle[c].pdo]
    /\ CommitOf(handle[c].pdo)
    /\ UNCHANGED <<deployment, handle, idle, count, frame, ended, issued, requests>>
RollBack(c) ==
    /\ Open(c) /\ frame[c] = Absent /\ tx[handle[c].pdo]
    /\ RolledBack(handle[c].pdo)
    /\ UNCHANGED <<deployment, handle, idle, count, alive, stored, frame, ended, issued, losses,
                   requests>>

-----------------------------------------------------------------------------
(* transaction(): the outermost one begins and ends the transaction, one   *)
(* inside another (or inside a transaction of the request) only runs its   *)
(* callback.  What it commits or rolls back is the connection the handle   *)
(* has by then.                                                            *)

RunTransaction(c) ==
    /\ Open(c)
    /\ LET x == handle[c].pdo
           own == ~tx[x]
       IN  \/ /\ frame[c] = Absent
              /\ own => alive[x]
              /\ frame' = [frame EXCEPT ![c] = [own |-> own, depth |-> 1, writes |-> {}]]
              /\ tx' = [tx EXCEPT ![x] = TRUE]
           \/ /\ frame[c] # Absent /\ frame[c].depth = 1 /\ tx[x]
              /\ frame' = [frame EXCEPT ![c].depth = 2]
              /\ UNCHANGED tx
    /\ UNCHANGED <<deployment, handle, idle, count, alive, pending, stored, ended, issued, losses,
                   requests>>

Ends(c) ==
    /\ frame' = [frame EXCEPT ![c] = IF @.depth = 2 THEN [@ EXCEPT !.depth = 1] ELSE Absent]
    /\ ended' = IF frame[c].own /\ frame[c].depth = 1 THEN ended \cup {frame[c].writes} ELSE ended

(* Mutant: one that is inside the owner's commits as well.                 *)
ReturnAlways(c) ==
    /\ frame[c] # Absent /\ Open(c) /\ Ends(c)
    /\ IF frame[c].own
         THEN CommitOf(handle[c].pdo)
         ELSE UNCHANGED <<stored, pending, tx, alive, losses>>
    /\ UNCHANGED <<deployment, handle, idle, count, issued, requests>>

(* The callback returns: the owner commits.                                *)
Return(c) ==
    /\ frame[c] # Absent /\ Open(c) /\ Ends(c)
    /\ IF frame[c].own /\ frame[c].depth = 1
         THEN CommitOf(handle[c].pdo)
         ELSE UNCHANGED <<stored, pending, tx, alive, losses>>
    /\ UNCHANGED <<deployment, handle, idle, count, issued, requests>>

(* It throws: the owner rolls back what the connection is in.              *)
Throw(c) ==
    /\ frame[c] # Absent /\ Open(c) /\ Ends(c)
    /\ IF frame[c].own /\ frame[c].depth = 1 /\ tx[handle[c].pdo]
         THEN RolledBack(handle[c].pdo)
         ELSE UNCHANGED <<pending, tx>>
    /\ UNCHANGED <<deployment, handle, idle, count, alive, stored, issued, losses, requests>>

-----------------------------------------------------------------------------
(* Mutant: the connection goes as it is.                                   *)
HygieneNone(x) == UNCHANGED <<pending, tx>>

(* gene_db_tx_hygiene(): an open transaction is rolled back before the     *)
(* connection goes.                                                        *)
Hygiene(x) ==
    IF x # Absent /\ tx[x] THEN RolledBack(x) ELSE UNCHANGED <<pending, tx>>

(* The connection goes to the pool, remains as the persistent one, or is   *)
(* closed (with what the server held for it), as one is that the pool has  *)
(* above its maximum.                                                      *)
Goes(c) ==
    LET x == handle[c].pdo
        excess == x # Absent /\ handle[c].pool /\ count > deployment.size
    IN  /\ idle' = IF x # Absent /\ (handle[c].pool \/ deployment.persistent) /\ ~excess
                     THEN idle \cup {x} ELSE idle
        /\ count' = IF excess THEN count - 1 ELSE count

(* release() and free(), and the request goes on without a connection.     *)
Release(c) ==
    /\ Open(c) /\ frame[c] = Absent /\ handle[c].pool
    /\ Hygiene(handle[c].pdo) /\ Goes(c)
    /\ handle' = [handle EXCEPT ![c].pdo = Absent]
    /\ UNCHANGED <<deployment, alive, stored, frame, ended, issued, losses, requests>>
Free(c) ==
    /\ Open(c) /\ frame[c] = Absent /\ ~handle[c].pool
    /\ Hygiene(handle[c].pdo) /\ Goes(c)
    /\ handle' = [handle EXCEPT ![c].pdo = Absent]
    /\ UNCHANGED <<deployment, alive, stored, frame, ended, issued, losses, requests>>

(* The request ends, also in the middle of a transaction(), or its         *)
(* coroutine is destroyed: gene_di_regs_tx_hygiene() and __destruct().     *)
End(c) ==
    /\ handle[c] # Absent
    /\ Hygiene(handle[c].pdo) /\ Goes(c)
    /\ handle' = [handle EXCEPT ![c] = Absent]
    /\ frame' = [frame EXCEPT ![c] = Absent]
    /\ ended' = IF frame[c] # Absent /\ frame[c].own THEN ended \cup {frame[c].writes} ELSE ended
    /\ UNCHANGED <<deployment, alive, stored, issued, losses, requests>>

(* The server drops a connection.                                          *)
Lose(x) ==
    /\ losses > 0 /\ alive[x] /\ x \in InUse \cup idle
    /\ tx[x] => deployment.inside
    /\ losses' = losses - 1
    /\ alive' = [alive EXCEPT ![x] = FALSE]
    /\ pending' = [pending EXCEPT ![x] = {}]
    /\ UNCHANGED <<deployment, handle, idle, count, tx, stored, frame, ended, issued, requests>>

HandleInit ==
    /\ deployment \in Deployments
    /\ handle = [c \in Coroutines |-> Absent] /\ frame = [c \in Coroutines |-> Absent]
    /\ idle = {} /\ count = 0
    /\ alive = [x \in Conns |-> TRUE] /\ tx = [x \in Conns |-> FALSE]
    /\ pending = [x \in Conns |-> {}] /\ stored = {} /\ ended = {} /\ issued = {}
    /\ losses = deployment.losses /\ requests = deployment.requests

HandleNext ==
    \/ \E c \in Coroutines :
         \/ Begin(c) \/ BeginTransaction(c) \/ Commit(c) \/ RollBack(c) \/ RunTransaction(c)
         \/ Return(c) \/ Throw(c) \/ Release(c) \/ Free(c) \/ End(c)
         \/ \E w \in Writes : Execute(c, w)
    \/ \E x \in Conns : Lose(x)
HandleSpec == HandleInit /\ [][HandleNext]_handleVars

-----------------------------------------------------------------------------
HandleTypeOK ==
    /\ deployment \in Deployments /\ idle \subseteq Conns /\ count \in 0..Cardinality(Conns)
    /\ \A c \in Coroutines : handle[c] = Absent \/ handle[c].pdo \in Conns \cup {Absent}
    /\ stored \subseteq issued /\ issued \subseteq Writes

(* No request meets what another one left: a connection that waits for its *)
(* next borrower is in nobody's hands and in no transaction.               *)
LeftClean == \A x \in idle : x \notin InUse /\ (alive[x] => ~tx[x] /\ pending[x] = {})

(* The pool's count is the number of its connections, idle or lent, also   *)
(* after handles replaced lost ones.                                       *)
CountHonest ==
    deployment.pool =>
        count = Cardinality(idle)
                  + Cardinality({c \in Coroutines : Open(c) /\ handle[c].pool})

(* A transaction() that began the transaction has done all of its writes   *)
(* or none when it has ended, however it ended.                            *)
AllOrNothing == \A writes \in ended : writes \subseteq stored \/ writes \cap stored = {}
===============================================================================
