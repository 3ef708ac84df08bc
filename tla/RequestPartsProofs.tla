-------------------------- MODULE RequestPartsProofs --------------------------
(***************************************************************************)
(* Proofs about the router, the database handle, the records of the ORM,   *)
(* the context of a request and its service container, each alone: an      *)
(* inductive invariant of each, for every value of its constants.          *)
(* RequestsProofs has the theorems.                                        *)
(***************************************************************************)
EXTENDS RequestParts, DataFacts

-----------------------------------------------------------------------------
(* Database handles.                                                       *)

Holds(c, x) == handle[c] # Absent /\ handle[c].pdo = x
Borrowing == {c \in Handlers : Handling!Open(c) /\ handle[c].pool}

HandleTypes ==
    /\ deployment \in Deployments
    /\ handle \in [Handlers -> Handling!Handle \cup {Absent}]
    /\ frame \in [Handlers -> Handling!Frame \cup {Absent}]
    /\ idle \subseteq Conns /\ count \in Nat
    /\ alive \in [Conns -> BOOLEAN] /\ tx \in [Conns -> BOOLEAN]
    /\ pending \in [Conns -> SUBSET Writes]
    /\ issued \subseteq Writes /\ stored \subseteq issued /\ ended \subseteq SUBSET issued

(* A connection is in one place; one that is idle is in no transaction,    *)
(* and the server holds something only for a transaction of a request.     *)
HeldOnce ==
    /\ \A b, c \in Handlers, x \in Conns : Holds(b, x) /\ Holds(c, x) => b = c
    /\ \A c \in Handlers, x \in idle : ~Holds(c, x)
Rested == \A x \in idle : alive[x] => ~tx[x]
Unfinished == \A x \in Conns : pending[x] # {} => alive[x] /\ tx[x] /\ \E c \in Handlers : Holds(c, x)

(* The count is that of the connections, as long as a lost one can be      *)
(* replaced.                                                               *)
Slots ==
    deployment.pool /\ ~deployment.failing => count = Cardinality(idle) + Cardinality(Borrowing)

(* A write is pending on one connection, or stored.                        *)
Apart ==
    /\ \A x \in Conns : pending[x] \subseteq issued /\ pending[x] \cap stored = {}
    /\ \A x, y \in Conns : x # y => pending[x] \cap pending[y] = {}

(* Where no connection is lost inside a transaction, the connection of a   *)
(* transaction() has all of its writes until it ends, and then has them    *)
(* done or not.                                                            *)
Framed == \A c \in Handlers : frame[c] # Absent => Handling!Open(c) /\ frame[c].writes \subseteq issued
Owning(c) == frame[c] # Absent /\ frame[c].own
Settled(W) == W \subseteq stored \/ (W \cap stored = {} /\ \A x \in Conns : W \cap pending[x] = {})
Whole ==
    /\ \A c \in Handlers, x \in Conns :
          Owning(c) /\ Holds(c, x) => alive[x] /\ tx[x] /\ frame[c].writes = pending[x]
    /\ \A W \in ended : Settled(W)

HandleInv ==
    /\ HandleTypes /\ HeldOnce /\ Rested /\ Unfinished /\ Slots /\ Apart /\ Framed
    /\ ~deployment.inside => Whole

LEMMA HandleAssumed ==
  /\ Deployments \subseteq Handling!Deployment
  /\ \A d \in Deployments : d.pool => ~d.persistent
  /\ IsFiniteSet(Handlers) /\ IsFiniteSet(Conns)
  /\ Absent \notin Conns /\ Absent \notin Handling!Handle /\ Absent \notin Handling!Frame
<1>1. \A S : Handling!IsFiniteSet(S) <=> IsFiniteSet(S)
  BY DEF Handling!IsFiniteSet, IsFiniteSet
<1> QED
  BY <1>1, PartAssumptions DEF Handling!HandleAssumption

LEMMA HandleShape ==
  ASSUME HandleTypes, NEW c \in Handlers
  PROVE  /\ handle[c] # Absent => /\ handle[c] \in Handling!Handle
                                  /\ handle[c].pool \in BOOLEAN /\ handle[c].pdo \in Conns \cup {Absent}
         /\ frame[c] # Absent => /\ frame[c] \in Handling!Frame
                                 /\ frame[c].own \in BOOLEAN /\ frame[c].depth \in {1, 2}
                                 /\ frame[c].writes \subseteq Writes
         /\ \A x \in Conns : Holds(c, x) => Handling!Open(c)
         /\ Handling!Open(c) => handle[c].pdo \in Conns /\ Holds(c, handle[c].pdo)
BY HandleAssumed DEF HandleTypes, Handling!Handle, Handling!Frame, Holds, Handling!Open

LEMMA Sized ==
  ASSUME deployment \in Deployments
  PROVE  /\ deployment.pool \in BOOLEAN /\ deployment.persistent \in BOOLEAN
         /\ deployment.inside \in BOOLEAN /\ deployment.size \in Nat \ {0}
         /\ deployment.failing \in BOOLEAN
         /\ deployment.pool => ~deployment.persistent
BY HandleAssumed DEF Handling!Deployment

(* What a handle gets is in nobody's hands, with nothing pending, and is   *)
(* counted if it is the pool's.                                            *)
LEMMA Got ==
  ASSUME HandleInv, NEW n \in Nat, NEW m \in BOOLEAN, NEW got \in Handling!Gets(n, m)
  PROVE  /\ got.pdo \in Conns /\ \A c \in Handlers : ~Holds(c, got.pdo)
         /\ got.idle = idle \ {got.pdo}
         /\ got.line.alive \in [Conns -> BOOLEAN] /\ got.line.tx \in [Conns -> BOOLEAN]
         /\ \A y \in Conns : y # got.pdo => got.line.alive[y] = alive[y] /\ got.line.tx[y] = tx[y]
         /\ got.line.alive[got.pdo] => ~got.line.tx[got.pdo]
         /\ pending[got.pdo] = {}
         /\ got.count \in {n, n + 1}
         /\ got.pool \in BOOLEAN
         /\ got.pool => got.count = IF got.pdo \in idle THEN n ELSE n + 1
         /\ deployment.pool /\ ~got.pool =>
              got.count = n /\ got.pdo \notin idle /\ (m => deployment.failing)
<1> USE DEF HandleInv, HandleTypes
<1>0. deployment.pool \in BOOLEAN /\ deployment.size \in Nat /\ (deployment.pool => ~deployment.persistent)
  BY Sized
<1>1. \A x \in Handling!Unused : x \in Conns /\ x \notin idle /\ \A c \in Handlers : ~Holds(c, x)
  BY HandleAssumed DEF Handling!Unused, Handling!InUse, Holds
<1>2. \A x \in idle : x \in Conns /\ (\A c \in Handlers : ~Holds(c, x)) /\ (alive[x] => ~tx[x])
  BY DEF HeldOnce, Rested
<1>3. \A x \in Conns : (\A c \in Handlers : ~Holds(c, x)) => pending[x] = {}
  BY DEF Unfinished
<1>4. \A x \in Conns :
        /\ Handling!Opened(x).alive \in [Conns -> BOOLEAN] /\ Handling!Opened(x).tx \in [Conns -> BOOLEAN]
        /\ ~Handling!Opened(x).tx[x]
        /\ \A y \in Conns : y # x => Handling!Opened(x).alive[y] = alive[y] /\ Handling!Opened(x).tx[y] = tx[y]
  BY DEF Handling!Opened
<1>5. Handling!Kept.alive = alive /\ Handling!Kept.tx = tx
  BY DEF Handling!Kept
<1>6. CASE deployment.pool /\ got \in Handling!PoolGet(n)
  <2>1. CASE \E x \in idle : got = [pool |-> TRUE, pdo |-> x, idle |-> idle \ {x}, count |-> n,
                                    line |-> Handling!Kept]
    BY <1>6, <2>1, <1>2, <1>3, <1>5
  <2>2. CASE \E x \in IF idle = {} THEN Handling!Unused ELSE {} :
               got = [pool |-> TRUE, pdo |-> x, idle |-> idle, count |-> n + 1, line |-> Handling!Opened(x)]
    BY <1>6, <2>2, <1>1, <1>3, <1>4
  <2> QED
    BY <1>6, <2>1, <2>2 DEF Handling!PoolGet
<1>7. CASE /\ got \in Handling!Direct(n)
           /\ deployment.pool => idle = {} /\ (m => deployment.failing)
  <2>1. ASSUME NEW x \in idle, ~deployment.pool,
               got = [pool |-> FALSE, pdo |-> x, idle |-> idle \ {x}, count |-> n,
                      line |-> IF alive[x] THEN Handling!Kept ELSE Handling!Opened(x)]
        PROVE  got.line.alive \in [Conns -> BOOLEAN] /\ got.line.tx \in [Conns -> BOOLEAN]
               /\ ~got.line.tx[x]
               /\ \A y \in Conns : y # x => got.line.alive[y] = alive[y] /\ got.line.tx[y] = tx[y]
    BY <2>1, <1>2, <1>4, <1>5
  <2>2. CASE \E x \in idle : ~deployment.pool
               /\ got = [pool |-> FALSE, pdo |-> x, idle |-> idle \ {x}, count |-> n,
                         line |-> IF alive[x] THEN Handling!Kept ELSE Handling!Opened(x)]
    BY <2>1, <2>2, <1>2, <1>3, <1>0
  <2>3. CASE \E x \in Handling!Unused : got = [pool |-> FALSE, pdo |-> x, idle |-> idle, count |-> n,
                                               line |-> Handling!Opened(x)]
    BY <1>7, <2>3, <1>1, <1>3, <1>4
  <2> QED
    BY <1>7, <2>2, <2>3, <1>0 DEF Handling!Direct
<1> QED
  BY <1>0, <1>6, <1>7 DEF Handling!Gets

LEMMA Counted ==
  ASSUME HandleTypes
  PROVE  /\ IsFiniteSet(idle) /\ IsFiniteSet(Borrowing)
         /\ Cardinality(idle) \in Nat /\ Cardinality(Borrowing) \in Nat
         /\ \A c \in Borrowing : Cardinality(Borrowing) > 0 /\ Cardinality(Borrowing \ {c}) = Cardinality(Borrowing) - 1
         /\ \A c \in Handlers \ Borrowing : Cardinality(Borrowing \cup {c}) = Cardinality(Borrowing) + 1
         /\ \A x \in idle : Cardinality(idle \ {x}) = Cardinality(idle) - 1
         /\ \A x \in Conns \ idle : Cardinality(idle \cup {x}) = Cardinality(idle) + 1
<1>1. IsFiniteSet(idle) /\ IsFiniteSet(Borrowing)
  BY HandleAssumed, FS_Subset DEF HandleTypes, Borrowing
<1>2. Cardinality(idle) \in Nat /\ Cardinality(Borrowing) \in Nat
  BY <1>1, FS_CardinalityType
<1>3. ASSUME NEW c \in Borrowing PROVE Cardinality(Borrowing) > 0 /\ Cardinality(Borrowing \ {c}) = Cardinality(Borrowing) - 1
  <2>1. Cardinality(Borrowing \ {c}) = Cardinality(Borrowing) - 1 /\ IsFiniteSet(Borrowing \ {c})
    BY <1>1, FS_RemoveElement
  <2>2. Cardinality(Borrowing \ {c}) \in Nat
    BY <2>1, FS_CardinalityType
  <2> QED
    BY <2>1, <2>2, <1>2
<1>4. ASSUME NEW c \in Handlers \ Borrowing PROVE Cardinality(Borrowing \cup {c}) = Cardinality(Borrowing) + 1
  BY <1>1, FS_AddElement
<1>5. ASSUME NEW x \in idle PROVE Cardinality(idle \ {x}) = Cardinality(idle) - 1
  BY <1>1, FS_RemoveElement
<1>6. ASSUME NEW x \in Conns \ idle PROVE Cardinality(idle \cup {x}) = Cardinality(idle) + 1
  BY <1>1, FS_AddElement
<1> QED
  BY <1>1, <1>2, <1>3, <1>4, <1>5, <1>6

(* A handle that had none, or one that was lost, gets a connection.        *)
LEMMA Replaced ==
  ASSUME HandleInv, NEW c \in Handlers, NEW n \in Nat, NEW m \in BOOLEAN, NEW got \in Handling!Gets(n, m),
         NEW p \in BOOLEAN,
         Handling!Take(got), handle' = [handle EXCEPT ![c] = [pool |-> p, pdo |-> got.pdo]],
         pending' = pending, deployment' = deployment,
         Handling!Open(c) => ~alive[handle[c].pdo],
         deployment.pool /\ ~deployment.failing =>
           IF c \in Borrowing THEN n = count - 1 /\ p /\ m ELSE n = count /\ p = got.pool
  PROVE  /\ handle' \in [Handlers -> Handling!Handle \cup {Absent}]
         /\ idle' \subseteq Conns /\ count' \in Nat
         /\ alive' \in [Conns -> BOOLEAN] /\ tx' \in [Conns -> BOOLEAN]
         /\ HeldOnce' /\ Rested' /\ Unfinished' /\ Slots'
<1> USE DEF HandleInv
<1>1. /\ got.pdo \in Conns /\ \A b \in Handlers : ~Holds(b, got.pdo)
      /\ idle' = idle \ {got.pdo}
      /\ alive' \in [Conns -> BOOLEAN] /\ tx' \in [Conns -> BOOLEAN]
      /\ \A y \in Conns : y # got.pdo => alive'[y] = alive[y] /\ tx'[y] = tx[y]
      /\ alive'[got.pdo] => ~tx'[got.pdo]
      /\ pending[got.pdo] = {}
      /\ count' = got.count
  BY Got DEF Handling!Take
<1>2. [pool |-> p, pdo |-> got.pdo] \in Handling!Handle
  BY <1>1 DEF Handling!Handle
<1>3. handle'[c] = [pool |-> p, pdo |-> got.pdo] /\ \A b \in Handlers : b # c => handle'[b] = handle[b]
  BY DEF HandleTypes
<1>4. handle' \in [Handlers -> Handling!Handle \cup {Absent}]
  BY <1>2 DEF HandleTypes
<1>5. handle'[c] # Absent /\ handle'[c].pdo = got.pdo /\ handle'[c].pool = p
  BY <1>2, <1>3, HandleAssumed
<1>6. (\A x \in Conns : Holds(c, x)' <=> x = got.pdo)
      /\ \A b \in Handlers, x \in Conns : b # c => (Holds(b, x)' <=> Holds(b, x))
  BY <1>3, <1>5 DEF Holds
<1>7. HeldOnce'
  <2>1. ASSUME NEW a \in Handlers, NEW b \in Handlers, NEW x \in Conns, Holds(a, x)', Holds(b, x)' PROVE a = b
    BY <1>1, <1>6, <2>1 DEF HeldOnce
  <2>2. ASSUME NEW b \in Handlers, NEW x \in idle' PROVE ~Holds(b, x)'
    BY <1>1, <1>6, <2>2 DEF HeldOnce, HandleTypes
  <2> QED
    BY <2>1, <2>2 DEF HeldOnce
<1>8. Rested'
  BY <1>1 DEF Rested, HandleTypes
<1>9. Unfinished'
  <2> SUFFICES ASSUME NEW x \in Conns, pending[x] # {} PROVE alive'[x] /\ tx'[x] /\ \E b \in Handlers : Holds(b, x)'
    BY DEF Unfinished
  <2>1. x # got.pdo /\ alive[x] /\ tx[x]
    BY <1>1 DEF Unfinished
  <2>2. PICK b \in Handlers : Holds(b, x)
    BY DEF Unfinished
  <2>3. b # c
    BY <2>1, <2>2, HandleAssumed DEF Holds, Handling!Open
  <2> QED
    BY <1>1, <1>6, <2>1, <2>2, <2>3
<1>10. count' \in Nat
  BY <1>1, Got
<1>11. Slots'
  <2> SUFFICES ASSUME deployment.pool, ~deployment.failing
               PROVE  count' = Cardinality(idle') + Cardinality(Borrowing')
    BY DEF Slots
  <2>1. Borrowing' = IF p THEN Borrowing \cup {c} ELSE Borrowing \ {c}
    <3>1. Handling!Open(c)' <=> TRUE
      BY <1>1, <1>5, HandleAssumed DEF Handling!Open
    <3>2. \A b \in Handlers : b # c => (Handling!Open(b)' <=> Handling!Open(b)) /\ handle'[b] = handle[b]
      BY <1>3 DEF Handling!Open
    <3> QED
      BY <3>1, <3>2, <1>5 DEF Borrowing
  <2>2. count = Cardinality(idle) + Cardinality(Borrowing) /\ count \in Nat
    BY DEF Slots, HandleTypes
  <2>3. /\ got.pool \in BOOLEAN
        /\ got.pool => got.count = IF got.pdo \in idle THEN n ELSE n + 1
        /\ ~got.pool => got.count = n /\ got.pdo \notin idle /\ ~m
    BY Got
  <2>5. CASE c \in Borrowing
    <3>1. Borrowing' = Borrowing /\ got.pool /\ n = count - 1
      BY <2>1, <2>2, <2>3, <2>5
    <3>2. CASE got.pdo \in idle
      BY <1>1, <2>2, <2>3, <2>5, <3>1, <3>2, Counted
    <3>3. CASE got.pdo \notin idle
      <4>1. idle' = idle /\ Cardinality(idle') = Cardinality(idle) /\ Cardinality(Borrowing') = Cardinality(Borrowing)
        BY <1>1, <3>1, <3>3
      <4>2. got.count = n + 1
        BY <2>3, <3>1, <3>3
      <4> QED
        BY <1>1, <2>2, <3>1, <4>1, <4>2
    <3> QED
      BY <3>2, <3>3
  <2>6. CASE c \notin Borrowing /\ got.pool
    <3>1. Borrowing' = Borrowing \cup {c} /\ Cardinality(Borrowing') = Cardinality(Borrowing) + 1 /\ n = count
      BY <2>1, <2>6, Counted
    <3>2. CASE got.pdo \in idle
      BY <1>1, <2>2, <2>3, <2>6, <3>1, <3>2, Counted
    <3>3. CASE got.pdo \notin idle
      <4>1. idle' = idle /\ Cardinality(idle') = Cardinality(idle)
        BY <1>1, <3>3
      <4>2. got.count = n + 1
        BY <2>3, <2>6, <3>3
      <4> QED
        BY <1>1, <2>2, <3>1, <4>1, <4>2, Counted
    <3> QED
      BY <3>2, <3>3
  <2>7. CASE c \notin Borrowing /\ ~got.pool
    <3>1. Borrowing' = Borrowing /\ idle' = idle
      BY <1>1, <2>1, <2>3, <2>7
    <3> QED
      BY <1>1, <2>2, <2>3, <2>7, <3>1
  <2> QED
    BY <2>3, <2>5, <2>6, <2>7
<1>12. idle' \subseteq Conns
  BY <1>1 DEF HandleTypes
<1> QED
  BY <1>1, <1>4, <1>7, <1>8, <1>9, <1>10, <1>11, <1>12

LEMMA BeginKeeps ==
  ASSUME HandleInv, NEW c \in Handlers, Handling!Begin(c)
  PROVE  HandleInv'
<1> USE DEF HandleInv, Handling!Begin
<1>1. PICK got \in Handling!Gets(count, FALSE) :
        /\ Handling!Take(got)
        /\ handle' = [handle EXCEPT ![c] = [pool |-> got.pool, pdo |-> got.pdo]]
  OBVIOUS
<1>2. c \notin Borrowing /\ count \in Nat /\ ~Handling!Open(c)
  BY DEF Borrowing, Handling!Open, HandleTypes
<1>10. HandleInv /\ FALSE \in BOOLEAN /\ pending' = pending /\ deployment' = deployment
  OBVIOUS
<1>11. /\ got.pool \in BOOLEAN /\ got.pdo \in Conns /\ \A b \in Handlers : ~Holds(b, got.pdo)
       /\ \A y \in Conns : y # got.pdo => got.line.alive[y] = alive[y] /\ got.line.tx[y] = tx[y]
  <2> HIDE DEF HandleInv, Handling!Begin
  <2> DEFINE m == FALSE
  <2>1. m \in BOOLEAN /\ got \in Handling!Gets(count, m) /\ count \in Nat
    BY <1>1, <1>2
  <2> HIDE DEF m
  <2> QED
    BY <1>10, <2>1, Got
<1>3. /\ handle' \in [Handlers -> Handling!Handle \cup {Absent}]
      /\ idle' \subseteq Conns /\ count' \in Nat
      /\ alive' \in [Conns -> BOOLEAN] /\ tx' \in [Conns -> BOOLEAN]
      /\ HeldOnce' /\ Rested' /\ Unfinished' /\ Slots'
  <2> HIDE DEF HandleInv, Handling!Begin
  <2> QED
    BY <1>1, <1>2, <1>10, <1>11, Replaced
<1>4. HandleTypes'
  BY <1>3 DEF HandleTypes
<1>5. Apart'
  BY DEF Apart
<1>6. frame[c] = Absent /\ (\A b \in Handlers : b # c => handle'[b] = handle[b])
      /\ handle'[c] = [pool |-> got.pool, pdo |-> got.pdo]
  BY <1>1, <1>2 DEF Framed, HandleTypes
<1>7. got.pdo \in Conns /\ (\A b \in Handlers : ~Holds(b, got.pdo))
      /\ \A y \in Conns : y # got.pdo => alive'[y] = alive[y] /\ tx'[y] = tx[y]
  BY <1>1, <1>11 DEF Handling!Take
<1>8. Framed'
  BY <1>6 DEF Framed, Handling!Open
<1>9. ASSUME Whole PROVE Whole'
  <2>1. ASSUME NEW b \in Handlers, NEW x \in Conns, Owning(b)', Holds(b, x)'
        PROVE  alive'[x] /\ tx'[x] /\ frame'[b].writes = pending'[x]
    BY <1>6, <1>7, <1>9, <2>1 DEF Whole, Owning, Holds
  <2> QED
    BY <1>9, <2>1 DEF Whole, Settled
<1> QED
  BY <1>3, <1>4, <1>5, <1>8, <1>9

(* A write in a transaction, or outside.                                   *)
LEMMA WrittenKeeps ==
  ASSUME HandleTypes, Apart, NEW x \in Conns, NEW b \in BOOLEAN, NEW w \in Writes, w \notin issued,
         Handling!Written(x, b, w), issued' = issued \cup {w}
  PROVE  /\ pending' \in [Conns -> SUBSET Writes] /\ issued' \subseteq Writes /\ stored' \subseteq issued'
         /\ Apart'
         /\ stored \subseteq stored' /\ stored' \subseteq stored \cup {w}
         /\ \A y \in Conns : pending'[y] = IF b /\ y = x THEN pending[y] \cup {w} ELSE pending[y]
<1> USE DEF HandleTypes
<1>1. /\ pending' \in [Conns -> SUBSET Writes]
      /\ \A y \in Conns : pending'[y] = IF b /\ y = x THEN pending[y] \cup {w} ELSE pending[y]
      /\ stored' = IF b THEN stored ELSE stored \cup {w}
  <2>1. CASE b
    <3>1. pending' = [pending EXCEPT ![x] = pending[x] \cup {w}] /\ stored' = stored
      BY <2>1 DEF Handling!Written
    <3>2. pending[x] \cup {w} \in SUBSET Writes
      OBVIOUS
    <3> QED
      BY <2>1, <3>1, <3>2
  <2>2. CASE ~b
    BY <2>2 DEF Handling!Written
  <2> QED
    BY <2>1, <2>2
<1>2. \A y \in Conns : w \notin pending[y]
  BY DEF Apart
<1>3. Apart'
  <2>1. ASSUME NEW y \in Conns PROVE pending'[y] \subseteq issued' /\ pending'[y] \cap stored' = {}
    BY <1>1, <1>2 DEF Apart
  <2>2. ASSUME NEW y \in Conns, NEW z \in Conns, y # z PROVE pending'[y] \cap pending'[z] = {}
    BY <1>1, <1>2, <2>2 DEF Apart
  <2> QED
    BY <2>1, <2>2 DEF Apart
<1> QED
  BY <1>1, <1>3

LEMMA ExecuteKeeps ==
  ASSUME HandleInv, NEW c \in Handlers, NEW w \in Writes, Handling!Execute(c, w)
  PROVE  HandleInv'
<1> USE DEF HandleInv, Handling!Execute
<1> DEFINE x == handle[c].pdo
           left == IF handle[c].pool /\ count > 0 THEN count - 1 ELSE count
<1>1. x \in Conns /\ Holds(c, x) /\ Handling!Open(c) /\ handle[c].pool \in BOOLEAN /\ handle[c] # Absent
  BY HandleShape DEF Handling!Open
<1>2. /\ frame' \in [Handlers -> Handling!Frame \cup {Absent}]
      /\ \A b \in Handlers : b # c => frame'[b] = frame[b]
      /\ frame'[c] = Absent <=> frame[c] = Absent
      /\ frame[c] # Absent => frame'[c].own = frame[c].own /\ frame'[c].writes = frame[c].writes \cup {w}
  <2>1. frame' = [frame EXCEPT ![c] = Handling!Noted(frame[c], w)]
    OBVIOUS
  <2>2. /\ frame[c] = Absent => Handling!Noted(frame[c], w) = Absent
        /\ frame[c] # Absent => /\ Handling!Noted(frame[c], w) \in Handling!Frame
                                /\ Handling!Noted(frame[c], w).own = frame[c].own
                                /\ Handling!Noted(frame[c], w).writes = frame[c].writes \cup {w}
    BY HandleShape DEF Handling!Frame, Handling!Noted
  <2> QED
    BY <2>1, <2>2, HandleAssumed DEF HandleTypes
<1>3. ended' \subseteq SUBSET issued' /\ \A W \in ended : w \notin W
  BY DEF HandleTypes
<1>4. CASE /\ alive[x]
           /\ Handling!Written(x, tx[x], w)
           /\ UNCHANGED <<handle, idle, count, alive, tx>>
  <2>1. tx[x] \in BOOLEAN
    BY <1>1 DEF HandleTypes
  <2>2. /\ pending' \in [Conns -> SUBSET Writes] /\ issued' \subseteq Writes /\ stored' \subseteq issued'
        /\ Apart'
        /\ stored \subseteq stored' /\ stored' \subseteq stored \cup {w}
        /\ \A y \in Conns : pending'[y] = IF tx[x] /\ y = x THEN pending[y] \cup {w} ELSE pending[y]
    <3>1. HandleTypes /\ Apart /\ x \in Conns /\ w \notin issued /\ issued' = issued \cup {w}
      BY <1>1
    <3> HIDE DEF x, HandleInv, Handling!Execute
    <3> QED
      BY <1>4, <2>1, <3>1, WrittenKeeps
  <2>3. HandleTypes'
    BY <1>2, <1>3, <1>4, <2>2 DEF HandleTypes
  <2>4. HeldOnce' /\ Rested' /\ Framed'
    BY <1>2, <1>4 DEF HeldOnce, Rested, Framed, Holds, Handling!Open
  <2>5. Slots'
    BY <1>4 DEF Slots, Borrowing, Handling!Open
  <2>6. Unfinished'
    <3> SUFFICES ASSUME NEW y \in Conns, pending'[y] # {}
                 PROVE  alive'[y] /\ tx'[y] /\ \E b \in Handlers : Holds(b, y)'
      BY DEF Unfinished
    <3>1. pending[y] # {} \/ (y = x /\ tx[x])
      BY <2>2
    <3> QED
      BY <1>1, <1>4, <3>1 DEF Unfinished, Holds
  <2>7. ASSUME Whole PROVE Whole'
    <3>1. ASSUME NEW b \in Handlers, NEW y \in Conns, Owning(b)', Holds(b, y)'
          PROVE  alive'[y] /\ tx'[y] /\ frame'[b].writes = pending'[y]
      <4>1. Owning(b) /\ Holds(b, y)
        BY <1>2, <1>4, <3>1 DEF Owning, Holds
      <4>2. alive[y] /\ tx[y] /\ frame[b].writes = pending[y]
        BY <2>7, <4>1 DEF Whole
      <4>3. y = x <=> b = c
        BY <1>1, <4>1 DEF HeldOnce, Holds
      <4>4. frame'[b].writes = IF b = c THEN frame[b].writes \cup {w} ELSE frame[b].writes
        BY <1>2, <4>1 DEF Owning
      <4>5. pending'[y] = IF y = x THEN pending[y] \cup {w} ELSE pending[y]
        BY <2>2, <4>2
      <4> QED
        BY <1>4, <4>2, <4>3, <4>4, <4>5
    <3>2. ASSUME NEW W \in ended PROVE Settled(W)'
      BY <1>3, <2>2, <2>7 DEF Whole, Settled
    <3> QED
      BY <3>1, <3>2 DEF Whole
  <2> QED
    BY <2>2, <2>3, <2>4, <2>5, <2>6, <2>7
<1>5. CASE /\ ~alive[x]
           /\ \E got \in Handling!Gets(left, handle[c].pool) :
                /\ Handling!Take(got)
                /\ handle' = [handle EXCEPT ![c] = [pool |-> @.pool \/ got.pool, pdo |-> got.pdo]]
                /\ IF got.line.alive[got.pdo] THEN Handling!Written(got.pdo, got.line.tx[got.pdo], w)
                                              ELSE UNCHANGED <<pending, stored>>
  <2>1. PICK got \in Handling!Gets(left, handle[c].pool) :
          /\ Handling!Take(got)
          /\ handle' = [handle EXCEPT ![c] = [pool |-> handle[c].pool \/ got.pool, pdo |-> got.pdo]]
          /\ IF got.line.alive[got.pdo] THEN Handling!Written(got.pdo, got.line.tx[got.pdo], w)
                                        ELSE UNCHANGED <<pending, stored>>
    BY <1>5
  <2>2. left \in Nat
    BY DEF HandleTypes
  <2>3. /\ got.pdo \in Conns /\ \A b \in Handlers : ~Holds(b, got.pdo)
        /\ \A y \in Conns : y # got.pdo => alive'[y] = alive[y] /\ tx'[y] = tx[y]
        /\ got.line.alive[got.pdo] => ~got.line.tx[got.pdo]
        /\ got.line.tx[got.pdo] \in BOOLEAN
        /\ got.pool \in BOOLEAN
    <3> HIDE DEF left
    <3> QED
      BY <1>1, <2>1, <2>2, Got DEF Handling!Take
  <2>4. /\ pending' = pending /\ issued' \subseteq Writes /\ stored' \subseteq issued' /\ Apart'
        /\ stored \subseteq stored' /\ stored' \subseteq stored \cup {w}
    <3>1. CASE got.line.alive[got.pdo]
      <4>1. /\ pending' \in [Conns -> SUBSET Writes] /\ issued' \subseteq Writes /\ stored' \subseteq issued'
            /\ Apart'
            /\ stored \subseteq stored' /\ stored' \subseteq stored \cup {w}
            /\ \A y \in Conns : pending'[y] = pending[y]
        <5>1. Handling!Written(got.pdo, FALSE, w)
          BY <2>1, <2>3, <3>1 DEF Handling!Written
        <5>2. HandleTypes /\ Apart /\ w \notin issued /\ issued' = issued \cup {w}
          OBVIOUS
        <5>3. FALSE \in BOOLEAN /\ got.pdo \in Conns
          BY <2>3
        <5> HIDE DEF HandleInv, Handling!Execute
        <5> QED
          BY <5>1, <5>2, <5>3, WrittenKeeps
      <4> QED
        BY <4>1 DEF HandleTypes
    <3>2. CASE ~got.line.alive[got.pdo]
      BY <2>1, <3>2 DEF HandleTypes, Apart
    <3> QED
      BY <3>1, <3>2
  <2>5. deployment.pool /\ ~deployment.failing =>
          IF c \in Borrowing THEN left = count - 1 /\ (handle[c].pool \/ got.pool) /\ handle[c].pool
          ELSE left = count /\ (handle[c].pool \/ got.pool) = got.pool
    <3> SUFFICES ASSUME deployment.pool, ~deployment.failing
                 PROVE  IF c \in Borrowing
                          THEN left = count - 1 /\ (handle[c].pool \/ got.pool) /\ handle[c].pool
                          ELSE left = count /\ (handle[c].pool \/ got.pool) = got.pool
      OBVIOUS
    <3>1. c \in Borrowing <=> handle[c].pool
      BY <1>1 DEF Borrowing
    <3>2. c \in Borrowing => count > 0
      <4>1. count = Cardinality(idle) + Cardinality(Borrowing)
        BY DEF Slots
      <4>2. Cardinality(idle) \in Nat /\ Cardinality(Borrowing) \in Nat /\ (c \in Borrowing => Cardinality(Borrowing) > 0)
        BY Counted
      <4> QED
        BY <4>1, <4>2
    <3> QED
      BY <1>1, <2>3, <3>1, <3>2
  <2>6. handle[c].pool \/ got.pool \in BOOLEAN
    BY <1>1, <2>3
  <2>7. /\ handle' \in [Handlers -> Handling!Handle \cup {Absent}]
        /\ idle' \subseteq Conns /\ count' \in Nat
        /\ alive' \in [Conns -> BOOLEAN] /\ tx' \in [Conns -> BOOLEAN]
        /\ HeldOnce' /\ Rested' /\ Unfinished' /\ Slots'
    <3> HIDE DEF left
    <3> QED
      BY <1>1, <1>5, <2>1, <2>2, <2>4, <2>5, <2>6, Replaced
  <2>8. HandleTypes'
    BY <1>2, <1>3, <2>4, <2>7 DEF HandleTypes
  <2>9. handle'[c] = [pool |-> handle[c].pool \/ got.pool, pdo |-> got.pdo]
        /\ \A b \in Handlers : b # c => handle'[b] = handle[b]
    BY <2>1 DEF HandleTypes
  <2>10. Framed'
    <3>1. Handling!Open(c)'
      <4>1. handle'[c] \in Handling!Handle
        BY <2>3, <2>6, <2>9 DEF Handling!Handle
      <4>2. handle'[c] # Absent /\ handle'[c].pdo = got.pdo /\ got.pdo # Absent
        BY <2>3, <2>9, <4>1, HandleAssumed
      <4> QED
        BY <4>2 DEF Handling!Open
    <3> QED
      BY <1>2, <2>9, <3>1 DEF Framed, Handling!Open
  <2>11. ASSUME Whole PROVE Whole'
    <3>1. ~Owning(c)
      BY <1>1, <1>5, <2>11 DEF Whole
    <3>2. ASSUME NEW b \in Handlers, NEW y \in Conns, Owning(b)', Holds(b, y)'
          PROVE  alive'[y] /\ tx'[y] /\ frame'[b].writes = pending'[y]
      <4>1. b # c /\ Owning(b) /\ Holds(b, y)
        BY <1>2, <2>9, <3>1, <3>2 DEF Owning, Holds
      <4> QED
        BY <1>2, <2>3, <2>4, <2>11, <4>1 DEF Whole
    <3>3. ASSUME NEW W \in ended PROVE Settled(W)'
      BY <1>3, <2>4, <2>11 DEF Whole, Settled
    <3> QED
      BY <2>4, <3>2, <3>3 DEF Whole
  <2> QED
    BY <2>4, <2>7, <2>8, <2>10, <2>11
<1>6. CASE /\ ~alive[x] /\ UNCHANGED <<handle, idle, alive, tx, pending, stored>>
           /\ count' = count \/ (deployment.failing /\ count' = left)
  <2>1. count' \in Nat
    BY <1>6 DEF HandleTypes
  <2>2. HandleTypes'
    BY <1>2, <1>3, <1>6, <2>1 DEF HandleTypes
  <2>3. HeldOnce' /\ Rested' /\ Unfinished' /\ Framed' /\ Apart'
    BY <1>2, <1>6 DEF HeldOnce, Rested, Unfinished, Framed, Apart, Holds, Handling!Open
  <2>4. Slots'
    BY <1>6 DEF Slots, Borrowing, Handling!Open
  <2>5. ASSUME Whole PROVE Whole'
    <3>1. ~Owning(c)
      BY <1>1, <1>6, <2>5 DEF Whole
    <3>2. ASSUME NEW b \in Handlers, NEW y \in Conns, Owning(b)', Holds(b, y)'
          PROVE  alive'[y] /\ tx'[y] /\ frame'[b].writes = pending'[y]
      <4>1. b # c /\ Owning(b) /\ Holds(b, y)
        BY <1>2, <1>6, <3>1, <3>2 DEF Owning, Holds
      <4> QED
        BY <1>2, <1>6, <2>5, <4>1 DEF Whole
    <3>3. ASSUME NEW W \in ended PROVE Settled(W)'
      BY <1>6, <2>5 DEF Whole, Settled
    <3> QED
      BY <3>2, <3>3 DEF Whole
  <2> QED
    BY <2>2, <2>3, <2>4, <2>5
<1> QED
  BY <1>4, <1>5, <1>6

(* What a step may do to one connection, without moving it.                *)
LEMMA LineKeeps ==
  ASSUME HandleInv, NEW x \in Conns, UNCHANGED <<deployment, handle, idle, count, issued>>,
         alive' \in [Conns -> BOOLEAN], tx' \in [Conns -> BOOLEAN], pending' \in [Conns -> SUBSET Writes],
         \A y \in Conns : y # x => alive'[y] = alive[y] /\ tx'[y] = tx[y] /\ pending'[y] = pending[y],
         pending'[x] = {} \/ (pending'[x] = pending[x] /\ alive'[x] /\ tx'[x]),
         stored' = stored \/ (stored' = stored \cup pending[x] /\ pending'[x] = {}),
         x \in idle /\ alive'[x] => ~tx'[x]
  PROVE  /\ HeldOnce' /\ Rested' /\ Unfinished' /\ Slots' /\ Apart'
         /\ stored' \subseteq issued'
         /\ \A W : Settled(W) => Settled(W)'
         /\ \A W : W = pending[x] /\ pending'[x] = {} => Settled(W)'
<1> USE DEF HandleInv
<1>1. HeldOnce' /\ Slots'
  BY DEF HeldOnce, Slots, Holds, Borrowing, Handling!Open
<1>2. Rested'
  BY DEF Rested, HandleTypes
<1>3. Unfinished'
  BY DEF Unfinished, Holds
<1>4. \A y \in Conns : pending'[y] \subseteq pending[y]
  OBVIOUS
<1>5. Apart'
  <2>1. ASSUME NEW y \in Conns PROVE pending'[y] \subseteq issued' /\ pending'[y] \cap stored' = {}
    BY <1>4 DEF Apart
  <2>2. ASSUME NEW y \in Conns, NEW z \in Conns, y # z PROVE pending'[y] \cap pending'[z] = {}
    BY <1>4, <2>2 DEF Apart
  <2> QED
    BY <2>1, <2>2 DEF Apart
<1>6. stored' \subseteq issued'
  BY DEF HandleTypes, Apart
<1>7. ASSUME NEW W, Settled(W) PROVE Settled(W)'
  BY <1>4, <1>7 DEF Settled
<1>8. ASSUME NEW W, W = pending[x], pending'[x] = {} PROVE Settled(W)'
  <2>1. CASE stored' = stored
    BY <1>4, <1>8, <2>1 DEF Settled, Apart
  <2>2. CASE stored' = stored \cup pending[x]
    BY <1>8, <2>2 DEF Settled
  <2> QED
    BY <2>1, <2>2
<1> QED
  BY <1>1, <1>2, <1>3, <1>5, <1>6, <1>7, <1>8

(* COMMIT and ROLLBACK on the connection of a handle.                      *)
LEMMA CommitLine ==
  ASSUME HandleInv, NEW x \in Conns, Handling!CommitOf(x)
  PROVE  /\ alive' \in [Conns -> BOOLEAN] /\ tx' \in [Conns -> BOOLEAN] /\ pending' \in [Conns -> SUBSET Writes]
         /\ \A y \in Conns : y # x => alive'[y] = alive[y] /\ tx'[y] = tx[y] /\ pending'[y] = pending[y]
         /\ pending'[x] = {}
         /\ stored' = stored \/ stored' = stored \cup pending[x]
<1> USE DEF HandleInv, HandleTypes
<1>1. CASE alive[x] /\ tx[x] /\ Handling!Committed(x)
  <2>1. /\ pending' = [pending EXCEPT ![x] = {}] /\ stored' = stored \cup pending[x]
        /\ \/ tx' = [tx EXCEPT ![x] = FALSE] /\ alive' = alive
           \/ alive' = [alive EXCEPT ![x] = FALSE] /\ tx' = tx
    BY <1>1 DEF Handling!Committed
  <2> QED
    BY <2>1
<1>2. CASE ~(alive[x] /\ tx[x]) /\ UNCHANGED <<stored, pending, tx, alive>>
  BY <1>2 DEF Unfinished
<1> QED
  BY <1>1, <1>2 DEF Handling!CommitOf

LEMMA RollBackLine ==
  ASSUME HandleInv, NEW x \in Conns, Handling!RolledBack(x)
  PROVE  /\ tx' \in [Conns -> BOOLEAN] /\ pending' \in [Conns -> SUBSET Writes]
         /\ \A y \in Conns : y # x => tx'[y] = tx[y] /\ pending'[y] = pending[y]
         /\ pending'[x] = {} /\ (alive[x] => ~tx'[x])
BY DEF HandleInv, HandleTypes, Unfinished, Handling!RolledBack

(* The steps of a request that manages its transaction itself.             *)
LEMMA ManagedKeeps ==
  ASSUME HandleInv, NEW c \in Handlers,
         Handling!BeginTransaction(c) \/ Handling!Commit(c) \/ Handling!RollBack(c)
  PROVE  HandleInv'
<1> DEFINE x == handle[c].pdo
<1>1. /\ Handling!Open(c) /\ frame[c] = Absent
      /\ UNCHANGED <<deployment, handle, idle, count, frame, ended, issued>>
  BY DEF Handling!BeginTransaction, Handling!Commit, Handling!RollBack
<1>2. HandleTypes /\ x \in Conns /\ Holds(c, x)
  BY <1>1, HandleShape DEF HandleInv
<1>3. x \notin idle
  BY <1>2 DEF HandleInv, HeldOnce
<1>4. /\ alive' \in [Conns -> BOOLEAN] /\ tx' \in [Conns -> BOOLEAN] /\ pending' \in [Conns -> SUBSET Writes]
      /\ \A y \in Conns : y # x => alive'[y] = alive[y] /\ tx'[y] = tx[y] /\ pending'[y] = pending[y]
      /\ pending'[x] = {} \/ (pending'[x] = pending[x] /\ alive'[x] /\ tx'[x])
      /\ stored' = stored \/ (stored' = stored \cup pending[x] /\ pending'[x] = {})
  <2>1. CASE Handling!BeginTransaction(c)
    <3>1. tx' = [tx EXCEPT ![x] = TRUE] /\ alive[x] /\ UNCHANGED <<alive, pending, stored>>
      BY <2>1 DEF Handling!BeginTransaction
    <3> QED
      BY <1>2, <3>1 DEF HandleTypes
  <2>2. CASE Handling!Commit(c)
    <3>1. Handling!CommitOf(x)
      BY <2>2 DEF Handling!Commit
    <3> HIDE DEF x
    <3> QED
      BY <1>2, <3>1, CommitLine
  <2>3. CASE Handling!RollBack(c)
    <3>1. Handling!RolledBack(x) /\ UNCHANGED <<alive, stored>>
      BY <2>3 DEF Handling!RollBack
    <3> HIDE DEF x
    <3>2. alive \in [Conns -> BOOLEAN]
      BY <1>2 DEF HandleTypes
    <3> QED
      BY <1>2, <3>1, <3>2, RollBackLine
  <2> QED
    BY <2>1, <2>2, <2>3
<1> HIDE DEF x
<1>5. /\ HeldOnce' /\ Rested' /\ Unfinished' /\ Slots' /\ Apart' /\ stored' \subseteq issued'
      /\ \A W : Settled(W) => Settled(W)'
  BY <1>1, <1>2, <1>3, <1>4, LineKeeps
<1>6. HandleTypes' /\ Framed'
  BY <1>1, <1>2, <1>4, <1>5 DEF HandleInv, HandleTypes, Framed, Handling!Open
<1>7. ASSUME Whole PROVE Whole'
  <2>1. ASSUME NEW b \in Handlers, NEW y \in Conns, Owning(b)', Holds(b, y)'
        PROVE  alive'[y] /\ tx'[y] /\ frame'[b].writes = pending'[y]
    <3>1. Owning(b) /\ Holds(b, y) /\ b # c
      BY <1>1, <2>1 DEF Owning, Holds
    <3>2. y # x
      BY <1>2, <3>1 DEF HandleInv, HeldOnce
    <3> QED
      BY <1>1, <1>4, <1>7, <3>1, <3>2 DEF Whole
  <2> QED
    BY <1>1, <1>5, <1>7, <2>1 DEF Whole
<1> QED
  BY <1>1, <1>5, <1>6, <1>7 DEF HandleInv

LEMMA RunTransactionKeeps ==
  ASSUME HandleInv, NEW c \in Handlers, Handling!RunTransaction(c)
  PROVE  HandleInv'
<1> DEFINE x == handle[c].pdo
<1>1. Handling!Open(c) /\ UNCHANGED <<deployment, handle, idle, count, alive, pending, stored, ended, issued>>
  BY DEF Handling!RunTransaction
<1>2. HandleTypes /\ x \in Conns /\ Holds(c, x)
  BY <1>1, HandleShape DEF HandleInv
<1>3. x \notin idle
  BY <1>2 DEF HandleInv, HeldOnce
<1>4. /\ tx' \in [Conns -> BOOLEAN] /\ tx'[x] /\ \A y \in Conns : y # x => tx'[y] = tx[y]
      /\ frame' \in [Handlers -> Handling!Frame \cup {Absent}]
      /\ \A b \in Handlers : b # c => frame'[b] = frame[b]
      /\ \/ Owning(c)' => ~tx[x] /\ alive[x] /\ frame'[c].writes = {}
         \/ tx[x] /\ (Owning(c)' => Owning(c) /\ frame'[c].writes = frame[c].writes)
      /\ frame'[c].writes \subseteq issued
  <2>1. CASE /\ frame[c] = Absent
             /\ ~tx[x] => alive[x]
             /\ frame' = [frame EXCEPT ![c] = [own |-> ~tx[x], depth |-> 1, writes |-> {}]]
             /\ tx' = [tx EXCEPT ![x] = TRUE]
    <3>1. [own |-> ~tx[x], depth |-> 1, writes |-> {}] \in Handling!Frame
      BY DEF Handling!Frame
    <3>2. frame'[c] = [own |-> ~tx[x], depth |-> 1, writes |-> {}]
      BY <1>2, <2>1 DEF HandleTypes
    <3>3. frame'[c].own = ~tx[x] /\ frame'[c].writes = {}
      BY <3>2
    <3>4. frame' \in [Handlers -> Handling!Frame \cup {Absent}] /\ \A b \in Handlers : b # c => frame'[b] = frame[b]
      BY <1>2, <2>1, <3>1 DEF HandleTypes
    <3> QED
      BY <1>2, <2>1, <3>3, <3>4 DEF HandleTypes, Owning
  <2>2. CASE /\ frame[c] # Absent /\ frame[c].depth = 1 /\ tx[x]
             /\ frame' = [frame EXCEPT ![c].depth = 2]
             /\ UNCHANGED tx
    <3> DEFINE f == [frame[c] EXCEPT !.depth = 2]
    <3>1. f \in Handling!Frame /\ f.own = frame[c].own /\ f.writes = frame[c].writes
      BY <1>2, <2>2, HandleShape DEF Handling!Frame
    <3>2. frame' = [frame EXCEPT ![c] = f]
      BY <2>2
    <3> HIDE DEF f
    <3>3. frame'[c] = f /\ frame' \in [Handlers -> Handling!Frame \cup {Absent}]
          /\ \A b \in Handlers : b # c => frame'[b] = frame[b]
      BY <1>2, <3>1, <3>2 DEF HandleTypes
    <3>4. frame[c].writes \subseteq issued
      BY <2>2 DEF HandleInv, Framed
    <3> QED
      BY <1>2, <2>2, <3>1, <3>3, <3>4 DEF HandleTypes, Owning
  <2> QED
    BY <2>1, <2>2 DEF Handling!RunTransaction
<1> HIDE DEF x
<1>5. /\ HeldOnce' /\ Rested' /\ Unfinished' /\ Slots' /\ Apart' /\ stored' \subseteq issued'
      /\ \A W : Settled(W) => Settled(W)'
  <2>1. /\ alive' \in [Conns -> BOOLEAN] /\ tx' \in [Conns -> BOOLEAN] /\ pending' \in [Conns -> SUBSET Writes]
        /\ \A y \in Conns : y # x => alive'[y] = alive[y] /\ tx'[y] = tx[y] /\ pending'[y] = pending[y]
        /\ pending'[x] = {} \/ (pending'[x] = pending[x] /\ alive'[x] /\ tx'[x])
    BY <1>1, <1>2, <1>4 DEF HandleInv, HandleTypes, Unfinished
  <2> QED
    BY <1>1, <1>2, <1>3, <2>1, LineKeeps
<1>6. HandleTypes' /\ Framed'
  BY <1>1, <1>2, <1>4, <1>5 DEF HandleInv, HandleTypes, Framed, Handling!Open
<1>7. ASSUME Whole PROVE Whole'
  <2>1. ASSUME NEW b \in Handlers, NEW y \in Conns, Owning(b)', Holds(b, y)'
        PROVE  alive'[y] /\ tx'[y] /\ frame'[b].writes = pending'[y]
    <3>1. Holds(b, y)
      BY <1>1, <2>1 DEF Holds
    <3>2. CASE b # c
      <4>1. y # x /\ Owning(b) /\ frame'[b] = frame[b]
        BY <1>2, <1>4, <2>1, <3>1, <3>2 DEF HandleInv, HeldOnce, Owning
      <4> QED
        BY <1>1, <1>4, <1>7, <3>1, <4>1 DEF Whole
    <3>3. CASE b = c
      <4>1. y = x
        BY <1>2, <3>1, <3>3 DEF Holds
      <4> QED
        BY <1>1, <1>2, <1>4, <1>7, <2>1, <3>1, <3>3, <4>1 DEF Whole, HandleInv, Unfinished
    <3> QED
      BY <3>2, <3>3
  <2> QED
    BY <1>1, <1>5, <1>7, <2>1 DEF Whole
<1> QED
  BY <1>1, <1>5, <1>6, <1>7 DEF HandleInv

(* A frame that ends, and what is settled with it.                         *)
LEMMA EndsFrame ==
  ASSUME HandleTypes, NEW c \in Handlers, frame[c] # Absent, Handling!Ends(c)
  PROVE  /\ frame' \in [Handlers -> Handling!Frame \cup {Absent}]
         /\ \A b \in Handlers : b # c => frame'[b] = frame[b]
         /\ frame[c].depth = 1 => frame'[c] = Absent
         /\ frame[c].depth = 2 => (Owning(c)' <=> Owning(c)) /\ frame'[c].writes = frame[c].writes
         /\ ended' = IF Owning(c) /\ frame[c].depth = 1 THEN ended \cup {frame[c].writes} ELSE ended
<1>1. CASE frame[c].depth = 2
  <2> DEFINE f == [frame[c] EXCEPT !.depth = 1]
  <2>1. f \in Handling!Frame /\ f.own = frame[c].own /\ f.writes = frame[c].writes /\ f # Absent
    BY HandleShape, HandleAssumed DEF Handling!Frame
  <2>2. frame' = [frame EXCEPT ![c] = f]
    BY <1>1 DEF Handling!Ends
  <2>3. ended' = ended
    BY <1>1 DEF Handling!Ends
  <2> HIDE DEF f
  <2> QED
    BY <1>1, <2>1, <2>2, <2>3 DEF HandleTypes, Owning
<1>2. CASE frame[c].depth = 1
  <2>1. frame' = [frame EXCEPT ![c] = Absent]
    BY <1>2 DEF Handling!Ends
  <2> QED
    BY <1>2, <2>1 DEF HandleTypes, Handling!Ends, Owning
<1> QED
  BY <1>1, <1>2, HandleShape

LEMMA EndingKeeps ==
  ASSUME HandleInv, NEW c \in Handlers, Handling!Return(c) \/ Handling!Throw(c)
  PROVE  HandleInv'
<1> DEFINE x == handle[c].pdo
<1>1. /\ Handling!Open(c) /\ frame[c] # Absent /\ Handling!Ends(c)
      /\ UNCHANGED <<deployment, handle, idle, count, issued>>
  BY DEF Handling!Return, Handling!Throw
<1>2. HandleTypes /\ x \in Conns /\ Holds(c, x)
  BY <1>1, HandleShape DEF HandleInv
<1>3. x \notin idle
  BY <1>2 DEF HandleInv, HeldOnce
<1>4. /\ frame' \in [Handlers -> Handling!Frame \cup {Absent}]
      /\ \A b \in Handlers : b # c => frame'[b] = frame[b]
      /\ frame[c].depth = 1 => frame'[c] = Absent
      /\ frame[c].depth = 2 => (Owning(c)' <=> Owning(c)) /\ frame'[c].writes = frame[c].writes
      /\ ended' = IF Owning(c) /\ frame[c].depth = 1 THEN ended \cup {frame[c].writes} ELSE ended
  BY <1>1, <1>2, EndsFrame
<1>5. \/ UNCHANGED <<stored, pending, tx, alive>> /\ (Owning(c) /\ frame[c].depth = 1 => ~tx[x])
      \/ Handling!CommitOf(x) /\ frame[c].depth = 1
      \/ Handling!RolledBack(x) /\ UNCHANGED <<stored, alive>> /\ frame[c].depth = 1
  BY <1>1 DEF Handling!Return, Handling!Throw, Owning
<1> HIDE DEF x
<1>6. /\ alive' \in [Conns -> BOOLEAN] /\ tx' \in [Conns -> BOOLEAN] /\ pending' \in [Conns -> SUBSET Writes]
      /\ \A y \in Conns : y # x => alive'[y] = alive[y] /\ tx'[y] = tx[y] /\ pending'[y] = pending[y]
      /\ pending'[x] = {} \/ (pending'[x] = pending[x] /\ alive'[x] /\ tx'[x])
      /\ stored' = stored \/ (stored' = stored \cup pending[x] /\ pending'[x] = {})
      /\ frame[c].depth = 1 /\ pending'[x] # {} => ~Owning(c)
      /\ frame[c].depth # 1 => UNCHANGED <<stored, pending, tx, alive>>
  <2>1. CASE UNCHANGED <<stored, pending, tx, alive>> /\ (Owning(c) /\ frame[c].depth = 1 => ~tx[x])
    BY <1>2, <2>1 DEF HandleInv, HandleTypes, Unfinished
  <2>2. CASE Handling!CommitOf(x) /\ frame[c].depth = 1
    BY <1>2, <2>2, CommitLine
  <2>3. CASE Handling!RolledBack(x) /\ UNCHANGED <<stored, alive>> /\ frame[c].depth = 1
    <3>1. alive \in [Conns -> BOOLEAN]
      BY <1>2 DEF HandleTypes
    <3> QED
      BY <1>2, <2>3, <3>1, RollBackLine
  <2> QED
    BY <1>5, <2>1, <2>2, <2>3
<1>7. /\ HeldOnce' /\ Rested' /\ Unfinished' /\ Slots' /\ Apart' /\ stored' \subseteq issued'
      /\ \A W : Settled(W) => Settled(W)'
      /\ \A W : W = pending[x] /\ pending'[x] = {} => Settled(W)'
  BY <1>1, <1>2, <1>3, <1>6, LineKeeps
<1>8. ASSUME Whole PROVE Whole'
  <2>1. ASSUME NEW b \in Handlers, NEW y \in Conns, Owning(b)', Holds(b, y)'
        PROVE  alive'[y] /\ tx'[y] /\ frame'[b].writes = pending'[y]
    <3>1. Holds(b, y)
      BY <1>1, <2>1 DEF Holds
    <3>2. CASE b # c
      <4>1. y # x /\ Owning(b) /\ frame'[b] = frame[b]
        BY <1>2, <1>4, <2>1, <3>1, <3>2 DEF HandleInv, HeldOnce, Owning
      <4> QED
        BY <1>6, <1>8, <3>1, <4>1 DEF Whole
    <3>3. CASE b = c
      <4>1. frame[c].depth = 2
        BY <1>1, <1>2, <1>4, <2>1, <3>3, HandleShape DEF Owning
      <4>2. UNCHANGED <<stored, pending, tx, alive>> /\ Owning(c) /\ frame'[c].writes = frame[c].writes
        BY <1>4, <1>6, <2>1, <3>3, <4>1
      <4> QED
        BY <1>8, <3>1, <3>3, <4>2 DEF Whole
    <3> QED
      BY <3>2, <3>3
  <2>2. ASSUME Owning(c), frame[c].depth = 1 PROVE \A W : W = frame[c].writes => Settled(W)'
    BY <1>2, <1>6, <1>7, <1>8, <2>2 DEF Whole
  <2>3. ASSUME NEW W \in ended' PROVE Settled(W)'
    BY <1>4, <1>7, <1>8, <2>2, <2>3 DEF Whole
  <2> QED
    BY <2>1, <2>3 DEF Whole
<1>9. ended' \subseteq SUBSET issued'
  <2>1. frame[c].writes \subseteq issued
    BY <1>1 DEF HandleInv, Framed
  <2> QED
    BY <1>1, <1>2, <1>4, <2>1 DEF HandleTypes
<1>10. HandleTypes' /\ Framed'
  <2>1. frame'[c] # Absent => frame'[c].writes = frame[c].writes
    BY <1>1, <1>2, <1>4, HandleShape
  <2>2. Framed'
    BY <1>1, <1>4, <2>1 DEF HandleInv, Framed, Handling!Open
  <2> QED
    BY <1>1, <1>2, <1>4, <1>6, <1>7, <1>9, <2>2 DEF HandleTypes
<1> QED
  BY <1>1, <1>7, <1>8, <1>10 DEF HandleInv

LEMMA LoseKeeps ==
  ASSUME HandleInv, NEW x \in Conns, Handling!Lose(x)
  PROVE  HandleInv'
<1>1. /\ alive[x] /\ (tx[x] => deployment.inside)
      /\ alive' = [alive EXCEPT ![x] = FALSE] /\ pending' = [pending EXCEPT ![x] = {}]
      /\ UNCHANGED <<deployment, handle, idle, count, tx, stored, frame, ended, issued>>
  BY DEF Handling!Lose
<1>2. /\ alive' \in [Conns -> BOOLEAN] /\ tx' \in [Conns -> BOOLEAN] /\ pending' \in [Conns -> SUBSET Writes]
      /\ \A y \in Conns : y # x => alive'[y] = alive[y] /\ tx'[y] = tx[y] /\ pending'[y] = pending[y]
      /\ pending'[x] = {} /\ ~alive'[x]
  BY <1>1 DEF HandleInv, HandleTypes
<1>3. /\ HeldOnce' /\ Rested' /\ Unfinished' /\ Slots' /\ Apart' /\ stored' \subseteq issued'
      /\ \A W : Settled(W) => Settled(W)'
  BY <1>1, <1>2, LineKeeps
<1>4. HandleTypes' /\ Framed'
  BY <1>1, <1>2, <1>3 DEF HandleInv, HandleTypes, Framed, Handling!Open
<1>5. ASSUME Whole, ~deployment.inside PROVE Whole'
  <2>1. ASSUME NEW b \in Handlers, NEW y \in Conns, Owning(b)', Holds(b, y)'
        PROVE  alive'[y] /\ tx'[y] /\ frame'[b].writes = pending'[y]
    <3>1. Owning(b) /\ Holds(b, y)
      BY <1>1, <2>1 DEF Owning, Holds
    <3>2. alive[y] /\ tx[y] /\ frame[b].writes = pending[y]
      BY <1>5, <3>1 DEF Whole
    <3>3. y # x
      BY <1>1, <1>5, <3>2
    <3> QED
      BY <1>1, <1>2, <3>2, <3>3
  <2> QED
    BY <1>1, <1>3, <1>5, <2>1 DEF Whole
<1> QED
  BY <1>1, <1>3, <1>4, <1>5 DEF HandleInv

(* A handle that gives its connection back, when it has one.               *)
LEMMA HygieneLine ==
  ASSUME HandleInv, NEW x \in Conns, Handling!Hygiene(x)
  PROVE  /\ tx' \in [Conns -> BOOLEAN] /\ pending' \in [Conns -> SUBSET Writes]
         /\ \A y \in Conns : y # x => tx'[y] = tx[y] /\ pending'[y] = pending[y]
         /\ pending'[x] = {} /\ (alive[x] => ~tx'[x])
<1>1. x # Absent
  BY HandleAssumed
<1>2. CASE tx[x]
  BY <1>1, <1>2, RollBackLine DEF Handling!Hygiene
<1>3. CASE ~tx[x]
  BY <1>1, <1>3 DEF HandleInv, HandleTypes, Unfinished, Handling!Hygiene
<1> QED
  BY <1>2, <1>3

LEMMA GivenBack ==
  ASSUME HandleInv, NEW c \in Handlers, NEW h, handle[c] # Absent,
         Handling!Hygiene(handle[c].pdo), Handling!Goes(c), handle' = [handle EXCEPT ![c] = h],
         h = Absent \/ (h \in Handling!Handle /\ h.pdo = Absent),
         UNCHANGED <<deployment, alive, stored, issued>>
  PROVE  /\ handle' \in [Handlers -> Handling!Handle \cup {Absent}] /\ idle' \subseteq Conns /\ count' \in Nat
         /\ tx' \in [Conns -> BOOLEAN] /\ pending' \in [Conns -> SUBSET Writes]
         /\ HeldOnce' /\ Rested' /\ Unfinished' /\ Slots' /\ Apart'
         /\ \A W : Settled(W) => Settled(W)'
         /\ \A W, x : x \in Conns /\ Holds(c, x) /\ W = pending[x] => Settled(W)'
         /\ \A x \in Conns : ~Holds(c, x)'
         /\ \A b \in Handlers : b # c => handle'[b] = handle[b]
         /\ \A x \in Conns : ~Holds(c, x) => tx'[x] = tx[x] /\ pending'[x] = pending[x]
<1> DEFINE x == handle[c].pdo
<1>1. HandleTypes /\ x \in Conns \cup {Absent}
  BY HandleShape DEF HandleInv
<1>2. /\ handle' \in [Handlers -> Handling!Handle \cup {Absent}] /\ handle'[c] = h
      /\ \A b \in Handlers : b # c => handle'[b] = handle[b]
  BY <1>1 DEF HandleTypes
<1>3. ~Handling!Open(c)' /\ (\A y \in Conns : ~Holds(c, y)')
      /\ \A b \in Handlers : b # c => (Handling!Open(b)' <=> Handling!Open(b))
                                      /\ \A y \in Conns : Holds(b, y)' <=> Holds(b, y)
  BY <1>2, HandleAssumed DEF Handling!Open, Holds
<1>4. Borrowing' = Borrowing \ {c}
  BY <1>2, <1>3 DEF Borrowing
<1>5. \A y \in Conns : Holds(c, y) <=> y = x
  BY DEF Holds
<1>6. CASE x \in Conns
  <2>1. Handling!Hygiene(x)
    OBVIOUS
  <2> DEFINE excess == handle[c].pool /\ count > deployment.size
  <2>2. /\ idle' = IF (handle[c].pool \/ deployment.persistent) /\ ~excess THEN idle \cup {x} ELSE idle
        /\ count' = IF excess THEN count - 1 ELSE count
    BY <1>6, HandleAssumed DEF Handling!Goes
  <2>14. count' \in Nat
    BY <1>1, <2>2, Sized DEF HandleTypes
  <2>3. Holds(c, x) /\ x \notin idle
    BY <1>5, <1>6 DEF HandleInv, HeldOnce
  <2>4. c \in Borrowing <=> handle[c].pool
    BY <1>6, HandleAssumed DEF Borrowing, Handling!Open
  <2> HIDE DEF x
  <2>5. /\ tx' \in [Conns -> BOOLEAN] /\ pending' \in [Conns -> SUBSET Writes]
        /\ \A y \in Conns : y # x => tx'[y] = tx[y] /\ pending'[y] = pending[y]
        /\ pending'[x] = {} /\ (alive[x] => ~tx'[x])
    BY <1>6, <2>1, HygieneLine
  <2>6. idle' \subseteq Conns
    BY <1>1, <1>6, <2>2 DEF HandleTypes
  <2>7. HeldOnce'
    <3>1. \A a, b \in Handlers, y \in Conns : Holds(a, y)' /\ Holds(b, y)' => a = b
      BY <1>3 DEF HandleInv, HeldOnce
    <3>2. \A b \in Handlers, y \in idle' : ~Holds(b, y)'
      BY <1>1, <1>3, <1>6, <2>2, <2>3 DEF HandleInv, HeldOnce, HandleTypes
    <3> QED
      BY <3>1, <3>2 DEF HeldOnce
  <2>8. Rested'
    BY <1>1, <2>2, <2>3, <2>5 DEF HandleInv, Rested, HandleTypes
  <2>9. Unfinished'
    <3> SUFFICES ASSUME NEW y \in Conns, pending'[y] # {} PROVE alive'[y] /\ tx'[y] /\ \E b \in Handlers : Holds(b, y)'
      BY DEF Unfinished
    <3>1. y # x /\ pending[y] # {} /\ tx'[y] = tx[y]
      BY <2>5
    <3>2. PICK b \in Handlers : Holds(b, y)
      BY <3>1 DEF HandleInv, Unfinished
    <3> QED
      BY <1>3, <1>5, <3>1, <3>2 DEF HandleInv, Unfinished
  <2>10. Slots'
    <3> SUFFICES ASSUME deployment.pool, ~deployment.failing
                 PROVE  count' = Cardinality(idle') + Cardinality(Borrowing')
      BY DEF Slots
    <3>1. count = Cardinality(idle) + Cardinality(Borrowing)
      BY DEF HandleInv, Slots
    <3>2. ~deployment.persistent
      BY <1>1, Sized DEF HandleTypes
    <3>3. Cardinality(idle) \in Nat /\ Cardinality(Borrowing) \in Nat
      BY <1>1, Counted
    <3>4. CASE c \in Borrowing
      <4>1. Cardinality(Borrowing') = Cardinality(Borrowing) - 1
        BY <1>1, <1>4, <3>4, Counted
      <4>2. CASE excess
        <5>1. idle' = idle /\ count' = count - 1
          BY <2>2, <4>2
        <5> QED
          BY <3>1, <3>3, <4>1, <5>1
      <4>3. CASE ~excess
        <5>1. idle' = idle \cup {x} /\ count' = count
          BY <2>2, <2>4, <3>4, <4>3
        <5>2. Cardinality(idle') = Cardinality(idle) + 1
          BY <1>1, <1>6, <2>3, <5>1, Counted
        <5> QED
          BY <3>1, <3>3, <4>1, <5>1, <5>2
      <4> QED
        BY <4>2, <4>3
    <3>5. CASE c \notin Borrowing
      BY <1>4, <2>2, <2>4, <3>1, <3>2, <3>5
    <3> QED
      BY <3>4, <3>5
  <2>11. Apart'
    BY <2>5 DEF HandleInv, Apart
  <2>12. ASSUME NEW W, Settled(W) PROVE Settled(W)'
    BY <2>5, <2>12 DEF Settled
  <2>13. ASSUME NEW W, W = pending[x] PROVE Settled(W)'
    BY <1>6, <2>5, <2>13 DEF HandleInv, Settled, Apart
  <2> QED
    BY <1>2, <1>3, <1>5, <2>5, <2>6, <2>7, <2>8, <2>9, <2>10, <2>11, <2>12, <2>13, <2>14
<1>7. CASE x = Absent
  <2>1. UNCHANGED <<pending, tx, idle, count>>
    BY <1>7 DEF Handling!Hygiene, Handling!Goes
  <2>2. \A y \in Conns : ~Holds(c, y)
    BY <1>5, <1>7, HandleAssumed
  <2>3. c \notin Borrowing
    BY <1>7 DEF Borrowing, Handling!Open
  <2>4. HeldOnce' /\ Rested' /\ Apart'
    <3>1. idle \subseteq Conns
      BY <1>1 DEF HandleTypes
    <3> QED
      BY <1>3, <2>1, <3>1 DEF HandleInv, HeldOnce, Rested, Apart
  <2>5. Unfinished'
    BY <1>3, <2>1, <2>2 DEF HandleInv, Unfinished
  <2>6. Slots'
    BY <1>4, <2>1, <2>3 DEF HandleInv, Slots
  <2>7. ASSUME NEW W, Settled(W) PROVE Settled(W)'
    BY <2>1, <2>7 DEF Settled
  <2> QED
    BY <1>1, <1>2, <1>3, <2>1, <2>2, <2>4, <2>5, <2>6, <2>7 DEF HandleTypes
<1> QED
  BY <1>1, <1>6, <1>7

LEMMA ReturnedKeeps ==
  ASSUME HandleInv, NEW c \in Handlers, Handling!Release(c) \/ Handling!Free(c)
  PROVE  HandleInv'
<1> DEFINE h == [handle[c] EXCEPT !.pdo = Absent]
<1>1. /\ handle[c] # Absent /\ frame[c] = Absent
      /\ Handling!Hygiene(handle[c].pdo) /\ Handling!Goes(c) /\ handle' = [handle EXCEPT ![c] = h]
      /\ UNCHANGED <<deployment, alive, stored, issued, frame, ended>>
  BY DEF Handling!Release, Handling!Free, Handling!Open
<1>2. HandleTypes
  BY DEF HandleInv
<1>3. h \in Handling!Handle /\ h.pdo = Absent
  BY <1>1, <1>2, HandleShape DEF Handling!Handle
<1> HIDE DEF h
<1>4. /\ handle' \in [Handlers -> Handling!Handle \cup {Absent}] /\ idle' \subseteq Conns /\ count' \in Nat
      /\ tx' \in [Conns -> BOOLEAN] /\ pending' \in [Conns -> SUBSET Writes]
      /\ HeldOnce' /\ Rested' /\ Unfinished' /\ Slots' /\ Apart'
      /\ \A W : Settled(W) => Settled(W)'
      /\ \A x \in Conns : ~Holds(c, x)'
      /\ \A b \in Handlers : b # c => handle'[b] = handle[b]
      /\ \A x \in Conns : ~Holds(c, x) => tx'[x] = tx[x] /\ pending'[x] = pending[x]
  BY <1>1, <1>3, GivenBack
<1>5. HandleTypes'
  BY <1>1, <1>2, <1>4 DEF HandleTypes
<1>6. Framed'
  BY <1>1, <1>4 DEF HandleInv, Framed, Handling!Open
<1>7. ASSUME Whole PROVE Whole'
  <2>1. ASSUME NEW b \in Handlers, NEW y \in Conns, Owning(b)', Holds(b, y)'
        PROVE  alive'[y] /\ tx'[y] /\ frame'[b].writes = pending'[y]
    <3>1. b # c /\ Owning(b) /\ Holds(b, y)
      BY <1>1, <1>4, <2>1 DEF Owning, Holds
    <3>2. ~Holds(c, y)
      BY <3>1 DEF HandleInv, HeldOnce
    <3> QED
      BY <1>1, <1>4, <1>7, <3>1, <3>2 DEF Whole
  <2> QED
    BY <1>1, <1>4, <1>7, <2>1 DEF Whole
<1> QED
  BY <1>1, <1>4, <1>5, <1>6, <1>7 DEF HandleInv

LEMMA EndKeeps ==
  ASSUME HandleInv, NEW c \in Handlers, Handling!End(c)
  PROVE  HandleInv'
<1>1. /\ handle[c] # Absent
      /\ Handling!Hygiene(handle[c].pdo) /\ Handling!Goes(c) /\ handle' = [handle EXCEPT ![c] = Absent]
      /\ frame' = [frame EXCEPT ![c] = Absent]
      /\ ended' = IF Owning(c) THEN ended \cup {frame[c].writes} ELSE ended
      /\ UNCHANGED <<deployment, alive, stored, issued>>
  BY DEF Handling!End, Owning
<1>2. HandleTypes
  BY DEF HandleInv
<1>3. /\ handle' \in [Handlers -> Handling!Handle \cup {Absent}] /\ idle' \subseteq Conns /\ count' \in Nat
      /\ tx' \in [Conns -> BOOLEAN] /\ pending' \in [Conns -> SUBSET Writes]
      /\ HeldOnce' /\ Rested' /\ Unfinished' /\ Slots' /\ Apart'
      /\ \A W : Settled(W) => Settled(W)'
      /\ \A W, x : x \in Conns /\ Holds(c, x) /\ W = pending[x] => Settled(W)'
      /\ \A x \in Conns : ~Holds(c, x)'
      /\ \A b \in Handlers : b # c => handle'[b] = handle[b]
      /\ \A x \in Conns : ~Holds(c, x) => tx'[x] = tx[x] /\ pending'[x] = pending[x]
  BY <1>1, GivenBack
<1>4. /\ frame' \in [Handlers -> Handling!Frame \cup {Absent}] /\ frame'[c] = Absent
      /\ \A b \in Handlers : b # c => frame'[b] = frame[b]
  BY <1>1, <1>2 DEF HandleTypes
<1>5. ended' \subseteq SUBSET issued'
  <2>1. frame[c] # Absent => frame[c].writes \subseteq issued
    BY DEF HandleInv, Framed
  <2> QED
    BY <1>1, <1>2, <2>1 DEF HandleTypes, Owning
<1>6. HandleTypes'
  BY <1>1, <1>2, <1>3, <1>4, <1>5 DEF HandleTypes
<1>7. Framed'
  BY <1>1, <1>3, <1>4 DEF HandleInv, Framed, Handling!Open
<1>8. ASSUME Whole PROVE Whole'
  <2>1. ASSUME NEW b \in Handlers, NEW y \in Conns, Owning(b)', Holds(b, y)'
        PROVE  alive'[y] /\ tx'[y] /\ frame'[b].writes = pending'[y]
    <3>1. b # c /\ Owning(b) /\ Holds(b, y)
      BY <1>3, <1>4, <2>1 DEF Owning, Holds
    <3>2. ~Holds(c, y)
      BY <3>1 DEF HandleInv, HeldOnce
    <3> QED
      BY <1>1, <1>3, <1>4, <1>8, <3>1, <3>2 DEF Whole
  <2>2. ASSUME Owning(c) PROVE \A W : W = frame[c].writes => Settled(W)'
    <3>1. Handling!Open(c)
      BY <2>2 DEF HandleInv, Framed, Owning
    <3>2. PICK x \in Conns : Holds(c, x)
      BY <1>2, <3>1, HandleShape
    <3> QED
      BY <1>3, <1>8, <2>2, <3>2 DEF Whole
  <2>3. ASSUME NEW W \in ended' PROVE Settled(W)'
    BY <1>1, <1>3, <1>8, <2>2, <2>3 DEF Whole
  <2> QED
    BY <2>1, <2>3 DEF Whole
<1> QED
  BY <1>1, <1>3, <1>6, <1>7, <1>8 DEF HandleInv

LEMMA HandleKeeps == HandleInv /\ [Handling!HandleNext]_handleVars => HandleInv'
<1> SUFFICES ASSUME HandleInv, [Handling!HandleNext]_handleVars PROVE HandleInv'
  OBVIOUS
<1>1. CASE UNCHANGED handleVars
  BY <1>1 DEF handleVars, HandleInv, HandleTypes, HeldOnce, Rested, Unfinished, Slots, Apart, Framed, Whole, Owning,
              Settled, Holds, Borrowing, Handling!Open
<1>2. ASSUME NEW c \in Handlers,
             \/ Handling!Begin(c) \/ Handling!BeginTransaction(c) \/ Handling!Commit(c) \/ Handling!RollBack(c)
             \/ Handling!RunTransaction(c) \/ Handling!Return(c) \/ Handling!Throw(c) \/ Handling!Release(c)
             \/ Handling!Free(c) \/ Handling!End(c)
             \/ \E w \in Writes : Handling!Execute(c, w)
      PROVE  HandleInv'
  BY <1>2, BeginKeeps, ManagedKeeps, RunTransactionKeeps, EndingKeeps, ReturnedKeeps, EndKeeps, ExecuteKeeps
<1>3. ASSUME NEW x \in Conns, Handling!Lose(x) PROVE HandleInv'
  BY <1>3, LoseKeeps
<1> QED
  BY <1>1, <1>2, <1>3 DEF Handling!HandleNext

LEMMA HandleStarts == Handling!HandleInit => HandleInv
<1> SUFFICES ASSUME Handling!HandleInit PROVE HandleInv
  OBVIOUS
<1> USE DEF Handling!HandleInit
<1>1. /\ \A c \in Handlers : handle[c] = Absent /\ frame[c] = Absent
      /\ handle \in [Handlers -> Handling!Handle \cup {Absent}]
      /\ frame \in [Handlers -> Handling!Frame \cup {Absent}]
  OBVIOUS
<1>2. HandleTypes
  BY <1>1 DEF HandleTypes
<1>3. HeldOnce /\ Rested /\ Unfinished /\ Apart /\ Framed /\ Whole
  BY <1>1 DEF HeldOnce, Rested, Unfinished, Apart, Framed, Whole, Holds, Owning
<1>4. Slots
  <2>1. Borrowing = {} /\ idle = {}
    BY <1>1 DEF Borrowing, Handling!Open
  <2>2. Cardinality({}) = 0
    BY FS_EmptySet
  <2> QED
    BY <1>2, <2>1, <2>2, Sized DEF Slots, HandleTypes
<1> QED
  BY <1>2, <1>3, <1>4 DEF HandleInv

-----------------------------------------------------------------------------
(* Objects and rows.                                                       *)

Cells == Recording!States \cup {Null, Absent}
ObjectType == [exists: BOOLEAN, pk: Recording!Ids \cup {Absent}, a: Cells, b: Cells]
CallType ==
    [op: {"updateOrCreate"}, where: Recording!Conditions, data: Recording!Data, found: BOOLEAN]
      \cup [op: {"toggle"}, id: Recording!Ids, seen: Recording!States \cup {Null}]

(* The database has given no key from nextId on.                           *)
Tabled ==
    /\ rows \in [Recording!Ids -> Recording!Row \cup {Absent}]
    /\ nextId \in 1..(using.last + 1) /\ gone \subseteq Recording!Ids
    /\ \A id \in Recording!Ids : rows[id] # Absent \/ id \in gone => id < nextId
RecordTypes ==
    /\ using \in RecordUses /\ Tabled
    /\ obj \in [Objects -> ObjectType] /\ stands \in [Objects -> Recording!Ids \cup {Absent}]
    /\ unsure \subseteq Objects
    /\ call \in [Tasks -> CallType \cup {Absent}]
    /\ flips \in [Recording!Ids -> Nat]

(* An object whose last write did not throw has the key of its row, and a  *)
(* key that it is marked for, or that the database gives, is that of a row *)
(* it was loaded from or inserted as.                                      *)
Standing ==
    \A o \in Objects : o \notin unsure =>
        /\ stands[o] # Absent => obj[o].exists /\ obj[o].pk = stands[o]
        /\ obj[o].pk # Absent /\ (obj[o].exists \/ using.auto) => stands[o] = obj[o].pk
LastWrote ==
    CASE wrote.op = "batch" -> \A m \in wrote.meant : rows[m[1]] = m[2]
      [] OTHER -> wrote.ids \subseteq wrote.meant

LEMMA UseAssumed ==
  ASSUME NEW u \in RecordUses
  PROVE  /\ u.last \in Nat /\ u.flips \in Nat /\ u.auto \in BOOLEAN /\ u.values \subseteq Recording!States
         /\ u.objects \subseteq Objects /\ u.tasks \subseteq Tasks
         /\ u.batches \subseteq Seq(Seq(Recording!Columns \X Recording!States))
         /\ u.start \in [1..u.last -> Recording!Row \cup {Absent}] /\ Absent \notin 1..u.last
         /\ \E n \in 0..u.last : \A id \in 1..u.last : u.start[id] # Absent <=> id <= n
         /\ Absent \notin Recording!Row /\ Absent \notin Recording!States /\ Null \notin Recording!States
BY PartAssumptions DEF Recording!RecordAssumption

LEMMA RowShape ==
  ASSUME NEW row \in Recording!Row
  PROVE  row["a"] \in Recording!States \cup {Null} /\ row["b"] \in Recording!States \cup {Null}
         /\ row.a = row["a"] /\ row.b = row["b"]
BY DEF Recording!Row, Recording!Columns

LEMMA DataWritten ==
  ASSUME NEW data, data["a"] \in Cells, data["b"] \in Cells
  PROVE  /\ Recording!Inserted(data) \in Recording!Row
         /\ \A row \in Recording!Row : Recording!Updated(row, data) \in Recording!Row
<1>1. \A column \in Recording!Columns : data[column] \in Cells
  BY DEF Recording!Columns
<1>2. Recording!Inserted(data) \in Recording!Row
  BY <1>1 DEF Recording!Inserted, Recording!Given, Recording!Row, Cells
<1>3. ASSUME NEW row \in Recording!Row PROVE Recording!Updated(row, data) \in Recording!Row
  BY <1>1 DEF Recording!Updated, Recording!Given, Recording!Row, Cells
<1> QED
  BY <1>2, <1>3

LEMMA RowInserted ==
  ASSUME using \in RecordUses, Tabled, using' = using, gone' = gone, NEW id \in Recording!Ids,
         NEW data, data["a"] \in Cells, data["b"] \in Cells, Recording!InsertRow(id, data)
  PROVE  Tabled'
<1>1. Recording!Inserted(data) \in Recording!Row
  BY DataWritten
<1>2. rows' = [rows EXCEPT ![id] = Recording!Inserted(data)] /\ nextId' = IF id < nextId THEN nextId ELSE id + 1
  BY DEF Recording!InsertRow
<1>3. using.last \in Nat /\ Recording!Ids' = Recording!Ids /\ Recording!Ids = 1..using.last
  BY UseAssumed DEF Recording!Ids
<1> QED
  BY <1>1, <1>2, <1>3 DEF Tabled

LEMMA RowsUpdated ==
  ASSUME using \in RecordUses, Tabled, using' = using, gone' = gone, nextId' = nextId,
         NEW ids, \A id \in ids : id \in Recording!Ids /\ rows[id] # Absent,
         NEW data, data["a"] \in Cells, data["b"] \in Cells, rows' = Recording!UpdateRows(ids, data)
  PROVE  Tabled'
<1>1. \A id \in ids : rows[id] \in Recording!Row /\ Recording!Updated(rows[id], data) \in Recording!Row
  BY DataWritten DEF Tabled
<1>2. rows' = [id \in Recording!Ids |-> IF id \in ids THEN Recording!Updated(rows[id], data) ELSE rows[id]]
  BY DEF Recording!UpdateRows
<1>3. Recording!Ids' = Recording!Ids
  BY DEF Recording!Ids
<1> QED
  BY <1>1, <1>2, <1>3 DEF Tabled

LEMMA RowsDeleted ==
  ASSUME using \in RecordUses, Tabled, using' = using, nextId' = nextId,
         NEW ids, \A id \in ids : id \in Recording!Ids /\ rows[id] # Absent, Recording!DeleteRows(ids)
  PROVE  Tabled'
<1>1. Recording!Ids' = Recording!Ids
  BY DEF Recording!Ids
<1> QED
  BY <1>1 DEF Tabled, Recording!DeleteRows

LEMMA BatchInserted ==
  ASSUME RecordTypes, NEW batch \in using.batches, Recording!CreateMany(batch)
  PROVE  /\ Tabled'
         /\ \A i \in DOMAIN batch : nextId + i - 1 \in Recording!Ids /\ rows'[nextId + i - 1] = Recording!Batched(batch[i])
<1>1. using.last \in Nat /\ batch \in Seq(Seq(Recording!Columns \X Recording!States))
  BY UseAssumed DEF RecordTypes
<1>2. nextId \in 1..(using.last + 1) /\ Recording!Ids = 1..using.last /\ Recording!Ids' = Recording!Ids
  BY DEF RecordTypes, Tabled, Recording!Ids, Recording!CreateMany
<1>3. Len(batch) \in Nat /\ DOMAIN batch = 1..Len(batch) /\ Len(batch) > 0
      /\ nextId + Len(batch) - 1 <= using.last /\ nextId' = nextId + Len(batch)
      /\ \A i \in DOMAIN batch : batch[i] # <<>> /\ Recording!KeysOf(batch[i]) = Recording!KeysOf(batch[1])
  BY <1>1 DEF Recording!CreateMany
<1>4. \A i \in DOMAIN batch : batch[i] \in Seq(Recording!Columns \X Recording!States)
  BY <1>1
<1> DEFINE keys == Recording!KeysOf(batch[1])
<1>5. ASSUME NEW i \in DOMAIN batch PROVE Recording!Aligned(keys, batch[i]) \in Recording!Row
  <2>1. keys = Recording!KeysOf(batch[i])
    BY <1>3
  <2>2. DOMAIN keys = DOMAIN batch[i]
    BY <2>1 DEF Recording!KeysOf
  <2> HIDE DEF keys
  <2>3. ASSUME NEW column \in Recording!Columns, column \in Recording!Range(keys)
        PROVE  batch[i][Recording!Place(keys, column)][2] \in Recording!States
    <3>1. \E j \in DOMAIN keys : keys[j] = column
      BY <2>3 DEF Recording!Range
    <3>2. Recording!Place(keys, column) \in DOMAIN keys
      BY <3>1 DEF Recording!Place
    <3> QED
      BY <1>4, <2>2, <3>2
  <2> QED
    BY <2>3 DEF Recording!Aligned, Recording!Row
<1>6. rows' = [id \in Recording!Ids |->
                 IF id \in nextId..(nextId + Len(batch) - 1)
                   THEN Recording!Aligned(keys, batch[id - nextId + 1]) ELSE rows[id]]
      /\ gone' = gone /\ using' = using
  BY DEF Recording!CreateMany
<1> HIDE DEF keys
<1>7. ASSUME NEW id \in nextId..(nextId + Len(batch) - 1) PROVE id - nextId + 1 \in DOMAIN batch
  BY <1>2, <1>3
<1>8. Tabled'
  <2>1. rows' \in [Recording!Ids -> Recording!Row \cup {Absent}]
    BY <1>5, <1>6, <1>7 DEF RecordTypes, Tabled
  <2>2. nextId' \in 1..(using.last + 1)
    BY <1>1, <1>2, <1>3
  <2>3. ASSUME NEW id \in Recording!Ids, rows'[id] # Absent \/ id \in gone PROVE id < nextId'
    BY <1>2, <1>3, <1>6, <2>3 DEF RecordTypes, Tabled
  <2> QED
    BY <1>2, <1>6, <2>1, <2>2, <2>3 DEF RecordTypes, Tabled
<1>9. ASSUME NEW i \in DOMAIN batch
      PROVE  nextId + i - 1 \in Recording!Ids /\ rows'[nextId + i - 1] = Recording!Batched(batch[i])
  <2>1. nextId + i - 1 \in Recording!Ids /\ nextId + i - 1 \in nextId..(nextId + Len(batch) - 1)
        /\ (nextId + i - 1) - nextId + 1 = i
    BY <1>1, <1>2, <1>3
  <2>2. rows'[nextId + i - 1] = Recording!Aligned(keys, batch[i])
    BY <1>6, <2>1
  <2>3. Recording!KeysOf(batch[i]) = keys
    BY <1>3 DEF keys
  <2> QED
    BY <2>1, <2>2, <2>3 DEF Recording!Batched
<1> QED
  BY <1>8, <1>9

LEMMA SameUse ==
  ASSUME using' = using
  PROVE  /\ Recording!Ids' = Recording!Ids /\ ObjectType' = ObjectType /\ CallType' = CallType
         /\ Recording!Conditions' = Recording!Conditions /\ Recording!Data' = Recording!Data
<1>1. Recording!Ids' = Recording!Ids /\ Recording!Conditions' = Recording!Conditions /\ Recording!Data' = Recording!Data
  BY DEF Recording!Ids, Recording!Conditions, Recording!Data
<1> QED
  BY <1>1 DEF ObjectType, CallType, Cells

LEMMA WroteKept ==
  ASSUME NEW op, op # "batch", NEW about, NEW meant, NEW ids, ids \subseteq meant,
         wrote' = Recording!Wrote(op, about, meant, ids)
  PROVE  LastWrote'
BY DEF Recording!Wrote, LastWrote

LEMMA SilentKept == ASSUME wrote' = Recording!Silent PROVE LastWrote'
BY WroteKept DEF Recording!Silent

(* What a step does to one object.                                         *)
LEMMA ObjectSet ==
  ASSUME RecordTypes, NEW o \in Objects, NEW v \in ObjectType, NEW s \in Recording!Ids \cup {Absent},
         obj' = [obj EXCEPT ![o] = v], stands' = [stands EXCEPT ![o] = s],
         unsure' \in {unsure, unsure \ {o}, unsure \cup {o}},
         UNCHANGED <<using, call, flips>>, Tabled',
         Standing /\ o \notin unsure' =>
            /\ s # Absent => v.exists /\ v.pk = s
            /\ v.pk # Absent /\ (v.exists \/ using.auto) => s = v.pk
  PROVE  RecordTypes' /\ (Standing => Standing')
<1> USE SameUse DEF RecordTypes
<1>1. /\ obj' \in [Objects -> ObjectType] /\ stands' \in [Objects -> Recording!Ids \cup {Absent}]
      /\ obj'[o] = v /\ stands'[o] = s
      /\ \A p \in Objects : p # o => obj'[p] = obj[p] /\ stands'[p] = stands[p]
  OBVIOUS
<1>2. RecordTypes'
  BY <1>1
<1>3. ASSUME Standing PROVE Standing'
  <2> SUFFICES ASSUME NEW p \in Objects, p \notin unsure'
               PROVE  /\ stands'[p] # Absent => obj'[p].exists /\ obj'[p].pk = stands'[p]
                      /\ obj'[p].pk # Absent /\ (obj'[p].exists \/ using'.auto) => stands'[p] = obj'[p].pk
    BY DEF Standing
  <2>1. CASE p = o
    BY <1>1, <1>3, <2>1
  <2>2. CASE p # o
    BY <1>1, <1>3, <2>2 DEF Standing
  <2> QED
    BY <2>1, <2>2
<1> QED
  BY <1>2, <1>3

LEMMA ObjectShape ==
  ASSUME RecordTypes, NEW o \in Objects
  PROVE  /\ obj[o] \in ObjectType /\ obj[o].exists \in BOOLEAN /\ obj[o].pk \in Recording!Ids \cup {Absent}
         /\ obj[o].a \in Cells /\ obj[o].b \in Cells /\ obj[o]["a"] = obj[o].a /\ obj[o]["b"] = obj[o].b
         /\ stands[o] \in Recording!Ids \cup {Absent} /\ stands = [stands EXCEPT ![o] = stands[o]]
         /\ obj = [obj EXCEPT ![o] = obj[o]]
BY DEF RecordTypes, ObjectType

LEMMA UseTyped ==
  ASSUME RecordTypes
  PROVE  /\ using \in RecordUses /\ Tabled /\ using.auto \in BOOLEAN /\ using.values \subseteq Recording!States
         /\ using.objects \subseteq Objects /\ using.tasks \subseteq Tasks
         /\ using.last \in Nat /\ Recording!Ids = 1..using.last /\ Absent \notin Recording!Ids
         /\ Absent \notin Recording!Row /\ Absent \notin Recording!States
         /\ nextId \in 1..(using.last + 1)
         /\ \A id \in Recording!Ids : rows[id] # Absent =>
               rows[id] \in Recording!Row /\ rows[id].a \in Recording!States \cup {Null} /\ rows[id].b \in Cells
BY UseAssumed, RowShape DEF RecordTypes, Tabled, Recording!Ids, Cells

(* Actions of an object that leave the table alone.                        *)
LEMMA AttributesKeep ==
  ASSUME RecordTypes, NEW o \in using.objects,
         \/ Recording!New(o) \/ Recording!SetExists(o) \/ Recording!Unset(o)
         \/ \E id \in Recording!Ids : Recording!Find(o, id)
         \/ \E pk \in Recording!Ids \cup {Absent}, b \in using.values, hydrate \in BOOLEAN : Recording!Fill(o, pk, b, hydrate)
         \/ \E a \in using.values : Recording!Set(o, a)
  PROVE  RecordTypes' /\ (Standing => Standing') /\ LastWrote'
<1>1. /\ wrote' = Recording!Silent /\ UNCHANGED <<using, rows, nextId, call, gone, flips>>
  BY DEF Recording!New, Recording!SetExists, Recording!Unset, Recording!Find, Recording!Fill, Recording!Set
<1>2. o \in Objects /\ using \in RecordUses /\ Absent \notin Recording!Ids
  BY UseTyped
<1>3. Tabled'
  BY <1>1, UseTyped, SameUse DEF Tabled
<1>4. RecordTypes' /\ (Standing => Standing')
  <2>1. CASE Recording!New(o)
    <3> DEFINE v == Recording!NewObject
    <3>1. v \in ObjectType /\ v.pk = Absent
      BY DEF Recording!NewObject, ObjectType, Cells
    <3>2. obj' = [obj EXCEPT ![o] = v] /\ stands' = [stands EXCEPT ![o] = Absent] /\ unsure' = unsure \ {o}
      BY <2>1 DEF Recording!New
    <3> HIDE DEF v
    <3> QED
      BY <1>1, <1>2, <1>3, <3>1, <3>2, ObjectSet
  <2>2. CASE Recording!SetExists(o)
    <3> DEFINE v == [obj[o] EXCEPT !.exists = FALSE]
    <3>1. v \in ObjectType /\ v.pk = obj[o].pk /\ v.exists = FALSE /\ obj[o].exists /\ o \notin unsure
          /\ stands[o] = Absent
      BY <1>2, <2>2, ObjectShape DEF ObjectType, Recording!SetExists
    <3>2. obj' = [obj EXCEPT ![o] = v] /\ stands' = [stands EXCEPT ![o] = Absent] /\ unsure' = unsure
      BY <1>2, <2>2, <3>1, ObjectShape DEF Recording!SetExists
    <3> HIDE DEF v
    <3>3. Standing /\ v.pk # Absent => Absent = v.pk
      BY <1>2, <3>1 DEF Standing
    <3> QED
      BY <1>1, <1>2, <1>3, <3>1, <3>2, <3>3, ObjectSet
  <2>3. CASE Recording!Unset(o)
    <3> DEFINE v == [obj[o] EXCEPT !.pk = Absent]
    <3>1. v \in ObjectType /\ v.pk = Absent
      BY <1>2, ObjectShape DEF ObjectType
    <3>2. obj' = [obj EXCEPT ![o] = v] /\ stands' = [stands EXCEPT ![o] = Absent] /\ unsure' = unsure
      BY <2>3 DEF Recording!Unset
    <3> HIDE DEF v
    <3> QED
      BY <1>1, <1>2, <1>3, <3>1, <3>2, ObjectSet
  <2>4. ASSUME NEW id \in Recording!Ids, Recording!Find(o, id) PROVE RecordTypes' /\ (Standing => Standing')
    <3> DEFINE v == [exists |-> TRUE, pk |-> id, a |-> rows[id].a, b |-> rows[id].b]
    <3>1. v \in ObjectType /\ v.pk = id /\ v.exists
      BY <2>4, UseTyped DEF ObjectType, Recording!Find, Cells
    <3>2. obj' = [obj EXCEPT ![o] = v] /\ stands' = [stands EXCEPT ![o] = id] /\ unsure' = unsure \ {o}
      BY <2>4 DEF Recording!Find
    <3> HIDE DEF v
    <3> QED
      BY <1>1, <1>2, <1>3, <3>1, <3>2, ObjectSet
  <2>5. ASSUME NEW pk \in Recording!Ids \cup {Absent}, NEW b \in using.values, NEW hydrate \in BOOLEAN,
               Recording!Fill(o, pk, b, hydrate)
        PROVE  RecordTypes' /\ (Standing => Standing')
    <3> DEFINE attrs == [obj[o] EXCEPT !.pk = IF pk = Absent THEN @ ELSE pk, !.b = b]
               v == [attrs EXCEPT !.exists = Recording!Hydrated(o, attrs, hydrate)]
    <3>1. attrs \in ObjectType /\ attrs.pk = IF pk = Absent THEN obj[o].pk ELSE pk
      BY <1>2, ObjectShape, UseTyped DEF ObjectType, Cells
    <3>2. Recording!Hydrated(o, attrs, hydrate) = (obj[o].exists \/ (hydrate /\ using.auto /\ attrs.pk # Absent))
      BY DEF Recording!Hydrated
    <3>3. Recording!Hydrated(o, attrs, hydrate) \in BOOLEAN
      BY DEF Recording!Hydrated
    <3>4. obj' = [obj EXCEPT ![o] = v] /\ stands' = stands /\ unsure' = unsure
          /\ (pk # Absent => ~using.auto /\ obj[o].pk = Absent /\ ~obj[o].exists)
      BY <2>5 DEF Recording!Fill
    <3> HIDE DEF attrs
    <3>5. v \in ObjectType /\ v.pk = attrs.pk /\ v.exists = Recording!Hydrated(o, attrs, hydrate)
      BY <3>1, <3>3 DEF ObjectType
    <3> HIDE DEF v
    <3>6. Standing /\ o \notin unsure' =>
            /\ stands[o] # Absent => v.exists /\ v.pk = stands[o]
            /\ v.pk # Absent /\ (v.exists \/ using.auto) => stands[o] = v.pk
      BY <1>2, <3>1, <3>2, <3>4, <3>5 DEF Standing
    <3>7. stands[o] \in Recording!Ids \cup {Absent} /\ stands' = [stands EXCEPT ![o] = stands[o]]
      BY <1>2, <3>4, ObjectShape
    <3> QED
      BY <1>1, <1>2, <1>3, <3>4, <3>5, <3>6, <3>7, ObjectSet
  <2>6. ASSUME NEW a \in using.values, Recording!Set(o, a) PROVE RecordTypes' /\ (Standing => Standing')
    <3> DEFINE v == [obj[o] EXCEPT !.a = a]
    <3>1. v \in ObjectType /\ v.pk = obj[o].pk /\ v.exists = obj[o].exists
      BY <1>2, ObjectShape, UseTyped DEF ObjectType, Cells
    <3>2. obj' = [obj EXCEPT ![o] = v] /\ stands' = stands /\ unsure' = unsure
      BY <2>6 DEF Recording!Set
    <3> HIDE DEF v
    <3>3. Standing /\ o \notin unsure' =>
            /\ stands[o] # Absent => v.exists /\ v.pk = stands[o]
            /\ v.pk # Absent /\ (v.exists \/ using.auto) => stands[o] = v.pk
      BY <1>2, <3>1, <3>2 DEF Standing
    <3>4. stands[o] \in Recording!Ids \cup {Absent} /\ stands' = [stands EXCEPT ![o] = stands[o]]
      BY <1>2, <3>2, ObjectShape
    <3> QED
      BY <1>1, <1>2, <1>3, <3>1, <3>2, <3>3, <3>4, ObjectSet
  <2> QED
    BY <2>1, <2>2, <2>3, <2>4, <2>5, <2>6
<1> QED
  BY <1>1, <1>4, SilentKept

(* save() and delete().                                                    *)
LEMMA SaveUpdateKeeps ==
  ASSUME RecordTypes, NEW o \in Objects, NEW throws \in BOOLEAN, Recording!SaveUpdate(o, throws)
  PROVE  RecordTypes' /\ (Standing => Standing' /\ (o \notin unsure => LastWrote'))
<1> DEFINE id == obj[o].pk
           ids == IF throws \/ rows[id] = Absent THEN {} ELSE {id}
<1>1. /\ obj[o].exists /\ id # Absent
      /\ rows' = Recording!UpdateRows(ids, obj[o]) /\ wrote' = Recording!Wrote("save", o, {stands[o]}, ids)
      /\ UNCHANGED <<using, nextId, obj, stands, unsure, call, gone, flips>>
  BY DEF Recording!SaveUpdate, Recording!objectVars
<1>2. id \in Recording!Ids /\ ids \subseteq {id} /\ \A i \in ids : i \in Recording!Ids /\ rows[i] # Absent
  BY <1>1, ObjectShape
<1> HIDE DEF ids
<1>3. Tabled'
  BY <1>1, <1>2, ObjectShape, UseTyped, RowsUpdated
<1>4. RecordTypes'
  BY <1>1, <1>3, SameUse DEF RecordTypes
<1>5. Standing => Standing'
  BY <1>1 DEF Standing
<1>6. ASSUME Standing, o \notin unsure PROVE LastWrote'
  <2>1. ids \subseteq {stands[o]}
    BY <1>1, <1>2, <1>6 DEF Standing
  <2> HIDE DEF id
  <2> QED
    BY <1>1, <2>1, WroteKept
<1> QED
  BY <1>4, <1>5, <1>6

LEMMA SaveInsertKeeps ==
  ASSUME RecordTypes, NEW o \in Objects, NEW throws \in BOOLEAN, Recording!SaveInsert(o, throws)
  PROVE  RecordTypes' /\ (Standing /\ o \notin unsure => Standing' /\ LastWrote')
<1> DEFINE own == obj[o].pk # Absent
           id == IF own THEN obj[o].pk ELSE nextId
           refused == throws \/ IF own THEN rows[id] # Absent ELSE ~using.auto
           v == [obj[o] EXCEPT !.exists = TRUE, !.pk = IF refused /\ ~own THEN Absent ELSE id]
           s == IF refused THEN stands[o] ELSE id
<1>1. /\ ~(obj[o].exists /\ own) /\ id \in Recording!Ids
      /\ obj' = [obj EXCEPT ![o] = v]
      /\ wrote' = Recording!Wrote("insert", o, IF own THEN {id} ELSE Recording!Ids \ gone, IF refused THEN {} ELSE {id})
      /\ UNCHANGED <<using, call, gone, flips>>
  BY DEF Recording!SaveInsert
<1>2. IF refused THEN UNCHANGED <<rows, nextId, stands>> /\ unsure' = (IF using.auto THEN unsure ELSE unsure \cup {o})
      ELSE Recording!InsertRow(id, obj[o]) /\ stands' = [stands EXCEPT ![o] = id] /\ unsure' = unsure
  BY DEF Recording!SaveInsert
<1>3. v \in ObjectType /\ v.exists /\ v.pk = IF refused /\ ~own THEN Absent ELSE id
  BY <1>1, ObjectShape DEF ObjectType
<1>4. refused \in BOOLEAN /\ own \in BOOLEAN /\ (own => id = obj[o].pk) /\ (~own => id = nextId)
      /\ (refused /\ ~throws => IF own THEN TRUE ELSE ~using.auto)
  BY UseTyped
<1>5. s \in Recording!Ids \cup {Absent} /\ stands' = [stands EXCEPT ![o] = s] /\ unsure' \in {unsure, unsure \cup {o}}
      /\ (refused => s = stands[o]) /\ (~refused => s = id)
      /\ (refused /\ ~using.auto => o \in unsure')
  BY <1>1, <1>2, ObjectShape
<1>6. Tabled'
  <2>1. CASE refused
    BY <1>1, <1>2, <2>1, UseTyped, SameUse DEF Tabled
  <2>2. CASE ~refused
    <3>1. Recording!InsertRow(id, obj[o])
      BY <1>2, <2>2
    <3> HIDE DEF id, refused
    <3> QED
      BY <1>1, <3>1, ObjectShape, UseTyped, RowInserted
  <2> QED
    BY <2>1, <2>2
<1> HIDE DEF refused, s, v, id
<1>7. ASSUME Standing, o \notin unsure, o \notin unsure'
      PROVE  /\ s # Absent => v.exists /\ v.pk = s
             /\ v.pk # Absent /\ (v.exists \/ using.auto) => s = v.pk
  <2>1. stands[o] # Absent => obj[o].exists /\ obj[o].pk = stands[o]
    BY <1>7 DEF Standing
  <2>2. obj[o].pk # Absent /\ using.auto => stands[o] = obj[o].pk
    BY <1>7 DEF Standing
  <2>3. CASE refused
    <3>1. using.auto /\ ~own /\ stands[o] = Absent
      BY <1>1, <1>5, <1>7, <2>1, <2>2, <2>3, UseTyped
    <3> QED
      BY <1>3, <1>5, <2>3, <3>1
  <2>4. CASE ~refused
    BY <1>3, <1>5, <2>4
  <2> QED
    BY <2>3, <2>4, <1>4
<1>8. ASSUME Standing, o \notin unsure PROVE LastWrote'
  <2>1. (IF refused THEN {} ELSE {id}) \subseteq (IF own THEN {id} ELSE Recording!Ids \ gone)
    <3>1. nextId \notin gone
      BY UseTyped DEF Tabled
    <3> QED
      BY <1>1, <1>4, <3>1
  <2> HIDE DEF own
  <2> QED
    BY <1>1, <2>1, WroteKept
<1>9. o \notin unsure /\ Standing => Standing'
  <2> SUFFICES ASSUME o \notin unsure, Standing PROVE Standing'
    OBVIOUS
  <2> QED
    BY <1>1, <1>3, <1>5, <1>6, <1>7, ObjectSet
<1>10. RecordTypes'
  <2>1. obj' \in [Objects -> ObjectType] /\ stands' \in [Objects -> Recording!Ids \cup {Absent}] /\ unsure' \subseteq Objects
    BY <1>1, <1>3, <1>5 DEF RecordTypes
  <2> QED
    BY <1>1, <1>6, <2>1, SameUse DEF RecordTypes
<1> QED
  BY <1>8, <1>9, <1>10

LEMMA DeleteKeeps ==
  ASSUME RecordTypes, NEW o \in Objects, NEW throws \in BOOLEAN, Recording!Delete(o, throws)
  PROVE  RecordTypes' /\ (Standing => Standing') /\ LastWrote'
<1> DEFINE id == obj[o].pk
           ids == IF throws \/ rows[id] = Absent THEN {} ELSE {id}
           v == [obj[o] EXCEPT !.exists = FALSE, !.pk = Absent]
           s == IF throws THEN stands[o] ELSE Absent
<1>1. /\ id # Absent /\ Recording!DeleteRows(ids) /\ obj' = [obj EXCEPT ![o] = v]
      /\ stands' = (IF throws THEN stands ELSE [stands EXCEPT ![o] = Absent])
      /\ unsure' = (IF throws THEN unsure \cup {o} ELSE unsure)
      /\ wrote' = Recording!Wrote("delete", o, {id}, ids)
      /\ UNCHANGED <<using, nextId, call, flips>>
  BY DEF Recording!Delete
<1>2. id \in Recording!Ids /\ ids \subseteq {id} /\ \A i \in ids : i \in Recording!Ids /\ rows[i] # Absent
  BY <1>1, ObjectShape
<1>3. v \in ObjectType /\ v.pk = Absent /\ s \in Recording!Ids \cup {Absent} /\ stands' = [stands EXCEPT ![o] = s]
      /\ unsure' \in {unsure, unsure \cup {o}} /\ (o \notin unsure' => s = Absent)
  BY <1>1, ObjectShape DEF ObjectType
<1> HIDE DEF ids, v, s
<1>4. Tabled'
  BY <1>1, <1>2, UseTyped, RowsDeleted
<1>5. RecordTypes' /\ (Standing => Standing')
  BY <1>1, <1>3, <1>4, ObjectSet
<1>6. LastWrote'
  <2> HIDE DEF id
  <2> QED
    BY <1>1, <1>2, WroteKept
<1> QED
  BY <1>5, <1>6

LEMMA ObjectKeeps ==
  ASSUME RecordTypes, Recording!ObjectNext
  PROVE  RecordTypes' /\ ("retry" \in RecordCareful /\ Standing => Standing' /\ LastWrote')
<1>1. PICK o \in using.objects :
        \/ Recording!New(o) \/ Recording!SetExists(o) \/ Recording!Unset(o)
        \/ \E id \in Recording!Ids : Recording!Find(o, id)
        \/ \E pk \in Recording!Ids \cup {Absent}, b \in using.values, hydrate \in BOOLEAN : Recording!Fill(o, pk, b, hydrate)
        \/ \E a \in using.values : Recording!Set(o, a)
        \/ \E throws \in BOOLEAN : Recording!Save(o, throws) \/ Recording!Delete(o, throws)
  BY DEF Recording!ObjectNext
<1>2. o \in Objects
  BY UseTyped
<1>3. CASE \/ Recording!New(o) \/ Recording!SetExists(o) \/ Recording!Unset(o)
           \/ \E id \in Recording!Ids : Recording!Find(o, id)
           \/ \E pk \in Recording!Ids \cup {Absent}, b \in using.values, hydrate \in BOOLEAN : Recording!Fill(o, pk, b, hydrate)
           \/ \E a \in using.values : Recording!Set(o, a)
  BY <1>3, AttributesKeep
<1>4. ASSUME NEW throws \in BOOLEAN, Recording!Save(o, throws)
      PROVE  RecordTypes' /\ ("retry" \in RecordCareful /\ Standing => Standing' /\ LastWrote')
  <2>1. "retry" \in RecordCareful => o \notin unsure
    BY <1>4 DEF Recording!Save
  <2>2. CASE Recording!SaveUpdate(o, throws)
    BY <1>2, <2>1, <2>2, SaveUpdateKeeps
  <2>3. CASE Recording!SaveInsert(o, throws)
    BY <1>2, <2>1, <2>3, SaveInsertKeeps
  <2> QED
    BY <1>4, <2>2, <2>3 DEF Recording!Save
<1>5. ASSUME NEW throws \in BOOLEAN, Recording!Delete(o, throws)
      PROVE  RecordTypes' /\ (Standing => Standing' /\ LastWrote')
  BY <1>2, <1>5, DeleteKeeps
<1> QED
  BY <1>1, <1>3, <1>4, <1>5

(* The static methods, and changing over.                                  *)
LEMMA StaticAlone ==
  ASSUME RecordTypes, Tabled', UNCHANGED <<using, obj, stands, unsure>>,
         call' \in [Tasks -> CallType \cup {Absent}], flips' \in [Recording!Ids -> Nat]
  PROVE  RecordTypes' /\ (Standing => Standing')
BY SameUse DEF RecordTypes, Standing

LEMMA DataShape ==
  ASSUME RecordTypes, NEW data \in Recording!Data
  PROVE  /\ data["a"] \in Cells /\ data["b"] \in Cells
         /\ \A where \in Recording!Conditions : Recording!Carried(where, data) = data
<1>1. data["a"] = Absent /\ data["b"] \in using.values
  BY DEF Recording!Data
<1>2. data["a"] \in Cells /\ data["b"] \in Cells /\ data["b"] # Absent
  BY <1>1, UseTyped DEF Cells
<1>3. ASSUME NEW where \in Recording!Conditions, where.by \in Recording!Columns PROVE where.by = "b"
  BY <1>3 DEF Recording!Conditions, Recording!Columns
<1> QED
  BY <1>2, <1>3 DEF Recording!Carried

LEMMA ChangedRows ==
  ASSUME RecordTypes, NEW where \in Recording!Conditions, NEW data \in Recording!Data, Recording!Changed(where, data),
         UNCHANGED <<using, nextId, gone>>
  PROVE  Tabled' /\ LastWrote'
<1> DEFINE ids == IF where.by = "nothing" THEN {} ELSE Recording!Matching(where)
<1>1. rows' = Recording!UpdateRows(ids, data) /\ wrote' = Recording!Wrote("updateBy", Absent, ids, ids)
  BY DEF Recording!Changed
<1>2. \A i \in ids : i \in Recording!Ids /\ rows[i] # Absent
  BY DEF Recording!Matching, Recording!Matches
<1> HIDE DEF ids
<1> QED
  BY <1>1, <1>2, DataShape, UseTyped, RowsUpdated, WroteKept

LEMMA RowCreated ==
  ASSUME RecordTypes, NEW id \in Recording!Ids, NEW data \in Recording!Data, UNCHANGED <<using, gone>>,
         IF rows[id] # Absent THEN UNCHANGED <<rows, nextId>> ELSE Recording!InsertRow(id, data),
         wrote' = Recording!Wrote("insert", Absent, {id}, IF rows[id] # Absent THEN {} ELSE {id})
  PROVE  Tabled' /\ LastWrote'
<1>1. Tabled'
  <2>1. CASE rows[id] # Absent
    BY <2>1, UseTyped, SameUse DEF Tabled
  <2>2. CASE rows[id] = Absent
    BY <2>2, DataShape, UseTyped, RowInserted
  <2> QED
    BY <2>1, <2>2
<1>2. LastWrote'
  BY WroteKept
<1> QED
  BY <1>1, <1>2

LEMMA StaticKeeps ==
  ASSUME RecordTypes, Recording!StaticNext
  PROVE  RecordTypes' /\ (Standing => Standing') /\ LastWrote'
<1>1. ASSUME NEW pk \in Recording!Ids \cup {Absent}, NEW data \in Recording!Data, Recording!Create(pk, data)
      PROVE  RecordTypes' /\ (Standing => Standing') /\ LastWrote'
  <2> DEFINE id == IF pk = Absent THEN nextId ELSE pk
  <2>1. /\ id \in Recording!Ids /\ UNCHANGED <<using, obj, stands, unsure, call, gone, flips>>
        /\ IF rows[id] # Absent THEN UNCHANGED <<rows, nextId>> ELSE Recording!InsertRow(id, data)
        /\ wrote' = Recording!Wrote("insert", Absent, {id}, IF rows[id] # Absent THEN {} ELSE {id})
    BY <1>1 DEF Recording!Create, Recording!objectVars
  <2> HIDE DEF id
  <2>2. Tabled' /\ LastWrote'
    BY <2>1, RowCreated
  <2>3. call' \in [Tasks -> CallType \cup {Absent}] /\ flips' \in [Recording!Ids -> Nat]
    BY <2>1 DEF RecordTypes
  <2> QED
    BY <2>1, <2>2, <2>3, StaticAlone
<1>2. ASSUME NEW batch \in using.batches, Recording!CreateMany(batch)
      PROVE  RecordTypes' /\ (Standing => Standing') /\ LastWrote'
  <2>1. UNCHANGED <<using, obj, stands, unsure, call, gone, flips>>
    BY <1>2 DEF Recording!CreateMany, Recording!objectVars
  <2>2. Tabled' /\ \A i \in DOMAIN batch : rows'[nextId + i - 1] = Recording!Batched(batch[i])
    BY <1>2, BatchInserted
  <2>3. call' \in [Tasks -> CallType \cup {Absent}] /\ flips' \in [Recording!Ids -> Nat]
    BY <2>1 DEF RecordTypes
  <2>4. wrote'.op = "batch" /\ wrote'.meant = {<<nextId + i - 1, Recording!Batched(batch[i])>> : i \in DOMAIN batch}
    BY <1>2 DEF Recording!CreateMany, Recording!Wrote
  <2>5. LastWrote'
    <3>1. ASSUME NEW m \in wrote'.meant PROVE rows'[m[1]] = m[2]
      BY <2>2, <2>4
    <3> QED
      BY <2>4, <3>1 DEF LastWrote
  <2> QED
    BY <2>1, <2>2, <2>3, <2>5, StaticAlone
<1>3. ASSUME NEW where \in Recording!Conditions, NEW data \in Recording!Data, Recording!UpdateBy(where, data)
      PROVE  RecordTypes' /\ (Standing => Standing') /\ LastWrote'
  <2>1. UNCHANGED <<using, nextId, obj, stands, unsure, call, gone, flips>> /\ Recording!Changed(where, data)
    BY <1>3 DEF Recording!UpdateBy, Recording!objectVars
  <2>2. call' \in [Tasks -> CallType \cup {Absent}] /\ flips' \in [Recording!Ids -> Nat]
    BY <2>1 DEF RecordTypes
  <2> QED
    BY <2>1, <2>2, ChangedRows, StaticAlone
<1>4. ASSUME NEW t \in using.tasks, NEW where \in Recording!Conditions, NEW data \in Recording!Data,
             Recording!LookUp(t, where, data)
      PROVE  RecordTypes' /\ (Standing => Standing') /\ LastWrote'
  <2> DEFINE r == [op |-> "updateOrCreate", where |-> where, data |-> data, found |-> Recording!Matching(where) # {}]
  <2>1. /\ call' = [call EXCEPT ![t] = r] /\ wrote' = Recording!Silent
        /\ UNCHANGED <<using, rows, nextId, obj, stands, unsure, gone, flips>>
    BY <1>4 DEF Recording!LookUp, Recording!objectVars
  <2>2. r \in CallType
    BY DEF CallType
  <2>3. call' \in [Tasks -> CallType \cup {Absent}] /\ flips' \in [Recording!Ids -> Nat]
    BY <2>1, <2>2, UseTyped DEF RecordTypes
  <2>4. Tabled'
    BY <2>1, UseTyped, SameUse DEF Tabled
  <2> QED
    BY <2>1, <2>3, <2>4, StaticAlone, SilentKept
<1>5. ASSUME NEW t \in Tasks, Recording!UpdateOrCreate(t)
      PROVE  RecordTypes' /\ (Standing => Standing') /\ LastWrote'
  <2>1. /\ call[t] # Absent /\ call[t].op = "updateOrCreate" /\ call' = [call EXCEPT ![t] = Absent]
        /\ UNCHANGED <<using, obj, stands, unsure, gone, flips>>
    BY <1>5 DEF Recording!UpdateOrCreate, Recording!objectVars
  <2>2. call[t].where \in Recording!Conditions /\ call[t].data \in Recording!Data
    BY <2>1 DEF RecordTypes, CallType
  <2> DEFINE where == call[t].where
             data == call[t].data
             id == IF where.by = "id" THEN where.value ELSE nextId
  <2>3. Recording!Carried(where, data) = data
    BY <2>2, DataShape
  <2>4. \/ Recording!Changed(where, data) /\ UNCHANGED nextId
        \/ /\ id \in Recording!Ids
           /\ IF rows[id] # Absent THEN UNCHANGED <<rows, nextId>> ELSE Recording!InsertRow(id, data)
           /\ wrote' = Recording!Wrote("insert", Absent, {id}, IF rows[id] # Absent THEN {} ELSE {id})
    BY <1>5, <2>3 DEF Recording!UpdateOrCreate
  <2>5. call' \in [Tasks -> CallType \cup {Absent}] /\ flips' \in [Recording!Ids -> Nat]
    BY <2>1 DEF RecordTypes
  <2> HIDE DEF where, data, id
  <2>6. Tabled' /\ LastWrote'
    <3>1. where \in Recording!Conditions /\ data \in Recording!Data
      BY <2>2 DEF where, data
    <3> QED
      BY <2>1, <2>4, <3>1, ChangedRows, RowCreated
  <2> QED
    BY <2>1, <2>5, <2>6, StaticAlone
<1> QED
  BY <1>1, <1>2, <1>3, <1>4, <1>5 DEF Recording!StaticNext

LEMMA ToggleKeeps ==
  ASSUME RecordTypes, Recording!ToggleNext
  PROVE  RecordTypes' /\ (Standing => Standing') /\ LastWrote'
<1>1. ASSUME NEW t \in using.tasks, NEW id \in Recording!Ids, Recording!ToggleRead(t, id)
      PROVE  RecordTypes' /\ (Standing => Standing') /\ LastWrote'
  <2> DEFINE r == [op |-> "toggle", id |-> id, seen |-> rows[id].a]
  <2>1. /\ rows[id] # Absent /\ call' = [call EXCEPT ![t] = r] /\ wrote' = Recording!Silent
        /\ UNCHANGED <<using, rows, nextId, obj, stands, unsure, gone, flips>>
    BY <1>1 DEF Recording!ToggleRead, Recording!objectVars
  <2>2. r \in CallType
    BY <2>1, UseTyped DEF CallType
  <2> HIDE DEF r
  <2>3. call' \in [Tasks -> CallType \cup {Absent}] /\ flips' \in [Recording!Ids -> Nat]
    BY <2>1, <2>2, UseTyped DEF RecordTypes
  <2>4. Tabled'
    BY <2>1, UseTyped, SameUse DEF Tabled
  <2> QED
    BY <2>1, <2>3, <2>4, StaticAlone, SilentKept
<1>2. ASSUME NEW id \in Recording!Ids, NEW n \in Recording!States, rows[id] # Absent,
             rows' = [rows EXCEPT ![id].a = n], UNCHANGED <<using, nextId, gone>>
      PROVE  Tabled'
  <2>1. rows[id] \in Recording!Row /\ [rows[id] EXCEPT !.a = n] \in Recording!Row
    BY <1>2, UseTyped DEF Recording!Row
  <2>2. rows' = [rows EXCEPT ![id] = [rows[id] EXCEPT !.a = n]]
    BY <1>2
  <2> QED
    BY <1>2, <2>1, <2>2, UseTyped, SameUse DEF Tabled
<1>3. \A n : Recording!Other(n) \in Recording!States
  BY DEF Recording!Other, Recording!States
<1>4. \A id \in Recording!Ids : Recording!Counted(id) \in [Recording!Ids -> Nat]
  BY DEF Recording!Counted, RecordTypes
<1>5. ASSUME NEW t \in Tasks, Recording!ToggleWrite(t)
      PROVE  RecordTypes' /\ (Standing => Standing') /\ LastWrote'
  <2> DEFINE id == call[t].id
             won == Recording!Won(id, call[t].seen)
             n == Recording!Other(call[t].seen)
  <2>1. /\ call[t] # Absent /\ call[t].op = "toggle" /\ call' = [call EXCEPT ![t] = Absent]
        /\ rows' = (IF won THEN [rows EXCEPT ![id].a = n] ELSE rows)
        /\ flips' = (IF won THEN Recording!Counted(id) ELSE flips)
        /\ wrote' = Recording!Wrote("toggle", Absent, {id}, IF won THEN {id} ELSE {})
        /\ UNCHANGED <<using, nextId, obj, stands, unsure, gone>>
    BY <1>5 DEF Recording!ToggleWrite, Recording!objectVars
  <2>2. id \in Recording!Ids /\ n \in Recording!States /\ (won => rows[id] # Absent)
    BY <1>3, <2>1 DEF RecordTypes, CallType, Recording!Won
  <2> HIDE DEF id, won, n
  <2>3. Tabled'
    <3>1. CASE won
      BY <1>2, <2>1, <2>2, <3>1
    <3>2. CASE ~won
      BY <2>1, <3>2, UseTyped, SameUse DEF Tabled
    <3> QED
      BY <3>1, <3>2
  <2>4. call' \in [Tasks -> CallType \cup {Absent}] /\ flips' \in [Recording!Ids -> Nat]
    BY <1>4, <2>1, <2>2 DEF RecordTypes
  <2> QED
    BY <2>1, <2>3, <2>4, StaticAlone, WroteKept
<1>6. ASSUME NEW id \in Recording!Ids, Recording!Flip(id)
      PROVE  RecordTypes' /\ (Standing => Standing') /\ LastWrote'
  <2>1. /\ rows[id] # Absent /\ rows' = [rows EXCEPT ![id].a = Recording!Other(rows[id].a)]
        /\ flips' = Recording!Counted(id) /\ wrote' = Recording!Wrote("flip", Absent, {id}, {id})
        /\ UNCHANGED <<using, nextId, obj, stands, unsure, call, gone>>
    BY <1>6 DEF Recording!Flip, Recording!objectVars
  <2>2. Tabled'
    BY <1>2, <1>3, <2>1
  <2>3. call' \in [Tasks -> CallType \cup {Absent}] /\ flips' \in [Recording!Ids -> Nat]
    BY <1>4, <2>1 DEF RecordTypes
  <2> QED
    BY <2>1, <2>2, <2>3, StaticAlone, WroteKept
<1> QED
  BY <1>1, <1>5, <1>6 DEF Recording!ToggleNext

LEMMA RecordKeeps ==
  ASSUME RecordTypes, "retry" \in RecordCareful => Standing, Recording!RecordNext
  PROVE  RecordTypes' /\ ("retry" \in RecordCareful => Standing' /\ LastWrote')
<1>1. ASSUME NEW t \in Tasks, Recording!Throw(t) PROVE RecordTypes' /\ (Standing => Standing') /\ LastWrote'
  <2>1. /\ call' = [call EXCEPT ![t] = Absent] /\ wrote' = Recording!Silent
        /\ UNCHANGED <<using, rows, nextId, obj, stands, unsure, gone, flips>>
    BY <1>1 DEF Recording!Throw, Recording!objectVars
  <2>2. call' \in [Tasks -> CallType \cup {Absent}] /\ flips' \in [Recording!Ids -> Nat]
    BY <2>1 DEF RecordTypes
  <2>3. Tabled'
    BY <2>1, UseTyped, SameUse DEF Tabled
  <2> QED
    BY <2>1, <2>2, <2>3, StaticAlone, SilentKept
<1>2. ASSUME NEW ids \in SUBSET Recording!Ids, Recording!Destroy(ids)
      PROVE  RecordTypes' /\ (Standing => Standing') /\ LastWrote'
  <2> DEFINE there == {id \in ids : rows[id] # Absent}
  <2>1. /\ Recording!DeleteRows(there) /\ wrote' = Recording!Wrote("destroy", Absent, ids, there)
        /\ UNCHANGED <<using, nextId, obj, stands, unsure, call, flips>>
    BY <1>2 DEF Recording!Destroy, Recording!objectVars
  <2>2. there \subseteq ids /\ \A i \in there : i \in Recording!Ids /\ rows[i] # Absent
    OBVIOUS
  <2> HIDE DEF there
  <2>3. Tabled'
    BY <2>1, <2>2, UseTyped, RowsDeleted
  <2>4. call' \in [Tasks -> CallType \cup {Absent}] /\ flips' \in [Recording!Ids -> Nat]
    BY <2>1 DEF RecordTypes
  <2> QED
    BY <2>1, <2>2, <2>3, <2>4, StaticAlone, WroteKept
<1> QED
  BY <1>1, <1>2, ObjectKeeps, StaticKeeps, ToggleKeeps DEF Recording!RecordNext

LEMMA RecordStarts ==
  ASSUME Recording!RecordInit
  PROVE  RecordTypes /\ Standing /\ LastWrote
<1> USE DEF Recording!RecordInit
<1>1. PICK n \in 0..using.last : \A id \in 1..using.last : using.start[id] # Absent <=> id <= n
  BY UseAssumed
<1>2. using.last \in Nat /\ Recording!Ids = 1..using.last /\ Absent \notin 1..using.last
      /\ using.start \in [1..using.last -> Recording!Row \cup {Absent}]
  BY UseAssumed DEF Recording!Ids
<1>3. nextId = n + 1
  <2>1. {id \in Recording!Ids : using.start[id] # Absent} = 1..n
    BY <1>1, <1>2
  <2>2. n \in Nat /\ Cardinality(1..n) = n
    <3>1. n \in Nat
      BY <1>1, <1>2
    <3>2. 1 \in Int /\ n \in Int
      BY ONLY <3>1
    <3>3. Cardinality(1..n) = IF 1 > n THEN 0 ELSE n - 1 + 1
      BY ONLY <3>2, FS_Interval
    <3>4. PICK m : m = Cardinality(1..n)
      BY Zenon
    <3>5. m = IF 1 > n THEN 0 ELSE n - 1 + 1
      BY ONLY <3>3, <3>4
    <3>6. m = n
      BY ONLY <3>1, <3>5
    <3> QED
      BY ONLY <3>1, <3>4, <3>6
  <2>3. Recording!Cardinality(1..n) = Cardinality(1..n)
    BY DEF Recording!Cardinality, Cardinality
  <2>4. nextId = 1 + Recording!Cardinality({id \in Recording!Ids : using.start[id] # Absent})
    OBVIOUS
  <2>5. nextId = 1 + Cardinality(1..n)
    BY ONLY <2>1, <2>3, <2>4
  <2> QED
    BY ONLY <2>2, <2>5
<1>4. Tabled
  <2>1. rows = using.start /\ gone = {}
    OBVIOUS
  <2>2. nextId \in 1..(using.last + 1)
    BY <1>1, <1>2, <1>3
  <2>3. \A id \in Recording!Ids : rows[id] # Absent \/ id \in gone => id < nextId
    BY <1>1, <1>2, <1>3, <2>1
  <2> QED
    BY <1>2, <2>1, <2>2, <2>3 DEF Tabled
<1>5. /\ \A o \in Objects : obj[o] = Recording!NewObject /\ stands[o] = Absent
      /\ obj \in [Objects -> ObjectType] /\ stands \in [Objects -> Recording!Ids \cup {Absent}]
  BY DEF Recording!NewObject, ObjectType, Cells
<1>6. call \in [Tasks -> CallType \cup {Absent}] /\ flips \in [Recording!Ids -> Nat]
  OBVIOUS
<1>7. RecordTypes
  BY <1>4, <1>5, <1>6 DEF RecordTypes
<1>8. Standing
  BY <1>5 DEF Standing, Recording!NewObject
<1>9. LastWrote
  BY DEF LastWrote, Recording!Silent, Recording!Wrote
<1> QED
  BY <1>7, <1>8, <1>9

LEMMA RecordStutters ==
  ASSUME UNCHANGED recordVars
  PROVE  /\ RecordTypes => RecordTypes'
         /\ Standing => Standing'
         /\ LastWrote => LastWrote'
<1>1. Recording!Ids' = Recording!Ids /\ ObjectType' = ObjectType /\ CallType' = CallType
  BY SameUse DEF recordVars
<1>2. UNCHANGED <<using, rows, nextId, obj, call, stands, unsure, gone, flips, wrote>>
  BY DEF recordVars
<1>3. Tabled => Tabled'
  BY <1>1, <1>2 DEF Tabled
<1>4. RecordTypes => RecordTypes'
  BY <1>1, <1>2, <1>3 DEF RecordTypes
<1> QED
  BY <1>2, <1>4 DEF Standing, LastWrote

(* Changing over.  No other method writes the status.                      *)
Counting ==
    Recording!Calls("toggle") =>
        /\ \A id \in Recording!Ids : rows[id] # Absent =>
              /\ using.start[id] # Absent
              /\ rows[id].a = (using.start[id].a + flips[id]) % 2
        /\ \A t \in Tasks : call[t] # Absent => call[t].op = "toggle" /\ call[t].seen \in Recording!States

OnlyToggles ==
    \A u \in RecordUses : "toggle" \in u.calls =>
        /\ u.calls = {"toggle"}
        /\ \A id \in 1..u.last : u.start[id] # Absent => u.start[id].a \in Recording!States

LEMMA Parity ==
  ASSUME NEW n \in Nat
  PROVE  n % 2 \in {0, 1} /\ (n + 1) % 2 = Recording!Other(n % 2)
BY DEF Recording!Other

LEMMA CountingKeeps ==
  ASSUME OnlyToggles, RecordTypes, Counting, Recording!RecordNext
  PROVE  Counting'
<1> DEFINE Right(row, id, n) == row # Absent => using.start[id] # Absent /\ row.a = (using.start[id].a + n) % 2
           Reads(c) == c # Absent => c.op = "toggle" /\ c.seen \in Recording!States
<1>1. SUFFICES ASSUME Recording!Calls("toggle"), using' = using
               PROVE  /\ \A id \in Recording!Ids : Right(rows'[id], id, flips'[id])
                      /\ \A t \in Tasks : Reads(call'[t])
  <2>1. using' = using
    BY DEF Recording!RecordNext, Recording!ObjectNext, Recording!StaticNext, Recording!ToggleNext, Recording!New,
           Recording!SetExists, Recording!Unset, Recording!Find, Recording!Fill, Recording!Set, Recording!Save,
           Recording!SaveUpdate, Recording!SaveInsert, Recording!Delete, Recording!Create, Recording!CreateMany,
           Recording!UpdateBy, Recording!LookUp, Recording!UpdateOrCreate, Recording!ToggleRead, Recording!ToggleWrite,
           Recording!Flip, Recording!Throw, Recording!Destroy
  <2>2. Recording!Ids' = Recording!Ids /\ (Recording!Calls("toggle")' <=> Recording!Calls("toggle"))
    BY <2>1 DEF Recording!Ids, Recording!Calls
  <2> QED
    BY <1>1, <2>1, <2>2 DEF Counting
<1>2. /\ \A id \in Recording!Ids : Right(rows[id], id, flips[id])
      /\ \A t \in Tasks : Reads(call[t])
      /\ using.calls = {"toggle"}
      /\ \A id \in Recording!Ids : using.start[id] # Absent => using.start[id].a \in {0, 1}
  BY <1>1, UseTyped DEF Counting, OnlyToggles, Recording!Calls, Recording!Ids, Recording!States
<1>3. /\ rows \in [Recording!Ids -> Recording!Row \cup {Absent}] /\ flips \in [Recording!Ids -> Nat]
      /\ call \in [Tasks -> CallType \cup {Absent}] /\ using.tasks \subseteq Tasks
  BY UseTyped DEF RecordTypes, Tabled
(* One change over of a row that has what its count says.                  *)
<1>4. ASSUME NEW id \in Recording!Ids, rows[id] # Absent,
             rows' = [rows EXCEPT ![id].a = Recording!Other(rows[id].a)], flips' = Recording!Counted(id)
      PROVE  \A i \in Recording!Ids : Right(rows'[i], i, flips'[i])
  <2> DEFINE n == using.start[id].a + flips[id]
  <2>1. using.start[id] # Absent /\ rows[id].a = n % 2 /\ flips[id] \in Nat /\ n \in Nat
    BY <1>2, <1>3, <1>4
  <2>2. using.start[id].a + (flips[id] + 1) = n + 1
    BY <1>2, <2>1
  <2>3. (n + 1) % 2 = Recording!Other(rows[id].a)
    BY <2>1, Parity
  <2>4. /\ flips'[id] = flips[id] + 1
        /\ \A i \in Recording!Ids : i # id => flips'[i] = flips[i] /\ rows'[i] = rows[i]
    BY <1>3, <1>4 DEF Recording!Counted
  <2>5. rows[id] \in Recording!Row /\ rows'[id].a = Recording!Other(rows[id].a)
    BY <1>3, <1>4 DEF Recording!Row, Recording!Columns
  <2>6. Right(rows'[id], id, flips'[id])
    BY <2>1, <2>2, <2>3, <2>4, <2>5
  <2> HIDE DEF Right
  <2> QED
    BY <1>2, <2>4, <2>6
<1>5. ASSUME NEW t \in using.tasks, NEW id \in Recording!Ids, Recording!ToggleRead(t, id)
      PROVE  /\ \A i \in Recording!Ids : Right(rows'[i], i, flips'[i])
             /\ \A s \in Tasks : Reads(call'[s])
  <2>1. /\ rows[id] # Absent /\ UNCHANGED <<rows, flips>>
        /\ call' = [call EXCEPT ![t] = [op |-> "toggle", id |-> id, seen |-> rows[id].a]]
    BY <1>5 DEF Recording!ToggleRead
  <2>2. rows[id].a \in Recording!States
    <3>1. using.start[id].a + flips[id] \in Nat /\ rows[id].a = (using.start[id].a + flips[id]) % 2
      BY <1>2, <1>3, <2>1
    <3> QED
      BY <3>1, Parity DEF Recording!States
  <2>3. \A s \in Tasks : Reads(call'[s])
    BY <1>2, <1>3, <2>1, <2>2
  <2> QED
    BY <1>2, <2>1, <2>3
<1>6. ASSUME NEW t \in Tasks, call' = [call EXCEPT ![t] = Absent] PROVE \A s \in Tasks : Reads(call'[s])
  BY <1>2, <1>3, <1>6
<1>7. ASSUME NEW t \in Tasks, Recording!ToggleWrite(t)
      PROVE  /\ \A i \in Recording!Ids : Right(rows'[i], i, flips'[i])
             /\ \A s \in Tasks : Reads(call'[s])
  <2> DEFINE id == call[t].id
             won == Recording!Won(id, call[t].seen)
  <2>1. /\ call[t] # Absent /\ call[t].op = "toggle" /\ call' = [call EXCEPT ![t] = Absent]
        /\ rows' = (IF won THEN [rows EXCEPT ![id].a = Recording!Other(call[t].seen)] ELSE rows)
        /\ flips' = (IF won THEN Recording!Counted(id) ELSE flips)
    BY <1>7 DEF Recording!ToggleWrite
  <2>2. id \in Recording!Ids /\ call[t].seen # Null
    <3>1. call[t] \in CallType /\ call[t].seen \in Recording!States
      BY <1>2, <1>3, <2>1
    <3>2. Null \notin Recording!States
      BY UseAssumed DEF RecordTypes
    <3> QED
      BY <2>1, <3>1, <3>2 DEF CallType
  <2>3. won => rows[id] # Absent /\ rows[id].a = call[t].seen
    BY <2>2 DEF Recording!Won
  <2> HIDE DEF id, won
  <2>4. \A i \in Recording!Ids : Right(rows'[i], i, flips'[i])
    <3>1. CASE won
      BY <1>4, <2>1, <2>2, <2>3, <3>1
    <3>2. CASE ~won
      BY <1>2, <2>1, <3>2
    <3> QED
      BY <3>1, <3>2
  <2> QED
    BY <1>6, <2>1, <2>4
<1>8. ASSUME NEW id \in Recording!Ids, Recording!Flip(id)
      PROVE  /\ \A i \in Recording!Ids : Right(rows'[i], i, flips'[i])
             /\ \A s \in Tasks : Reads(call'[s])
  <2>1. /\ rows[id] # Absent /\ rows' = [rows EXCEPT ![id].a = Recording!Other(rows[id].a)]
        /\ flips' = Recording!Counted(id) /\ call' = call
    BY <1>8 DEF Recording!Flip
  <2> QED
    BY <1>2, <1>4, <2>1
<1>9. ASSUME NEW t \in Tasks, Recording!Throw(t)
      PROVE  /\ \A i \in Recording!Ids : Right(rows'[i], i, flips'[i])
             /\ \A s \in Tasks : Reads(call'[s])
  <2>1. call' = [call EXCEPT ![t] = Absent] /\ UNCHANGED <<rows, flips>>
    BY <1>9 DEF Recording!Throw
  <2> QED
    BY <1>2, <1>6, <2>1
<1>10. ASSUME NEW ids \in SUBSET Recording!Ids, Recording!Destroy(ids)
       PROVE  /\ \A i \in Recording!Ids : Right(rows'[i], i, flips'[i])
              /\ \A s \in Tasks : Reads(call'[s])
  <2>1. UNCHANGED <<call, flips>> /\ \A i \in Recording!Ids : rows'[i] \in {rows[i], Absent}
    BY <1>10 DEF Recording!Destroy, Recording!DeleteRows
  <2> QED
    BY <1>2, <2>1
<1>11. ~Recording!Calls("object") /\ ~Recording!Calls("static")
  BY <1>2 DEF Recording!Calls
<1> HIDE DEF Right, Reads
<1> QED
  BY <1>5, <1>7, <1>8, <1>9, <1>10, <1>11 DEF Recording!RecordNext, Recording!ToggleNext

LEMMA CountingStarts ==
  ASSUME OnlyToggles, Recording!RecordInit
  PROVE  Counting
<1> SUFFICES ASSUME Recording!Calls("toggle"), NEW id \in Recording!Ids, rows[id] # Absent
             PROVE  rows[id].a = (using.start[id].a + flips[id]) % 2
  BY DEF Counting, Recording!RecordInit
<1>1. using \in RecordUses /\ rows = using.start /\ flips[id] = 0
  BY DEF Recording!RecordInit
<1>2. using.start[id].a \in {0, 1}
  BY <1>1 DEF OnlyToggles, Recording!Calls, Recording!Ids, Recording!States
<1> QED
  BY <1>1, <1>2

-----------------------------------------------------------------------------
(* Contexts.                                                               *)

Stacks == (UNION {{p[2] : p \in u.places} : u \in Workers}) \cup {Absent}
Current == [ctx: Structs \cup {Absent}, cid: Cids \cup {Absent}, stack: Stacks]
Tables ==
    [contexts: [Cids -> Structs \cup {Absent}], content: [Structs -> SUBSET Coroutines],
     pool: Seq(Structs), current: Current, allocs: Nat, mark: Nat]

(* A structure is in one place, one that is in none is empty, and the      *)
(* current one is that of the id it is remembered with.                    *)
Sound(w) ==
    /\ w \in Tables
    /\ \A i, j \in Cids : w.contexts[i] # Absent /\ w.contexts[i] = w.contexts[j] => i = j
    /\ \A k, l \in DOMAIN w.pool : w.pool[k] = w.pool[l] => k = l
    /\ \A i \in Cids, k \in DOMAIN w.pool : w.contexts[i] # w.pool[k]
    /\ \A s \in Structs : w.content[s] # {} => \E i \in Cids : w.contexts[i] = s
    /\ w.current.ctx # Absent => w.current.cid \in Cids /\ w.contexts[w.current.cid] = w.current.ctx

(* Some entries go.                                                        *)
Loses(w, v) ==
    /\ \A i \in Cids : v.contexts[i] \in {w.contexts[i], Absent}
    /\ \A s \in Structs : v.content[s] \subseteq w.content[s]
    /\ v.current = w.current \/ v.current.ctx = Absent

LEMMA ContextAssumed ==
  /\ PoolMax \in Nat /\ IsFiniteSet(Cids) /\ IsFiniteSet(Structs) /\ Cardinality(Structs) > Cardinality(Cids)
  /\ Absent \notin Structs /\ Absent \notin Cids
  /\ \A u \in Workers : \A p \in u.places : p[1] \in Cids /\ p[2] \in Stacks
<1>1. \A S : (Contexts!IsFiniteSet(S) <=> IsFiniteSet(S)) /\ Contexts!Cardinality(S) = Cardinality(S)
  BY DEF Contexts!IsFiniteSet, IsFiniteSet, Contexts!Cardinality, Cardinality
<1>2. Contexts!ContextAssumption
  BY PartAssumptions
<1>3. \A u \in Workers : \A p \in u.places : p[1] \in Cids
  BY <1>2 DEF Contexts!ContextAssumption
<1>4. ASSUME NEW u \in Workers, NEW p \in u.places PROVE p[2] \in Stacks
  <2>1. p[2] \in {q[2] : q \in u.places}
    OBVIOUS
  <2> QED
    BY <2>1 DEF Stacks
<1> QED
  BY <1>1, <1>2, <1>3, <1>4 DEF Contexts!ContextAssumption

LEMMA Listed ==
  ASSUME NEW S, IsFiniteSet(S)
  PROVE  /\ Contexts!SetToSeq(S) \in Seq(S)
         /\ \A k, l \in DOMAIN Contexts!SetToSeq(S) : Contexts!SetToSeq(S)[k] = Contexts!SetToSeq(S)[l] => k = l
<1>1. Cardinality(S) \in Nat /\ ExistsBijection(1..Cardinality(S), S)
  BY FS_CardinalityType
<1>2. PICK f \in [1..Cardinality(S) -> S] : \A a, b \in 1..Cardinality(S) : f[a] = f[b] => a = b
  BY <1>1 DEF ExistsBijection, Bijection, Injection, IsInjective
<1>3. Contexts!IsInjective(f)
  BY <1>2 DEF Contexts!IsInjective
<1>4. Contexts!Cardinality(S) = Cardinality(S)
  BY DEF Contexts!Cardinality, Cardinality
<1>5. /\ Contexts!SetToSeq(S) \in [1..Cardinality(S) -> S]
      /\ Contexts!IsInjective(Contexts!SetToSeq(S))
  BY <1>2, <1>3, <1>4 DEF Contexts!SetToSeq
<1> QED
  BY <1>1, <1>5 DEF Contexts!IsInjective

LEMMA TableShape ==
  ASSUME NEW w, Sound(w)
  PROVE  /\ w \in Tables
         /\ w.contexts \in [Cids -> Structs \cup {Absent}] /\ w.content \in [Structs -> SUBSET Coroutines]
         /\ w.pool \in Seq(Structs) /\ w.current \in Current /\ w.allocs \in Nat /\ w.mark \in Nat
         /\ w.current.ctx \in Structs \cup {Absent} /\ w.current.cid \in Cids \cup {Absent}
         /\ Contexts!Nobody \in Current /\ Contexts!Nobody.ctx = Absent /\ Contexts!Nobody.cid = Absent
<1>1. w \in Tables
  BY DEF Sound
<1>2. w.current \in Current
  BY <1>1 DEF Tables
<1>3. /\ w.contexts \in [Cids -> Structs \cup {Absent}] /\ w.content \in [Structs -> SUBSET Coroutines]
      /\ w.pool \in Seq(Structs) /\ w.allocs \in Nat /\ w.mark \in Nat
  BY <1>1 DEF Tables
<1>4. w.current.ctx \in Structs \cup {Absent} /\ w.current.cid \in Cids \cup {Absent}
  BY <1>2 DEF Current
<1>5. Contexts!Nobody = [ctx |-> Absent, cid |-> Absent, stack |-> Absent] /\ Absent \in Stacks
  <2>1. Absent \in {Absent} /\ {Absent} \subseteq Stacks
    BY Zenon DEF Stacks
  <2> QED
    BY <2>1 DEF Contexts!Nobody
<1>6. Contexts!Nobody \in Current /\ Contexts!Nobody.ctx = Absent /\ Contexts!Nobody.cid = Absent
  BY <1>5 DEF Current
<1> QED
  BY <1>1, <1>2, <1>3, <1>4, <1>6

(* What nobody has any more goes to the pool, as far as there is room.     *)
LEMMA PoolFilled ==
  ASSUME NEW w, Sound(w), NEW S \in SUBSET Structs, NEW more \in Seq(S),
         \A k, l \in DOMAIN more : more[k] = more[l] => k = l,
         \A s \in S, k \in DOMAIN w.pool : s # w.pool[k],
         NEW m \in 0..Len(w.pool \o more)
  PROVE  LET pool == SubSeq(w.pool \o more, 1, m)
         IN  /\ pool \in Seq(Structs)
             /\ \A k, l \in DOMAIN pool : pool[k] = pool[l] => k = l
             /\ \A k \in DOMAIN pool : pool[k] \in S \/ \E l \in DOMAIN w.pool : pool[k] = w.pool[l]
<1> DEFINE all == w.pool \o more
           a == w.pool
           n == Len(w.pool)
<1>1. a \in Seq(Structs) /\ more \in Seq(Structs) /\ n \in Nat /\ Len(more) \in Nat /\ DOMAIN a = 1..n
      /\ DOMAIN more = 1..Len(more)
  <2>1. more \in Seq(Structs)
    BY SeqMonotonic
  <2> QED
    BY <2>1, TableShape, LenProperties
<1>2. /\ all \in Seq(Structs) /\ Len(all) = n + Len(more)
      /\ \A k \in 1..(n + Len(more)) : all[k] = IF k <= n THEN a[k] ELSE more[k - n]
  BY <1>1, ConcatProperties
<1>3. /\ \A k, l \in 1..n : a[k] = a[l] => k = l
      /\ \A k, l \in 1..Len(more) : more[k] = more[l] => k = l
      /\ \A k \in 1..Len(more) : more[k] \in S
      /\ \A s \in S, k \in 1..n : s # a[k]
  BY <1>1, ElementOfSeq DEF Sound
<1> HIDE DEF all, a, n
<1>4. \A k, l \in 1..Len(all) : all[k] = all[l] => k = l
  <2> SUFFICES ASSUME NEW k \in 1..Len(all), NEW l \in 1..Len(all), all[k] = all[l], k # l PROVE FALSE
    OBVIOUS
  <2>1. CASE k <= n /\ l <= n
    BY <1>1, <1>2, <1>3, <2>1
  <2>2. CASE k > n /\ l > n
    <3>1. k - n \in 1..Len(more) /\ l - n \in 1..Len(more) /\ more[k - n] = more[l - n]
      BY <1>1, <1>2, <2>2
    <3>2. k - n = l - n
      BY <1>3, <3>1
    <3> QED
      BY <1>1, <3>2
  <2>3. CASE k <= n /\ l > n
    BY <1>1, <1>2, <1>3, <2>3, l - n \in 1..Len(more)
  <2>4. CASE k > n /\ l <= n
    BY <1>1, <1>2, <1>3, <2>4, k - n \in 1..Len(more)
  <2> QED
    BY <1>1, <1>2, <2>1, <2>2, <2>3, <2>4
<1>5. \A k \in 1..Len(all) : all[k] \in S \/ \E l \in 1..n : all[k] = a[l]
  <2> SUFFICES ASSUME NEW k \in 1..Len(all) PROVE all[k] \in S \/ \E l \in 1..n : all[k] = a[l]
    OBVIOUS
  <2>1. CASE k <= n
    BY <1>1, <1>2, <2>1
  <2>2. CASE k > n
    BY <1>1, <1>2, <1>3, <2>2, k - n \in 1..Len(more)
  <2> QED
    BY <1>1, <1>2, <2>1, <2>2
<1>6. m \in 0..Len(all) /\ Len(all) \in Nat
  BY <1>1, <1>2 DEF all
<1>7. /\ SubSeq(all, 1, m) \in Seq(Structs) /\ Len(SubSeq(all, 1, m)) = m
      /\ \A k \in 1..m : SubSeq(all, 1, m)[k] = all[k]
  BY <1>2, <1>6, PrefixFacts
<1>8. DOMAIN SubSeq(all, 1, m) = 1..m /\ 1..m \subseteq 1..Len(all)
  BY <1>6, <1>7, LenProperties
<1> QED
  BY <1>1, <1>4, <1>5, <1>7, <1>8 DEF all, a, n

(* The current structure is dropped.                                       *)
LEMMA CurrentDropped ==
  ASSUME NEW w, Sound(w), NEW cur \in {w.current, Contexts!Nobody}
  PROVE  Sound([w EXCEPT !.current = cur]) /\ Loses(w, [w EXCEPT !.current = cur])
<1> DEFINE v == [w EXCEPT !.current = cur]
<1>1. /\ v \in Tables /\ v.contexts = w.contexts /\ v.content = w.content /\ v.pool = w.pool
      /\ v.current = cur
  BY TableShape DEF Tables
<1>2. cur = w.current \/ cur.ctx = Absent
  BY TableShape
<1> HIDE DEF v
<1>3. Sound(v)
  BY <1>1, <1>2 DEF Sound
<1>4. Loses(w, v)
  BY <1>1, <1>2 DEF Loses
<1> QED
  BY <1>3, <1>4 DEF v

(* Entries are forgotten: their structures are emptied, and pooled as far  *)
(* as there is room.                                                       *)
LEMMA Forgotten ==
  ASSUME NEW w, Sound(w), NEW v \in Tables, NEW ids \in SUBSET Cids,
         \A i \in Cids : v.contexts[i] = IF i \in ids THEN Absent ELSE w.contexts[i],
         \A s \in Structs :
            v.content[s] = IF \E i \in ids : w.contexts[i] = s THEN {} ELSE w.content[s],
         v.current = IF \E i \in ids : w.contexts[i] # Absent /\ w.contexts[i] = w.current.ctx
                       THEN Contexts!Nobody ELSE w.current,
         \A k, l \in DOMAIN v.pool : v.pool[k] = v.pool[l] => k = l,
         \A k \in DOMAIN v.pool :
            \/ \E i \in ids : w.contexts[i] = v.pool[k]
            \/ \E l \in DOMAIN w.pool : v.pool[k] = w.pool[l]
  PROVE  Sound(v) /\ Loses(w, v)
<1>1. /\ \A i, j \in Cids : w.contexts[i] # Absent /\ w.contexts[i] = w.contexts[j] => i = j
      /\ \A i \in Cids, k \in DOMAIN w.pool : w.contexts[i] # w.pool[k]
      /\ \A s \in Structs : w.content[s] # {} => \E i \in Cids : w.contexts[i] = s
      /\ w.current.ctx # Absent => w.current.cid \in Cids /\ w.contexts[w.current.cid] = w.current.ctx
      /\ \A i \in Cids : w.contexts[i] \in Structs \cup {Absent}
  BY TableShape DEF Sound
<1>2. \A k \in DOMAIN v.pool : v.pool[k] \in Structs
  BY ElementOfSeq, LenProperties DEF Tables
<1>3. \A i, j \in Cids : v.contexts[i] # Absent /\ v.contexts[i] = v.contexts[j] => i = j
  BY <1>1
<1>4. \A i \in Cids, k \in DOMAIN v.pool : v.contexts[i] # v.pool[k]
  BY <1>1, <1>2, ContextAssumed
<1>5. \A s \in Structs : v.content[s] # {} => \E i \in Cids : v.contexts[i] = s
  BY <1>1
<1>6. v.current.ctx # Absent => v.current.cid \in Cids /\ v.contexts[v.current.cid] = v.current.ctx
  BY <1>1, TableShape
<1>7. Sound(v)
  BY <1>3, <1>4, <1>5, <1>6 DEF Sound
<1>8. Loses(w, v)
  BY TableShape DEF Loses
<1> QED
  BY <1>7, <1>8

LEMMA ForgetKeeps ==
  ASSUME NEW w, Sound(w), NEW i \in Cids
  PROVE  LET v == Contexts!Forget(w, i)
         IN  /\ Sound(v) /\ Loses(w, v) /\ v.contexts[i] = Absent
             /\ \A j \in Cids : j # i => v.contexts[j] = w.contexts[j]
<1> DEFINE v == Contexts!Forget(w, i)
<1>1. CASE w.contexts[i] = Absent
  BY <1>1, TableShape DEF Contexts!Forget, Loses
<1>2. CASE w.contexts[i] # Absent
  <2> DEFINE s == w.contexts[i]
             pool == IF Len(w.pool) < PoolMax THEN Append(w.pool, s) ELSE w.pool
             cur == IF w.current.ctx = s THEN Contexts!Nobody ELSE w.current
  <2>1. s \in Structs
    BY <1>2, TableShape
  <2>2. v = [w EXCEPT !.contexts = [w.contexts EXCEPT ![i] = Absent], !.current = cur,
                      !.content = [w.content EXCEPT ![s] = {}], !.pool = pool]
    BY <1>2, TableShape DEF Contexts!Forget, Contexts!Recycle, Tables
  <2>3. w.pool \in Seq(Structs) /\ Len(w.pool) \in Nat /\ DOMAIN w.pool = 1..Len(w.pool)
        /\ (\A k \in DOMAIN w.pool : w.pool[k] # s)
        /\ (\A k, l \in DOMAIN w.pool : w.pool[k] = w.pool[l] => k = l)
    BY TableShape, LenProperties DEF Sound
  <2>4. /\ pool \in Seq(Structs)
        /\ \A k, l \in DOMAIN pool : pool[k] = pool[l] => k = l
        /\ \A k \in DOMAIN pool : pool[k] = s \/ \E l \in DOMAIN w.pool : pool[k] = w.pool[l]
    <3>1. CASE Len(w.pool) < PoolMax
      <4>1. /\ pool = Append(w.pool, s) /\ Append(w.pool, s) \in Seq(Structs)
            /\ Len(Append(w.pool, s)) = Len(w.pool) + 1
            /\ \A k \in 1..Len(w.pool) : Append(w.pool, s)[k] = w.pool[k]
            /\ Append(w.pool, s)[Len(w.pool) + 1] = s
        BY <2>1, <2>3, <3>1, AppendProperties
      <4>2. DOMAIN Append(w.pool, s) = 1..(Len(w.pool) + 1)
            /\ \A k \in 1..(Len(w.pool) + 1) : k = Len(w.pool) + 1 \/ k \in 1..Len(w.pool)
        BY <2>3, <4>1, LenProperties
      <4> HIDE DEF pool, s, v
      <4> QED
        BY <2>3, <4>1, <4>2
    <3>2. CASE ~(Len(w.pool) < PoolMax)
      BY <2>3, <3>2
    <3> QED
      BY <3>1, <3>2
  <2>5. cur \in Current
    BY TableShape
  <2> HIDE DEF pool, cur
  <2>6. /\ v \in Tables /\ v.contexts = [w.contexts EXCEPT ![i] = Absent] /\ v.current = cur
        /\ v.content = [w.content EXCEPT ![s] = {}] /\ v.pool = pool
    <3>1. /\ [w.contexts EXCEPT ![i] = Absent] \in [Cids -> Structs \cup {Absent}]
          /\ [w.content EXCEPT ![s] = {}] \in [Structs -> SUBSET Coroutines]
      BY <2>1, TableShape
    <3> HIDE DEF s
    <3> QED
      BY <2>2, <2>4, <2>5, <3>1, TableShape DEF Tables
  <2> HIDE DEF v
  <2>7. /\ \A j \in Cids : v.contexts[j] = IF j \in {i} THEN Absent ELSE w.contexts[j]
        /\ \A x \in Structs : v.content[x] = IF \E j \in {i} : w.contexts[j] = x THEN {} ELSE w.content[x]
    BY <2>6, TableShape
  <2>8. v.current = IF \E j \in {i} : w.contexts[j] # Absent /\ w.contexts[j] = w.current.ctx
                      THEN Contexts!Nobody ELSE w.current
    BY <1>2, <2>6 DEF cur
  <2>9. /\ \A k, l \in DOMAIN v.pool : v.pool[k] = v.pool[l] => k = l
        /\ \A k \in DOMAIN v.pool :
              \/ \E j \in {i} : w.contexts[j] = v.pool[k]
              \/ \E l \in DOMAIN w.pool : v.pool[k] = w.pool[l]
    BY <2>4, <2>6
  <2>10. Sound(v) /\ Loses(w, v)
    <3> HIDE DEF s
    <3> QED
      BY <2>6, <2>7, <2>8, <2>9, Forgotten, {i} \in SUBSET Cids
  <2> QED
    BY <2>7, <2>10 DEF v
<1> QED
  BY <1>1, <1>2

LEMMA ForgetAllKeeps ==
  ASSUME NEW w, Sound(w), NEW ids \in SUBSET Cids
  PROVE  LET v == Contexts!ForgetAll(w, ids)
         IN  /\ Sound(v) /\ Loses(w, v) /\ v.mark = w.mark
             /\ \A j \in Cids \ ids : v.contexts[j] = w.contexts[j]
<1> DEFINE v == Contexts!ForgetAll(w, ids)
           lost == {w.contexts[i] : i \in ids} \ {Absent}
           more == Contexts!SetToSeq(lost)
           both == w.pool \o more
           m == IF Len(both) < PoolMax THEN Len(both) ELSE PoolMax
           pool == SubSeq(both, 1, m)
           cur == IF w.current.ctx \in lost THEN Contexts!Nobody ELSE w.current
           entries == [i \in Cids |-> IF i \in ids THEN Absent ELSE w.contexts[i]]
           left == [s \in Structs |-> IF s \in lost THEN {} ELSE w.content[s]]
<1>1. lost \in SUBSET Structs /\ IsFiniteSet(lost)
  <2>1. lost \subseteq Structs
    BY TableShape
  <2> QED
    BY <2>1, ContextAssumed, FS_Subset
<1>2. v = [w EXCEPT !.contexts = entries, !.current = cur, !.content = left, !.pool = pool]
  BY TableShape DEF Contexts!ForgetAll, Tables
<1>3. \A s \in lost, k \in DOMAIN w.pool : s # w.pool[k]
  BY DEF Sound
<1>4. more \in Seq(lost) /\ \A k, l \in DOMAIN more : more[k] = more[l] => k = l
  BY <1>1, Listed
<1>5. both \in Seq(Structs)
  <2>1. more \in Seq(Structs)
    BY <1>1, <1>4, SeqMonotonic
  <2> QED
    BY <2>1, TableShape, ConcatProperties
<1>6. m \in 0..Len(both)
  <2>1. Len(both) \in Nat /\ PoolMax \in Nat
    BY <1>5, ContextAssumed, LenProperties
  <2> HIDE DEF both
  <2> QED
    BY <2>1
<1> HIDE DEF m, more
<1>7. /\ pool \in Seq(Structs)
      /\ \A k, l \in DOMAIN pool : pool[k] = pool[l] => k = l
      /\ \A k \in DOMAIN pool : pool[k] \in lost \/ \E l \in DOMAIN w.pool : pool[k] = w.pool[l]
  <2> HIDE DEF lost
  <2> QED
    BY <1>1, <1>3, <1>4, <1>6, PoolFilled
<1>8. cur \in Current /\ left \in [Structs -> SUBSET Coroutines] /\ entries \in [Cids -> Structs \cup {Absent}]
  BY TableShape
<1>9. \A s : s \in lost <=> s # Absent /\ \E i \in ids : w.contexts[i] = s
  OBVIOUS
<1> HIDE DEF pool, cur, entries, left, v, lost
<1>10. /\ v \in Tables /\ v.contexts = entries /\ v.current = cur /\ v.content = left /\ v.pool = pool
       /\ v.mark = w.mark
  <2>1. w \in Tables /\ pool \in Seq(Structs)
    BY <1>7, TableShape
  <2> QED
    BY ONLY <1>2, <1>8, <2>1 DEF Tables
<1>11. \A i \in Cids : v.contexts[i] = IF i \in ids THEN Absent ELSE w.contexts[i]
  BY <1>10 DEF entries
<1>12. \A s \in Structs : v.content[s] = IF \E i \in ids : w.contexts[i] = s THEN {} ELSE w.content[s]
  BY <1>9, <1>10, ContextAssumed DEF left
<1>13. v.current = IF \E i \in ids : w.contexts[i] # Absent /\ w.contexts[i] = w.current.ctx
                     THEN Contexts!Nobody ELSE w.current
  BY <1>9, <1>10 DEF cur
<1>14. \A k \in DOMAIN v.pool :
         \/ \E i \in ids : w.contexts[i] = v.pool[k]
         \/ \E l \in DOMAIN w.pool : v.pool[k] = w.pool[l]
  BY <1>7, <1>9, <1>10
<1>15. Sound(v) /\ Loses(w, v)
  BY <1>7, <1>10, <1>11, <1>12, <1>13, <1>14, Forgotten
<1> QED
  BY <1>10, <1>11, <1>15 DEF v

LEMMA SweptKeeps ==
  ASSUME NEW w, Sound(w)
  PROVE  LET v == Contexts!Swept(w)
         IN  /\ Sound(v) /\ Loses(w, v)
             /\ \A j \in Cids : Contexts!Alive(j) => v.contexts[j] = w.contexts[j]
<1> DEFINE v == Contexts!Swept(w)
           reset == [w EXCEPT !.allocs = 0]
           u == Contexts!Sweep(reset)
           ids == {i \in Contexts!Tracked(reset) : i # reset.current.cid /\ ~Contexts!Alive(i)}
<1>1. /\ Sound(reset) /\ reset.contexts = w.contexts /\ reset.content = w.content /\ reset.current = w.current
      /\ reset.mark = w.mark
  <2>1. /\ reset \in Tables /\ reset.contexts = w.contexts /\ reset.content = w.content
        /\ reset.current = w.current /\ reset.pool = w.pool /\ reset.mark = w.mark
    BY TableShape DEF Tables
  <2> HIDE DEF reset
  <2> QED
    BY <2>1 DEF Sound
<1>2. ids \in SUBSET Cids /\ \A i \in ids : ~Contexts!Alive(i)
  BY DEF Contexts!Tracked
<1>3. u = reset \/ u = Contexts!ForgetAll(reset, ids)
  BY DEF Contexts!Sweep
<1> HIDE DEF reset, ids, u
<1>4. Sound(u) /\ Loses(reset, u) /\ \A j \in Cids : Contexts!Alive(j) => u.contexts[j] = reset.contexts[j]
  <2>1. CASE u = reset
    BY <1>1, <2>1, TableShape DEF Loses
  <2>2. CASE u = Contexts!ForgetAll(reset, ids)
    BY <1>1, <1>2, <2>2, ForgetAllKeeps
  <2> QED
    BY <1>3, <2>1, <2>2
<1>5. v = w \/ v = [u EXCEPT !.mark = Contexts!Cardinality(Contexts!Tracked(u))]
  BY DEF Contexts!Swept, u, reset
<1>6. CASE v = w
  BY <1>6, TableShape DEF Loses
<1>7. CASE v = [u EXCEPT !.mark = Contexts!Cardinality(Contexts!Tracked(u))]
  <2> DEFINE n == Contexts!Cardinality(Contexts!Tracked(u))
  <2>1. n \in Nat
    <3>1. Contexts!Tracked(u) \in SUBSET Cids
      BY DEF Contexts!Tracked
    <3>2. n = Cardinality(Contexts!Tracked(u))
      BY DEF Contexts!Cardinality, Cardinality
    <3> QED
      BY <3>1, <3>2, ContextAssumed, FS_Subset, FS_CardinalityType
  <2> HIDE DEF n, v
  <2>2. /\ v \in Tables /\ v.contexts = u.contexts /\ v.content = u.content
        /\ v.current = u.current /\ v.pool = u.pool
    BY <1>4, <1>7, <2>1, TableShape DEF Tables, n
  <2>3. Sound(v)
    BY <1>4, <2>2 DEF Sound
  <2>4. Loses(w, v)
    BY <1>1, <1>4, <2>2 DEF Loses
  <2> QED
    BY <1>1, <1>4, <2>2, <2>3, <2>4 DEF v
<1> QED
  BY <1>5, <1>6, <1>7

(* Coroutines whose number and stack are nobody else's, and those whose    *)
(* context may still be there.                                             *)
Pcs == {"unborn", "born", "bound", "inside", "nested", "left", "clean", "dead"}
Numbered == IF kind.reuse THEN Contexts!Born ELSE {c \in Coroutines : co[c].pc # "unborn"}
Told ==
    /\ co \in [Coroutines -> [pc: Pcs, cid: Cids \cup {Absent}, stack: Stacks]]
    /\ \A c \in Numbered : co[c].cid \in Cids
    /\ \A c, d \in Numbered : co[c].cid = co[d].cid \/ co[c].stack = co[d].stack => c = d

(* What was written for an id was written by who has the id.               *)
Owned(w) ==
    /\ \A i \in Cids : \A c \in Coroutines :
          w.contexts[i] # Absent /\ c \in w.content[w.contexts[i]] => c \in Numbered /\ co[c].cid = i
    /\ w.current.ctx # Absent =>
          \E c \in Numbered : co[c].cid = w.current.cid /\ co[c].stack = w.current.stack

(* What a coroutine does to the contexts of others: those of coroutines    *)
(* that are gone may go.                                                   *)
Touches(w, v, c) ==
    \A j \in Cids \ {co[c].cid} :
        /\ v.contexts[j] \in {w.contexts[j], Absent}
        /\ Contexts!Alive(j) => v.contexts[j] = w.contexts[j]

LEMMA BornNumbered ==
  ASSUME Told, NEW c \in Contexts!Born
  PROVE  /\ c \in Numbered /\ c \in Coroutines /\ co[c].cid \in Cids /\ co[c].stack \in Stacks
         /\ Contexts!Alive(co[c].cid)
<1>1. c \in Coroutines /\ co[c].pc # "unborn"
  BY DEF Contexts!Born
<1>2. c \in Numbered
  BY <1>1 DEF Numbered
<1> QED
  BY <1>1, <1>2 DEF Told, Contexts!Alive

LEMMA LosesOwned ==
  ASSUME NEW w, Sound(w), NEW v, Sound(v), Loses(w, v), Owned(w)
  PROVE  Owned(v)
<1>1. ASSUME NEW i \in Cids, NEW c \in Coroutines, v.contexts[i] # Absent, c \in v.content[v.contexts[i]]
      PROVE  c \in Numbered /\ co[c].cid = i
  <2>1. v.contexts[i] = w.contexts[i] /\ w.contexts[i] \in Structs
    BY <1>1, TableShape DEF Loses
  <2>2. c \in w.content[w.contexts[i]]
    BY <1>1, <2>1 DEF Loses
  <2> QED
    BY <1>1, <2>1, <2>2 DEF Owned
<1> QED
  BY <1>1 DEF Owned, Loses

LEMMA FreshStruct ==
  ASSUME NEW w, Sound(w)
  PROVE  \E s \in Structs : \A i \in Cids : w.contexts[i] # s
<1> DEFINE T == {w.contexts[i] : i \in Cids}
<1> SUFFICES ASSUME Structs \subseteq T PROVE FALSE
  OBVIOUS
<1>1. w.contexts \in Surjection(Cids, T)
  BY TableShape DEF Surjection
<1>2. IsFiniteSet(T) /\ Cardinality(T) <= Cardinality(Cids)
  BY <1>1, ContextAssumed, FS_Surjection
<1>3. Cardinality(Structs) <= Cardinality(T)
  BY <1>2, FS_Subset
<1>4. Cardinality(T) \in Nat /\ Cardinality(Cids) \in Nat /\ Cardinality(Structs) \in Nat
  BY <1>2, ContextAssumed, FS_CardinalityType
<1> HIDE DEF T
<1> QED
  BY <1>2, <1>3, <1>4, ContextAssumed

(* A coroutine is given a structure that nobody has and nothing is in.     *)
LEMMA AllocateKeeps ==
  ASSUME NEW w, Sound(w), Owned(w), Told, NEW c \in Contexts!Born, w.contexts[co[c].cid] = Absent
  PROVE  LET v == Contexts!Allocate(w, c)
         IN  /\ Sound(v) /\ Owned(v) /\ Touches(w, v, c)
             /\ v.current.ctx # Absent /\ v.current.cid = co[c].cid /\ v.contexts[co[c].cid] = v.current.ctx
<1> DEFINE v == Contexts!Allocate(w, c)
           u == Contexts!Swept(w)
           id == co[c].cid
           used == {u.contexts[i] : i \in Cids} \cup {u.pool[k] : k \in DOMAIN u.pool}
           s == IF u.pool # <<>> THEN u.pool[Len(u.pool)] ELSE CHOOSE x \in Structs : x \notin used
           pool == IF u.pool # <<>> THEN SubSeq(u.pool, 1, Len(u.pool) - 1) ELSE u.pool
           cur == [ctx |-> s, cid |-> id, stack |-> co[c].stack]
<1>1. Sound(u) /\ Loses(w, u) /\ \A j \in Cids : Contexts!Alive(j) => u.contexts[j] = w.contexts[j]
  BY SweptKeeps
<1>2. v = [u EXCEPT !.contexts = [u.contexts EXCEPT ![id] = s], !.pool = pool, !.allocs = u.allocs + 1,
                    !.current = cur]
  BY DEF Contexts!Allocate
<1> HIDE DEF u
<1>3. /\ s \in Structs /\ \A i \in Cids : u.contexts[i] # s
      /\ pool \in Seq(Structs)
      /\ \A k, l \in DOMAIN pool : pool[k] = pool[l] => k = l
      /\ \A k \in DOMAIN pool : pool[k] # s /\ \E l \in DOMAIN u.pool : pool[k] = u.pool[l]
  <2> DEFINE n == Len(u.pool)
  <2>1. /\ u.pool \in Seq(Structs) /\ n \in Nat /\ DOMAIN u.pool = 1..n
        /\ \A k, l \in 1..n : u.pool[k] = u.pool[l] => k = l
        /\ \A i \in Cids, k \in 1..n : u.contexts[i] # u.pool[k]
    BY <1>1, TableShape, LenProperties DEF Sound
  <2>2. CASE u.pool # <<>>
    <3>1. n > 0
      BY <2>1, <2>2, EmptySeq
    <3>2. s = u.pool[n] /\ pool = SubSeq(u.pool, 1, n - 1) /\ n \in 1..n /\ n - 1 \in 0..n
      BY <2>1, <2>2, <3>1
    <3>3. u.pool[n] \in Structs
      BY <2>1, <3>2, ElementOfSeq
    <3>4. /\ SubSeq(u.pool, 1, n - 1) \in Seq(Structs) /\ Len(SubSeq(u.pool, 1, n - 1)) = n - 1
          /\ \A k \in 1..(n - 1) : SubSeq(u.pool, 1, n - 1)[k] = u.pool[k]
      BY <2>1, <3>2, PrefixFacts
    <3>5. DOMAIN SubSeq(u.pool, 1, n - 1) = 1..(n - 1) /\ \A k \in 1..(n - 1) : k \in 1..n /\ k # n
      BY <2>1, <3>1, <3>4, LenProperties
    <3> HIDE DEF s, pool, n, used
    <3> QED
      BY <2>1, <3>2, <3>3, <3>4, <3>5
  <2>3. CASE u.pool = <<>>
    <3>1. pool = <<>> /\ DOMAIN u.pool = {} /\ u.pool = pool
      BY <2>3
    <3>2. \E x \in Structs : x \notin used
      BY <1>1, <3>1, FreshStruct
    <3>3. s \in Structs /\ s \notin used
      BY <2>3, <3>2
    <3>4. \A i \in Cids : u.contexts[i] \in used
      OBVIOUS
    <3> HIDE DEF s, pool, used, n
    <3> QED
      BY <2>1, <3>1, <3>3, <3>4
  <2> QED
    BY <2>2, <2>3
<1>4. c \in Numbered /\ c \in Coroutines /\ id \in Cids /\ co[c].stack \in Stacks
  BY BornNumbered
<1>5. /\ cur \in Current /\ cur.ctx = s /\ cur.cid = id /\ cur.stack = co[c].stack
      /\ [u.contexts EXCEPT ![id] = s] \in [Cids -> Structs \cup {Absent}]
      /\ u.allocs + 1 \in Nat
  BY <1>1, <1>3, <1>4, TableShape DEF Current
<1> HIDE DEF s, pool, cur, used, v
<1>6. /\ v \in Tables /\ v.contexts = [u.contexts EXCEPT ![id] = s] /\ v.current = cur
      /\ v.content = u.content /\ v.pool = pool
  <2>1. u \in Tables
    BY <1>1, TableShape
  <2> QED
    BY ONLY <1>2, <1>3, <1>5, <2>1 DEF Tables
<1>7. \A i \in Cids : v.contexts[i] = IF i = id THEN s ELSE u.contexts[i]
  BY <1>1, <1>4, <1>6, TableShape
<1>8. u.contexts[id] = Absent /\ u.content[s] = {} /\ s # Absent
  <2>1. u.contexts[id] = Absent
    BY <1>1, <1>4 DEF Loses
  <2>2. u.content[s] = {}
    BY <1>1, <1>3 DEF Sound
  <2> QED
    BY <1>3, <2>1, <2>2, ContextAssumed
<1>9. Sound(v)
  <2>1. \A i, j \in Cids : v.contexts[i] # Absent /\ v.contexts[i] = v.contexts[j] => i = j
    BY <1>1, <1>3, <1>7 DEF Sound
  <2>2. \A i \in Cids, k \in DOMAIN v.pool : v.contexts[i] # v.pool[k]
    BY <1>1, <1>3, <1>6, <1>7 DEF Sound
  <2>3. \A x \in Structs : v.content[x] # {} => \E i \in Cids : v.contexts[i] = x
    <3> SUFFICES ASSUME NEW x \in Structs, u.content[x] # {} PROVE \E i \in Cids : v.contexts[i] = x
      BY <1>6
    <3>1. PICK i \in Cids : u.contexts[i] = x
      BY <1>1 DEF Sound
    <3> QED
      BY <1>7, <1>8, <3>1, ContextAssumed
  <2> QED
    BY <1>3, <1>4, <1>5, <1>6, <1>7, <2>1, <2>2, <2>3 DEF Sound
<1>10. Owned(v)
  <2>1. Owned(u)
    BY <1>1, LosesOwned
  <2>2. ASSUME NEW i \in Cids, NEW d \in Coroutines, v.contexts[i] # Absent, d \in v.content[v.contexts[i]]
        PROVE  d \in Numbered /\ co[d].cid = i
    BY <1>6, <1>7, <1>8, <2>1, <2>2 DEF Owned
  <2> QED
    BY <1>4, <1>5, <1>6, <2>2 DEF Owned
<1>11. Touches(w, v, c)
  BY <1>1, <1>7 DEF Touches, Loses
<1> QED
  BY <1>4, <1>5, <1>6, <1>7, <1>8, <1>9, <1>10, <1>11 DEF v

LEMMA ResolveKeeps ==
  ASSUME NEW w, Sound(w), Owned(w), Told, NEW c \in Contexts!Born
  PROVE  LET v == Contexts!Resolve(w, c)
         IN  /\ Sound(v) /\ Owned(v) /\ Touches(w, v, c)
             /\ v.current.ctx # Absent /\ v.current.cid = co[c].cid /\ v.contexts[co[c].cid] = v.current.ctx
<1> DEFINE v == Contexts!Resolve(w, c)
           id == co[c].cid
           own == w.contexts[id]
           stale == [w EXCEPT !.current = Contexts!Nobody]
<1>1. c \in Numbered /\ c \in Coroutines /\ id \in Cids /\ co[c].stack \in Stacks
  BY BornNumbered
<1>2. CASE w.current.ctx # Absent /\ w.current.stack = co[c].stack
  <2>1. v = w
    BY <1>2 DEF Contexts!Resolve
  <2>2. PICK d \in Numbered : co[d].cid = w.current.cid /\ co[d].stack = w.current.stack
    BY <1>2 DEF Owned
  <2>3. d = c
    BY <1>1, <1>2, <2>2 DEF Told
  <2>4. w.contexts[w.current.cid] = w.current.ctx
    BY <1>2 DEF Sound
  <2> HIDE DEF v
  <2>5. Touches(w, v, c)
    BY <2>1 DEF Touches
  <2> QED
    BY <1>2, <2>1, <2>2, <2>3, <2>4, <2>5 DEF v
<1>3. CASE ~(w.current.ctx # Absent /\ w.current.stack = co[c].stack) /\ own # Absent
  <2> DEFINE cur == [ctx |-> own, cid |-> id, stack |-> co[c].stack]
  <2>1. v = [w EXCEPT !.current = cur]
    BY <1>3 DEF Contexts!Resolve
  <2>2. cur \in Current /\ cur.ctx = own /\ cur.cid = id /\ cur.stack = co[c].stack
    BY <1>1, TableShape DEF Current
  <2> HIDE DEF cur, v
  <2>3. /\ v \in Tables /\ v.contexts = w.contexts /\ v.content = w.content /\ v.pool = w.pool
        /\ v.current = cur
    BY <2>1, <2>2, TableShape DEF Tables
  <2>4. Sound(v)
    BY <1>1, <2>2, <2>3 DEF Sound
  <2>5. Owned(v)
    BY <1>1, <2>2, <2>3 DEF Owned
  <2>6. Touches(w, v, c)
    BY <2>3 DEF Touches
  <2> QED
    BY <1>3, <2>2, <2>3, <2>4, <2>5, <2>6 DEF v
<1>4. CASE ~(w.current.ctx # Absent /\ w.current.stack = co[c].stack) /\ own = Absent
  <2> DEFINE u == IF w.current.ctx # Absent /\ w.current.cid = co[c].cid THEN stale ELSE w
  <2>1. v = Contexts!Allocate(u, c)
    BY <1>4 DEF Contexts!Resolve
  <2>2. Sound(stale) /\ Loses(w, stale) /\ stale.contexts = w.contexts
    <3>1. Sound(stale) /\ Loses(w, stale)
      BY CurrentDropped
    <3>2. stale.contexts = w.contexts
      BY TableShape DEF Tables
    <3> QED
      BY <3>1, <3>2
  <2>3. Sound(u) /\ Owned(u) /\ u.contexts = w.contexts
    BY <2>2, LosesOwned
  <2> HIDE DEF u, v
  <2>4. /\ Sound(v) /\ Owned(v) /\ Touches(u, v, c)
        /\ v.current.ctx # Absent /\ v.current.cid = co[c].cid /\ v.contexts[co[c].cid] = v.current.ctx
    BY <1>4, <2>1, <2>3, AllocateKeeps
  <2>5. Touches(w, v, c)
    BY <2>3, <2>4 DEF Touches
  <2> QED
    BY <2>4, <2>5 DEF v
<1> QED
  BY <1>2, <1>3, <1>4

LEMMA ContentWritten ==
  ASSUME NEW w, Sound(w), Owned(w), Told, NEW c \in Contexts!Born,
         w.current.ctx # Absent, w.current.cid = co[c].cid
  PROVE  LET v == Contexts!Written(w, c)
         IN  Sound(v) /\ Owned(v) /\ v.contexts = w.contexts
<1> DEFINE v == Contexts!Written(w, c)
           s == w.current.ctx
           left == [w.content EXCEPT ![s] = w.content[s] \cup {c}]
<1>1. s \in Structs /\ c \in Coroutines /\ c \in Numbered /\ left \in [Structs -> SUBSET Coroutines]
  BY TableShape, BornNumbered
<1>2. v = [w EXCEPT !.content = left]
  BY DEF Contexts!Written
<1> HIDE DEF left, v
<1>3. /\ v \in Tables /\ v.contexts = w.contexts /\ v.content = left /\ v.pool = w.pool
      /\ v.current = w.current
  BY <1>1, <1>2, TableShape DEF Tables
<1>4. \A x \in Structs : left[x] = IF x = s THEN w.content[s] \cup {c} ELSE w.content[x]
  BY <1>1, TableShape DEF left
<1>5. w.contexts[co[c].cid] = s /\ co[c].cid \in Cids
  BY DEF Sound
<1>6. Sound(v)
  BY <1>3, <1>4, <1>5 DEF Sound
<1>7. ASSUME NEW i \in Cids, NEW d \in Coroutines, v.contexts[i] # Absent, d \in v.content[v.contexts[i]]
      PROVE  d \in Numbered /\ co[d].cid = i
  <2>1. w.contexts[i] \in Structs
    BY <1>3, <1>7, TableShape
  <2>2. CASE w.contexts[i] = s
    <3>1. i = co[c].cid
      BY <1>3, <1>5, <1>7, <2>2 DEF Sound
    <3> QED
      BY <1>1, <1>3, <1>4, <1>7, <2>1, <2>2, <3>1 DEF Owned
  <2>3. CASE w.contexts[i] # s
    BY <1>3, <1>4, <1>7, <2>1, <2>3 DEF Owned
  <2> QED
    BY <2>2, <2>3
<1> QED
  BY <1>3, <1>6, <1>7 DEF Owned, v

(* Code that uses the context finds in it what the coroutine wrote itself. *)
LEMMA UseKeeps ==
  ASSUME Sound(worker), Owned(worker), Told, foreign = FALSE, NEW c \in Contexts!Born,
         Contexts!Use(worker, c)
  PROVE  /\ Sound(worker') /\ Owned(worker') /\ Touches(worker, worker', c)
         /\ worker'.contexts[co[c].cid] # Absent /\ foreign' = FALSE
<1> DEFINE u == Contexts!Resolve(worker, c)
<1>1. /\ Sound(u) /\ Owned(u) /\ Touches(worker, u, c)
      /\ u.current.ctx # Absent /\ u.current.cid = co[c].cid /\ u.contexts[co[c].cid] = u.current.ctx
  BY ResolveKeeps
<1>2. foreign' = (foreign \/ u.content[u.current.ctx] \ {c} # {}) /\ worker' = Contexts!Written(u, c)
  BY DEF Contexts!Use
<1> HIDE DEF u
<1>3. c \in Numbered /\ co[c].cid \in Cids
  BY BornNumbered
<1>4. u.content[u.current.ctx] \subseteq Coroutines
  BY <1>1, TableShape
<1>5. \A d \in u.content[u.current.ctx] : d = c
  BY <1>1, <1>3, <1>4 DEF Owned, Told
<1>6. Sound(worker') /\ Owned(worker') /\ worker'.contexts = u.contexts
  BY <1>1, <1>2, ContentWritten
<1> QED
  BY <1>1, <1>2, <1>5, <1>6 DEF Touches

LEMMA GoneKeeps ==
  ASSUME NEW w, Sound(w), Owned(w), NEW c, co[c].cid \in Cids
  PROVE  LET v == Contexts!Gone(w, c)
         IN  Sound(v) /\ Owned(v) /\ Touches(w, v, c) /\ v.contexts[co[c].cid] = Absent
<1> DEFINE cur == IF w.current.cid = co[c].cid THEN Contexts!Nobody ELSE w.current
           u == [w EXCEPT !.current = cur]
           v == Contexts!Forget(u, co[c].cid)
<1>1. Contexts!Gone(w, c) = v
  BY DEF Contexts!Gone
<1>2. Sound(u) /\ Loses(w, u)
  BY CurrentDropped
<1>3. u.contexts = w.contexts
  BY TableShape DEF Tables
<1> HIDE DEF u, cur
<1>4. /\ Sound(v) /\ Loses(u, v) /\ v.contexts[co[c].cid] = Absent
      /\ \A j \in Cids : j # co[c].cid => v.contexts[j] = u.contexts[j]
  BY <1>2, ForgetKeeps
<1> HIDE DEF v
<1>5. Owned(v)
  BY <1>2, <1>4, LosesOwned
<1> QED
  BY <1>1, <1>3, <1>4, <1>5 DEF Touches

(* cleanup(), and what a destructor does to the context that goes.         *)
LEMMA CleanedUpKeeps ==
  ASSUME NEW w, Sound(w), Owned(w), Told, NEW c \in Contexts!Born
  PROVE  LET v == Contexts!CleanedUp(w, c)
         IN  Sound(v) /\ Owned(v) /\ Touches(w, v, c) /\ (~kind.touch => v.contexts[co[c].cid] = Absent)
<1> DEFINE i == IF w.current.ctx # Absent /\ w.current.stack = co[c].stack THEN w.current.cid ELSE co[c].cid
           u == Contexts!Gone(w, c)
           r == Contexts!Resolve(u, c)
           v == Contexts!CleanedUp(w, c)
<1>1. c \in Numbered /\ co[c].cid \in Cids
  BY BornNumbered
<1>2. i = co[c].cid
  <2>1. CASE w.current.ctx # Absent /\ w.current.stack = co[c].stack
    <3>1. PICK d \in Numbered : co[d].cid = w.current.cid /\ co[d].stack = w.current.stack
      BY <2>1 DEF Owned
    <3> QED
      BY <1>1, <2>1, <3>1 DEF Told
  <2> QED
    BY <2>1
<1>3. v = IF kind.touch /\ w.contexts[co[c].cid] # Absent THEN Contexts!Written(r, c) ELSE u
  BY <1>2 DEF Contexts!CleanedUp, Contexts!Gone
<1>4. Sound(u) /\ Owned(u) /\ Touches(w, u, c) /\ u.contexts[co[c].cid] = Absent
  BY <1>1, GoneKeeps
<1> HIDE DEF u, v, r, i
<1>5. CASE v = u /\ ~(kind.touch /\ w.contexts[co[c].cid] # Absent)
  BY <1>4, <1>5 DEF v
<1>6. CASE kind.touch /\ v = Contexts!Written(r, c)
  <2>1. /\ Sound(r) /\ Owned(r) /\ Touches(u, r, c)
        /\ r.current.ctx # Absent /\ r.current.cid = co[c].cid
    BY <1>4, ResolveKeeps DEF r
  <2>2. Sound(v) /\ Owned(v) /\ v.contexts = r.contexts
    BY <1>6, <2>1, ContentWritten
  <2>3. Touches(w, v, c)
    BY <1>4, <2>1, <2>2 DEF Touches
  <2> QED
    BY <1>6, <2>2, <2>3 DEF v
<1> QED
  BY <1>3, <1>5, <1>6

LEMMA DeferredKeeps ==
  ASSUME NEW w, Sound(w), Owned(w), Told, NEW c \in Contexts!Born
  PROVE  LET v == Contexts!Deferred(w, c)
         IN  /\ Sound(v) /\ Owned(v) /\ Touches(w, v, c)
             /\ kind.auto /\ kind.defer => v.contexts[co[c].cid] = Absent
             /\ ~(kind.auto /\ kind.defer) => v = w
<1> DEFINE v == Contexts!Deferred(w, c)
           u == Contexts!Gone(w, c)
           r == Contexts!Resolve(u, c)
           x == Contexts!Written(r, c)
<1>1. c \in Numbered /\ co[c].cid \in Cids
  BY BornNumbered
<1>2. Sound(u) /\ Owned(u) /\ Touches(w, u, c) /\ u.contexts[co[c].cid] = Absent
  BY <1>1, GoneKeeps
<1>3. CASE ~(kind.auto /\ kind.defer)
  <2>1. v = w
    BY <1>3 DEF Contexts!Deferred
  <2> HIDE DEF v
  <2>2. Touches(w, v, c)
    BY <2>1 DEF Touches
  <2> QED
    BY <1>3, <2>1, <2>2 DEF v
<1>4. CASE kind.auto /\ kind.defer /\ ~(kind.touch /\ w.contexts[co[c].cid] # Absent)
  <2>1. v = u
    BY <1>4 DEF Contexts!Deferred
  <2> HIDE DEF v, u
  <2> QED
    BY <1>2, <1>4, <2>1 DEF v
<1>5. CASE kind.auto /\ kind.defer /\ kind.touch /\ w.contexts[co[c].cid] # Absent
  <2>1. v = Contexts!Gone(x, c)
    BY <1>5 DEF Contexts!Deferred
  <2> HIDE DEF u, v, r, x
  <2>2. /\ Sound(r) /\ Owned(r) /\ Touches(u, r, c)
        /\ r.current.ctx # Absent /\ r.current.cid = co[c].cid
    BY <1>2, ResolveKeeps DEF r
  <2>3. Sound(x) /\ Owned(x) /\ x.contexts = r.contexts
    BY <2>2, ContentWritten DEF x
  <2>4. Sound(v) /\ Owned(v) /\ Touches(x, v, c) /\ v.contexts[co[c].cid] = Absent
    BY <1>1, <2>1, <2>3, GoneKeeps
  <2>5. Touches(w, v, c)
    BY <1>2, <2>2, <2>3, <2>4 DEF Touches
  <2> QED
    BY <1>5, <2>4, <2>5 DEF v
<1> QED
  BY <1>3, <1>4, <1>5

(* The worker.  A context that a coroutine works with is there; with       *)
(* automatic cleanup it goes with the coroutine; otherwise, where numbers  *)
(* come back, the request lets it go before it ends.                       *)
Working == {"bound", "inside", "nested"}
Level(pc) == CASE pc = "inside" -> 1 [] pc = "nested" -> 2 [] OTHER -> 0
Automatic == kind.auto /\ kind.defer
Ended(pc) == kind.reuse /\ ~Automatic /\ (pc = "clean" \/ (~kind.tidy /\ pc = "left"))

Present == \A c \in Contexts!Born : co[c].pc \in Working => worker.contexts[co[c].cid] # Absent
Reaped == Automatic => \A i \in Cids : worker.contexts[i] # Absent => Contexts!Alive(i)
Tidied == \A c \in Contexts!Born : Ended(co[c].pc) => worker.contexts[co[c].cid] = Absent
Alone ==
    ~kind.overlap =>
        /\ \A c, d \in Contexts!Born : c = d
        /\ \A c \in Contexts!Born : depth = Level(co[c].pc)
        /\ Contexts!Born = {} => depth = 0
ContextInv ==
    /\ kind \in Workers /\ foreign = FALSE /\ Told /\ Sound(worker) /\ Owned(worker)
    /\ Present /\ Reaped /\ Tidied /\ Alone

(* Numbers come back only where something cleans up: the deferred cleanup, *)
(* the end of a request whose destructors leave the context alone, or the  *)
(* end of run(), if the worker serves one request at a time and denies     *)
(* none.                                                                   *)
CleansUp(u) ==
    \/ u.auto /\ u.defer
    \/ u.tidy /\ ~u.touch
    \/ u.auto /\ ~u.tidy /\ ~u.overlap /\ ~u.denies
Cleaning == \A u \in Workers : u.reuse => CleansUp(u)

LEMMA PcChanged ==
  ASSUME Told, NEW c \in Contexts!Born, NEW pc \in Pcs, co' = [co EXCEPT ![c].pc = pc]
  PROVE  /\ co' \in [Coroutines -> [pc: Pcs, cid: Cids \cup {Absent}, stack: Stacks]]
         /\ co'[c].pc = pc
         /\ \A d \in Coroutines : co'[d].cid = co[d].cid /\ co'[d].stack = co[d].stack
         /\ \A d \in Coroutines : d # c => co'[d].pc = co[d].pc
         /\ Contexts!Born' = IF pc \in {"unborn", "dead"} THEN Contexts!Born \ {c} ELSE Contexts!Born
<1>1. c \in Coroutines /\ co \in [Coroutines -> [pc: Pcs, cid: Cids \cup {Absent}, stack: Stacks]]
  BY BornNumbered DEF Told
<1>2. /\ co' \in [Coroutines -> [pc: Pcs, cid: Cids \cup {Absent}, stack: Stacks]]
      /\ co'[c].pc = pc
      /\ \A d \in Coroutines : co'[d].cid = co[d].cid /\ co'[d].stack = co[d].stack
      /\ \A d \in Coroutines : d # c => co'[d].pc = co[d].pc
  BY <1>1
<1>3. Contexts!Born' = {d \in Coroutines : co'[d].pc \notin {"unborn", "dead"}}
  BY DEF Contexts!Born
<1>4. \A d \in Coroutines : d \in Contexts!Born <=> co[d].pc \notin {"unborn", "dead"}
  BY DEF Contexts!Born
<1> HIDE DEF Contexts!Born
<1>5. Contexts!Born \subseteq Coroutines
  BY DEF Contexts!Born
<1> QED
  BY <1>2, <1>3, <1>4, <1>5

LEMMA Moved ==
  ASSUME ContextInv, NEW c \in Contexts!Born, NEW pc \in Pcs \ {"unborn", "dead"},
         co' = [co EXCEPT ![c].pc = pc], kind' = kind, foreign' = FALSE,
         Sound(worker'), Owned(worker'), Touches(worker, worker', c),
         pc \in Working => worker'.contexts[co[c].cid] # Absent,
         Ended(pc) => worker'.contexts[co[c].cid] = Absent,
         ~kind.overlap /\ depth = Level(co[c].pc) => depth' = Level(pc)
  PROVE  ContextInv'
<1>1. Told /\ Present /\ Reaped /\ Tidied /\ Alone /\ kind \in Workers
  BY DEF ContextInv
<1>2. /\ co' \in [Coroutines -> [pc: Pcs, cid: Cids \cup {Absent}, stack: Stacks]]
      /\ co'[c].pc = pc
      /\ \A d \in Coroutines : co'[d].cid = co[d].cid /\ co'[d].stack = co[d].stack
      /\ \A d \in Coroutines : d # c => co'[d].pc = co[d].pc
      /\ Contexts!Born' = Contexts!Born
  BY <1>1, PcChanged
<1>3. c \in Numbered /\ co[c].cid \in Cids /\ Contexts!Born \subseteq Numbered /\ Numbered \subseteq Coroutines
  BY <1>1, BornNumbered DEF Numbered, Contexts!Born
<1>4. Numbered' = Numbered
  <2>1. co[c].pc # "unborn"
    BY DEF Contexts!Born
  <2>2. \A d \in Coroutines : co'[d].pc # "unborn" <=> co[d].pc # "unborn"
    BY <1>2, <2>1
  <2> QED
    BY <1>2, <2>2 DEF Numbered
<1>5. Told'
  BY <1>1, <1>2, <1>3, <1>4 DEF Told
<1>6. Sound(worker)' /\ Owned(worker)'
  <2>1. Sound(worker)'
    BY DEF Sound
  <2>2. Owned(worker)'
    BY <1>2, <1>3, <1>4 DEF Owned
  <2> QED
    BY <2>1, <2>2
<1>7. \A i \in Cids : Contexts!Alive(i)' <=> Contexts!Alive(i)
  BY <1>2, <1>3 DEF Contexts!Alive
<1>8. ASSUME NEW d \in Contexts!Born, d # c
      PROVE  /\ co[d].cid \in Cids \ {co[c].cid} /\ worker'.contexts[co[d].cid] = worker.contexts[co[d].cid]
             /\ d \in Coroutines
  <2>1. co[d].cid \in Cids \ {co[c].cid} /\ Contexts!Alive(co[d].cid) /\ d \in Coroutines
    BY <1>1, <1>3, <1>8, BornNumbered DEF Told
  <2> QED
    BY <2>1 DEF Touches
<1>9. Present'
  BY <1>1, <1>2, <1>3, <1>8 DEF Present
<1>10. Reaped'
  <2> SUFFICES ASSUME Automatic, NEW i \in Cids, worker'.contexts[i] # Absent PROVE Contexts!Alive(i)
    BY <1>7 DEF Reaped, Automatic
  <2>1. CASE i = co[c].cid
    BY <1>1, <2>1, BornNumbered
  <2>2. CASE i # co[c].cid
    BY <1>1, <2>2 DEF Touches, Reaped
  <2> QED
    BY <2>1, <2>2
<1>11. Tidied'
  BY <1>1, <1>2, <1>3, <1>8 DEF Tidied, Ended, Automatic
<1>12. Alone'
  BY <1>1, <1>2, <1>3 DEF Alone
<1> QED
  BY <1>1, <1>5, <1>6, <1>9, <1>10, <1>11, <1>12 DEF ContextInv

LEMMA ArriveKeeps ==
  ASSUME ContextInv, NEW c \in Coroutines, Contexts!Arrive(c)
  PROVE  ContextInv'
<1>1. Told /\ Present /\ Reaped /\ Tidied /\ Alone /\ kind \in Workers /\ Sound(worker) /\ Owned(worker)
  BY DEF ContextInv
<1>2. PICK p \in kind.places :
        /\ \A d \in (IF kind.reuse THEN Contexts!Born ELSE Coroutines) : co[d].cid # p[1] /\ co[d].stack # p[2]
        /\ co' = [co EXCEPT ![c] = [pc |-> "born", cid |-> p[1], stack |-> p[2]]]
  BY DEF Contexts!Arrive
<1>3. /\ co[c].pc = "unborn" /\ (kind.overlap \/ Contexts!Born = {})
      /\ UNCHANGED <<kind, worker, depth, foreign>>
  BY DEF Contexts!Arrive
<1>4. p[1] \in Cids /\ p[2] \in Stacks
  BY <1>1, ContextAssumed
<1>5. /\ co' \in [Coroutines -> [pc: Pcs, cid: Cids \cup {Absent}, stack: Stacks]]
      /\ co'[c].pc = "born" /\ co'[c].cid = p[1] /\ co'[c].stack = p[2]
      /\ \A d \in Coroutines : d # c => co'[d] = co[d]
  BY <1>1, <1>2, <1>4 DEF Told, Pcs
<1> HIDE <1>2
<1>6. /\ c \notin Contexts!Born /\ Contexts!Born' = Contexts!Born \cup {c}
      /\ c \notin Numbered /\ Numbered' = Numbered \cup {c}
      /\ Contexts!Born \subseteq Coroutines /\ Numbered \subseteq Coroutines
  <2>1. c \notin Contexts!Born /\ Contexts!Born' = Contexts!Born \cup {c} /\ Contexts!Born \subseteq Coroutines
    BY <1>3, <1>5 DEF Contexts!Born
  <2> QED
    BY <1>3, <1>5, <2>1 DEF Numbered
<1>7. \A d \in Numbered : co[d].cid # p[1] /\ co[d].stack # p[2]
  BY <1>2, <1>6 DEF Numbered
<1>8. Told'
  BY <1>1, <1>4, <1>5, <1>6, <1>7 DEF Told
<1>9. Sound(worker)' /\ Owned(worker)'
  <2>1. Sound(worker)'
    BY <1>1, <1>3 DEF Sound
  <2>2. \A d \in Numbered : co'[d] = co[d] /\ d \in Numbered'
    BY <1>5, <1>6
  <2>3. Owned(worker)'
    BY <1>1, <1>3, <1>6, <2>2 DEF Owned
  <2> QED
    BY <2>1, <2>3
<1>10. \A d \in Contexts!Born : co'[d] = co[d] /\ d \in Contexts!Born'
  BY <1>5, <1>6
<1>11. \A i \in Cids : Contexts!Alive(i) => Contexts!Alive(i)'
  BY <1>10 DEF Contexts!Alive
<1>12. Present' /\ Tidied'
  BY <1>1, <1>3, <1>5, <1>6, <1>10 DEF Present, Tidied, Working, Ended, Automatic
<1>13. Reaped'
  BY <1>1, <1>3, <1>11 DEF Reaped, Automatic
<1>14. Alone'
  <2> SUFFICES ASSUME ~kind.overlap
               PROVE  Contexts!Born' = {c} /\ depth' = 0 /\ co'[c].pc = "born"
    BY <1>3 DEF Alone, Level
  <2> QED
    BY <1>1, <1>3, <1>5, <1>6 DEF Alone
<1> QED
  BY <1>1, <1>3, <1>8, <1>9, <1>12, <1>13, <1>14 DEF ContextInv

LEMMA EndKeepsContexts ==
  ASSUME ContextInv, NEW c \in Contexts!Born, Contexts!End(c)
  PROVE  ContextInv'
<1>1. Told /\ Present /\ Reaped /\ Tidied /\ Alone /\ kind \in Workers /\ Sound(worker) /\ Owned(worker)
  BY DEF ContextInv
<1>2. /\ co[c].pc = (IF kind.tidy THEN "clean" ELSE "left")
      /\ co' = [co EXCEPT ![c].pc = "dead"] /\ worker' = Contexts!Deferred(worker, c)
      /\ UNCHANGED <<kind, depth, foreign>>
  BY DEF Contexts!End, Contexts!Goto
<1>3. /\ Sound(worker') /\ Owned(worker') /\ Touches(worker, worker', c)
      /\ Automatic => worker'.contexts[co[c].cid] = Absent
      /\ ~Automatic => worker' = worker
  BY <1>1, <1>2, DeferredKeeps DEF Automatic
<1>4. /\ co' \in [Coroutines -> [pc: Pcs, cid: Cids \cup {Absent}, stack: Stacks]]
      /\ co'[c].pc = "dead"
      /\ \A d \in Coroutines : co'[d].cid = co[d].cid /\ co'[d].stack = co[d].stack
      /\ \A d \in Coroutines : d # c => co'[d].pc = co[d].pc
      /\ Contexts!Born' = Contexts!Born \ {c}
  BY <1>1, <1>2, PcChanged DEF Pcs
<1>5. c \in Numbered /\ co[c].cid \in Cids /\ Contexts!Born \subseteq Numbered /\ Numbered \subseteq Coroutines
  BY <1>1, BornNumbered DEF Numbered, Contexts!Born
<1>6. Numbered' = IF kind.reuse THEN Numbered \ {c} ELSE Numbered
  <2>1. \A d \in Coroutines : co'[d].pc # "unborn" <=> co[d].pc # "unborn"
    BY <1>2, <1>4
  <2> QED
    BY <1>2, <1>4, <2>1 DEF Numbered
<1>7. kind.reuse => worker'.contexts[co[c].cid] = Absent
  <2> SUFFICES ASSUME kind.reuse, ~Automatic PROVE worker.contexts[co[c].cid] = Absent
    BY <1>3
  <2>1. Ended(co[c].pc)
    BY <1>2 DEF Ended
  <2> QED
    BY <1>1, <2>1 DEF Tidied
<1>8. Told'
  BY <1>1, <1>4, <1>5, <1>6 DEF Told
<1>9. Sound(worker)' /\ Owned(worker)'
  <2>1. Sound(worker)'
    BY <1>3 DEF Sound
  <2>2. ASSUME NEW i \in Cids, NEW d \in Coroutines, worker'.contexts[i] # Absent,
               d \in worker'.content[worker'.contexts[i]]
        PROVE  d \in Numbered' /\ co'[d].cid = i
    BY <1>3, <1>4, <1>6, <1>7, <2>2 DEF Owned
  <2>3. worker'.current.ctx # Absent =>
          \E d \in Numbered' : co'[d].cid = worker'.current.cid /\ co'[d].stack = worker'.current.stack
    <3> SUFFICES ASSUME worker'.current.ctx # Absent
                 PROVE  \E d \in Numbered' : co'[d].cid = worker'.current.cid /\ co'[d].stack = worker'.current.stack
      OBVIOUS
    <3>1. PICK d \in Numbered : co[d].cid = worker'.current.cid /\ co[d].stack = worker'.current.stack
      BY <1>3 DEF Owned
    <3>2. kind.reuse => d # c
      BY <1>3, <1>7, <3>1 DEF Sound
    <3> QED
      BY <1>4, <1>5, <1>6, <3>1, <3>2
  <2> QED
    BY <2>1, <2>2, <2>3 DEF Owned
<1>10. ASSUME NEW d \in Contexts!Born, d # c
       PROVE  /\ co[d].cid \in Cids \ {co[c].cid} /\ worker'.contexts[co[d].cid] = worker.contexts[co[d].cid]
              /\ d \in Coroutines
  <2>1. co[d].cid \in Cids \ {co[c].cid} /\ Contexts!Alive(co[d].cid) /\ d \in Coroutines
    BY <1>1, <1>5, <1>10, BornNumbered DEF Told
  <2> QED
    BY <1>3, <2>1 DEF Touches
<1>11. Present' /\ Tidied'
  BY <1>1, <1>2, <1>4, <1>10 DEF Present, Tidied, Ended, Automatic
<1>12. Reaped'
  <2> SUFFICES ASSUME Automatic, NEW i \in Cids, worker'.contexts[i] # Absent PROVE Contexts!Alive(i)'
    BY <1>2 DEF Reaped, Automatic
  <2>1. i # co[c].cid
    BY <1>3
  <2>2. Contexts!Alive(i)
    BY <1>1, <1>3, <2>1 DEF Touches, Reaped
  <2>3. PICK d \in Contexts!Born : co[d].cid = i
    BY <2>2 DEF Contexts!Alive
  <2>4. d \in Contexts!Born' /\ co'[d].cid = i
    BY <1>4, <1>5, <2>1, <2>3
  <2> QED
    BY <2>4 DEF Contexts!Alive
<1>13. Alone'
  <2> SUFFICES ASSUME ~kind.overlap PROVE Contexts!Born' = {} /\ depth' = 0
    BY <1>2 DEF Alone
  <2> QED
    BY <1>1, <1>2, <1>4 DEF Alone, Level
<1> QED
  BY <1>1, <1>2, <1>8, <1>9, <1>11, <1>12, <1>13 DEF ContextInv

LEMMA RunKeeps ==
  ASSUME ContextInv, Cleaning, NEW c \in Coroutines,
         \/ Contexts!Bind(c) \/ Contexts!Run(c) \/ Contexts!Deny(c) \/ Contexts!Handle(c)
         \/ Contexts!RunNested(c)
  PROVE  ContextInv'
<1>1. Told /\ Sound(worker) /\ Owned(worker) /\ foreign = FALSE /\ kind \in Workers
  BY DEF ContextInv
<1>2. Contexts!Use(worker, c) /\ co[c].pc \in {"born", "bound", "inside", "nested"} /\ kind' = kind
  BY DEF Contexts!Bind, Contexts!Run, Contexts!Deny, Contexts!Handle, Contexts!RunNested
<1>3. c \in Contexts!Born
  BY <1>2 DEF Contexts!Born
<1>4. /\ Sound(worker') /\ Owned(worker') /\ Touches(worker, worker', c)
      /\ worker'.contexts[co[c].cid] # Absent /\ foreign' = FALSE
  BY <1>1, <1>2, <1>3, UseKeeps
<1>5. CASE Contexts!Bind(c)
  <2>1. co' = [co EXCEPT ![c].pc = "bound"] /\ co[c].pc = "born" /\ depth' = depth
    BY <1>5 DEF Contexts!Bind, Contexts!Goto
  <2> QED
    BY <1>2, <1>3, <1>4, <2>1, Moved DEF Pcs, Level, Ended
<1>6. CASE Contexts!Run(c)
  <2>1. co' = [co EXCEPT ![c].pc = "inside"] /\ co[c].pc = "bound" /\ depth' = depth + 1
    BY <1>6 DEF Contexts!Run, Contexts!Goto
  <2>2. depth = Level(co[c].pc) => depth' = Level("inside")
    BY <2>1 DEF Level
  <2>3. "inside" \in Pcs \ {"unborn", "dead"} /\ ~Ended("inside")
    BY DEF Pcs, Ended
  <2> QED
    BY <1>2, <1>3, <1>4, <2>1, <2>2, <2>3, Moved
<1>7. CASE Contexts!RunNested(c)
  <2>1. co' = [co EXCEPT ![c].pc = "nested"] /\ co[c].pc = "inside" /\ depth' = depth + 1
    BY <1>7 DEF Contexts!RunNested, Contexts!Goto
  <2>2. depth = Level(co[c].pc) => depth' = Level("nested")
    BY <2>1 DEF Level
  <2>3. "nested" \in Pcs \ {"unborn", "dead"} /\ ~Ended("nested")
    BY DEF Pcs, Ended
  <2> QED
    BY <1>2, <1>3, <1>4, <2>1, <2>2, <2>3, Moved
<1>8. CASE Contexts!Handle(c)
  <2>1. co' = co /\ co[c].pc \in {"inside", "nested"} /\ depth' = depth
    BY <1>8 DEF Contexts!Handle
  <2>2. co' = [co EXCEPT ![c].pc = co[c].pc]
    BY <1>1, <2>1 DEF Told
  <2> QED
    BY <1>2, <1>3, <1>4, <2>1, <2>2, Moved DEF Pcs, Level, Ended
<1>9. CASE Contexts!Deny(c)
  <2>1. co' = [co EXCEPT ![c].pc = "left"] /\ co[c].pc = "bound" /\ depth' = depth /\ kind.denies
    BY <1>9 DEF Contexts!Deny, Contexts!Goto
  <2>2. ~Ended("left")
    BY <1>1, <2>1 DEF Ended, Automatic, Cleaning, CleansUp
  <2> QED
    BY <1>2, <1>3, <1>4, <2>1, <2>2, Moved DEF Pcs, Level, Working
<1> QED
  BY <1>5, <1>6, <1>7, <1>8, <1>9

LEMMA LeaveKeeps ==
  ASSUME ContextInv, Cleaning, NEW c \in Coroutines,
         \/ Contexts!ClearState(c) \/ Contexts!LeaveNested(c) \/ Contexts!Leave(c) \/ Contexts!Cleanup(c)
  PROVE  ContextInv'
<1>1. /\ Told /\ Sound(worker) /\ Owned(worker) /\ foreign = FALSE /\ kind \in Workers /\ Present /\ Alone
  BY DEF ContextInv
<1>2. co[c].pc \in {"inside", "nested", "left"} /\ kind' = kind /\ foreign' = FALSE
  BY <1>1 DEF Contexts!ClearState, Contexts!LeaveNested, Contexts!Leave, Contexts!Cleanup
<1>3. c \in Contexts!Born
  BY <1>2 DEF Contexts!Born
<1>4. c \in Numbered /\ co[c].cid \in Cids
  BY <1>1, <1>3, BornNumbered
<1>5. CASE Contexts!ClearState(c)
  <2> DEFINE s == IF worker.current.ctx # Absent /\ worker.current.stack = co[c].stack
                    THEN worker.current.ctx ELSE worker.contexts[co[c].cid]
             left == [worker.content EXCEPT ![s] = {}]
  <2>1. co' = co /\ co[c].pc = "inside" /\ depth' = depth /\ s # Absent /\ worker' = [worker EXCEPT !.content = left]
    BY <1>5 DEF Contexts!ClearState
  <2>2. co' = [co EXCEPT ![c].pc = co[c].pc]
    BY <1>1, <2>1 DEF Told
  <2>3. s \in Structs /\ left \in [Structs -> SUBSET Coroutines] /\ \A x \in Structs : left[x] \in {worker.content[x], {}}
    BY <1>1, <1>4, <2>1, TableShape
  <2> HIDE DEF s, left
  <2>4. /\ worker' \in Tables /\ worker'.contexts = worker.contexts /\ worker'.content = left
        /\ worker'.pool = worker.pool /\ worker'.current = worker.current
    BY <1>1, <2>1, <2>3, TableShape DEF Tables
  <2>5. Sound(worker')
    BY <1>1, <2>3, <2>4 DEF Sound
  <2>6. Loses(worker, worker') /\ Touches(worker, worker', c)
    BY <1>1, <2>3, <2>4 DEF Loses, Touches
  <2>7. Owned(worker')
    BY <1>1, <2>5, <2>6, LosesOwned
  <2>8. worker'.contexts[co[c].cid] # Absent
    BY <1>1, <1>3, <2>1, <2>4 DEF Present, Working
  <2> QED
    BY <1>2, <1>3, <2>1, <2>2, <2>5, <2>6, <2>7, <2>8, Moved DEF Pcs, Level, Ended
<1>6. Touches(worker, worker, c)
  BY DEF Touches
<1>7. CASE Contexts!LeaveNested(c)
  <2>1. co' = [co EXCEPT ![c].pc = "inside"] /\ co[c].pc = "nested" /\ depth' = depth - 1 /\ worker' = worker
    BY <1>7 DEF Contexts!LeaveNested, Contexts!Goto
  <2>2. worker.contexts[co[c].cid] # Absent
    BY <1>1, <1>3, <2>1 DEF Present, Working
  <2>3. depth = Level(co[c].pc) => depth' = Level("inside")
    BY <2>1 DEF Level
  <2>4. "inside" \in Pcs \ {"unborn", "dead"} /\ ~Ended("inside")
    BY DEF Pcs, Ended
  <2> QED
    BY <1>1, <1>2, <1>3, <1>6, <2>1, <2>2, <2>3, <2>4, Moved
<1>8. CASE Contexts!Leave(c)
  <2> DEFINE ends == kind.auto /\ ~kind.defer /\ depth = 1 /\ ~kind.tidy
  <2>1. /\ co' = [co EXCEPT ![c].pc = "left"] /\ co[c].pc = "inside" /\ depth' = depth - 1
        /\ worker' = IF ends THEN Contexts!Gone(worker, c) ELSE worker
    BY <1>8 DEF Contexts!Leave, Contexts!Goto
  <2>2. Ended("left") => ends
    BY <1>1, <1>3, <2>1 DEF Ended, Automatic, Cleaning, CleansUp, Alone, Level
  <2> HIDE DEF ends
  <2>3. /\ Sound(worker') /\ Owned(worker') /\ Touches(worker, worker', c)
        /\ Ended("left") => worker'.contexts[co[c].cid] = Absent
    <3>1. CASE ends
      BY <1>1, <1>4, <2>1, <3>1, GoneKeeps
    <3>2. CASE ~ends
      BY <1>1, <1>6, <2>1, <2>2, <3>2
    <3> QED
      BY <3>1, <3>2
  <2>4. depth = Level(co[c].pc) => depth' = Level("left")
    BY <2>1 DEF Level
  <2>5. "left" \in Pcs \ {"unborn", "dead"} /\ "left" \notin Working
    BY DEF Pcs, Working
  <2> QED
    BY <1>2, <1>3, <2>1, <2>3, <2>4, <2>5, Moved
<1>9. CASE Contexts!Cleanup(c)
  <2>1. /\ co' = [co EXCEPT ![c].pc = "clean"] /\ co[c].pc = "left" /\ depth' = depth /\ kind.tidy
        /\ worker' = Contexts!CleanedUp(worker, c)
    BY <1>9 DEF Contexts!Cleanup, Contexts!Goto
  <2>2. /\ Sound(worker') /\ Owned(worker') /\ Touches(worker, worker', c)
        /\ ~kind.touch => worker'.contexts[co[c].cid] = Absent
    BY <1>1, <1>3, <2>1, CleanedUpKeeps
  <2>3. Ended("clean") => ~kind.touch
    BY <1>1, <2>1 DEF Ended, Automatic, Cleaning, CleansUp
  <2> QED
    BY <1>2, <1>3, <2>1, <2>2, <2>3, Moved DEF Pcs, Level, Working
<1> QED
  BY <1>5, <1>7, <1>8, <1>9

LEMMA ContextStarts == Contexts!ContextInit => ContextInv
<1> SUFFICES ASSUME Contexts!ContextInit PROVE ContextInv
  OBVIOUS
<1> USE DEF Contexts!ContextInit
<1>1. /\ \A c \in Coroutines : co[c].pc = "unborn"
      /\ co \in [Coroutines -> [pc: Pcs, cid: Cids \cup {Absent}, stack: Stacks]]
  BY DEF Pcs, Stacks
<1>2. Contexts!Born = {} /\ Numbered = {}
  BY <1>1 DEF Contexts!Born, Numbered
<1>3. /\ worker.contexts = [i \in Cids |-> Absent] /\ worker.content = [s \in Structs |-> {}]
      /\ worker.pool = <<>> /\ worker.current = Contexts!Nobody /\ worker.allocs = 0 /\ worker.mark = 0
  BY DEF Contexts!Start
<1>4. Contexts!Nobody \in Current /\ Contexts!Nobody.ctx = Absent
  <2>1. Absent \in Stacks
    BY Zenon DEF Stacks
  <2> QED
    BY <2>1 DEF Contexts!Nobody, Current
<1>5. worker \in Tables
  <2>1. <<>> \in Seq(Structs)
    BY EmptySeq
  <2>2. [i \in Cids |-> Absent] \in [Cids -> Structs \cup {Absent}] /\ [s \in Structs |-> {}] \in [Structs -> SUBSET Coroutines]
    OBVIOUS
  <2>3. worker = [contexts |-> [i \in Cids |-> Absent], content |-> [s \in Structs |-> {}], pool |-> <<>>,
                  current |-> Contexts!Nobody, allocs |-> 0, mark |-> 0]
    BY DEF Contexts!Start
  <2> QED
    BY ONLY <1>4, <2>1, <2>2, <2>3 DEF Tables
<1>6. Sound(worker)
  <2>1. DOMAIN worker.pool = {}
    BY <1>3
  <2> QED
    BY <1>3, <1>4, <1>5, <2>1 DEF Sound
<1>7. Owned(worker)
  BY <1>3, <1>4 DEF Owned
<1>8. Told
  BY <1>1, <1>2 DEF Told
<1>9. Present /\ Reaped /\ Tidied /\ Alone
  BY <1>2, <1>3 DEF Present, Reaped, Tidied, Alone
<1> QED
  BY <1>6, <1>7, <1>8, <1>9 DEF ContextInv

LEMMA ContextKeeps ==
  ASSUME Cleaning, ContextInv, Contexts!ContextNext \/ UNCHANGED contextVars
  PROVE  ContextInv'
<1>1. CASE UNCHANGED contextVars
  BY <1>1 DEF contextVars, ContextInv, Told, Numbered, Contexts!Born, Sound, Owned, Present, Reaped, Automatic,
              Contexts!Alive, Tidied, Ended, Alone
<1>2. ASSUME NEW c \in Coroutines, Contexts!End(c) PROVE ContextInv'
  <2>1. c \in Contexts!Born
    BY <1>2 DEF Contexts!End, Contexts!Born
  <2> QED
    BY <1>2, <2>1, EndKeepsContexts
<1> QED
  BY <1>1, <1>2, ArriveKeeps, RunKeeps, LeaveKeeps DEF Contexts!ContextNext

-----------------------------------------------------------------------------
(* The router.                                                             *)

RunFields == {"at", "route", "kind", "queue", "did", "verdicts", "pc"}
Inside(d) == {r \in Requests : run[r].pc = d}

Dispatching ==
    /\ site \in Sites /\ served \in Nat
    /\ DOMAIN run = Requests /\ \A r \in Requests : DOMAIN run[r] = RunFields

(* Every dispatch takes one address at most, so the next finds a fresh one.*)
Allocated ==
    /\ DOMAIN pcs \subseteq Descriptors /\ Cardinality(DOMAIN pcs) <= served
    /\ retired \subseteq DOMAIN pcs
    /\ \A d \in DOMAIN pcs : "borrowers" \in DOMAIN pcs[d]

(* A dispatch is inside a descriptor only while it is under way.           *)
Entered == \A r \in Requests : run[r].pc # Absent => run[r].pc \in DOMAIN pcs /\ run[r].at = "busy"
Borrowed == \A d \in DOMAIN pcs : pcs[d].borrowers = Cardinality(Inside(d))

(* A descriptor is found under one route, so that retiring it there takes  *)
(* it out of the table.                                                    *)
Routed ==
    /\ \A k \in DOMAIN table : table[k] \in DOMAIN pcs \ retired
    /\ \A k, l \in DOMAIN table : table[k] = table[l] => k = l

(* The fields of a context that a request sees.                            *)
Seen == {"at", "heap", "buf", "params", "uri", "lang"}
Contextual == DOMAIN ctx = Requests /\ \A r \in Requests : Seen \subseteq DOMAIN ctx[r]

DispatchInv == Dispatching /\ Allocated /\ Entered /\ Borrowed /\ Routed

LEMMA RouterAssumed ==
  /\ IsFiniteSet(Requests) /\ \A s \in Sites : s.requests \subseteq Requests
  /\ IsFiniteSet(Descriptors) /\ Cardinality(Descriptors) \in Nat
  /\ Cardinality(Descriptors) >= MaxServed /\ MaxServed \in Nat /\ Absent \notin Descriptors
<1>1. \A S : Routing!Cardinality(S) = Cardinality(S)
  BY DEF Routing!Cardinality, Cardinality
<1>2. \A S : Routing!IsFiniteSet(S) <=> IsFiniteSet(S)
  BY DEF Routing!IsFiniteSet, IsFiniteSet
<1> QED
  BY <1>1, <1>2, PartAssumptions, FS_CardinalityType DEF Routing!RouterAssumption

(* What a step does to a dispatch under way, and to no other.              *)
Continues(f, g, r) ==
    /\ DOMAIN g = DOMAIN f /\ \A e \in DOMAIN f : e # r => g[e] = f[e]
    /\ DOMAIN g[r] = RunFields /\ g[r].at = f[r].at /\ g[r].pc = f[r].pc

Ends(f, g, r) ==
    /\ DOMAIN g = DOMAIN f /\ \A e \in DOMAIN f : e # r => g[e] = f[e]
    /\ DOMAIN g[r] = RunFields /\ g[r].pc = Absent

LEMMA QueueUpdate ==
  ASSUME NEW f, NEW r \in DOMAIN f, DOMAIN f[r] = RunFields, NEW u, NEW g, g = [f EXCEPT ![r].queue = u]
  PROVE  Continues(f, g, r)
BY DEF Continues, RunFields

LEMMA AnswerUpdate ==
  ASSUME NEW f, NEW r \in DOMAIN f, DOMAIN f[r] = RunFields, NEW u, NEW v, NEW w, NEW g,
         g = [f EXCEPT ![r].did = u, ![r].verdicts = v, ![r].queue = w]
  PROVE  Continues(f, g, r)
<1>1. PICK g1 : g1 = [f EXCEPT ![r].did = u]
  OBVIOUS
<1>2. PICK g2 : g2 = [g1 EXCEPT ![r].verdicts = v]
  OBVIOUS
<1>3. g = [g2 EXCEPT ![r].queue = w]
  BY <1>1, <1>2
<1>4. Continues(f, g1, r)
  BY <1>1 DEF Continues, RunFields
<1>5. r \in DOMAIN g1 /\ DOMAIN g1[r] = RunFields
  BY <1>4 DEF Continues
<1>6. Continues(g1, g2, r)
  BY <1>2, <1>5 DEF Continues, RunFields
<1>7. r \in DOMAIN g2 /\ DOMAIN g2[r] = RunFields
  BY <1>5, <1>6 DEF Continues
<1>8. Continues(g2, g, r)
  BY <1>3, <1>7, QueueUpdate
<1> QED
  BY <1>4, <1>6, <1>8 DEF Continues

LEMMA EndUpdate ==
  ASSUME NEW f, NEW r \in DOMAIN f, DOMAIN f[r] = RunFields, NEW u, NEW g,
         g = [f EXCEPT ![r].at = u, ![r].pc = Absent]
  PROVE  Ends(f, g, r)
BY DEF Ends, RunFields

LEMMA CellUpdate ==
  ASSUME NEW f, NEW d \in DOMAIN f, "borrowers" \in DOMAIN f[d], NEW v, NEW g,
         g = [f EXCEPT ![d].borrowers = v]
  PROVE  /\ DOMAIN g = DOMAIN f /\ \A e \in DOMAIN f : e # d => g[e] = f[e]
         /\ DOMAIN g[d] = DOMAIN f[d] /\ g[d].borrowers = v
  OBVIOUS

(* A step that leaves the descriptors and who is inside them alone.        *)
LEMMA QuietKeeps ==
  ASSUME DispatchInv, UNCHANGED <<site, table, retired, pcs>>, served' \in Nat, served <= served',
         DOMAIN run' = Requests,
         \A r \in Requests : /\ DOMAIN run'[r] = RunFields /\ run'[r].pc = run[r].pc
                             /\ run[r].pc # Absent => run'[r].at = run[r].at
  PROVE  DispatchInv'
<1>1. Dispatching'
  BY DEF DispatchInv, Dispatching
<1>2. Allocated'
  <2>1. Cardinality(DOMAIN pcs) \in Nat
    BY RouterAssumed, FS_Subset, FS_CardinalityType DEF DispatchInv, Allocated
  <2> QED
    BY <2>1 DEF DispatchInv, Allocated, Dispatching
<1>3. Entered'
  BY DEF DispatchInv, Entered
<1>4. \A d : Inside(d)' = Inside(d)
  BY DEF Inside
<1>5. Borrowed'
  BY <1>4 DEF DispatchInv, Borrowed
<1>6. Routed'
  BY DEF DispatchInv, Routed
<1> QED
  BY <1>1, <1>2, <1>3, <1>5, <1>6 DEF DispatchInv

LEMMA UnchangedKeeps ==
  ASSUME DispatchInv, UNCHANGED <<site, table, retired, pcs, run, served>>
  PROVE  DispatchInv'
<1>1. /\ served' \in Nat /\ served <= served' /\ DOMAIN run' = Requests
      /\ \A r \in Requests : DOMAIN run'[r] = RunFields
  BY DEF DispatchInv, Dispatching
<1> QED
  BY <1>1, QuietKeeps

LEMMA RegistrationKeeps ==
  ASSUME DispatchInv,
         \/ Routing!CallRoute \/ Routing!CallEvent \/ Routing!CallGroup \/ Routing!CallPolicy
         \/ Routing!CallConfigure \/ Routing!WorkerReady \/ Routing!Rebuild
  PROVE  DispatchInv' /\ UNCHANGED ctx
<1>1. CASE Routing!CallRoute
  <2>1. Routing!Route(Head(todo)) /\ Routing!Made
    BY <1>1 DEF Routing!CallRoute
  <2>2. UNCHANGED <<table, retired, pcs, site, run, ctx, served>>
    BY <2>1 DEF Routing!Route, Routing!Made, Routing!descriptors, Routing!counters
  <2> QED
    BY <2>2, UnchangedKeeps
<1>2. CASE Routing!CallEvent
  <2>1. Routing!Event(Head(todo)) /\ Routing!Made
    BY <1>2 DEF Routing!CallEvent
  <2>2. UNCHANGED <<table, retired, pcs, site, run, ctx, served>>
    BY <2>1 DEF Routing!Event, Routing!Made, Routing!descriptors, Routing!counters
  <2> QED
    BY <2>2, UnchangedKeeps
<1>3. CASE Routing!CallGroup
  <2>1. UNCHANGED <<table, retired, pcs, site, run, ctx, served>>
    BY <1>3 DEF Routing!CallGroup, Routing!Group, Routing!Made, Routing!descriptors, Routing!counters
  <2> QED
    BY <2>1, UnchangedKeeps
<1>4. CASE Routing!CallPolicy
  <2>1. UNCHANGED <<table, retired, pcs, site, run, ctx, served>>
    BY <1>4 DEF Routing!CallPolicy, Routing!Policy, Routing!Made, Routing!descriptors, Routing!counters
  <2> QED
    BY <2>1, UnchangedKeeps
<1>5. CASE Routing!CallConfigure
  <2>1. UNCHANGED <<table, retired, pcs, site, run, ctx, served>>
    BY <1>5 DEF Routing!CallConfigure, Routing!Configure, Routing!Made, Routing!descriptors,
                Routing!counters
  <2> QED
    BY <2>1, UnchangedKeeps
<1>6. CASE Routing!WorkerReady
  <2>1. UNCHANGED <<table, retired, pcs, site, run, ctx, served>>
    BY <1>6 DEF Routing!WorkerReady, Routing!descriptors, Routing!counters
  <2> QED
    BY <2>1, UnchangedKeeps
<1>7. CASE Routing!Rebuild
  <2>1. UNCHANGED <<table, retired, pcs, site, run, ctx, served>>
    BY <1>7 DEF Routing!Rebuild, Routing!descriptors
  <2> QED
    BY <2>1, UnchangedKeeps
<1> QED
  BY <1>1, <1>2, <1>3, <1>4, <1>5, <1>6, <1>7

(* A rebuild of the table frees no descriptor that someone is inside.      *)
LEMMA RemovalKeeps ==
  ASSUME DispatchInv, Routing!CallRemove
  PROVE  DispatchInv' /\ UNCHANGED ctx
<1>1. Routing!PcInvalidate /\ UNCHANGED <<site, run, ctx, served>>
  <2>1. Routing!Removal(Head(todo)) /\ Routing!Made
    BY DEF Routing!CallRemove
  <2> QED
    BY <2>1 DEF Routing!Removal, Routing!Made, Routing!counters
<1> DEFINE kept == {d \in retired : pcs[d].borrowers > 0}
<1>2. /\ retired' = kept /\ table' = table
      /\ DOMAIN pcs' = DOMAIN pcs \ (retired \ kept)
      /\ \A d \in DOMAIN pcs' : pcs'[d] = pcs[d]
  BY <1>1 DEF Routing!PcInvalidate
<1>3. \A d : Inside(d)' = Inside(d)
  BY <1>1 DEF Inside
<1>4. \A d \in DOMAIN pcs : Cardinality(Inside(d)) \in Nat /\ (Inside(d) # {} => Cardinality(Inside(d)) > 0)
  <2> TAKE d \in DOMAIN pcs
  <2>1. IsFiniteSet(Inside(d))
    BY RouterAssumed, FS_Subset DEF Inside
  <2> QED
    BY <2>1, FS_CardinalityType, FS_EmptySet
<1>5. Dispatching'
  BY <1>1 DEF DispatchInv, Dispatching
<1>6. Allocated'
  <2>1. IsFiniteSet(DOMAIN pcs)
    BY RouterAssumed, FS_Subset DEF DispatchInv, Allocated
  <2>2. Cardinality(DOMAIN pcs') <= Cardinality(DOMAIN pcs)
        /\ Cardinality(DOMAIN pcs') \in Nat /\ Cardinality(DOMAIN pcs) \in Nat
    BY <1>2, <2>1, FS_Subset, FS_CardinalityType
  <2> QED
    BY <1>1, <1>2, <2>2 DEF DispatchInv, Allocated, Dispatching
<1>7. Entered'
  <2> SUFFICES ASSUME NEW r \in Requests, run[r].pc # Absent PROVE run[r].pc \in DOMAIN pcs' /\ run[r].at = "busy"
    BY <1>1 DEF Entered
  <2> DEFINE d == run[r].pc
  <2>1. d \in DOMAIN pcs /\ run[r].at = "busy" /\ r \in Inside(d)
    BY DEF DispatchInv, Entered, Inside
  <2>2. pcs[d].borrowers > 0
    BY <1>4, <2>1 DEF DispatchInv, Borrowed
  <2> QED
    BY <1>2, <2>1, <2>2
<1>8. Borrowed'
  BY <1>2, <1>3 DEF DispatchInv, Borrowed
<1>9. Routed'
  BY <1>2 DEF DispatchInv, Routed
<1> QED
  BY <1>1, <1>5, <1>6, <1>7, <1>8, <1>9 DEF DispatchInv

(* The next callee of a dispatch, the links of a chain, a lost link.       *)
LEMMA CallKeeps ==
  ASSUME DispatchInv, NEW r \in Requests,
         Routing!Call(r) \/ Routing!DispatchHooks(r) \/ Routing!LostLink(r)
  PROVE  DispatchInv' /\ UNCHANGED ctx
<1>1. UNCHANGED <<site, table, retired, pcs, served, ctx>>
  <2>1. CASE Routing!Call(r)
    BY <2>1 DEF Routing!Call, Routing!descriptors, Routing!counters
  <2>2. CASE Routing!DispatchHooks(r)
    BY <2>2 DEF Routing!DispatchHooks, Routing!descriptors, Routing!counters
  <2>3. CASE Routing!LostLink(r)
    BY <2>3 DEF Routing!LostLink, Routing!descriptors, Routing!counters
  <2> QED
    BY <2>1, <2>2, <2>3
<1>2. DOMAIN run = Requests /\ DOMAIN run[r] = RunFields
  BY DEF DispatchInv, Dispatching
<1>3. Continues(run, run', r)
  <2>1. CASE Routing!Call(r)
    <3>1. PICK v : \E u, w : run' = [run EXCEPT ![r].did = Append(@, u),
                                               ![r].verdicts = Append(run[r].verdicts, v), ![r].queue = w]
      BY <2>1, Zenon DEF Routing!Call
    <3>2. PICK u, w : run' = [run EXCEPT ![r].did = Append(@, u),
                                         ![r].verdicts = Append(run[r].verdicts, v), ![r].queue = w]
      BY <3>1
    <3> QED
      BY <1>2, <3>2, AnswerUpdate
  <2>2. CASE Routing!DispatchHooks(r)
    <3>1. PICK u : run' = [run EXCEPT ![r].queue = u]
      BY <2>2, Zenon DEF Routing!DispatchHooks
    <3> QED
      BY <1>2, <3>1, QueueUpdate
  <2>3. CASE Routing!LostLink(r)
    <3>1. PICK u : run' = [run EXCEPT ![r].queue = u]
      BY <2>3, Zenon DEF Routing!LostLink
    <3> QED
      BY <1>2, <3>1, QueueUpdate
  <2> QED
    BY <2>1, <2>2, <2>3
<1>4. \A q \in Requests : /\ DOMAIN run'[q] = RunFields /\ run'[q].pc = run[q].pc
                          /\ run[q].pc # Absent => run'[q].at = run[q].at
  BY <1>2, <1>3 DEF DispatchInv, Dispatching, Continues
<1> QED
  BY <1>1, <1>2, <1>3, <1>4, QuietKeeps DEF DispatchInv, Dispatching, Continues

(* A dispatch that ends leaves its descriptor; the others stay inside.     *)
LEMMA FinishKeeps ==
  ASSUME DispatchInv, NEW r \in Requests, Routing!Finish(r)
  PROVE  DispatchInv' /\ UNCHANGED ctx
<1>1. /\ UNCHANGED <<site, table, retired, served, ctx>> /\ run[r].at = "busy"
      /\ run' = [run EXCEPT ![r].at = "done", ![r].pc = Absent]
      /\ pcs' = IF run[r].pc = Absent THEN pcs ELSE [pcs EXCEPT ![run[r].pc].borrowers = @ - 1]
  BY DEF Routing!Finish, Routing!Release, Routing!counters
<1>2. DOMAIN run = Requests /\ DOMAIN run[r] = RunFields
  BY DEF DispatchInv, Dispatching
<1>3. /\ DOMAIN run' = Requests /\ \A e \in Requests : e # r => run'[e] = run[e]
      /\ DOMAIN run'[r] = RunFields /\ run'[r].pc = Absent
  <2>1. run' = [run EXCEPT ![r].at = "done", ![r].pc = Absent]
    BY <1>1
  <2>2. r \in DOMAIN run /\ DOMAIN run[r] = RunFields
    BY <1>2
  <2>3. Ends(run, run', r)
    BY <2>1, <2>2, EndUpdate
  <2> QED
    BY <1>2, <2>3 DEF Ends
<1>4. CASE run[r].pc = Absent
  <2>1. UNCHANGED pcs
    BY <1>1, <1>4
  <2>2. \A q \in Requests : /\ DOMAIN run'[q] = RunFields /\ run'[q].pc = run[q].pc
                            /\ run[q].pc # Absent => run'[q].at = run[q].at
    BY <1>3, <1>4 DEF DispatchInv, Dispatching
  <2> QED
    BY <1>1, <1>3, <2>1, <2>2, QuietKeeps DEF DispatchInv, Dispatching
<1>5. CASE run[r].pc # Absent
  <2>0. PICK d : d = run[r].pc
    OBVIOUS
  <2>1. d \in DOMAIN pcs /\ d # Absent
    BY <1>5, <2>0 DEF DispatchInv, Entered
  <2>2. "borrowers" \in DOMAIN pcs[d]
    BY <2>1 DEF DispatchInv, Allocated
  <2>3. /\ DOMAIN pcs' = DOMAIN pcs /\ \A e \in DOMAIN pcs : e # d => pcs'[e] = pcs[e]
        /\ DOMAIN pcs'[d] = DOMAIN pcs[d] /\ pcs'[d].borrowers = pcs[d].borrowers - 1
    <3>1. pcs' = [pcs EXCEPT ![d].borrowers = pcs[d].borrowers - 1]
      BY <1>1, <1>5, <2>0
    <3> QED
      BY <2>1, <2>2, <3>1, CellUpdate
  <2>4. Dispatching'
    BY <1>1, <1>3 DEF DispatchInv, Dispatching
  <2>5. Allocated'
    BY <1>1, <2>1, <2>3 DEF DispatchInv, Allocated
  <2>6. Entered'
    BY <1>3, <2>3 DEF DispatchInv, Entered
  <2>7. ASSUME NEW e, e # d, e # Absent PROVE Inside(e)' = Inside(e)
    BY <1>3, <2>0, <2>7 DEF Inside
  <2>8. Cardinality(Inside(d)') = Cardinality(Inside(d)) - 1
    <3>1. r \in Inside(d) /\ Inside(d)' = Inside(d) \ {r}
      BY <1>3, <2>0, <2>1 DEF Inside
    <3>2. IsFiniteSet(Inside(d))
      BY RouterAssumed, FS_Subset DEF Inside
    <3> QED
      BY <3>1, <3>2, FS_RemoveElement
  <2>9. Absent \notin DOMAIN pcs
    BY RouterAssumed DEF DispatchInv, Allocated
  <2>10. Borrowed'
    <3> SUFFICES ASSUME NEW e \in DOMAIN pcs PROVE pcs'[e].borrowers = Cardinality(Inside(e)')
      BY <2>3 DEF Borrowed
    <3> QED
      BY <2>3, <2>7, <2>8, <2>9 DEF DispatchInv, Borrowed
  <2>11. Routed'
    BY <1>1, <2>3 DEF DispatchInv, Routed
  <2> QED
    BY <1>1, <2>4, <2>5, <2>6, <2>10, <2>11 DEF DispatchInv
<1> QED
  BY <1>1, <1>4, <1>5

LEMMA RequestEndKeeps ==
  ASSUME DispatchInv, NEW r \in Requests, Routing!RequestEnd(r)
  PROVE  DispatchInv'
<1>1. /\ UNCHANGED <<site, table, retired, pcs, served>> /\ run[r].at = "done"
      /\ run' = [run EXCEPT ![r] = Routing!Idle]
  BY DEF Routing!RequestEnd, Routing!descriptors, Routing!counters
<1>2. DOMAIN Routing!Idle = RunFields /\ Routing!Idle.pc = Absent
  BY DEF Routing!Idle, RunFields
<1>3. run[r].pc = Absent /\ DOMAIN run = Requests
  BY <1>1 DEF DispatchInv, Entered, Dispatching
<1>4. DOMAIN run' = Requests
      /\ \A q \in Requests : /\ DOMAIN run'[q] = RunFields /\ run'[q].pc = run[q].pc
                             /\ run[q].pc # Absent => run'[q].at = run[q].at
  BY <1>1, <1>2, <1>3 DEF DispatchInv, Dispatching
<1> QED
  BY <1>1, <1>4, QuietKeeps DEF DispatchInv, Dispatching

(* A request starts, inside a descriptor or inside none.                   *)
Begins(f, g, r, pc) ==
    /\ DOMAIN g = Requests /\ \A e \in Requests : e # r => g[e] = f[e]
    /\ DOMAIN g[r] = RunFields /\ g[r].at = "busy" /\ g[r].pc = pc

LEMMA StartBegins ==
  ASSUME DispatchInv, NEW r \in Requests, NEW route, NEW plan, NEW pc,
         run' = [run EXCEPT ![r] = Routing!Started(route, plan, pc)]
  PROVE  Begins(run, run', r, pc)
<1>1. DOMAIN Routing!Started(route, plan, pc) = RunFields
      /\ Routing!Started(route, plan, pc).at = "busy" /\ Routing!Started(route, plan, pc).pc = pc
  BY DEF Routing!Started, RunFields
<1> QED
  BY <1>1 DEF Begins, DispatchInv, Dispatching

LEMMA SlowKeeps ==
  ASSUME DispatchInv, NEW r \in Requests, run[r].at = "idle", Begins(run, run', r, Absent),
         UNCHANGED <<site, table, retired, pcs>>, served' = served + 1
  PROVE  DispatchInv'
<1>1. run[r].pc = Absent
  BY DEF DispatchInv, Entered
<1>2. \A q \in Requests : /\ DOMAIN run'[q] = RunFields /\ run'[q].pc = run[q].pc
                          /\ run[q].pc # Absent => run'[q].at = run[q].at
  BY <1>1 DEF DispatchInv, Dispatching, Begins
<1>3. DOMAIN run' = Requests /\ served' \in Nat /\ served <= served'
  BY DEF DispatchInv, Dispatching, Begins
<1> QED
  BY <1>2, <1>3, QuietKeeps

(* A stale descriptor leaves the table, where it stood once, and those     *)
(* inside it keep it.                                                      *)
LEMMA StaleKeeps ==
  ASSUME DispatchInv, NEW r \in Requests, run[r].at = "idle", Begins(run, run', r, Absent),
         NEW key \in DOMAIN table,
         table' = [k \in DOMAIN table \ {key} |-> table[k]], retired' = retired \cup {table[key]},
         UNCHANGED <<site, pcs>>, served' = served + 1
  PROVE  DispatchInv'
<1>1. run[r].pc = Absent
  BY DEF DispatchInv, Entered
<1>2. Dispatching'
  BY DEF DispatchInv, Dispatching, Begins
<1>3. Allocated'
  <2>1. Cardinality(DOMAIN pcs) \in Nat
    BY RouterAssumed, FS_Subset, FS_CardinalityType DEF DispatchInv, Allocated
  <2> QED
    BY <2>1 DEF DispatchInv, Allocated, Dispatching, Routed
<1>4. Entered'
  BY <1>1 DEF DispatchInv, Entered, Begins
<1>5. \A d : d # Absent => Inside(d)' = Inside(d)
  BY <1>1 DEF Inside, Begins
<1>6. Borrowed'
  BY <1>5, RouterAssumed DEF DispatchInv, Allocated, Borrowed
<1>7. Routed'
  BY DEF DispatchInv, Routed
<1> QED
  BY <1>2, <1>3, <1>4, <1>6, <1>7 DEF DispatchInv

(* A request enters a descriptor that is in the table.                     *)
LEMMA FastKeeps ==
  ASSUME DispatchInv, NEW r \in Requests, run[r].at = "idle",
         NEW d \in DOMAIN pcs, Begins(run, run', r, d),
         pcs' = [pcs EXCEPT ![d].borrowers = @ + 1],
         UNCHANGED <<site, table, retired>>, served' = served + 1
  PROVE  DispatchInv'
<1>1. run[r].pc = Absent /\ d # Absent
  BY RouterAssumed DEF DispatchInv, Entered, Allocated
<1>2. Dispatching'
  BY DEF DispatchInv, Dispatching, Begins
<1>3. /\ DOMAIN pcs' = DOMAIN pcs /\ \A e \in DOMAIN pcs : e # d => pcs'[e] = pcs[e]
      /\ DOMAIN pcs'[d] = DOMAIN pcs[d] /\ pcs'[d].borrowers = pcs[d].borrowers + 1
  <2>1. pcs' = [pcs EXCEPT ![d].borrowers = pcs[d].borrowers + 1] /\ "borrowers" \in DOMAIN pcs[d]
    BY DEF DispatchInv, Allocated
  <2> QED
    BY <2>1, CellUpdate
<1>4. Allocated'
  <2>1. Cardinality(DOMAIN pcs) \in Nat
    BY RouterAssumed, FS_Subset, FS_CardinalityType DEF DispatchInv, Allocated
  <2> QED
    BY <1>3, <2>1 DEF DispatchInv, Allocated, Dispatching
<1>5. Entered'
  BY <1>3 DEF DispatchInv, Entered, Begins
<1>6. \A e : e # d /\ e # Absent => Inside(e)' = Inside(e)
  BY <1>1 DEF Inside, Begins
<1>7. Cardinality(Inside(d)') = Cardinality(Inside(d)) + 1
  <2>1. r \notin Inside(d) /\ Inside(d)' = Inside(d) \cup {r}
    BY <1>1 DEF Inside, Begins
  <2>2. IsFiniteSet(Inside(d))
    BY RouterAssumed, FS_Subset DEF Inside
  <2> QED
    BY <2>1, <2>2, FS_AddElement
<1>8. Borrowed'
  <2>1. Absent \notin DOMAIN pcs
    BY RouterAssumed DEF DispatchInv, Allocated
  <2> SUFFICES ASSUME NEW e \in DOMAIN pcs PROVE pcs'[e].borrowers = Cardinality(Inside(e)')
    BY <1>3 DEF Borrowed
  <2> QED
    BY <1>3, <1>6, <1>7, <2>1 DEF DispatchInv, Borrowed
<1>9. Routed'
  BY <1>3 DEF DispatchInv, Routed
<1> QED
  BY <1>2, <1>4, <1>5, <1>8, <1>9 DEF DispatchInv

(* A request makes a descriptor, at an address that no one is inside.      *)
LEMMA NewKeeps ==
  ASSUME DispatchInv, NEW r \in Requests, run[r].at = "idle",
         NEW key, key \notin DOMAIN table, NEW d \in Descriptors \ DOMAIN pcs, NEW cell,
         "borrowers" \in DOMAIN cell, cell.borrowers = 1, Begins(run, run', r, d),
         table' = Routing!With(table, key, d), pcs' = Routing!With(pcs, d, cell),
         UNCHANGED <<site, retired>>, served' = served + 1
  PROVE  DispatchInv'
<1>1. run[r].pc = Absent /\ d # Absent
  BY RouterAssumed DEF DispatchInv, Entered
<1>2. Dispatching'
  BY DEF DispatchInv, Dispatching, Begins
<1>3. DOMAIN pcs' = DOMAIN pcs \cup {d} /\ pcs'[d] = cell /\ \A e \in DOMAIN pcs : pcs'[e] = pcs[e]
  BY DEF Routing!With
<1>4. /\ DOMAIN table' = DOMAIN table \cup {key} /\ table'[key] = d
      /\ \A k \in DOMAIN table : table'[k] = table[k]
  BY DEF Routing!With
<1>5. Allocated'
  <2>1. IsFiniteSet(DOMAIN pcs) /\ Cardinality(DOMAIN pcs) \in Nat
    BY RouterAssumed, FS_Subset, FS_CardinalityType DEF DispatchInv, Allocated
  <2>2. Cardinality(DOMAIN pcs') = Cardinality(DOMAIN pcs) + 1
    BY <1>3, <2>1, FS_AddElement
  <2> QED
    BY <1>3, <2>1, <2>2 DEF DispatchInv, Allocated, Dispatching
<1>6. Entered'
  BY <1>3 DEF DispatchInv, Entered, Begins
<1>7. \A e : e # d /\ e # Absent => Inside(e)' = Inside(e)
  BY <1>1 DEF Inside, Begins
<1>8. Cardinality(Inside(d)') = 1
  <2>1. Inside(d)' = {r}
    BY <1>1 DEF Inside, Begins, DispatchInv, Entered
  <2> QED
    BY <2>1, FS_Singleton
<1>9. Borrowed'
  <2>1. Absent \notin DOMAIN pcs
    BY RouterAssumed DEF DispatchInv, Allocated
  <2> SUFFICES ASSUME NEW e \in DOMAIN pcs' PROVE pcs'[e].borrowers = Cardinality(Inside(e)')
    BY DEF Borrowed
  <2> QED
    BY <1>3, <1>7, <1>8, <2>1 DEF DispatchInv, Borrowed
<1>10. Routed'
  <2>1. d \notin retired /\ \A k \in DOMAIN table : table[k] # d
    BY DEF DispatchInv, Routed, Allocated
  <2> QED
    BY <1>3, <1>4, <2>1 DEF DispatchInv, Routed
<1> QED
  BY <1>2, <1>5, <1>6, <1>9, <1>10 DEF DispatchInv

LEMMA UnusedFresh ==
  ASSUME DispatchInv, served < MaxServed
  PROVE  Routing!Unused \in Descriptors \ DOMAIN pcs
<1>1. Descriptors # DOMAIN pcs
  BY RouterAssumed, FS_CardinalityType DEF DispatchInv, Dispatching, Allocated
<1> QED
  BY <1>1 DEF Routing!Unused, DispatchInv, Allocated

LEMMA FastPathKeeps ==
  ASSUME DispatchInv, NEW r \in Requests, run[r].at = "idle", served < MaxServed,
         NEW key, Routing!FastPath(r, key), UNCHANGED site, served' = served + 1
  PROVE  DispatchInv'
<1>1. CASE key \in DOMAIN table
  <2>1. PICK d : d = table[key]
    OBVIOUS
  <2>2. d \in DOMAIN pcs
    BY <1>1, <2>1 DEF DispatchInv, Routed
  <2>3. CASE pcs[d].gen # generation
    <3>1. /\ table' = [k \in DOMAIN table \ {key} |-> table[k]]
          /\ retired' = retired \cup {d} /\ Routing!SlowPath(r, key) /\ UNCHANGED pcs
      BY <1>1, <2>1, <2>3 DEF Routing!FastPath
    <3>2. Begins(run, run', r, Absent)
      BY <3>1, StartBegins DEF Routing!SlowPath
    <3> QED
      BY <1>1, <2>1, <3>1, <3>2, StaleKeeps
  <2>4. CASE pcs[d].gen = generation /\ Routing!Runnable(pcs[d].plan)
    <3>1. /\ run' = [run EXCEPT ![r] = Routing!Started(key, Routing!Bound(pcs[d].plan), d)]
          /\ pcs' = [pcs EXCEPT ![d].borrowers = @ + 1] /\ UNCHANGED <<table, retired>>
      BY <1>1, <2>1, <2>4 DEF Routing!FastPath
    <3>2. Begins(run, run', r, d)
      BY <3>1, StartBegins
    <3> QED
      BY <2>2, <3>1, <3>2, FastKeeps
  <2>5. CASE pcs[d].gen = generation /\ ~Routing!Runnable(pcs[d].plan)
    <3>1. Routing!SlowPath(r, key) /\ UNCHANGED <<table, retired, pcs>>
      BY <1>1, <2>1, <2>5 DEF Routing!FastPath
    <3>2. Begins(run, run', r, Absent)
      BY <3>1, StartBegins DEF Routing!SlowPath
    <3> QED
      BY <3>1, <3>2, SlowKeeps
  <2> QED
    BY <2>3, <2>4, <2>5
<1>2. CASE key \notin DOMAIN table
  <2>1. PICK plan, d : plan = Routing!PcResolve(Routing!LeafOf(key)) /\ d = Routing!Unused
    OBVIOUS
  <2>2. PICK cell : cell = [plan |-> plan, gen |-> generation, borrowers |-> 1]
    OBVIOUS
  <2>3. /\ table' = Routing!With(table, key, d) /\ pcs' = Routing!With(pcs, d, cell)
        /\ run' = [run EXCEPT ![r] = Routing!Started(key, Routing!Bound(plan), d)]
        /\ UNCHANGED retired
    BY <1>2, <2>1, <2>2 DEF Routing!FastPath
  <2>4. Begins(run, run', r, d)
    BY <2>3, StartBegins
  <2>5. "borrowers" \in DOMAIN cell /\ cell.borrowers = 1
    BY <2>2
  <2>6. d \in Descriptors \ DOMAIN pcs
    BY <2>1, UnusedFresh
  <2> QED
    BY <1>2, <2>3, <2>4, <2>5, <2>6, NewKeeps
<1> QED
  BY <1>1, <1>2

LEMMA DispatchKeeps ==
  ASSUME DispatchInv, NEW r \in Requests, NEW method, NEW path, Routing!Dispatch(r, method, path)
  PROVE  DispatchInv'
<1> DEFINE route == Routing!Lookup(method, path)
           lost == Routing!ErrorPlan(Routing!NotFound)
<1>1. PICK key : key = <<method, route>>
  OBVIOUS
<1>2. run[r].at = "idle" /\ served < MaxServed /\ served' = served + 1 /\ UNCHANGED site
  BY DEF Routing!Dispatch
<1>3. route # Absent =>
        IF Routing!Precompiles THEN Routing!FastPath(r, key)
                               ELSE Routing!SlowPath(r, key) /\ UNCHANGED Routing!descriptors
  BY <1>1 DEF Routing!Dispatch
<1>4. route = Absent => /\ run' = [run EXCEPT ![r] = Routing!Started(Absent, lost, Absent)]
                        /\ UNCHANGED Routing!descriptors
  BY DEF Routing!Dispatch
<1>5. CASE Routing!FastPath(r, key)
  BY <1>2, <1>5, FastPathKeeps
<1>6. CASE Routing!SlowPath(r, key) /\ UNCHANGED Routing!descriptors
  <2>1. Begins(run, run', r, Absent)
    BY <1>6, StartBegins DEF Routing!SlowPath
  <2> QED
    BY <1>2, <1>6, <2>1, SlowKeeps DEF Routing!descriptors
<1>7. CASE route = Absent
  <2>1. Begins(run, run', r, Absent)
    BY <1>4, <1>7, StartBegins
  <2> QED
    BY <1>2, <1>4, <1>7, <2>1, SlowKeeps DEF Routing!descriptors
<1> QED
  BY <1>3, <1>5, <1>6, <1>7

(* What the steps do to the contexts.                                      *)
LEMMA CapturedDomain ==
  ASSUME NEW x, NEW pattern, NEW path
  PROVE  DOMAIN Routing!Captured(x, pattern, path) = DOMAIN x
<1>1. DOMAIN Routing!SetMca(x, pattern, path) = DOMAIN x
  BY Zenon DEF Routing!SetMca
<1>2. \E p : Routing!Captured(x, pattern, path) = [Routing!SetMca(x, pattern, path) EXCEPT !.params = p]
  BY Zenon DEF Routing!Captured
<1> QED
  BY <1>1, <1>2, Zenon

LEMMA CapturedLang ==
  ASSUME NEW x, NEW pattern, NEW path, "lang" \in DOMAIN x
  PROVE  Routing!Captured(x, pattern, path).lang = x.lang
<1>1. PICK at, heap, buf : Routing!SetMca(x, pattern, path) = [x EXCEPT !.at = at, !.heap = heap, !.buf = buf]
  BY Zenon DEF Routing!SetMca
<1>2. PICK p : Routing!Captured(x, pattern, path) = [Routing!SetMca(x, pattern, path) EXCEPT !.params = p]
  BY Zenon DEF Routing!Captured
<1>3. Routing!SetMca(x, pattern, path).lang = x.lang /\ "lang" \in DOMAIN Routing!SetMca(x, pattern, path)
  BY <1>1
<1> QED
  BY <1>2, <1>3

(* What the walk of match() leaves as the language.                        *)
LEMMA WalkedLang ==
  ASSUME NEW x, NEW method, NEW path, "lang" \in DOMAIN x
  PROVE  LET lang == Routing!Stripped(path).lang
         IN Routing!Walked(x, method, path).lang = IF lang # Absent THEN lang ELSE x.lang
<1> DEFINE lang == Routing!Stripped(path).lang
           route == Routing!Lookup(method, path)
           blank == [x EXCEPT !.at = Absent, !.params = Routing!None]
           found == Routing!Captured(blank, route, Routing!Stripped(path).path)
           now == IF route = Absent THEN blank ELSE found
<1>1. "lang" \in DOMAIN blank /\ blank.lang = x.lang
  OBVIOUS
<1>2. DOMAIN found = DOMAIN blank /\ found.lang = blank.lang
  <2> HIDE DEF blank
  <2> QED
    BY <1>1, CapturedDomain, CapturedLang
<1>3. "lang" \in DOMAIN now /\ now.lang = x.lang
  <2> HIDE DEF blank, found
  <2> QED
    BY <1>1, <1>2
<1>4. Routing!Walked(x, method, path) = [now EXCEPT !.lang = IF lang # Absent THEN lang ELSE @]
  BY Zenon DEF Routing!Walked
<1> QED
  <2> HIDE DEF now
  <2> QED
    BY <1>3, <1>4

LEMMA DispatchContext ==
  ASSUME DispatchInv, Contextual, NEW r \in Requests, NEW method, NEW path,
         Routing!Dispatch(r, method, path)
  PROVE  Contextual' /\ run[r].at = "idle" /\ \A q \in Requests : q # r => ctx'[q] = ctx[q]
<1> DEFINE route == Routing!Lookup(method, path)
           at == Routing!Stripped(path).path
<1>1. PICK reset : /\ DOMAIN reset = DOMAIN ctx[r]
                   /\ ctx' = [ctx EXCEPT ![r] =
                        IF route # Absent
                          THEN [Routing!Captured(reset, route, at) EXCEPT !.uri = <<method, route>>]
                          ELSE reset]
  <2>1. PICK lang, reset :
          /\ reset = [ctx[r] EXCEPT !.params = Routing!None, !.lang = lang]
          /\ ctx' = [ctx EXCEPT ![r] =
               IF route # Absent
                 THEN [Routing!Captured(reset, route, at) EXCEPT !.uri = <<method, route>>]
                 ELSE reset]
    BY Zenon DEF Routing!Dispatch
  <2>2. DOMAIN reset = DOMAIN ctx[r]
    BY <2>1, Zenon
  <2> QED
    BY <2>1, <2>2
<1>2. PICK now : /\ now = IF route # Absent
                            THEN [Routing!Captured(reset, route, at) EXCEPT !.uri = <<method, route>>]
                            ELSE reset
                 /\ ctx' = [ctx EXCEPT ![r] = now]
  BY <1>1
<1>3. DOMAIN now = DOMAIN ctx[r]
  <2>1. DOMAIN Routing!Captured(reset, route, at) = DOMAIN reset
    BY CapturedDomain
  <2>2. CASE route # Absent
    <3>1. now = [Routing!Captured(reset, route, at) EXCEPT !.uri = <<method, route>>]
      BY <1>2, <2>2
    <3>2. DOMAIN now = DOMAIN Routing!Captured(reset, route, at)
      BY <3>1, Zenon
    <3> QED
      BY <1>1, <2>1, <3>2
  <2>3. CASE route = Absent
    BY <1>1, <1>2, <2>3
  <2> QED
    BY <2>2, <2>3
<1>4. Contextual' /\ \A q \in Requests : q # r => ctx'[q] = ctx[q]
  BY <1>2, <1>3 DEF Contextual
<1>5. run[r].at = "idle"
  BY DEF Routing!Dispatch
<1> QED
  BY <1>4, <1>5

LEMMA MatchContext ==
  ASSUME DispatchInv, Contextual, NEW r \in Requests, NEW method, NEW path,
         Routing!Match(r, method, path)
  PROVE  LET lang == Routing!Stripped(path).lang
         IN /\ DispatchInv' /\ Contextual'
            /\ \A q \in Requests : q # r => ctx'[q] = ctx[q]
            /\ Routing!Visible(ctx'[r]) =
                 [Routing!Visible(ctx[r]) EXCEPT !.lang = IF lang # Absent THEN lang ELSE ctx[r].lang]
<1> DEFINE lang == Routing!Stripped(path).lang
           put == Seen \ {"lang"}
<1>1. /\ UNCHANGED <<site, table, retired, pcs, run, served>>
      /\ ctx' = [ctx EXCEPT ![r] = Routing!Put(put, ctx[r], Routing!Walked(ctx[r], method, path))]
  <2>1. put = {"at", "heap", "buf", "params", "uri"}
    BY DEF Seen
  <2> QED
    BY <2>1 DEF Routing!Match, Routing!descriptors, Routing!counters
<1>2. PICK now : /\ now = Routing!Put(put, ctx[r], Routing!Walked(ctx[r], method, path))
                 /\ ctx' = [ctx EXCEPT ![r] = now]
  BY <1>1
<1>3. /\ DOMAIN now = DOMAIN ctx[r] /\ Seen \subseteq DOMAIN ctx[r]
      /\ \A f \in put : now[f] = ctx[r][f]
      /\ now.lang = Routing!Walked(ctx[r], method, path).lang
  BY <1>2 DEF Routing!Put, Contextual, Seen
<1>4. Contextual' /\ \A q \in Requests : q # r => ctx'[q] = ctx[q]
  BY <1>2, <1>3 DEF Contextual
<1>5. /\ now.at = ctx[r].at /\ now.heap = ctx[r].heap /\ now.buf = ctx[r].buf
      /\ now.params = ctx[r].params /\ now.uri = ctx[r].uri
      /\ now.lang = IF lang # Absent THEN lang ELSE ctx[r].lang
  <2>1. now.lang = IF lang # Absent THEN lang ELSE ctx[r].lang
    BY <1>3, WalkedLang DEF Seen
  <2> QED
    BY <1>3, <2>1 DEF Seen
<1>6. /\ Routing!Visible(now) = [Routing!Visible(ctx[r]) EXCEPT !.lang = now.lang]
      /\ ctx'[r] = now
  BY <1>2, <1>5 DEF Routing!Visible, Contextual
<1> QED
  BY <1>1, <1>4, <1>5, <1>6, UnchangedKeeps

LEMMA RequestEndContext ==
  ASSUME DispatchInv, Contextual, NEW r \in Requests, Routing!RequestEnd(r)
  PROVE  Contextual' /\ run[r].at = "done" /\ \A q \in Requests : q # r => ctx'[q] = ctx[q]
<1>1. ctx' = [ctx EXCEPT ![r] = Routing!NoCtx] /\ run[r].at = "done"
  BY DEF Routing!RequestEnd
<1>2. Seen \subseteq DOMAIN Routing!NoCtx
  BY DEF Routing!NoCtx, Seen
<1> QED
  BY <1>1, <1>2 DEF Contextual

LEMMA DispatchStarts == Routing!RouterInit => DispatchInv /\ Contextual
<1> SUFFICES ASSUME Routing!RouterInit PROVE DispatchInv /\ Contextual
  OBVIOUS
<1>1. /\ site \in Sites /\ served = 0 /\ run = [r \in Requests |-> Routing!Idle]
      /\ ctx = [r \in Requests |-> Routing!NoCtx]
      /\ table = Routing!None /\ retired = {} /\ pcs = Routing!None
  BY DEF Routing!RouterInit
<1>2. DOMAIN Routing!None = {}
  BY DEF Routing!None
<1>3. DOMAIN Routing!Idle = RunFields /\ Routing!Idle.pc = Absent /\ Seen \subseteq DOMAIN Routing!NoCtx
  BY DEF Routing!Idle, Routing!NoCtx, RunFields, Seen
<1> QED
  BY <1>1, <1>2, <1>3, FS_EmptySet DEF DispatchInv, Dispatching, Allocated, Entered, Borrowed, Routed, Contextual

(* A context that is as it was shows what it showed.                       *)
LEMMA SameShown ==
  ASSUME NEW r \in Requests, ctx'[r] = ctx[r]
  PROVE  Routing!Visible(ctx'[r]) = [Routing!Visible(ctx[r]) EXCEPT !.lang = ctx[r].lang]
BY DEF Routing!Visible

LEMMA SameHides ==
  ASSUME \A r \in Requests : Routing!Between(r) => ctx'[r] = ctx[r]
  PROVE  Routing!ProbeHides
BY SameShown DEF Routing!ProbeHides

(* Every step of the router, and what a request sees of its context.       *)
LEMMA DispatchStep ==
  ASSUME DispatchInv, Contextual, Routing!RouterNext
  PROVE  DispatchInv' /\ Contextual' /\ Routing!ProbeHides
<1>1. ASSUME DispatchInv', UNCHANGED ctx PROVE DispatchInv' /\ Contextual' /\ Routing!ProbeHides
  BY <1>1, SameHides DEF Contextual
<1>2. ASSUME NEW r \in site.requests,
             \/ \E path \in site.paths : Routing!Dispatch(r, "get", path)
             \/ \E path \in site.probes : Routing!Match(r, "get", path)
             \/ Routing!Call(r) \/ Routing!DispatchHooks(r) \/ Routing!LostLink(r)
             \/ Routing!Finish(r) \/ Routing!RequestEnd(r)
      PROVE  DispatchInv' /\ Contextual' /\ Routing!ProbeHides
  <2>1. r \in Requests
    BY RouterAssumed DEF DispatchInv, Dispatching
  <2>2. ASSUME NEW path, Routing!Dispatch(r, "get", path) PROVE DispatchInv' /\ Contextual' /\ Routing!ProbeHides
    BY <2>1, <2>2, DispatchKeeps, DispatchContext, SameHides DEF Routing!Between
  <2>3. ASSUME NEW path \in site.probes, Routing!Match(r, "get", path)
        PROVE  DispatchInv' /\ Contextual' /\ Routing!ProbeHides
    <3> DEFINE lang == Routing!Stripped(path).lang
               left == IF lang # Absent THEN lang ELSE ctx[r].lang
    <3>1. /\ DispatchInv' /\ Contextual'
          /\ \A q \in Requests : q # r => ctx'[q] = ctx[q]
          /\ Routing!Visible(ctx'[r]) = [Routing!Visible(ctx[r]) EXCEPT !.lang = left]
      BY <2>1, <2>3, MatchContext
    <3>2. /\ left \in {Routing!Stripped(p).lang : p \in site.probes} \cup {ctx[r].lang}
          /\ ctx[r].lang # Absent => left # Absent
      OBVIOUS
    <3> HIDE DEF left
    <3> QED
      BY <3>1, <3>2, SameShown DEF Routing!ProbeHides
  <2>4. CASE Routing!Call(r) \/ Routing!DispatchHooks(r) \/ Routing!LostLink(r)
    BY <1>1, <2>1, <2>4, CallKeeps
  <2>5. CASE Routing!Finish(r)
    BY <1>1, <2>1, <2>5, FinishKeeps
  <2>6. CASE Routing!RequestEnd(r)
    BY <2>1, <2>6, RequestEndKeeps, RequestEndContext, SameHides DEF Routing!Between
  <2> QED
    BY <1>2, <2>2, <2>3, <2>4, <2>5, <2>6
<1>3. CASE \/ Routing!CallRoute \/ Routing!CallEvent \/ Routing!CallGroup \/ Routing!CallPolicy
           \/ Routing!CallConfigure \/ Routing!WorkerReady \/ Routing!Rebuild
  BY <1>1, <1>3, RegistrationKeeps
<1>4. CASE Routing!CallRemove
  BY <1>1, <1>4, RemovalKeeps
<1> QED
  BY <1>2, <1>3, <1>4 DEF Routing!RouterNext

LEMMA DispatchStutters ==
  ASSUME DispatchInv, Contextual, UNCHANGED routerVars
  PROVE  DispatchInv' /\ Contextual'
<1>1. UNCHANGED <<site, table, retired, pcs, run, served, ctx>>
  BY DEF routerVars
<1> QED
  BY <1>1, UnchangedKeeps DEF Contextual

-----------------------------------------------------------------------------
(* The container.                                                          *)
Bodies ==
    [name : Serving!Names \cup {Absent}, key : Serving!Names, shared : BOOLEAN, keep : BOOLEAN,
     class : Serving!Names, object : Nat, todo : Seq(Serving!Calls)]
SharedName(k) == Serving!Configured(k) # Absent /\ Serving!Configured(k).shared

(* What is under construction is not there yet, and what it is kept under  *)
(* is claimed by one constructor only; a claim on a shared name is one on  *)
(* its class.                                                              *)
Claiming(f) ==
    /\ f.object \in DOMAIN built
    /\ f.name # Absent => f.keep
    /\ Serving!Claims(f) \cap DOMAIN regs = {}
    /\ \A k \in Serving!Claims(f) :
          k # Serving!Response /\ (SharedName(k) => Serving!Configured(k).class \in Serving!Claims(f))
Stacked(s) ==
    /\ s \in Seq(Bodies)
    /\ \A i \in DOMAIN s : Claiming(s[i])
    /\ \A i, j \in DOMAIN s : i # j => Serving!Claims(s[i]) \cap Serving!Claims(s[j]) = {}

ServiceTypes ==
    /\ shop \in Shops /\ keyCount \in Nat /\ thrown \in BOOLEAN
    /\ built \in Seq([class : Serving!Names \cup {Absent}, whole : BOOLEAN])
    /\ regs = [k \in DOMAIN regs |-> regs[k]]
    /\ \A k \in DOMAIN regs : k \in Serving!Names /\ regs[k] \in DOMAIN built
    /\ Absent \notin DOMAIN given /\ Serving!Response \notin DOMAIN aliases

(* A name that gave an object is found there still; the names of a shared  *)
(* class that the request did not write have its one object.               *)
GivenFound == \A n \in DOMAIN given : given[n] # Absent /\ Serving!Found(n) = given[n]
SharedSame ==
    \A k \in DOMAIN regs :
       SharedName(k) /\ touched \cap {k, Serving!Configured(k).class} = {}
       => /\ Serving!Configured(k).class \in DOMAIN regs
          /\ regs[k] = regs[Serving!Configured(k).class]
LastAnswer ==
    /\ answer.threw \in BOOLEAN
    /\ answer.object # Absent => answer.object \in DOMAIN built
    /\ answer.name \in DOMAIN given /\ ~answer.threw => given[answer.name] = answer.object
    /\ answer.object # Absent /\ ~answer.threw => built[answer.object].whole
AllWhole == ~thrown /\ ~answer.threw => \A k \in DOMAIN regs : built[regs[k]].whole
Replying == response # Absent => Serving!Response \in DOMAIN regs /\ response = regs[Serving!Response]
Serves ==
    /\ ServiceTypes /\ Serving!KeysNoted /\ GivenFound /\ SharedSame /\ LastAnswer /\ AllWhole
    /\ Replying

(* An exception passes through every constructor that is under way.        *)
Unwinding == (answer.threw => thrown \/ making = <<>>) /\ (thrown => making # <<>>)
Loading ==
    /\ serving \in Nat /\ loader \in [flag : BOOLEAN, spl : BOOLEAN]
    /\ (loader.flag => loader.spl) /\ (serving > 0 => loader.flag)
ServiceInv == Serves /\ Stacked(making) /\ Unwinding /\ Loading

LEMMA ShopFacts ==
  ASSUME shop \in Shops
  PROVE  /\ Absent \notin Nat /\ Absent \notin Serving!Names /\ Serving!Response \in Serving!Names
         /\ Serving!Configured(Serving!Response) = Absent
         /\ \A n : LET s == Serving!Configured(n)
                   IN  s # Absent => /\ n \in Serving!Names /\ n # Serving!Response
                                     /\ s.class \in Serving!Names /\ s.shared \in BOOLEAN
                                     /\ Serving!HasFile(n) => s.class = n
         /\ \A c : Serving!HasFile(c) =>
                      /\ c \in Serving!Names /\ c # Serving!Response
                      /\ shop.builds[c] \in Seq(Serving!Calls)
         /\ shop.calls \subseteq Serving!Calls /\ shop.length \in Nat
<1>1. Serving!ContainerAssumption
  BY PartAssumptions
<1>3. Serving!Response \in Serving!Names
  BY <1>1 DEF Serving!ContainerAssumption
<1>4. /\ Absent \notin Nat /\ Absent \notin Serving!Names
      /\ shop.calls \subseteq Serving!Calls /\ shop.length \in Nat
      /\ \A c \in DOMAIN shop.builds : /\ c \in Serving!Names \ {Serving!Response}
                                      /\ shop.builds[c] \in Seq(Serving!Calls)
      /\ \A n \in DOMAIN shop.config :
            /\ n \in Serving!Names \ {Serving!Response}
            /\ shop.config[n] \in [class : Serving!Names, shared : BOOLEAN]
            /\ n \in DOMAIN shop.builds => shop.config[n].class = n
  BY <1>1 DEF Serving!ContainerAssumption
<1>5. \A n \in DOMAIN shop.config : shop.config[n].class \in Serving!Names /\ shop.config[n].shared \in BOOLEAN
  BY <1>4
<1> QED
  BY <1>3, <1>4, <1>5 DEF Serving!Configured, Serving!HasFile

LEMMA Unmoved ==
  ASSUME shop' = shop
  PROVE  /\ \A k : Serving!Configured(k)' = Serving!Configured(k)
         /\ \A k : SharedName(k)' <=> SharedName(k)
         /\ aliases' = aliases => \A n : Serving!Resolve(n)' = Serving!Resolve(n)
<1>1. \A k : Serving!Configured(k)' = Serving!Configured(k)
  BY DEF Serving!Configured
<1>2. \A k : SharedName(k)' <=> SharedName(k)
  BY <1>1 DEF SharedName
<1>3. ASSUME aliases' = aliases, NEW n PROVE Serving!Resolve(n)' = Serving!Resolve(n)
  BY <1>3 DEF Serving!Resolve
<1> QED
  BY <1>1, <1>2, <1>3

LEMMA FoundFacts ==
  ASSUME ServiceTypes, NEW n
  PROVE  /\ Serving!Found(n) # Absent => \E k \in DOMAIN regs : Serving!Found(n) = regs[k]
         /\ Serving!Found(n) = Absent =>
              /\ Serving!Resolve(n) \notin DOMAIN regs
              /\ SharedName(Serving!Resolve(n)) =>
                    Serving!Configured(Serving!Resolve(n)).class \notin DOMAIN regs
<1>1. \A k \in DOMAIN regs : regs[k] # Absent
  BY ShopFacts DEF ServiceTypes
<1> QED
  BY <1>1 DEF Serving!Found, SharedName

LEMMA OwnName == ASSUME ServiceTypes PROVE Serving!Resolve(Serving!Response) = Serving!Response
BY DEF ServiceTypes, Serving!Resolve, Serving!ResolveIn
LEMMA StackStays ==
  ASSUME NEW s, Stacked(s), making' = s, shop' = shop, DOMAIN built \subseteq DOMAIN built',
         \A k \in DOMAIN regs' : k \in DOMAIN regs \/ \A i \in DOMAIN s : k \notin Serving!Claims(s[i])
  PROVE  Stacked(making)'
<1>1. ASSUME NEW i \in DOMAIN s PROVE Claiming(making[i])'
  <2>1. Claiming(s[i])
    BY DEF Stacked
  <2>2. s[i].object \in DOMAIN built' /\ Serving!Claims(s[i]) \cap DOMAIN regs' = {}
    BY <2>1 DEF Claiming
  <2> QED
    BY <2>1, <2>2, Unmoved DEF Claiming
<1> QED
  BY <1>1 DEF Stacked

LEMMA AnswerKeeps ==
  ASSUME Serves, NEW s, Stacked(s), ~thrown, ~answer.threw, NEW name, NEW object,
         object # Absent => \E k \in DOMAIN regs : object = regs[k],
         name # Absent => object = Serving!Found(name),
         Serving!Answer(name, object, s),
         UNCHANGED <<shop, regs, aliases, keyCount, touched, thrown>>,
         \/ response' = response
         \/ /\ response' = object
            /\ object # Absent => Serving!Response \in DOMAIN regs /\ object = regs[Serving!Response]
  PROVE  Serves' /\ Stacked(making)' /\ ~answer'.threw
<1>1. /\ answer' = [name |-> name, object |-> object, threw |-> FALSE]
      /\ making' = s /\ built' = built /\ given' = Serving!Remembered(name, object)
  BY DEF Serving!Answer, Serving!Answered
<1>2. Stacked(making)'
  BY <1>1, StackStays
<1>3. /\ DOMAIN given' \subseteq DOMAIN given \cup {name}
      /\ \A n \in DOMAIN given : n \in DOMAIN given' /\ given'[n] = given[n]
      /\ name \in DOMAIN given' => name # Absent
      /\ name \in DOMAIN given' /\ name \notin DOMAIN given => object # Absent /\ given'[name] = object
  BY <1>1 DEF Serving!Remembered, Serving!With, Serves, ServiceTypes
<1>4. \A n : Serving!Found(n)' = Serving!Found(n)
  BY Unmoved DEF Serving!Found
<1>5. GivenFound'
  BY <1>3, <1>4 DEF Serves, GivenFound
<1>6. LastAnswer'
  <2>1. name \in DOMAIN given' => given'[name] = object
    BY <1>3 DEF Serves, GivenFound
  <2>2. object # Absent => object \in DOMAIN built /\ built[object].whole
    BY DEF Serves, ServiceTypes, AllWhole
  <2> QED
    BY <1>1, <2>1, <2>2 DEF LastAnswer
<1>7. ServiceTypes'
  BY <1>1, <1>3 DEF Serves, ServiceTypes
<1>8. SharedSame'
  BY Unmoved DEF Serves, SharedSame
<1>9. AllWhole'
  BY <1>1 DEF Serves, AllWhole
<1>10. Replying'
  BY DEF Serves, Replying
<1>11. Serving!KeysNoted'
  BY DEF Serves, Serving!KeysNoted
<1> QED
  BY <1>1, <1>2, <1>5, <1>6, <1>7, <1>8, <1>9, <1>10, <1>11 DEF Serves

LEMMA ConstructKeeps ==
  ASSUME Serves, NEW s, Stacked(s), ~thrown, ~answer.threw, "itself" \in ContainerCareful,
         NEW name \in Serving!Names \cup {Absent}, NEW key \in Serving!Names,
         NEW shared \in BOOLEAN, NEW keep \in BOOLEAN, NEW class,
         Serving!HasFile(class), name # Absent => keep, key # Serving!Response,
         key \notin DOMAIN regs \/ ~keep, shared => class \notin DOMAIN regs,
         SharedName(key) => Serving!Configured(key).class = IF shared THEN class ELSE key,
         Serving!Construct(name, key, shared, keep, class, s),
         UNCHANGED <<shop, regs, aliases, keyCount, touched, thrown, response>>
  PROVE  Serves' /\ Stacked(making)' /\ ~answer'.threw
<1> DEFINE thing == [class |-> class, whole |-> FALSE]
<1>a. PICK object : object = Len(built) + 1
  BY Zenon
<1>b. PICK f : f = [name |-> name, key |-> key, shared |-> shared, keep |-> keep, class |-> class,
                    object |-> object, todo |-> shop.builds[class]]
  BY Zenon
<1>0. class \in Serving!Names /\ class # Serving!Response /\ shop.builds[class] \in Seq(Serving!Calls)
  BY ShopFacts DEF Serves, ServiceTypes
<1>1. /\ Serving!Unclaimed(Serving!Claims(f), s)
      /\ built' = Append(built, thing) /\ making' = Append(s, f)
      /\ answer' = answer /\ given' = given
  BY <1>a, <1>b DEF Serving!Construct
<1>2. /\ built' \in Seq([class : Serving!Names \cup {Absent}, whole : BOOLEAN])
      /\ Len(built) \in Nat /\ Len(built') = Len(built) + 1 /\ object \in Nat
      /\ DOMAIN built = 1..Len(built) /\ DOMAIN built' = 1..Len(built) + 1
      /\ \A i \in DOMAIN built : built'[i] = built[i]
  <2>1. built \in Seq([class : Serving!Names \cup {Absent}, whole : BOOLEAN])
    BY DEF Serves, ServiceTypes
  <2>2. thing \in [class : Serving!Names \cup {Absent}, whole : BOOLEAN]
    BY <1>0
  <2> QED
    BY <1>1, <1>a, <2>1, <2>2, AppendProperties
<1>3. Stacked(making)'
  <2>1. f \in Bodies
    BY <1>0, <1>2, <1>b DEF Bodies
  <2>2. s \in Seq(Bodies) /\ DOMAIN s = 1..Len(s) /\ Len(s) \in Nat
    BY DEF Stacked
  <2>3. /\ making' \in Seq(Bodies) /\ DOMAIN making' = 1..Len(s) + 1
        /\ making'[Len(s) + 1] = f /\ \A i \in DOMAIN s : making'[i] = s[i]
    BY <1>1, <2>1, <2>2, AppendProperties
  <2>4. Serving!Claims(f) = IF keep THEN {key} \cup (IF shared THEN {class} ELSE {}) ELSE {}
    BY <1>b DEF Serving!Claims
  <2>5. \A i \in DOMAIN s : Serving!Claims(s[i]) \cap Serving!Claims(f) = {}
    BY <1>1 DEF Serving!Unclaimed
  <2>6. Claiming(f)'
    <3>1. f.object \in DOMAIN built' /\ (f.name # Absent => f.keep)
      BY <1>2, <1>a, <1>b
    <3>2. Serving!Claims(f) \cap DOMAIN regs = {}
      BY <2>4
    <3>3. ASSUME NEW k \in Serving!Claims(f)
          PROVE  /\ k # Serving!Response
                 /\ SharedName(k) => Serving!Configured(k).class \in Serving!Claims(f)
      <4>1. CASE k = key
        BY <2>4, <3>3, <4>1
      <4>2. CASE shared /\ k = class
        <5>1. SharedName(k) => Serving!Configured(k).class = k
          BY <4>2, ShopFacts DEF SharedName, Serves, ServiceTypes
        <5> QED
          BY <1>0, <3>3, <4>2, <5>1
      <4> QED
        BY <2>4, <4>1, <4>2
    <3> QED
      BY <3>1, <3>2, <3>3, Unmoved DEF Claiming
  <2>7. ASSUME NEW i \in DOMAIN s PROVE Claiming(s[i])'
    <3>1. Claiming(s[i])
      BY DEF Stacked
    <3>2. s[i].object \in DOMAIN built'
      BY <1>2, <3>1 DEF Claiming
    <3> QED
      BY <3>1, <3>2, Unmoved DEF Claiming
  <2>8. \A i \in DOMAIN making' : Claiming(making[i])'
    BY <2>2, <2>3, <2>6, <2>7
  <2>9. \A i, j \in DOMAIN making' :
           i # j => Serving!Claims(making'[i]) \cap Serving!Claims(making'[j]) = {}
    BY <2>2, <2>3, <2>5 DEF Stacked
  <2> QED
    BY <2>3, <2>8, <2>9 DEF Stacked
<1> HIDE DEF thing
<1>4. \A n : Serving!Found(n)' = Serving!Found(n)
  BY Unmoved DEF Serving!Found
<1>5. ServiceTypes' /\ LastAnswer' /\ AllWhole'
  BY <1>1, <1>2 DEF Serves, ServiceTypes, LastAnswer, AllWhole
<1>6. GivenFound' /\ SharedSame' /\ Replying' /\ Serving!KeysNoted'
  BY <1>1, <1>4, Unmoved DEF Serves, GivenFound, SharedSame, Replying, Serving!KeysNoted
<1> QED
  BY <1>1, <1>3, <1>5, <1>6 DEF Serves
LEMMA NoAnswer ==
  ASSUME NEW a, a = Serving!Answered(Absent, Absent, FALSE)
  PROVE  a.name = Absent /\ a.object = Absent /\ ~a.threw /\ a.threw \in BOOLEAN
BY DEF Serving!Answered

LEMMA KeepKeeps ==
  ASSUME Serves, NEW s, Stacked(s), ~thrown, ~answer.threw,
         "itself" \in ContainerCareful, "response" \in ContainerCareful,
         NEW key \in Serving!Names, Serving!Keep(key, s),
         UNCHANGED <<shop, aliases, thrown, response>>, keyCount' \in Nat,
         keyCount' = 0 => keyCount = 0 /\ (key \in DOMAIN regs \/ Len(key) = 1),
         answer' = Serving!Answered(Absent, Absent, FALSE)
  PROVE  Serves' /\ Stacked(making)' /\ ~answer'.threw
<1> DEFINE thing == [class |-> Absent, whole |-> TRUE]
<1>a. PICK object : object = Len(built) + 1
  BY Zenon
<1>1. /\ Serving!Unclaimed({key}, s) /\ (key = Serving!Response => response = Absent)
      /\ built' = Append(built, thing) /\ regs' = Serving!With(regs, {key}, object)
      /\ given' = Serving!With(Serving!Without(given, Serving!Open(key)),
                               IF Serving!Resolve(key) = key THEN {key} ELSE {}, object)
      /\ touched' = touched \cup {key} /\ making' = s
      /\ answer' = [name |-> Absent, object |-> Absent, threw |-> FALSE]
  BY <1>a DEF Serving!Keep, Serving!MayWrite, Serving!Value, Serving!Answered
<1>2. /\ built' \in Seq([class : Serving!Names \cup {Absent}, whole : BOOLEAN])
      /\ object \in Nat /\ object \in DOMAIN built' /\ built'[object] = thing
      /\ \A i \in DOMAIN built : i \in DOMAIN built' /\ built'[i] = built[i]
  <2>1. built \in Seq([class : Serving!Names \cup {Absent}, whole : BOOLEAN])
    BY DEF Serves, ServiceTypes
  <2>2. thing \in [class : Serving!Names \cup {Absent}, whole : BOOLEAN]
    OBVIOUS
  <2>3. /\ DOMAIN built = 1..Len(built) /\ Len(built) \in Nat
        /\ built' \in Seq([class : Serving!Names \cup {Absent}, whole : BOOLEAN])
        /\ DOMAIN built' = 1..Len(built) + 1 /\ built'[Len(built) + 1] = thing
        /\ \A i \in DOMAIN built : built'[i] = built[i]
    BY <1>1, <2>1, <2>2, AppendProperties
  <2> QED
    BY <1>a, <2>3
<1>3. /\ DOMAIN regs' = DOMAIN regs \cup {key} /\ regs'[key] = object
      /\ \A k \in DOMAIN regs : k # key => regs'[k] = regs[k]
      /\ regs' = [k \in DOMAIN regs' |-> regs'[k]]
  BY <1>1 DEF Serving!With
<1>4. Stacked(making)'
  BY <1>1, <1>2, <1>3, StackStays DEF Serving!Unclaimed
<1>5. \A n \in DOMAIN given' :
         \/ n = key /\ Serving!Resolve(key) = key /\ given'[n] = object
         \/ /\ n \in DOMAIN given /\ given'[n] = given[n] /\ Serving!Resolve(n) # key
            /\ SharedName(Serving!Resolve(n)) =>
                  Serving!Configured(Serving!Resolve(n)).class # key
  BY <1>1 DEF Serving!With, Serving!Without, Serving!Open, SharedName
<1>6. Absent \notin Nat /\ Absent \notin Serving!Names
  BY ShopFacts DEF Serves, ServiceTypes
<1>7. GivenFound'
  <2> SUFFICES ASSUME NEW n \in DOMAIN given' PROVE given'[n] # Absent /\ Serving!Found(n)' = given'[n]
    BY DEF GivenFound
  <2>1. Serving!Resolve(n)' = Serving!Resolve(n)
    BY Unmoved
  <2>2. CASE n = key /\ Serving!Resolve(key) = key /\ given'[n] = object
    BY <1>2, <1>3, <1>6, <2>1, <2>2 DEF Serving!Found
  <2>3. CASE /\ n \in DOMAIN given /\ given'[n] = given[n] /\ Serving!Resolve(n) # key
             /\ SharedName(Serving!Resolve(n)) => Serving!Configured(Serving!Resolve(n)).class # key
    <3>1. given[n] # Absent /\ Serving!Found(n) = given[n]
      BY <2>3 DEF Serves, GivenFound
    <3>2. Serving!Found(n)' = Serving!Found(n)
      BY <1>3, <2>1, <2>3, Unmoved DEF Serving!Found, SharedName
    <3> QED
      BY <2>3, <3>1, <3>2
  <2> QED
    BY <1>5, <2>2, <2>3
<1>8. ServiceTypes'
  <2>1. Absent \notin DOMAIN given'
    BY <1>5, <1>6 DEF Serves, ServiceTypes
  <2> QED
    BY <1>2, <1>3, <2>1 DEF Serves, ServiceTypes
<1>9. LastAnswer' /\ ~answer'.threw
  <2>1. answer'.name = Absent /\ answer'.object = Absent
    BY NoAnswer
  <2>2. ~answer'.threw /\ answer'.threw \in BOOLEAN
    BY NoAnswer
  <2>3. answer'.name \notin DOMAIN given'
    BY <1>8, <2>1 DEF ServiceTypes
  <2> QED
    BY <2>1, <2>2, <2>3, Zenon DEF LastAnswer
<1>10. SharedSame'
  <2> SUFFICES ASSUME NEW k \in DOMAIN regs', SharedName(k)',
                      touched' \cap {k, Serving!Configured(k)'.class} = {}
               PROVE  /\ Serving!Configured(k)'.class \in DOMAIN regs'
                      /\ regs'[k] = regs'[Serving!Configured(k)'.class]
    BY DEF SharedSame
  <2> DEFINE c == Serving!Configured(k).class
  <2>1. Serving!Configured(k)'.class = c /\ SharedName(k)
    BY Unmoved
  <2>2. k # key /\ c # key /\ k \in DOMAIN regs /\ touched \cap {k, c} = {}
    BY <1>1, <1>3, <2>1
  <2>3. c \in DOMAIN regs /\ regs[k] = regs[c]
    BY <2>1, <2>2 DEF Serves, SharedSame
  <2> QED
    BY <1>3, <2>1, <2>2, <2>3
<1>12. AllWhole'
  <2>1. \A k \in DOMAIN regs : regs[k] \in DOMAIN built /\ built[regs[k]].whole
    BY DEF Serves, ServiceTypes, AllWhole
  <2>2. thing.whole
    OBVIOUS
  <2> HIDE DEF thing
  <2> QED
    BY <1>2, <1>3, <2>1, <2>2 DEF AllWhole
<1>11. Replying' /\ Serving!KeysNoted'
  BY <1>1, <1>3 DEF Serves, Replying, Serving!KeysNoted
<1> QED
  BY <1>4, <1>7, <1>8, <1>9, <1>10, <1>11, <1>12 DEF Serves

LEMMA DelKeeps ==
  ASSUME Serves, NEW s, Stacked(s), ~thrown, ~answer.threw,
         "response" \in ContainerCareful, NEW key, Serving!Del(key, s),
         UNCHANGED <<shop, thrown, response>>, answer' = Serving!Answered(Absent, Absent, FALSE)
  PROVE  Serves' /\ Stacked(making)' /\ ~answer'.threw
<1>1. /\ key = Serving!Response => response = Absent
      /\ regs' = Serving!Without(regs, {key})
      /\ given' = Serving!Without(given, Serving!Open(key))
      /\ touched' = touched \cup {key} /\ making' = s
      /\ aliases' = aliases /\ keyCount' = keyCount /\ built' = built
      /\ answer' = [name |-> Absent, object |-> Absent, threw |-> FALSE]
  BY DEF Serving!Del, Serving!MayWrite, Serving!Answered
<1>2. /\ DOMAIN regs' = DOMAIN regs \ {key} /\ \A k \in DOMAIN regs' : regs'[k] = regs[k]
      /\ regs' = [k \in DOMAIN regs' |-> regs'[k]]
  BY <1>1 DEF Serving!Without
<1>3. Stacked(making)'
  BY <1>1, <1>2, StackStays
<1>4. \A n \in DOMAIN given' :
         /\ n \in DOMAIN given /\ given'[n] = given[n] /\ Serving!Resolve(n) # key
         /\ SharedName(Serving!Resolve(n)) => Serving!Configured(Serving!Resolve(n)).class # key
  BY <1>1 DEF Serving!Without, Serving!Open, SharedName
<1>5. GivenFound'
  <2> SUFFICES ASSUME NEW n \in DOMAIN given' PROVE given'[n] # Absent /\ Serving!Found(n)' = given'[n]
    BY DEF GivenFound
  <2>1. given[n] # Absent /\ Serving!Found(n) = given[n] /\ given'[n] = given[n]
    BY <1>4 DEF Serves, GivenFound
  <2>2. Serving!Found(n)' = Serving!Found(n)
    BY <1>1, <1>2, <1>4, Unmoved DEF Serving!Found, SharedName
  <2> QED
    BY <2>1, <2>2
<1>6. ServiceTypes'
  BY <1>1, <1>2, <1>4 DEF Serves, ServiceTypes
<1>7. LastAnswer' /\ ~answer'.threw
  <2>1. answer'.name = Absent /\ answer'.object = Absent
    BY NoAnswer
  <2>2. ~answer'.threw /\ answer'.threw \in BOOLEAN
    BY NoAnswer
  <2>3. answer'.name \notin DOMAIN given'
    BY <1>6, <2>1 DEF ServiceTypes
  <2> QED
    BY <2>1, <2>2, <2>3, Zenon DEF LastAnswer
<1>8. SharedSame'
  <2> SUFFICES ASSUME NEW k \in DOMAIN regs', SharedName(k)',
                      touched' \cap {k, Serving!Configured(k)'.class} = {}
               PROVE  /\ Serving!Configured(k)'.class \in DOMAIN regs'
                      /\ regs'[k] = regs'[Serving!Configured(k)'.class]
    BY DEF SharedSame
  <2> DEFINE c == Serving!Configured(k).class
  <2>1. Serving!Configured(k)'.class = c /\ SharedName(k)
    BY Unmoved
  <2>2. k # key /\ c # key /\ k \in DOMAIN regs /\ touched \cap {k, c} = {}
    BY <1>1, <1>2, <2>1
  <2>3. c \in DOMAIN regs /\ regs[k] = regs[c]
    BY <2>1, <2>2 DEF Serves, SharedSame
  <2> QED
    BY <1>2, <2>1, <2>2, <2>3
<1>10. AllWhole'
  BY <1>1, <1>2 DEF Serves, AllWhole
<1>9. Replying' /\ Serving!KeysNoted'
  BY <1>1, <1>2 DEF Serves, Replying, Serving!KeysNoted
<1> QED
  BY <1>3, <1>5, <1>6, <1>7, <1>8, <1>9, <1>10 DEF Serves

LEMMA AliasKeeps ==
  ASSUME Serves, NEW s, Stacked(s), ~thrown, ~answer.threw,
         NEW name, NEW alias, alias # Serving!Response, Serving!Alias(name, alias, s),
         UNCHANGED <<shop, thrown, response>>, answer' = Serving!Answered(Absent, Absent, FALSE)
  PROVE  Serves' /\ Stacked(making)' /\ ~answer'.threw
<1>1. /\ aliases' = Serving!With(aliases, {alias}, name)
      /\ given' = Serving!Without(given, {n \in DOMAIN given :
                      Serving!ResolveIn(aliases', n) # Serving!Resolve(n)})
      /\ making' = s /\ UNCHANGED <<regs, keyCount, built, touched>>
      /\ answer' = [name |-> Absent, object |-> Absent, threw |-> FALSE]
  BY DEF Serving!Alias, Serving!Answered
<1>2. Stacked(making)'
  BY <1>1, StackStays
<1>3. \A n \in DOMAIN given' :
         n \in DOMAIN given /\ given'[n] = given[n] /\ Serving!Resolve(n)' = Serving!Resolve(n)
  BY <1>1 DEF Serving!Without, Serving!Resolve
<1>4. GivenFound'
  <2> SUFFICES ASSUME NEW n \in DOMAIN given' PROVE given'[n] # Absent /\ Serving!Found(n)' = given'[n]
    BY DEF GivenFound
  <2>1. given[n] # Absent /\ Serving!Found(n) = given[n] /\ given'[n] = given[n]
    BY <1>3 DEF Serves, GivenFound
  <2>2. Serving!Found(n)' = Serving!Found(n)
    BY <1>1, <1>3, Unmoved DEF Serving!Found
  <2> QED
    BY <2>1, <2>2
<1>5. ServiceTypes'
  <2>1. Serving!Response \notin DOMAIN aliases'
    BY <1>1 DEF Serving!With, Serves, ServiceTypes
  <2> QED
    BY <1>1, <1>3, <2>1 DEF Serves, ServiceTypes
<1>6. LastAnswer' /\ ~answer'.threw
  <2>1. answer'.name = Absent /\ answer'.object = Absent
    BY NoAnswer
  <2>2. ~answer'.threw /\ answer'.threw \in BOOLEAN
    BY NoAnswer
  <2>3. answer'.name \notin DOMAIN given'
    BY <1>5, <2>1 DEF ServiceTypes
  <2> QED
    BY <2>1, <2>2, <2>3, Zenon DEF LastAnswer
<1>9. AllWhole'
  BY <1>1 DEF Serves, AllWhole
<1>7. SharedSame'
  BY <1>1, Unmoved DEF Serves, SharedSame
<1>8. Replying' /\ Serving!KeysNoted'
  BY <1>1 DEF Serves, Replying, Serving!KeysNoted
<1> QED
  BY <1>2, <1>4, <1>5, <1>6, <1>7, <1>8, <1>9 DEF Serves
LEMMA GetKeeps ==
  ASSUME Serves, NEW s, Stacked(s), ~thrown, ~answer.threw, "itself" \in ContainerCareful,
         NEW name \in Serving!Names, Serving!Get(name, s),
         UNCHANGED <<shop, thrown, regs, aliases, keyCount, response, touched>>
  PROVE  Serves' /\ Stacked(making)' /\ ~answer'.threw
<1> DEFINE key == Serving!Resolve(name)
           service == Serving!Configured(key)
<1>1. CASE Serving!Found(name) = Absent /\ service # Absent /\ Serving!Loadable(service.class)
  <2>1. Serving!Construct(name, key, service.shared, TRUE, service.class, s)
    BY <1>1 DEF Serving!Get
  <2>2. /\ key \in Serving!Names /\ key # Serving!Response /\ service.shared \in BOOLEAN
        /\ Serving!HasFile(service.class) /\ (SharedName(key) <=> service.shared)
    BY <1>1, ShopFacts DEF Serves, ServiceTypes, Serving!Loadable, SharedName
  <2>3. key \notin DOMAIN regs /\ (service.shared => service.class \notin DOMAIN regs)
    BY <1>1, <2>2, FoundFacts DEF Serves
  <2>4. SharedName(key) => service.class = IF service.shared THEN service.class ELSE key
    BY <2>2
  <2> HIDE DEF key
  <2> QED
    BY <2>1, <2>2, <2>3, <2>4, ConstructKeeps
<1>2. CASE ~(Serving!Found(name) = Absent /\ service # Absent /\ Serving!Loadable(service.class))
  <2>1. Serving!Answer(name, Serving!Found(name), s)
    BY <1>2 DEF Serving!Get
  <2>2. Serving!Found(name) # Absent => \E k \in DOMAIN regs : Serving!Found(name) = regs[k]
    BY FoundFacts DEF Serves
  <2>3. response' = response
    OBVIOUS
  <2> QED
    BY <2>1, <2>2, <2>3, AnswerKeeps
<1> QED
  BY <1>1, <1>2

LEMMA GetInstanceKeeps ==
  ASSUME Serves, NEW s, Stacked(s), ~thrown, ~answer.threw, "itself" \in ContainerCareful,
         NEW class, Serving!GetInstance(class, s),
         UNCHANGED <<shop, thrown, regs, aliases, keyCount, response, touched>>
  PROVE  Serves' /\ Stacked(making)' /\ ~answer'.threw
<1>1. CASE class \notin DOMAIN regs /\ Serving!Loadable(class)
  <2>1. Serving!Construct(Absent, class, FALSE, TRUE, class, s)
    BY <1>1 DEF Serving!GetInstance
  <2>2. /\ class \in Serving!Names /\ class # Serving!Response /\ Serving!HasFile(class)
        /\ SharedName(class) => Serving!Configured(class).class = IF FALSE THEN class ELSE class
    BY <1>1, ShopFacts DEF Serves, ServiceTypes, Serving!Loadable, SharedName
  <2> QED
    BY <1>1, <2>1, <2>2, ConstructKeeps
<1>2. CASE ~(class \notin DOMAIN regs /\ Serving!Loadable(class))
  <2>1. PICK object : object = IF class \in DOMAIN regs THEN regs[class] ELSE Absent
    BY Zenon
  <2>2. Serving!Answer(Absent, object, s)
    BY <1>2, <2>1 DEF Serving!GetInstance
  <2>3. object # Absent => \E k \in DOMAIN regs : object = regs[k]
    BY <2>1
  <2>4. response' = response
    OBVIOUS
  <2> QED
    BY <2>2, <2>3, <2>4, AnswerKeeps
<1> QED
  BY <1>1, <1>2

LEMMA CreateKeeps ==
  ASSUME Serves, NEW s, Stacked(s), ~thrown, ~answer.threw, "itself" \in ContainerCareful,
         NEW class, NEW keep \in BOOLEAN, Serving!Create(class, keep, s),
         UNCHANGED <<shop, thrown, regs, aliases, keyCount, response, touched>>
  PROVE  Serves' /\ Stacked(making)' /\ ~answer'.threw
<1>1. CASE keep
  BY <1>1, GetInstanceKeeps DEF Serving!Create
<1>2. CASE ~keep /\ Serving!Loadable(class)
  <2>1. Serving!Construct(Absent, class, FALSE, FALSE, class, s)
    BY <1>2 DEF Serving!Create
  <2>2. /\ class \in Serving!Names /\ class # Serving!Response /\ Serving!HasFile(class)
        /\ SharedName(class) => Serving!Configured(class).class = IF FALSE THEN class ELSE class
    BY <1>2, ShopFacts DEF Serves, ServiceTypes, Serving!Loadable, SharedName
  <2> QED
    BY <2>1, <2>2, ConstructKeeps
<1>3. CASE ~keep /\ ~Serving!Loadable(class)
  <2>1. Serving!Answer(Absent, Absent, s) /\ response' = response
    BY <1>3 DEF Serving!Create
  <2> QED
    BY <2>1, AnswerKeeps
<1> QED
  BY <1>1, <1>2, <1>3

LEMMA CallFacts ==
  ASSUME NEW ask \in Serving!Calls
  PROVE  /\ ask.do \in {"get", "instance", "set", "del", "getInstance", "create", "property",
                         "setProperty", "alias", "setResponse", "reply", "throw"}
         /\ ask.do \in {"get", "instance", "set", "del", "property", "setProperty", "alias"} =>
               ask.name \in Serving!Names
         /\ ask.do \in {"getInstance", "create", "property", "setProperty"} =>
               ask.class \in Serving!Names
         /\ ask.do = "create" => ask.keep \in BOOLEAN
         /\ ask.do = "alias" => ask.alias # Serving!Response
<1>1. CASE ask \in [do : {"get", "instance", "set", "del"}, name : Serving!Names]
  BY <1>1
<1>2. CASE ask \in [do : {"getInstance"}, class : Serving!Names]
  BY <1>2
<1>3. CASE ask \in [do : {"create"}, class : Serving!Names, keep : BOOLEAN]
  BY <1>3
<1>4. CASE ask \in [do : {"property", "setProperty"}, class : Serving!Names, name : Serving!Names]
  BY <1>4
<1>5. CASE ask \in [do : {"alias"}, name : Serving!Names, alias : Serving!Names \ {Serving!Response}]
  BY <1>5
<1>6. CASE ask \in [do : {"setResponse", "reply", "throw"}]
  BY <1>6
<1> QED
  BY <1>1, <1>2, <1>3, <1>4, <1>5, <1>6 DEF Serving!Calls

LEMMA Joined ==
  ASSUME NEW a \in Serving!Names, NEW b \in Serving!Names
  PROVE  a \o b \in Serving!Names /\ Len(a \o b) > 1 /\ Len(a) \in Nat /\ Len(a) > 0
<1>1. Len(a) \in Nat /\ Len(b) \in Nat /\ Len(a) > 0 /\ Len(b) > 0
  BY EmptySeq, LenProperties DEF Serving!Names
<1>2. a \o b \in Seq(STRING) /\ Len(a \o b) = Len(a) + Len(b)
  BY ConcatProperties DEF Serving!Names
<1>3. Len(a \o b) > 1
  BY <1>1, <1>2
<1>4. a \o b # <<>>
  BY <1>2, <1>3, EmptySeq
<1> QED
  BY <1>1, <1>2, <1>3, <1>4 DEF Serving!Names

LEMMA NoteFacts ==
  ASSUME NEW m \in Nat, NEW key \in Serving!Names
  PROVE  /\ Serving!Note(m, key) \in Nat
         /\ Serving!Note(m, key) = 0 => m = 0 /\ Len(key) = 1
<1>1. Len(key) \in Nat /\ Len(key) > 0
  BY Joined
<1>2. CASE Len(key) > 1
  <2>1. Serving!Note(m, key) = m + 1
    BY <1>2 DEF Serving!Note
  <2> QED
    BY <2>1
<1>3. CASE ~(Len(key) > 1)
  <2>1. Serving!Note(m, key) = m
    BY <1>3 DEF Serving!Note
  <2>2. Len(key) = 1
    BY <1>1, <1>3
  <2> QED
    BY <2>1, <2>2
<1> QED
  BY <1>2, <1>3

LEMMA ReadingKeeps ==
  ASSUME Serves, NEW s, Stacked(s), ~thrown, ~answer.threw, "itself" \in ContainerCareful,
         NEW ask \in Serving!Calls, Serving!Reading(ask, s),
         ask.do \in {"get", "instance", "getInstance", "create", "property"},
         UNCHANGED <<shop, thrown>>
  PROVE  Serves' /\ Stacked(making)' /\ ~answer'.threw
<1>0. UNCHANGED <<shop, thrown, regs, aliases, keyCount, response, touched>>
  BY DEF Serving!Reading
<1>1. CASE ask.do = "get"
  <2>1. Serving!Get(ask.name, s) /\ ask.name \in Serving!Names
    BY <1>1, CallFacts DEF Serving!Reading
  <2> QED
    BY <1>0, <2>1, GetKeeps
<1>2. CASE ask.do = "property"
  <2>1. Serving!GetProperty(ask.class, ask.name, s) /\ ask.name \in Serving!Names
    BY <1>2, CallFacts DEF Serving!Reading
  <2>2. CASE keyCount # 0 /\ ask.class \o ask.name \in DOMAIN regs
    <3>1. Serving!Answer(Absent, regs[ask.class \o ask.name], s)
      BY <2>1, <2>2 DEF Serving!GetProperty
    <3>2. response' = response /\ \E k \in DOMAIN regs : regs[ask.class \o ask.name] = regs[k]
      BY <1>0, <2>2
    <3> QED
      BY <1>0, <3>1, <3>2, AnswerKeeps
  <2>3. CASE ~(keyCount # 0 /\ ask.class \o ask.name \in DOMAIN regs)
    <3>1. Serving!Get(ask.name, s)
      BY <2>1, <2>3 DEF Serving!GetProperty
    <3> QED
      BY <1>0, <2>1, <3>1, GetKeeps
  <2> QED
    BY <2>2, <2>3
<1>3. CASE ask.do = "getInstance"
  <2>1. Serving!GetInstance(ask.class, s)
    BY <1>3 DEF Serving!Reading
  <2> QED
    BY <1>0, <2>1, GetInstanceKeeps
<1>4. CASE ask.do = "create"
  <2>1. Serving!Create(ask.class, ask.keep, s) /\ ask.keep \in BOOLEAN
    BY <1>4, CallFacts DEF Serving!Reading
  <2> QED
    BY <1>0, <2>1, CreateKeeps
<1>5. CASE ask.do = "instance"
  <2>1. Serving!Create(Serving!Resolve(ask.name), FALSE, s)
    BY <1>5 DEF Serving!Reading, Serving!Instance
  <2> QED
    BY <1>0, <2>1, CreateKeeps
<1> QED
  BY <1>1, <1>2, <1>3, <1>4, <1>5

LEMMA WritingKeeps ==
  ASSUME Serves, NEW s, Stacked(s), ~thrown, ~answer.threw,
         "itself" \in ContainerCareful, "response" \in ContainerCareful,
         NEW ask \in Serving!Calls, Serving!Writing(ask, s),
         ask.do \in {"set", "setProperty", "del", "alias", "setResponse"},
         UNCHANGED <<shop, thrown>>
  PROVE  Serves' /\ Stacked(making)' /\ ~answer'.threw
<1>0. /\ answer' = Serving!Answered(Absent, Absent, FALSE) /\ UNCHANGED <<shop, thrown, response>>
      /\ keyCount \in Nat /\ Serving!Response \in Serving!Names /\ Len(Serving!Response) = 1
  BY ShopFacts DEF Serving!Writing, Serves, ServiceTypes, Serving!Response
<1>1. CASE ask.do = "set"
  <2>1. ask.name \in Serving!Names /\ Serving!Set(ask.name, s)
    BY <1>1, CallFacts DEF Serving!Writing
  <2>2. Serving!Keep(ask.name, s) /\ aliases' = aliases
    BY <2>1 DEF Serving!Set
  <2>3. keyCount' = Serving!Note(keyCount, ask.name)
    BY <2>1 DEF Serving!Set
  <2>4. keyCount' \in Nat /\ (keyCount' = 0 => keyCount = 0 /\ Len(ask.name) = 1)
    BY <1>0, <2>1, <2>3, NoteFacts
  <2> QED
    BY <1>0, <2>1, <2>2, <2>4, KeepKeeps
<1>2. CASE ask.do = "setProperty"
  <2>1. PICK key : key = ask.class \o ask.name
    BY Zenon
  <2>2. key \in Serving!Names /\ Serving!SetProperty(ask.class, ask.name, s)
    BY <1>2, <2>1, CallFacts, Joined DEF Serving!Writing
  <2>3. Serving!Keep(key, s) /\ aliases' = aliases
    BY <2>1, <2>2 DEF Serving!SetProperty
  <2>4. keyCount' = IF key \in DOMAIN regs THEN keyCount ELSE keyCount + 1
    BY <2>1, <2>2 DEF Serving!SetProperty
  <2>5. keyCount' \in Nat /\ (keyCount' = 0 => keyCount = 0 /\ key \in DOMAIN regs)
    BY <1>0, <2>4
  <2> QED
    BY <1>0, <2>2, <2>3, <2>5, KeepKeeps
<1>3. CASE ask.do = "del"
  <2>1. Serving!Del(ask.name, s)
    BY <1>3 DEF Serving!Writing
  <2> QED
    BY <1>0, <2>1, DelKeeps
<1>4. CASE ask.do = "alias"
  <2>1. Serving!Alias(ask.name, ask.alias, s) /\ ask.alias # Serving!Response
    BY <1>4, CallFacts DEF Serving!Writing
  <2> QED
    BY <1>0, <2>1, AliasKeeps
<1>5. CASE ask.do = "setResponse"
  <2>1. Serving!Keep(Serving!Response, s) /\ aliases' = aliases /\ keyCount' = keyCount
    BY <1>5 DEF Serving!Writing, Serving!SetResponse
  <2> QED
    BY <1>0, <2>1, KeepKeeps
<1> QED
  BY <1>1, <1>2, <1>3, <1>4, <1>5

LEMMA ReplyKeeps ==
  ASSUME Serves, NEW s, Stacked(s), ~thrown, ~answer.threw, Serving!Reply(s), UNCHANGED <<shop, thrown>>
  PROVE  Serves' /\ Stacked(making)' /\ ~answer'.threw
<1>1. PICK object : object = IF shop.fpm \/ response # Absent THEN response ELSE Serving!Found(Serving!Response)
  BY Zenon
<1>2. response' = object /\ Serving!Answer(Absent, object, s) /\ UNCHANGED <<regs, aliases, keyCount, touched>>
  BY <1>1 DEF Serving!Reply
<1>3. object # Absent => Serving!Response \in DOMAIN regs /\ object = regs[Serving!Response]
  <2>1. CASE object = response
    BY <2>1 DEF Serves, Replying
  <2>2. CASE object = Serving!Found(Serving!Response)
    <3>1. Serving!Resolve(Serving!Response) = Serving!Response
      BY OwnName DEF Serves
    <3>2. Serving!Configured(Serving!Response) = Absent
      BY ShopFacts DEF Serves, ServiceTypes
    <3> QED
      BY <2>2, <3>1, <3>2 DEF Serving!Found
  <2> QED
    BY <1>1, <2>1, <2>2
<1>4. object # Absent => \E k \in DOMAIN regs : object = regs[k]
  BY <1>3
<1> QED
  BY <1>2, <1>3, <1>4, AnswerKeeps

LEMMA PerformKeeps ==
  ASSUME Serves, NEW s, Stacked(s), ~thrown, ~answer.threw,
         "itself" \in ContainerCareful, "response" \in ContainerCareful,
         NEW ask \in Serving!Calls, Serving!Perform(ask, s), UNCHANGED <<shop, thrown>>
  PROVE  Serves' /\ Stacked(making)' /\ ~answer'.threw
<1>1. CASE ask.do = "reply" /\ Serving!Reply(s)
  BY <1>1, ReplyKeeps
<1>2. CASE ask.do \in Serving!Written /\ Serving!Writing(ask, s)
  BY <1>2, WritingKeeps DEF Serving!Written
<1>3. CASE ask.do \notin Serving!Written \cup {"reply", "throw"} /\ Serving!Reading(ask, s)
  <2>1. ask.do \in {"get", "instance", "getInstance", "create", "property"}
    BY <1>3, CallFacts DEF Serving!Written
  <2> QED
    BY <1>3, <2>1, ReadingKeeps
<1> QED
  BY <1>1, <1>2, <1>3 DEF Serving!Perform
LEMMA ServiceStep == ASSUME ServiceInv, "itself" \in ContainerCareful, "response" \in ContainerCareful,
                            Serving!Step
  PROVE ServiceInv'
<1> DEFINE n == Len(making)
<1>1. /\ making # <<>> /\ making[n].todo # <<>> /\ ~thrown
      /\ UNCHANGED <<shop, loader, serving>>
  BY DEF Serving!Step, Serving!Last
<1>2. making \in Seq(Bodies) /\ n \in Nat /\ n > 0 /\ DOMAIN making = 1..n /\ making[n] \in Bodies
  <2>1. making \in Seq(Bodies)
    BY DEF ServiceInv, Stacked
  <2> QED
    BY <1>1, <2>1, EmptySeq, LenProperties, ElementOfSeq
<1>3. PICK ask : ask = Head(making[n].todo)
  BY Zenon
<1>4. PICK s : s = [making EXCEPT ![n].todo = Tail(@)]
  BY Zenon
<1>5. \/ ask.do = "throw" /\ thrown' = TRUE
         /\ UNCHANGED <<regs, aliases, keyCount, response, making, built, answer, given, touched>>
      \/ Serving!Perform(ask, s) /\ UNCHANGED thrown
  BY <1>3, <1>4 DEF Serving!Step, Serving!Last
<1>6. making[n].todo \in Seq(Serving!Calls)
  BY <1>2 DEF Bodies
<1>7. ask \in Serving!Calls /\ Tail(making[n].todo) \in Seq(Serving!Calls)
  BY <1>1, <1>3, <1>6, HeadTailProperties
<1>8. \A i \in 1..n : /\ s[i] \in Bodies /\ s[i].object = making[i].object /\ s[i].name = making[i].name
                      /\ s[i].keep = making[i].keep /\ s[i].key = making[i].key
                      /\ s[i].shared = making[i].shared /\ s[i].class = making[i].class
  <2>1. \A i \in 1..n : making[i] \in Bodies
    BY <1>2, ElementOfSeq
  <2>2. PICK f : f = [making[n] EXCEPT !.todo = Tail(@)]
    BY Zenon
  <2>3. f \in Bodies /\ f.object = making[n].object /\ f.name = making[n].name
        /\ f.keep = making[n].keep /\ f.key = making[n].key
        /\ f.shared = making[n].shared /\ f.class = making[n].class
    BY <1>2, <1>7, <2>2 DEF Bodies
  <2>4. \A i \in 1..n : s[i] = IF i = n THEN f ELSE making[i]
    BY <1>2, <1>4, <2>2
  <2> QED
    BY <2>1, <2>3, <2>4
<1>9. s \in Seq(Bodies) /\ DOMAIN s = 1..n
  <2>1. s = [i \in 1..n |-> s[i]]
    BY <1>2, <1>4
  <2> QED
    BY <1>2, <1>8, <2>1, IsASeq
<1>10. Stacked(s)
  <2>1. \A i \in 1..n : Serving!Claims(s[i]) = Serving!Claims(making[i])
    BY <1>8 DEF Serving!Claims
  <2>2. \A i \in 1..n : Claiming(making[i])
    BY <1>2 DEF ServiceInv, Stacked
  <2>3. \A i \in 1..n : Claiming(s[i])
    BY <1>8, <2>1, <2>2 DEF Claiming
  <2> QED
    BY <1>2, <1>9, <2>1, <2>3 DEF ServiceInv, Stacked
<1>11. ~answer.threw
  BY <1>1 DEF ServiceInv, Unwinding
<1>12. CASE /\ ask.do = "throw" /\ thrown' = TRUE
            /\ UNCHANGED <<regs, aliases, keyCount, response, making, built, answer, given, touched>>
  <2>1. Stacked(making)'
    BY <1>1, <1>12, StackStays DEF ServiceInv
  <2>2. \A k : Serving!Found(k)' = Serving!Found(k)
    BY <1>1, <1>12, Unmoved DEF Serving!Found
  <2>3. ServiceTypes' /\ Serving!KeysNoted' /\ LastAnswer' /\ AllWhole' /\ Replying'
    BY <1>1, <1>12 DEF ServiceInv, Serves, ServiceTypes, Serving!KeysNoted, LastAnswer, AllWhole, Replying
  <2>4. GivenFound' /\ SharedSame'
    BY <1>1, <1>12, <2>2, Unmoved DEF ServiceInv, Serves, GivenFound, SharedSame
  <2>5. Unwinding' /\ Loading'
    BY <1>1, <1>11, <1>12 DEF ServiceInv, Unwinding, Loading
  <2> QED
    BY <2>1, <2>3, <2>4, <2>5 DEF ServiceInv, Serves
<1>13. CASE Serving!Perform(ask, s) /\ UNCHANGED thrown
  <2>1. Serves' /\ Stacked(making)' /\ ~answer'.threw
    BY <1>1, <1>7, <1>10, <1>11, <1>13, PerformKeeps DEF ServiceInv
  <2>2. Unwinding' /\ Loading'
    BY <1>1, <1>13, <2>1 DEF ServiceInv, Unwinding, Loading
  <2> QED
    BY <2>1, <2>2 DEF ServiceInv
<1> QED
  BY <1>5, <1>12, <1>13

LEMMA ServiceHandle ==
  ASSUME ServiceInv, {"throws", "response", "itself"} \subseteq ContainerCareful, Serving!Handle
  PROVE  ServiceInv'
<1>1. /\ making = <<>> /\ serving > 1 /\ ~answer.threw /\ serving' = serving - 1
      /\ UNCHANGED <<shop, thrown, loader>>
  BY DEF Serving!Handle
<1>2. PICK ask \in shop.calls : Serving!Perform(ask, <<>>)
  BY DEF Serving!Handle
<1>3. ask \in Serving!Calls
  BY ShopFacts DEF ServiceInv, Serves, ServiceTypes
<1>4. ~thrown /\ Stacked(<<>>)
  BY <1>1 DEF ServiceInv, Unwinding
<1>5. Serves' /\ Stacked(making)' /\ ~answer'.threw
  BY <1>1, <1>2, <1>3, <1>4, PerformKeeps DEF ServiceInv
<1>6. Unwinding' /\ Loading'
  BY <1>1, <1>4, <1>5 DEF ServiceInv, Unwinding, Loading
<1> QED
  BY <1>5, <1>6 DEF ServiceInv

LEMMA ServiceFinish == ASSUME ServiceInv, Serving!Finish PROVE ServiceInv'
<1> DEFINE n == Len(making)
<1>a. PICK f : f = making[n]
  BY Zenon
<1>b. PICK name : name = IF f.name = Absent \/ Serving!Resolve(f.name) = f.key THEN f.name ELSE Absent
  BY Zenon
<1>1. /\ making # <<>> /\ making' = Serving!Front(making)
      /\ regs' = Serving!With(regs, Serving!Claims(f), f.object)
      /\ keyCount' = IF ~f.keep THEN keyCount
                     ELSE Serving!Note(IF f.shared THEN Serving!Note(keyCount, f.class) ELSE keyCount, f.key)
      /\ built' = [built EXCEPT ![f.object].whole = ~thrown]
      /\ answer' = Serving!Answered(name, f.object, thrown)
      /\ given' = IF thrown THEN given ELSE Serving!Remembered(name, f.object)
      /\ thrown' = (thrown /\ n > 1)
      /\ UNCHANGED <<shop, aliases, response, loader, serving, touched>>
  BY <1>a, <1>b DEF Serving!Finish, Serving!Last, Serving!Register
<1>2. /\ making \in Seq(Bodies) /\ n \in Nat /\ n > 0 /\ DOMAIN making = 1..n
      /\ f \in Bodies /\ Claiming(f)
  <2>1. making \in Seq(Bodies)
    BY DEF ServiceInv, Stacked
  <2>2. n \in Nat /\ n > 0 /\ DOMAIN making = 1..n /\ n \in 1..n
    BY <1>1, <2>1, EmptySeq, LenProperties
  <2> QED
    BY <1>a, <2>1, <2>2, ElementOfSeq DEF ServiceInv, Stacked
<1>3. making' = Front(making)
  BY <1>1 DEF Serving!Front, Front
<1>4. /\ making' \in Seq(Bodies) /\ DOMAIN making' = 1..n-1
      /\ \A i \in 1..n-1 : making'[i] = making[i]
  <2>1. making' \in Seq(Bodies) /\ Len(making') = n - 1 /\ \A i \in 1..n-1 : making'[i] = making[i]
    BY <1>1, <1>2, <1>3, FrontFacts
  <2> QED
    BY <2>1, LenProperties
<1>5. /\ f.object \in DOMAIN built /\ f.object # Absent /\ (f.name # Absent => f.keep)
      /\ Serving!Claims(f) \cap DOMAIN regs = {}
      /\ \A k \in Serving!Claims(f) :
            k # Serving!Response /\ (SharedName(k) => Serving!Configured(k).class \in Serving!Claims(f))
      /\ f.keep \in BOOLEAN /\ f.shared \in BOOLEAN /\ f.key \in Serving!Names /\ f.class \in Serving!Names
      /\ f.object \in Nat
  BY <1>2, ShopFacts DEF Claiming, Bodies, ServiceInv, Serves, ServiceTypes
<1>6. /\ DOMAIN regs' = DOMAIN regs \cup Serving!Claims(f)
      /\ \A k \in Serving!Claims(f) : regs'[k] = f.object
      /\ \A k \in DOMAIN regs : regs'[k] = regs[k]
      /\ regs' = [k \in DOMAIN regs' |-> regs'[k]]
  BY <1>1, <1>5 DEF Serving!With
<1>7. /\ built' \in Seq([class : Serving!Names \cup {Absent}, whole : BOOLEAN])
      /\ DOMAIN built' = DOMAIN built /\ (built'[f.object].whole <=> ~thrown)
      /\ \A i \in DOMAIN built : i # f.object => built'[i] = built[i]
  <2> DEFINE Things == [class : Serving!Names \cup {Absent}, whole : BOOLEAN]
  <2>1. built \in Seq(Things) /\ thrown \in BOOLEAN
    BY DEF ServiceInv, Serves, ServiceTypes
  <2>a. f.object \in 1..Len(built)
    BY <1>5, <2>1, LenProperties
  <2> HIDE DEF Things
  <2>2. built[f.object] \in Things
    BY <2>1, <2>a, ElementOfSeq
  <2> USE DEF Things
  <2>3. PICK thing : thing = [built[f.object] EXCEPT !.whole = ~thrown]
    BY Zenon
  <2>4. thing \in Things /\ (thing.whole <=> ~thrown)
    BY <2>1, <2>2, <2>3
  <2>5. built' = [built EXCEPT ![f.object] = thing]
    BY <1>1, <2>3
  <2> HIDE DEF Things
  <2>6. built' \in Seq(Things)
    BY <1>5, <2>1, <2>4, <2>5, ExceptSeq
  <2> QED
    BY <1>5, <2>1, <2>4, <2>5, <2>6, LenProperties DEF Things
<1>8. Stacked(making)'
  <2>1. ASSUME NEW i \in 1..n-1 PROVE Claiming(making[i])'
    <3>1. Claiming(making[i]) /\ Serving!Claims(making[i]) \cap Serving!Claims(f) = {}
      BY <1>a, <1>2, <2>1 DEF ServiceInv, Stacked
    <3>2. making[i].object \in DOMAIN built' /\ Serving!Claims(making[i]) \cap DOMAIN regs' = {}
      BY <1>6, <1>7, <3>1 DEF Claiming
    <3> QED
      BY <1>1, <1>4, <3>1, <3>2, Unmoved DEF Claiming
  <2>2. \A i, j \in 1..n-1 : i # j => Serving!Claims(making'[i]) \cap Serving!Claims(making'[j]) = {}
    BY <1>2, <1>4 DEF ServiceInv, Stacked
  <2> QED
    BY <1>4, <2>1, <2>2 DEF Stacked
<1>9. ASSUME NEW k, Serving!Found(k) # Absent PROVE Serving!Found(k)' = Serving!Found(k)
  <2> DEFINE key == Serving!Resolve(k)
             c == Serving!Configured(key).class
  <2>1. Serving!Resolve(k)' = key /\ Serving!Configured(key)' = Serving!Configured(key)
    BY <1>1, Unmoved
  <2>2. CASE key \in DOMAIN regs
    BY <1>6, <2>1, <2>2 DEF Serving!Found
  <2>3. CASE key \notin DOMAIN regs
    <3>1. SharedName(key) /\ c \in DOMAIN regs
      BY <1>9, <2>3 DEF Serving!Found, SharedName
    <3>2. key \notin DOMAIN regs' /\ c \in DOMAIN regs'
      BY <1>5, <1>6, <2>3, <3>1
    <3> QED
      BY <1>6, <2>1, <2>3, <3>1, <3>2 DEF Serving!Found, SharedName
  <2> QED
    BY <2>2, <2>3
<1>10. name # Absent =>
          /\ name = f.name /\ f.key \in Serving!Claims(f) /\ name \notin DOMAIN given
          /\ Serving!Found(name)' = f.object
  <2> SUFFICES ASSUME name # Absent
               PROVE  /\ name = f.name /\ f.key \in Serving!Claims(f) /\ name \notin DOMAIN given
                      /\ Serving!Found(name)' = f.object
    OBVIOUS
  <2>1. name = f.name /\ Serving!Resolve(name) = f.key /\ f.key \in Serving!Claims(f)
    BY <1>b, <1>5 DEF Serving!Claims
  <2>2. Serving!Found(name) = Absent
    BY <1>5, <2>1 DEF Serving!Found, SharedName
  <2>3. name \notin DOMAIN given
    BY <2>2 DEF ServiceInv, Serves, GivenFound
  <2>4. Serving!Found(name)' = f.object
    BY <1>1, <1>6, <2>1, Unmoved DEF Serving!Found
  <2> QED
    BY <2>1, <2>3, <2>4
<1>11. /\ answer'.name = name /\ answer'.object = f.object
       /\ answer'.threw \in BOOLEAN /\ (answer'.threw <=> thrown)
  <2>1. thrown \in BOOLEAN
    BY DEF ServiceInv, Serves, ServiceTypes
  <2>2. answer' = [name |-> name, object |-> f.object, threw |-> thrown]
    BY <1>1 DEF Serving!Answered
  <2> QED
    BY <2>1, <2>2
<1>12. /\ \A k \in DOMAIN given : k \in DOMAIN given' /\ given'[k] = given[k]
       /\ \A k \in DOMAIN given' : k \in DOMAIN given \/ (k = name /\ k # Absent /\ given'[k] = f.object)
  BY <1>1, <1>10 DEF Serving!Remembered, Serving!With
<1>13. GivenFound'
  <2> SUFFICES ASSUME NEW k \in DOMAIN given' PROVE given'[k] # Absent /\ Serving!Found(k)' = given'[k]
    BY DEF GivenFound
  <2>1. CASE k \in DOMAIN given
    <3>1. given[k] # Absent /\ Serving!Found(k) = given[k]
      BY <2>1 DEF ServiceInv, Serves, GivenFound
    <3> QED
      BY <1>9, <1>12, <2>1, <3>1
  <2>2. CASE k = name /\ k # Absent /\ given'[k] = f.object
    BY <1>5, <1>10, <2>2
  <2> QED
    BY <1>12, <2>1, <2>2
<1>14. SharedSame'
  <2> SUFFICES ASSUME NEW k \in DOMAIN regs', SharedName(k)',
                      touched' \cap {k, Serving!Configured(k)'.class} = {}
               PROVE  /\ Serving!Configured(k)'.class \in DOMAIN regs'
                      /\ regs'[k] = regs'[Serving!Configured(k)'.class]
    BY DEF SharedSame
  <2> DEFINE c == Serving!Configured(k).class
  <2>1. Serving!Configured(k)'.class = c /\ SharedName(k) /\ touched \cap {k, c} = {}
    BY <1>1, Unmoved
  <2>2. CASE k \in Serving!Claims(f)
    BY <1>5, <1>6, <2>1, <2>2
  <2>3. CASE k \in DOMAIN regs
    <3>1. c \in DOMAIN regs /\ regs[k] = regs[c]
      BY <2>1, <2>3 DEF ServiceInv, Serves, SharedSame
    <3> QED
      BY <1>6, <2>1, <2>3, <3>1
  <2> QED
    BY <1>6, <2>2, <2>3
<1>15. LastAnswer'
  <2>1. name \in DOMAIN given' /\ ~thrown => given'[name] = f.object
    <3>1. CASE name = Absent
      BY <1>12, <3>1 DEF ServiceInv, Serves, ServiceTypes
    <3>2. CASE name # Absent
      BY <1>10, <1>12, <3>2
    <3> QED
      BY <3>1, <3>2
  <2> QED
    BY <1>5, <1>7, <1>11, <2>1 DEF LastAnswer
<1>16. AllWhole'
  <2> SUFFICES ASSUME ~thrown, NEW k \in DOMAIN regs' PROVE built'[regs'[k]].whole
    BY <1>11 DEF AllWhole
  <2>1. ~answer.threw
    BY <1>1 DEF ServiceInv, Unwinding
  <2>2. \A j \in DOMAIN regs : regs[j] \in DOMAIN built /\ built[regs[j]].whole
    BY <2>1 DEF ServiceInv, Serves, ServiceTypes, AllWhole
  <2> QED
    BY <1>6, <1>7, <2>2
<1>17. /\ keyCount' \in Nat
       /\ keyCount' = 0 => keyCount = 0 /\ \A k \in Serving!Claims(f) : Len(k) = 1
  <2>1. keyCount \in Nat
    BY DEF ServiceInv, Serves, ServiceTypes
  <2>2. CASE ~f.keep
    BY <1>1, <2>1, <2>2 DEF Serving!Claims
  <2>3. CASE f.keep /\ ~f.shared
    <3>1. keyCount' = Serving!Note(keyCount, f.key)
      BY <1>1, <2>3
    <3>2. Serving!Claims(f) = {f.key}
      BY <2>3 DEF Serving!Claims
    <3> QED
      BY <1>5, <2>1, <3>1, <3>2, NoteFacts
  <2>4. CASE f.keep /\ f.shared
    <3>1. PICK m : m = Serving!Note(keyCount, f.class)
      BY Zenon
    <3>2. m \in Nat /\ (m = 0 => keyCount = 0 /\ Len(f.class) = 1)
      BY <1>5, <2>1, <3>1, NoteFacts
    <3>3. keyCount' = Serving!Note(m, f.key)
      BY <1>1, <2>4, <3>1
    <3>4. keyCount' \in Nat /\ (keyCount' = 0 => m = 0 /\ Len(f.key) = 1)
      BY <1>5, <3>2, <3>3, NoteFacts
    <3>5. Serving!Claims(f) = {f.key, f.class}
      BY <2>4 DEF Serving!Claims
    <3> QED
      BY <3>2, <3>4, <3>5
  <2> QED
    BY <1>5, <2>2, <2>3, <2>4
<1>18. ServiceTypes'
  <2>1. Serving!Claims(f) \subseteq Serving!Names
    BY <1>5 DEF Serving!Claims
  <2>2. thrown' \in BOOLEAN /\ Absent \notin DOMAIN given'
    BY <1>1, <1>12 DEF ServiceInv, Serves, ServiceTypes
  <2> QED
    BY <1>1, <1>5, <1>6, <1>7, <1>17, <2>1, <2>2 DEF ServiceInv, Serves, ServiceTypes
<1>19. Serving!KeysNoted'
  BY <1>6, <1>17 DEF ServiceInv, Serves, Serving!KeysNoted
<1>20. Replying'
  BY <1>1, <1>6 DEF ServiceInv, Serves, Replying
<1>21. Unwinding'
  <2>1. n = 1 => making' = <<>>
    BY <1>4, EmptySeq, LenProperties
  <2>2. n > 1 => making' # <<>>
    BY <1>2, <1>4
  <2>3. n > 1 \/ n = 1
    BY <1>2
  <2>4. (thrown' => thrown /\ n > 1) /\ (thrown /\ n > 1 => thrown')
    BY <1>1, Zenon
  <2> QED
    BY <1>11, <2>1, <2>2, <2>3, <2>4 DEF Unwinding
<1>22. Loading'
  BY <1>1 DEF ServiceInv, Loading
<1> QED
  BY <1>8, <1>13, <1>14, <1>15, <1>16, <1>18, <1>19, <1>20, <1>21, <1>22 DEF ServiceInv, Serves

LEMMA ServiceRun == ASSUME ServiceInv, Serving!Run PROVE ServiceInv'
<1>1. /\ loader' = Serving!RegisterLoader /\ serving' = shop.length + 1
      /\ UNCHANGED <<shop, regs, aliases, keyCount, response, making, thrown, built, answer, given, touched>>
  BY DEF Serving!Run
<1>2. Loading'
  BY <1>1, ShopFacts DEF Serving!RegisterLoader, ServiceInv, Serves, ServiceTypes, Loading
<1>3. \A k : Serving!Found(k)' = Serving!Found(k)
  BY <1>1, Unmoved DEF Serving!Found
<1>4. Stacked(making)'
  BY <1>1, StackStays DEF ServiceInv
<1>5. ServiceTypes' /\ Serving!KeysNoted' /\ LastAnswer' /\ AllWhole' /\ Replying' /\ Unwinding'
  BY <1>1 DEF ServiceInv, Serves, ServiceTypes, Serving!KeysNoted, LastAnswer, AllWhole, Replying, Unwinding
<1>6. GivenFound' /\ SharedSame'
  BY <1>1, <1>3, Unmoved DEF ServiceInv, Serves, GivenFound, SharedSame
<1> QED
  BY <1>2, <1>4, <1>5, <1>6 DEF ServiceInv, Serves

(* A request that has not begun: nothing is there.                         *)
NoServices ==
    /\ shop \in Shops /\ regs = Serving!Empty /\ aliases = Serving!Empty /\ keyCount = 0
    /\ response = Absent /\ making = <<>> /\ thrown = FALSE /\ built = <<>>
    /\ answer = Serving!Answered(Absent, Absent, FALSE) /\ given = Serving!Empty /\ touched = {}

LEMMA ServiceEmpty == NoServices => Serves /\ Stacked(making) /\ Unwinding
<1> SUFFICES ASSUME NoServices PROVE Serves /\ Stacked(making) /\ Unwinding
  OBVIOUS
<1> USE DEF NoServices
<1>1. DOMAIN regs = {} /\ DOMAIN aliases = {} /\ DOMAIN given = {} /\ regs = [k \in {} |-> Absent]
  BY DEF Serving!Empty
<1>2. answer.name = Absent /\ answer.object = Absent /\ ~answer.threw /\ answer.threw \in BOOLEAN
  BY NoAnswer
<1>3. ServiceTypes
  <2>1. built \in Seq([class : Serving!Names \cup {Absent}, whole : BOOLEAN])
    OBVIOUS
  <2>2. keyCount \in Nat /\ thrown \in BOOLEAN
    OBVIOUS
  <2>3. regs = [k \in DOMAIN regs |-> regs[k]]
    BY <1>1
  <2> QED
    BY <1>1, <2>1, <2>2, <2>3 DEF ServiceTypes
<1>4. Serving!KeysNoted /\ GivenFound /\ SharedSame /\ LastAnswer /\ AllWhole /\ Replying
  BY <1>1, <1>2 DEF Serving!KeysNoted, GivenFound, SharedSame, LastAnswer, AllWhole, Replying
<1>5. Stacked(making)
  BY DEF Stacked
<1> QED
  BY <1>2, <1>3, <1>4, <1>5 DEF Serves, Unwinding

LEMMA ServiceEnd == ASSUME ServiceInv, Serving!End PROVE ServiceInv'
<1>1. /\ making = <<>> /\ serving' = 0
      /\ regs' = Serving!Empty /\ aliases' = Serving!Empty /\ keyCount' = 0 /\ response' = Absent
      /\ loader' = (IF shop.fpm THEN [flag |-> FALSE, spl |-> FALSE] ELSE loader)
      /\ answer' = Serving!Answered(Absent, Absent, FALSE) /\ given' = Serving!Empty /\ touched' = {}
      /\ built' = <<>> /\ UNCHANGED <<shop, making, thrown>>
  BY DEF Serving!End
<1>2. Loading'
  <2>1. serving' = 0 /\ (loader' = loader \/ loader' = [flag |-> FALSE, spl |-> FALSE])
    BY <1>1
  <2>2. loader' \in [flag : BOOLEAN, spl : BOOLEAN] /\ (loader'.flag => loader'.spl)
    <3>1. CASE loader' = loader
      BY <3>1 DEF ServiceInv, Loading
    <3>2. PICK none : none = [flag |-> FALSE, spl |-> FALSE]
      BY Zenon
    <3>3. none \in [flag : BOOLEAN, spl : BOOLEAN] /\ ~none.flag
      BY <3>2
    <3>4. CASE loader' = none
      BY <3>3, <3>4
    <3> QED
      BY <2>1, <3>1, <3>2, <3>4
  <2>3. serving' \in Nat /\ ~(serving' > 0)
    BY <2>1
  <2> QED
    BY <2>2, <2>3 DEF Loading
<1>3. thrown' = FALSE /\ shop' \in Shops /\ making' = <<>>
  BY <1>1 DEF ServiceInv, Unwinding, Serves, ServiceTypes
<1>4. NoServices'
  BY <1>1, <1>3 DEF NoServices
<1>5. (Serves /\ Stacked(making) /\ Unwinding)'
  BY <1>4, ServiceEmpty, PTL
<1> QED
  BY <1>2, <1>5 DEF ServiceInv

LEMMA ServiceStarts == Serving!ContainerInit => ServiceInv
<1> SUFFICES ASSUME Serving!ContainerInit PROVE ServiceInv
  OBVIOUS
<1>1. Serves /\ Stacked(making) /\ Unwinding
  BY ServiceEmpty DEF Serving!ContainerInit, NoServices
<1>2. Loading
  BY DEF Serving!ContainerInit, Loading
<1> QED
  BY <1>1, <1>2 DEF ServiceInv

LEMMA ServiceKeeps ==
  ASSUME ServiceInv, {"throws", "response", "itself"} \subseteq ContainerCareful,
         Serving!ContainerNext \/ UNCHANGED containerVars
  PROVE  ServiceInv'
<1>1. CASE UNCHANGED containerVars
  <2>1. \A k : Serving!Found(k)' = Serving!Found(k)
    BY <1>1, Unmoved DEF Serving!Found, containerVars
  <2>2. Stacked(making)'
    BY <1>1, StackStays DEF ServiceInv, containerVars
  <2>3. ServiceTypes' /\ Serving!KeysNoted' /\ LastAnswer' /\ AllWhole' /\ Replying' /\ Unwinding' /\ Loading'
    BY <1>1 DEF ServiceInv, Serves, ServiceTypes, Serving!KeysNoted, LastAnswer, AllWhole, Replying,
       Unwinding, Loading, containerVars
  <2>4. GivenFound' /\ SharedSame'
    BY <1>1, <2>1, Unmoved DEF ServiceInv, Serves, GivenFound, SharedSame, containerVars
  <2> QED
    BY <2>2, <2>3, <2>4 DEF ServiceInv, Serves
<1> QED
  BY <1>1, ServiceStep, ServiceFinish, ServiceHandle, ServiceRun, ServiceEnd DEF Serving!ContainerNext

LEMMA ServiceHolds == ServiceInv => Serving!ServicesKept
<1> SUFFICES ASSUME ServiceInv PROVE Serving!ServicesKept
  OBVIOUS
<1>1. Serving!OneAnswer
  <2>1. ASSUME NEW k \in DOMAIN given, SharedName(Serving!Resolve(k)),
               touched \cap {Serving!Resolve(k), Serving!Configured(Serving!Resolve(k)).class} = {}
        PROVE  given[k] = regs[Serving!Configured(Serving!Resolve(k)).class]
    <3> DEFINE key == Serving!Resolve(k)
               c == Serving!Configured(key).class
    <3>1. given[k] = Serving!Found(k) /\ Serving!Found(k) # Absent
      BY <2>1 DEF ServiceInv, Serves, GivenFound
    <3>2. CASE key \in DOMAIN regs
      <4>1. regs[key] = regs[c]
        BY <2>1, <3>2 DEF ServiceInv, Serves, SharedSame
      <4> QED
        BY <3>1, <3>2, <4>1 DEF Serving!Found
    <3>3. CASE key \notin DOMAIN regs
      BY <3>1, <3>3 DEF Serving!Found, SharedName
    <3> QED
      BY <3>2, <3>3
  <2>2. answer.name \in DOMAIN given /\ ~answer.threw => given[answer.name] = answer.object
    BY DEF ServiceInv, Serves, LastAnswer
  <2> QED
    BY <2>1, <2>2 DEF Serving!OneAnswer, SharedName
<1>2. Serving!WholeAnswer
  BY DEF ServiceInv, Serves, LastAnswer, Serving!WholeAnswer
<1>3. Serving!OwnResponse
  BY DEF ServiceInv, Serves, Replying, Serving!OwnResponse
<1>4. Serving!LoaderKnown
  BY DEF ServiceInv, Loading, Serving!LoaderKnown
<1>5. Serving!KeysNoted
  BY DEF ServiceInv, Serves
<1> QED
  BY <1>1, <1>2, <1>3, <1>4, <1>5 DEF Serving!ServicesKept
===============================================================================
