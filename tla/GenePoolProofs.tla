---------------------------- MODULE GenePoolProofs ----------------------------
(***************************************************************************)
(* Proofs about GenePool for every number of coroutines and connections.   *)
(*                                                                         *)
(* The invariant PoolInv is inductive: beside the types and the three      *)
(* properties to prove it says who has a connection in hand (HandsFull),   *)
(* who is in the channel's queue (Queue), and that close(), get() and      *)
(* recycleIdle() are only where the closed flag allows them to be.  The    *)
(* step lemmas prove one conjunct of it each, action by action.            *)
(*                                                                         *)
(* With it GenePool implements ConnectionLease: each action is one of a    *)
(* few moves of a connection (taken from the stack, made, put back,        *)
(* dropped, passed on), and each move is one step of the lender or none.   *)
(* The last part is about the end of a pool closed in a coroutine.         *)
(***************************************************************************)
EXTENDS GenePoolLease, DataFacts, FiniteSetTheorems, TLAPS

(* The places where a coroutine has a connection in hand.                  *)
Holding == {"creating", "overflowing", "using", "probing", "refilling", "checking"}

HandsFull == \A p \in Procs : conn[p] # NoConn <=> pc[p] \in Holding

(* The channel's queue holds each coroutine that is parked in pop(), once. *)
Queue ==
    /\ \A i \in 1..Len(parked) : pc[parked[i]] \in {"parked", "draining"}
    /\ \A i, j \in 1..Len(parked) : parked[i] = parked[j] => i = j

(* A close() under way has marked the pool; a get() in its loop runs on    *)
(* an open pool, because it does not let go of the cpu there.              *)
CloseMarked == \A p \in Closers : pc[p] # "ready" => closed
LoopOpen == \A p \in Borrowers : pc[p] = "loop" => ~closed /\ cpu = p

PoolInv ==
    /\ TypeOK
    /\ HandsFull
    /\ Queue
    /\ CloseMarked
    /\ LoopOpen
    /\ ExclusiveUse
    /\ WaitersExact
    /\ CountIsExact

-----------------------------------------------------------------------------
LEMMA ProcsFacts ==
  /\ Borrowers \subseteq Procs /\ Recyclers \subseteq Procs
  /\ Checkers \subseteq Procs /\ Closers \subseteq Procs
  BY DEF Procs

LEMMA GotoType ==
  ASSUME TypeOK, NEW p \in Procs, NEW l, Goto(p, l),
         p \in Borrowers => l \in BorrowerPC, p \in Recyclers => l \in RecyclerPC,
         p \in Checkers => l \in CheckerPC, p \in Closers => l \in CloserPC
  PROVE  PlacesOK'
<1> USE DEF TypeOK, Goto, PlacesOK
<1>1. l \in BorrowerPC \cup RecyclerPC \cup CheckerPC \cup CloserPC
  BY DEF Procs
<1>2. pc' \in [Procs -> BorrowerPC \cup RecyclerPC \cup CheckerPC \cup CloserPC]
  BY <1>1
<1>3. \A q \in Procs : pc'[q] = IF q = p THEN l ELSE pc[q]
  OBVIOUS
<1> QED
  BY <1>2, <1>3 DEF Procs

LEMMA LeaveType ==
  ASSUME TypeOK, NEW p \in Procs, NEW l, Leave(p, l)
  PROVE  /\ n' \in [Procs -> Nat]
         /\ cached' \in [Procs -> Int]
         /\ cpu' \in Procs \cup {NoProc}
         /\ Goto(p, l)
<1>1. n' \in [Procs -> Nat]
  BY DEF TypeOK, Leave
<1>2. cached' \in [Procs -> Int]
  BY DEF TypeOK, Leave
<1> QED
  BY <1>1, <1>2 DEF Leave, Yield

LEMMA HoldType ==
  ASSUME TypeOK, NEW p \in Procs, NEW c \in Conns \cup {NoConn}, Hold(p, c)
  PROVE  conn' \in [Procs -> Conns \cup {NoConn}]
  BY DEF TypeOK, Hold

LEMMA CountType ==
  ASSUME TypeOK
  PROVE  /\ Add(count) \in 0..AtomicMax /\ Sub(count) \in 0..AtomicMax
         /\ OneWaiterLess \in Nat
  BY PoolAssumption DEF TypeOK, Add, Sub, OneWaiterLess

LEMMA TypeStep ==
  ASSUME TypeOK, HandsFull, WaitersExact, [Next]_vars
  PROVE  TypeOK'
<1> USE PoolAssumption, ProcsFacts
    DEF TypeOK, Drop, Keep, Yield, ReleaseSlotIfLive,
        BorrowerPC, RecyclerPC, CheckerPC, CloserPC
<1>1. ASSUME NEW p \in Borrowers, Get(p) PROVE TypeOK'
  BY <1>1, GotoType, LeaveType, HoldType, CountType DEF Get
<1>2. ASSUME NEW p \in Borrowers, GetIdle(p) PROVE TypeOK'
  BY <1>2, GotoType, LeaveType, HoldType, CountType, FrontFacts DEF GetIdle
<1>3. ASSUME NEW p \in Borrowers, GetReserve(p) PROVE TypeOK'
  BY <1>3, GotoType, LeaveType, HoldType, CountType DEF GetReserve, Fresh
<1>4. ASSUME NEW p \in Borrowers, GetPark(p) PROVE TypeOK'
  BY <1>4, GotoType, LeaveType, HoldType, CountType DEF GetPark
<1>5. ASSUME NEW p \in Borrowers, GetGiveUp(p) PROVE TypeOK'
  BY <1>5, GotoType, LeaveType, HoldType, CountType DEF GetGiveUp
<1>6. ASSUME NEW p \in Borrowers, Created(p) PROVE TypeOK'
  BY <1>6, GotoType, LeaveType, HoldType, CountType DEF Created
<1>7. ASSUME NEW p \in Borrowers, CreateFailed(p) PROVE TypeOK'
  <2>1. CASE closed
    BY <1>7, <2>1, GotoType, LeaveType, HoldType, CountType DEF CreateFailed
  <2>2. CASE ~closed
    <3>1. n' = [n EXCEPT ![p] = @ + 1]
      BY <1>7, <2>2 DEF CreateFailed
    <3>2. n' \in [Procs -> Nat]
      BY <3>1
    <3> QED
      BY <1>7, <2>2, <3>2, GotoType, LeaveType, HoldType, CountType DEF CreateFailed
  <2> QED
    BY <2>1, <2>2
<1>8. ASSUME NEW p \in Borrowers, WaitTimeout(p) PROVE TypeOK'
  <2>1. parked' \in Seq(Borrowers \cup Closers)
    BY <1>8, RemoveAtFacts DEF WaitTimeout
  <2>2. waiters' \in Nat
    BY <1>8, CountType DEF WaitTimeout
  <2>3. CASE closed
    BY <1>8, <2>1, <2>2, <2>3, GotoType, LeaveType DEF WaitTimeout
  <2>4. CASE ~closed
    BY <1>8, <2>1, <2>2, <2>4, GotoType, HoldType, CountType DEF WaitTimeout, Fresh
  <2> QED
    BY <2>3, <2>4
<1>9. ASSUME NEW p \in Borrowers, OverflowCreated(p) PROVE TypeOK'
  BY <1>9, GotoType, LeaveType, HoldType, CountType DEF OverflowCreated
<1>10. ASSUME NEW p \in Borrowers, OverflowFailed(p) PROVE TypeOK'
  BY <1>10, GotoType, LeaveType, HoldType, CountType DEF OverflowFailed
<1>11. ASSUME NEW p \in Borrowers, PutClosed(p) PROVE TypeOK'
  BY <1>11, GotoType, LeaveType, HoldType, CountType DEF PutClosed
<1>12. ASSUME NEW p \in Borrowers, PutShrink(p) PROVE TypeOK'
  BY <1>12, GotoType, LeaveType, HoldType, CountType DEF PutShrink
<1>13. ASSUME NEW p \in Borrowers, PutHandOff(p) PROVE TypeOK'
  <2> DEFINE q == Head(parked)
  <2>1. parked # <<>> /\ q \in Borrowers
    BY <1>13, EmptySeq DEF PutHandOff, WaitersExact
  <2>2. parked' \in Seq(Borrowers \cup Closers)
    BY <1>13, <2>1, HeadTailProperties DEF PutHandOff
  <2>3. pc' = [[pc EXCEPT ![p] = "ready"] EXCEPT ![q] = "using"]
    BY <1>13 DEF PutHandOff
  <2>4. PlacesOK'
    <3> DEFINE pc1 == [pc EXCEPT ![p] = "ready"]
    <3>1. pc1 \in [Procs -> BorrowerPC \cup RecyclerPC \cup CheckerPC \cup CloserPC]
      BY DEF PlacesOK
    <3>2. pc' \in [Procs -> BorrowerPC \cup RecyclerPC \cup CheckerPC \cup CloserPC]
      BY <2>1, <2>3, <3>1
    <3>3. \A r \in Procs : pc'[r] = IF r = q THEN "using" ELSE IF r = p THEN "ready" ELSE pc[r]
      BY <2>3 DEF PlacesOK
    <3> QED
      BY <2>1, <3>2, <3>3 DEF PlacesOK
  <2>5. conn' \in [Procs -> Conns \cup {NoConn}] /\ n' \in [Procs -> Nat]
    BY <1>13, <2>1 DEF PutHandOff
  <2>6. waiters' \in Nat
    BY <1>13, CountType DEF PutHandOff
  <2> QED
    BY <1>13, <2>2, <2>4, <2>5, <2>6 DEF PutHandOff
<1>14. ASSUME NEW p \in Borrowers, PutIdle(p) PROVE TypeOK'
  <2>1. conn[p] \in Conns
    BY <1>14 DEF PutIdle, HandsFull, Holding
  <2> QED
    BY <1>14, <2>1, AppendProperties, LeaveType, GotoType, HoldType DEF PutIdle
<1>15. ASSUME NEW p \in Borrowers, RemoveLent(p) PROVE TypeOK'
  BY <1>15, GotoType, LeaveType, HoldType, CountType DEF RemoveLent
<1>16. ASSUME NEW p \in Recyclers, Recycle(p) PROVE TypeOK'
  BY <1>16, GotoType, LeaveType, HoldType, CountType DEF Recycle
<1>17. ASSUME NEW p \in Recyclers, RecycleEvict(p) PROVE TypeOK'
  <2>1. n' \in [Procs -> Nat]
    BY <1>17 DEF RecycleEvict
  <2>2. cached' \in [Procs -> Int]
    BY <1>17 DEF RecycleEvict
  <2> QED
    BY <1>17, <2>1, <2>2, CountType, FrontFacts DEF RecycleEvict, PlacesOK
<1>18. ASSUME NEW p \in Recyclers, RecycleProbe(p) PROVE TypeOK'
  BY <1>18, GotoType, LeaveType, HoldType, CountType, FrontFacts DEF RecycleProbe
<1>19. ASSUME NEW p \in Recyclers, RecycleAlive(p) PROVE TypeOK'
  <2>1. conn[p] \in Conns
    BY <1>19 DEF RecycleAlive, HandsFull, Holding
  <2>2. CASE closed
    BY <1>19, <2>2, GotoType, LeaveType, HoldType DEF RecycleAlive
  <2>3. CASE ~closed
    <3>1. cached' \in [Procs -> Int]
      BY <1>19, <2>3 DEF RecycleAlive
    <3>2. idle' = Append(idle, conn[p])
      BY <1>19, <2>3 DEF RecycleAlive
    <3>3. idle' \in Seq(Conns)
      BY <2>1, <3>2, AppendProperties
    <3> QED
      BY <1>19, <2>3, <3>1, <3>3, GotoType, HoldType, CountType DEF RecycleAlive
  <2> QED
    BY <2>2, <2>3
<1>20. ASSUME NEW p \in Recyclers, RecycleDead(p) PROVE TypeOK'
  <2>1. CASE closed
    BY <1>20, <2>1, GotoType, LeaveType, HoldType DEF RecycleDead
  <2>2. CASE ~closed
    <3>1. cached' = [cached EXCEPT ![p] = count - 1]
      BY <1>20, <2>2 DEF RecycleDead
    <3>2. cached' \in [Procs -> Int]
      BY <3>1
    <3> QED
      BY <1>20, <2>2, <3>2, GotoType, HoldType, CountType DEF RecycleDead
  <2> QED
    BY <2>1, <2>2
<1>21. ASSUME NEW p \in Recyclers, RecycleScanned(p) PROVE TypeOK'
  BY <1>21, GotoType, LeaveType, HoldType, CountType DEF RecycleScanned
<1>22. ASSUME NEW p \in Recyclers, Refill(p) PROVE TypeOK'
  BY <1>22, GotoType, LeaveType, HoldType, CountType DEF Refill, Fresh
<1>23. ASSUME NEW p \in Recyclers, RefillDone(p) PROVE TypeOK'
  BY <1>23, GotoType, LeaveType, HoldType, CountType DEF RefillDone
<1>24. ASSUME NEW p \in Recyclers, Refilled(p) PROVE TypeOK'
  <2>1. conn[p] \in Conns
    BY <1>24 DEF Refilled, HandsFull, Holding
  <2>2. CASE closed
    BY <1>24, <2>2, GotoType, LeaveType, HoldType DEF Refilled
  <2>3. CASE ~closed
    <3>1. cached' \in [Procs -> Int]
      BY <1>24, <2>3 DEF Refilled
    <3>2. idle' = Append(idle, conn[p])
      BY <1>24, <2>3 DEF Refilled
    <3>3. idle' \in Seq(Conns)
      BY <2>1, <3>2, AppendProperties
    <3> QED
      BY <1>24, <2>3, <3>1, <3>3, GotoType, HoldType, CountType DEF Refilled
  <2> QED
    BY <2>2, <2>3
<1>25. ASSUME NEW p \in Recyclers, RefillFailed(p) PROVE TypeOK'
  BY <1>25, GotoType, LeaveType, HoldType, CountType DEF RefillFailed
<1>26. ASSUME NEW p \in Checkers, HealthCheck(p) PROVE TypeOK'
  BY <1>26, GotoType, LeaveType, HoldType, CountType DEF HealthCheck
<1>27. ASSUME NEW p \in Checkers, HealthProbe(p) PROVE TypeOK'
  BY <1>27, GotoType, LeaveType, HoldType, CountType, FrontFacts DEF HealthProbe
<1>28. ASSUME NEW p \in Checkers, HealthAlive(p) PROVE TypeOK'
  <2>1. conn[p] \in Conns
    BY <1>28 DEF HealthAlive, HandsFull, Holding
  <2> QED
    BY <1>28, <2>1, AppendProperties, GotoType, HoldType DEF HealthAlive
<1>29. ASSUME NEW p \in Checkers, HealthDead(p) PROVE TypeOK'
  BY <1>29, GotoType, LeaveType, HoldType, CountType DEF HealthDead
<1>30. ASSUME NEW p \in Checkers, HealthDone(p) PROVE TypeOK'
  BY <1>30, GotoType, LeaveType, HoldType, CountType DEF HealthDone
<1>31. ASSUME NEW p \in Closers, Close(p) PROVE TypeOK'
  <2>1. closed' \in BOOLEAN /\ channel' \in BOOLEAN
    BY <1>31 DEF Close
  <2>2. count' \in {0, count} /\ waiters' = 0
    BY <1>31 DEF Close
  <2>3. PlacesOK'
    BY <1>31, GotoType DEF Close, PlacesOK
  <2>4. cpu' \in Procs \cup {NoProc}
    BY <1>31 DEF Close
  <2> QED
    BY <1>31, <2>1, <2>2, <2>3, <2>4 DEF Close
<1>32. ASSUME NEW p \in Closers, CloseDrain(p) PROVE TypeOK'
  <2>1. idle' \in Seq(Conns) /\ PlacesOK'
    BY <1>32, FrontFacts DEF CloseDrain, PlacesOK
  <2> QED
    BY <1>32, <2>1, CountType DEF CloseDrain
<1>33. ASSUME NEW p \in Closers, CloseDrained(p) PROVE TypeOK'
  <2>0. Append(parked, p) \in Seq(Borrowers \cup Closers)
    BY AppendProperties
  <2>1. parked' \in Seq(Borrowers \cup Closers)
    BY <1>33, <2>0 DEF CloseDrained
  <2>2. PlacesOK' /\ cpu' \in Procs \cup {NoProc}
    BY <1>33, GotoType DEF CloseDrained
  <2> QED
    BY <1>33, <2>1, <2>2 DEF CloseDrained
<1>34. ASSUME NEW p \in Closers, CloseRound(p) PROVE TypeOK'
  <2>1. PICK i \in 1..Len(parked) :
           /\ parked[i] = p
           /\ \/ parked' = Append(RemoveAt(parked, i), p) /\ Yield /\ UNCHANGED pc
              \/ parked' = RemoveAt(parked, i) /\ Goto(p, "wake") /\ Keep(p)
    BY <1>34 DEF CloseRound
  <2>2. RemoveAt(parked, i) \in Seq(Borrowers \cup Closers)
    BY RemoveAtFacts
  <2>3. Append(RemoveAt(parked, i), p) \in Seq(Borrowers \cup Closers)
    BY <2>2, AppendProperties
  <2>6. parked' \in Seq(Borrowers \cup Closers)
    BY <2>1, <2>2, <2>3
  <2>4. PlacesOK' /\ cpu' \in Procs \cup {NoProc}
    BY <2>1, GotoType DEF PlacesOK
  <2>5. n' \in [Procs -> Nat]
    BY <1>34 DEF CloseRound
  <2> QED
    BY <1>34, <2>4, <2>5, <2>6 DEF CloseRound
<1>35. ASSUME NEW p \in Closers, CloseWake(p) PROVE TypeOK'
  <2> DEFINE q == Head(parked)
  <2>1. q \in Borrowers \cup Closers /\ parked' \in Seq(Borrowers \cup Closers)
    BY <1>35, HeadTailProperties DEF CloseWake
  <2>2. PlacesOK'
    BY <1>35, <2>1, GotoType DEF CloseWake
  <2>3. n' \in [Procs -> Nat]
    BY <1>35 DEF CloseWake
  <2>4. count' \in {0, count} /\ waiters' \in Nat
    BY <1>35, CountType DEF CloseWake
  <2>5. channel' \in {FALSE, channel}
    BY <1>35 DEF CloseWake
  <2>6. channel' \in BOOLEAN
    BY <2>5
  <2>7. count' \in 0..AtomicMax
    BY <2>4
  <2> QED
    BY <1>35, <2>1, <2>2, <2>3, <2>4, <2>6, <2>7 DEF CloseWake
<1>36. ASSUME NEW p \in Closers, CloseFinish(p) PROVE TypeOK'
  <2>1. channel' = FALSE /\ count' = 0
    BY <1>36 DEF CloseFinish
  <2>2. channel' \in BOOLEAN
    BY <2>1
  <2>3. count' \in 0..AtomicMax
    BY <2>1
  <2> QED
    BY <1>36, <2>2, <2>3, GotoType, LeaveType DEF CloseFinish
<1>37. CASE UNCHANGED vars
  BY <1>37 DEF vars, PlacesOK
<1> QED
  BY <1>1, <1>2, <1>3, <1>4, <1>5, <1>6, <1>7, <1>8, <1>9, <1>10, <1>11, <1>12, <1>13, <1>14, <1>15, <1>16, <1>17, <1>18, <1>19, <1>20, <1>21, <1>22, <1>23, <1>24, <1>25, <1>26, <1>27, <1>28, <1>29, <1>30, <1>31, <1>32, <1>33, <1>34, <1>35, <1>36, <1>37
  DEF Next, GetStep, RecycleStep, HealthStep, CloseStep, Return

LEMMA GotoFacts ==
  ASSUME TypeOK, NEW p \in Procs, NEW l, Goto(p, l)
  PROVE  \A q \in Procs : pc'[q] = IF q = p THEN l ELSE pc[q]
  BY DEF TypeOK, PlacesOK, Goto

LEMMA HoldFacts ==
  ASSUME TypeOK, NEW p \in Procs, NEW c, Hold(p, c)
  PROVE  \A q \in Procs : conn'[q] = IF q = p THEN c ELSE conn[q]
  BY DEF TypeOK, Hold

(* Who is resumed first: a parked coroutine, its hands empty.              *)
LEMMA HeadParked ==
  ASSUME TypeOK, Queue, HandsFull, parked # <<>>
  PROVE  /\ Head(parked) \in Procs
         /\ pc[Head(parked)] \in {"parked", "draining"}
         /\ conn[Head(parked)] = NoConn
<1>1. Len(parked) \in Nat /\ Len(parked) > 0 /\ Head(parked) = parked[1]
  BY EmptySeq DEF TypeOK
<1>2. parked[1] \in Borrowers \cup Closers
  BY <1>1, ElementOfSeq DEF TypeOK
<1>3. pc[parked[1]] \in {"parked", "draining"}
  BY <1>1 DEF Queue
<1> QED
  BY <1>1, <1>2, <1>3 DEF HandsFull, Holding, Procs

(* put() to a blocked get(): the connection changes hands, nothing else.   *)
LEMMA HandOffFacts ==
  ASSUME TypeOK, HandsFull, Queue, WaitersExact, NEW p \in Borrowers, PutHandOff(p)
  PROVE  LET q == Head(parked)
         IN  /\ parked # <<>> /\ q \in Borrowers /\ q \in Procs /\ q # p
             /\ pc[q] = "parked" /\ conn[q] = NoConn
             /\ \A r \in Procs :
                   /\ pc'[r] = IF r = q THEN "using" ELSE IF r = p THEN "ready" ELSE pc[r]
                   /\ conn'[r] = IF r = q THEN conn[p] ELSE IF r = p THEN NoConn ELSE conn[r]
<1> DEFINE q == Head(parked)
<1>1. parked # <<>> /\ q \in Borrowers
  <2>1. Len(parked) > 0 /\ \A i \in 1..Len(parked) : parked[i] \in Borrowers
    BY DEF PutHandOff, WaitersExact, TypeOK
  <2> QED
    BY <2>1, EmptySeq DEF TypeOK
<1>2. q \in Procs /\ conn[q] = NoConn /\ pc[q] \in {"parked", "draining"}
  BY <1>1, HeadParked
<1>3. pc[q] = "parked"
  BY <1>1, <1>2 DEF TypeOK, PlacesOK, BorrowerPC
<1>4. q # p
  BY <1>3 DEF PutHandOff
<1>5. p \in Procs
  BY DEF Procs
<1>6. pc' = [pc EXCEPT ![p] = "ready", ![q] = "using"]
  BY DEF PutHandOff
<1>7. \A r \in Procs : pc'[r] = IF r = q THEN "using" ELSE IF r = p THEN "ready" ELSE pc[r]
  BY <1>2, <1>4, <1>5, <1>6 DEF TypeOK, PlacesOK
<1>8. conn' = [conn EXCEPT ![p] = NoConn, ![q] = conn[p]]
  BY DEF PutHandOff
<1>9. \A r \in Procs : conn'[r] = IF r = q THEN conn[p] ELSE IF r = p THEN NoConn ELSE conn[r]
  BY <1>2, <1>4, <1>5, <1>8 DEF TypeOK
<1> QED
  BY <1>1, <1>2, <1>3, <1>4, <1>7, <1>9

LEMMA HandsStep ==
  ASSUME TypeOK, HandsFull, Queue, WaitersExact, [Next]_vars
  PROVE  HandsFull'
<1> USE PoolAssumption, ProcsFacts, GotoFacts, HoldFacts, LeaveType DEF HandsFull, Holding
<1>1. ASSUME NEW p \in Borrowers, Get(p) PROVE HandsFull'
  BY <1>1 DEF Get, Drop
<1>2. ASSUME NEW p \in Borrowers, GetIdle(p) PROVE HandsFull'
  <2>1. Last(idle) \in Conns
    BY <1>2, FrontFacts DEF GetIdle, TypeOK
  <2> QED
    BY <1>2, <2>1 DEF GetIdle
<1>3. ASSUME NEW p \in Borrowers, GetReserve(p) PROVE HandsFull'
  BY <1>3 DEF GetReserve, Drop, Fresh
<1>4. ASSUME NEW p \in Borrowers, GetPark(p) PROVE HandsFull'
  BY <1>4 DEF GetPark, Drop
<1>5. ASSUME NEW p \in Borrowers, GetGiveUp(p) PROVE HandsFull'
  BY <1>5 DEF GetGiveUp, Drop
<1>6. ASSUME NEW p \in Borrowers, Created(p) PROVE HandsFull'
  BY <1>6 DEF Created, Drop
<1>7. ASSUME NEW p \in Borrowers, CreateFailed(p) PROVE HandsFull'
  BY <1>7 DEF CreateFailed, Drop
<1>8. ASSUME NEW p \in Borrowers, WaitTimeout(p) PROVE HandsFull'
  BY <1>8 DEF WaitTimeout, Drop, Fresh
<1>9. ASSUME NEW p \in Borrowers, OverflowCreated(p) PROVE HandsFull'
  BY <1>9 DEF OverflowCreated, Drop
<1>10. ASSUME NEW p \in Borrowers, OverflowFailed(p) PROVE HandsFull'
  BY <1>10 DEF OverflowFailed, Drop
<1>11. ASSUME NEW p \in Borrowers, PutClosed(p) PROVE HandsFull'
  BY <1>11 DEF PutClosed, Drop
<1>12. ASSUME NEW p \in Borrowers, PutShrink(p) PROVE HandsFull'
  BY <1>12 DEF PutShrink, Drop
<1>13. ASSUME NEW p \in Borrowers, PutHandOff(p) PROVE HandsFull'
  <2> DEFINE q == Head(parked)
  <2>1. conn[p] # NoConn
    BY <1>13 DEF PutHandOff
  <2>2. \A r \in Procs :
           /\ pc'[r] = IF r = q THEN "using" ELSE IF r = p THEN "ready" ELSE pc[r]
           /\ conn'[r] = IF r = q THEN conn[p] ELSE IF r = p THEN NoConn ELSE conn[r]
    BY <1>13, HandOffFacts
  <2> HIDE DEF q
  <2> QED
    BY <2>1, <2>2
<1>14. ASSUME NEW p \in Borrowers, PutIdle(p) PROVE HandsFull'
  BY <1>14 DEF PutIdle, Drop
<1>15. ASSUME NEW p \in Borrowers, RemoveLent(p) PROVE HandsFull'
  BY <1>15 DEF RemoveLent, Drop
<1>16. ASSUME NEW p \in Recyclers, Recycle(p) PROVE HandsFull'
  BY <1>16 DEF Recycle, Drop
<1>17. ASSUME NEW p \in Recyclers, RecycleEvict(p) PROVE HandsFull'
  BY <1>17 DEF RecycleEvict, Drop
<1>18. ASSUME NEW p \in Recyclers, RecycleProbe(p) PROVE HandsFull'
  <2>1. Last(idle) \in Conns
    BY <1>18, FrontFacts DEF RecycleProbe, TypeOK
  <2> QED
    BY <1>18, <2>1 DEF RecycleProbe
<1>19. ASSUME NEW p \in Recyclers, RecycleAlive(p) PROVE HandsFull'
  BY <1>19 DEF RecycleAlive, Drop
<1>20. ASSUME NEW p \in Recyclers, RecycleDead(p) PROVE HandsFull'
  BY <1>20 DEF RecycleDead, Drop
<1>21. ASSUME NEW p \in Recyclers, RecycleScanned(p) PROVE HandsFull'
  BY <1>21 DEF RecycleScanned, Drop
<1>22. ASSUME NEW p \in Recyclers, Refill(p) PROVE HandsFull'
  BY <1>22 DEF Refill, Drop, Fresh
<1>23. ASSUME NEW p \in Recyclers, RefillDone(p) PROVE HandsFull'
  BY <1>23 DEF RefillDone, Drop
<1>24. ASSUME NEW p \in Recyclers, Refilled(p) PROVE HandsFull'
  BY <1>24 DEF Refilled, Drop
<1>25. ASSUME NEW p \in Recyclers, RefillFailed(p) PROVE HandsFull'
  BY <1>25 DEF RefillFailed, Drop
<1>26. ASSUME NEW p \in Checkers, HealthCheck(p) PROVE HandsFull'
  BY <1>26 DEF HealthCheck, Drop
<1>27. ASSUME NEW p \in Checkers, HealthProbe(p) PROVE HandsFull'
  <2>1. Last(idle) \in Conns
    BY <1>27, FrontFacts DEF HealthProbe, TypeOK
  <2> QED
    BY <1>27, <2>1 DEF HealthProbe
<1>28. ASSUME NEW p \in Checkers, HealthAlive(p) PROVE HandsFull'
  BY <1>28 DEF HealthAlive, Drop
<1>29. ASSUME NEW p \in Checkers, HealthDead(p) PROVE HandsFull'
  BY <1>29 DEF HealthDead, Drop
<1>30. ASSUME NEW p \in Checkers, HealthDone(p) PROVE HandsFull'
  BY <1>30 DEF HealthDone, Drop
<1>31. ASSUME NEW p \in Closers, Close(p) PROVE HandsFull'
  <2>1. conn' = conn /\ (pc' = pc \/ Goto(p, "drain")) /\ pc[p] = "ready"
    BY <1>31 DEF Close
  <2> QED
    BY <2>1
<1>32. ASSUME NEW p \in Closers, CloseDrain(p) PROVE HandsFull'
  BY <1>32 DEF CloseDrain, Drop
<1>33. ASSUME NEW p \in Closers, CloseDrained(p) PROVE HandsFull'
  BY <1>33 DEF CloseDrained, Drop
<1>34. ASSUME NEW p \in Closers, CloseRound(p) PROVE HandsFull'
  BY <1>34 DEF CloseRound, Drop
<1>35. ASSUME NEW p \in Closers, CloseWake(p) PROVE HandsFull'
  <2>1. Head(parked) \in Procs /\ pc[Head(parked)] \in {"parked", "draining"}
    BY <1>35, HeadParked DEF CloseWake
  <2>2. conn' = conn /\ Goto(Head(parked), "ready")
    BY <1>35 DEF CloseWake
  <2> QED
    BY <2>1, <2>2
<1>36. ASSUME NEW p \in Closers, CloseFinish(p) PROVE HandsFull'
  BY <1>36 DEF CloseFinish, Drop
<1>37. CASE UNCHANGED vars
  BY <1>37 DEF vars
<1> QED
  BY <1>1, <1>2, <1>3, <1>4, <1>5, <1>6, <1>7, <1>8, <1>9, <1>10, <1>11, <1>12,
     <1>13, <1>14, <1>15, <1>16, <1>17, <1>18, <1>19, <1>20, <1>21, <1>22, <1>23, <1>24,
     <1>25, <1>26, <1>27, <1>28, <1>29, <1>30, <1>31, <1>32, <1>33, <1>34, <1>35, <1>36,
     <1>37
  DEF Next, GetStep, RecycleStep, HealthStep, CloseStep, Return

-----------------------------------------------------------------------------
(* The channel's queue: nobody joins or leaves it, p joins, p leaves.      *)
LEMMA QueueKept ==
  ASSUME TypeOK, Queue, NEW p \in Procs, pc[p] \notin {"parked", "draining"},
         \A r \in Procs : r # p => pc'[r] = pc[r], parked' = parked
  PROVE  Queue'
<1>1. \A i \in 1..Len(parked) : parked[i] \in Procs
  BY ElementOfSeq DEF TypeOK, Procs
<1> QED
  BY <1>1 DEF Queue

LEMMA QueueJoined ==
  ASSUME TypeOK, Queue, NEW p \in Borrowers \cup Closers,
         pc[p] \notin {"parked", "draining"}, pc'[p] \in {"parked", "draining"},
         \A r \in Procs : r # p => pc'[r] = pc[r], parked' = Append(parked, p)
  PROVE  Queue'
<1>1. /\ parked \in Seq(Borrowers \cup Closers) /\ Len(parked) \in Nat
      /\ \A i \in 1..Len(parked) : parked[i] \in Procs /\ parked[i] # p
  BY ElementOfSeq DEF TypeOK, Procs, Queue
<1>2. /\ Len(parked') = Len(parked) + 1
      /\ \A i \in 1..Len(parked) : parked'[i] = parked[i]
      /\ parked'[Len(parked) + 1] = p
  BY <1>1, AppendProperties
<1>3. \A i \in 1..Len(parked') : i \in 1..Len(parked) \/ i = Len(parked) + 1
  BY <1>1, <1>2
<1>4. \A i \in 1..Len(parked') : pc'[parked'[i]] \in {"parked", "draining"}
  BY <1>1, <1>2, <1>3 DEF Queue
<1>5. \A i, j \in 1..Len(parked') : parked'[i] = parked'[j] => i = j
  BY <1>1, <1>2, <1>3 DEF Queue
<1> QED
  BY <1>4, <1>5 DEF Queue

LEMMA QueueLeft ==
  ASSUME TypeOK, Queue, NEW i \in 1..Len(parked),
         \A r \in Procs : r # parked[i] => pc'[r] = pc[r],
         parked' = RemoveAt(parked, i)
  PROVE  /\ Queue'
         /\ \A j \in 1..Len(parked') : parked'[j] # parked[i]
<1>1. /\ parked \in Seq(Borrowers \cup Closers) /\ Len(parked) \in Nat
      /\ \A j \in 1..Len(parked) : parked[j] \in Procs
  BY ElementOfSeq DEF TypeOK, Procs
<1> DEFINE k(j) == IF j < i THEN j ELSE j + 1
<1>2. /\ Len(parked') = Len(parked) - 1
      /\ \A j \in 1..Len(parked') : k(j) \in 1..Len(parked) /\ k(j) # i /\ parked'[j] = parked[k(j)]
  <2>1. /\ Len(RemoveAt(parked, i)) = Len(parked) - 1
        /\ \A j \in 1..Len(parked) - 1 :
              RemoveAt(parked, i)[j] = IF j < i THEN parked[j] ELSE parked[j + 1]
    BY <1>1, RemoveAtFacts
  <2> QED
    BY <1>1, <2>1
<1>3. \A j, l \in 1..Len(parked') : k(j) = k(l) => j = l
  BY <1>1, <1>2
<1>4. \A j \in 1..Len(parked') : parked'[j] # parked[i]
  BY <1>2 DEF Queue
<1>5. \A j \in 1..Len(parked') : pc'[parked'[j]] \in {"parked", "draining"}
  BY <1>1, <1>2, <1>4 DEF Queue
<1>6. \A j, l \in 1..Len(parked') : parked'[j] = parked'[l] => j = l
  BY <1>2, <1>3 DEF Queue
<1> QED
  BY <1>4, <1>5, <1>6 DEF Queue

LEMMA QueueHeadLeft ==
  ASSUME TypeOK, Queue, parked # <<>>,
         \A r \in Procs : r # Head(parked) => pc'[r] = pc[r] \/ pc[r] \notin {"parked", "draining"},
         parked' = Tail(parked)
  PROVE  Queue'
<1>1. /\ parked \in Seq(Borrowers \cup Closers) /\ Len(parked) \in Nat
      /\ \A j \in 1..Len(parked) : parked[j] \in Procs
  BY ElementOfSeq DEF TypeOK, Procs
<1>2. /\ Head(parked) = parked[1] /\ 1 \in 1..Len(parked)
      /\ Len(parked') = Len(parked) - 1
      /\ \A j \in 1..Len(parked') : j + 1 \in 1..Len(parked) /\ parked'[j] = parked[j + 1]
  BY <1>1, EmptySeq, HeadTailProperties
<1>3. \A j \in 1..Len(parked') : parked'[j] # Head(parked)
  BY <1>2 DEF Queue
<1>4. \A j \in 1..Len(parked') : pc'[parked'[j]] \in {"parked", "draining"}
  BY <1>1, <1>2, <1>3 DEF Queue
<1>5. \A j, l \in 1..Len(parked') : parked'[j] = parked'[l] => j = l
  BY <1>2 DEF Queue
<1> QED
  BY <1>4, <1>5 DEF Queue

(* A wait that is renewed at once: from its place to the end of the queue. *)
LEMMA QueueRejoined ==
  ASSUME TypeOK, Queue, NEW i \in 1..Len(parked), pc' = pc,
         parked' = Append(RemoveAt(parked, i), parked[i])
  PROVE  Queue'
<1> DEFINE s == RemoveAt(parked, i)
<1>1. /\ parked \in Seq(Borrowers \cup Closers) /\ Len(parked) \in Nat
      /\ \A j \in 1..Len(parked) : parked[j] \in Borrowers \cup Closers
  BY ElementOfSeq DEF TypeOK
<1> DEFINE k(j) == IF j = Len(parked) THEN i ELSE IF j < i THEN j ELSE j + 1
<1>2. /\ s \in Seq(Borrowers \cup Closers) /\ Len(s) = Len(parked) - 1
      /\ \A j \in 1..Len(s) : s[j] = IF j < i THEN parked[j] ELSE parked[j + 1]
  BY <1>1, RemoveAtFacts
<1> HIDE DEF s
<1>3. /\ Len(parked') = Len(parked)
      /\ \A j \in 1..Len(s) : parked'[j] = s[j]
      /\ parked'[Len(parked)] = parked[i]
  <2>1. parked' = Append(s, parked[i])
    BY DEF s
  <2>2. /\ Len(parked') = Len(s) + 1
        /\ \A j \in 1..Len(s) : parked'[j] = s[j]
        /\ parked'[Len(s) + 1] = parked[i]
    BY <1>1, <1>2, <2>1, AppendProperties
  <2> QED
    BY <1>1, <1>2, <2>2
<1>4. \A j \in 1..Len(parked') : k(j) \in 1..Len(parked) /\ parked'[j] = parked[k(j)]
  BY <1>1, <1>2, <1>3
<1>5. \A j, l \in 1..Len(parked') : k(j) = k(l) => j = l
  BY <1>1, <1>3
<1>6. \A j \in 1..Len(parked') : pc'[parked'[j]] \in {"parked", "draining"}
  BY <1>4 DEF Queue
<1>7. \A j, l \in 1..Len(parked') : parked'[j] = parked'[l] => j = l
  BY <1>4, <1>5 DEF Queue
<1> QED
  BY <1>6, <1>7 DEF Queue

LEMMA QueueStep ==
  ASSUME TypeOK, HandsFull, Queue, WaitersExact, [Next]_vars
  PROVE  Queue'
<1> USE ProcsFacts, GotoFacts, LeaveType
<1>1. ASSUME NEW p \in Borrowers, Get(p) PROVE Queue'
  BY <1>1, QueueKept DEF Get
<1>2. ASSUME NEW p \in Borrowers, GetIdle(p) PROVE Queue'
  BY <1>2, QueueKept DEF GetIdle
<1>3. ASSUME NEW p \in Borrowers, GetReserve(p) PROVE Queue'
  BY <1>3, QueueKept DEF GetReserve
<1>4. ASSUME NEW p \in Borrowers, GetPark(p) PROVE Queue'
  <2>1. pc[p] = "loop" /\ Goto(p, "parked") /\ parked' = Append(parked, p)
    BY <1>4 DEF GetPark
  <2> QED
    BY <2>1, QueueJoined
<1>5. ASSUME NEW p \in Borrowers, GetGiveUp(p) PROVE Queue'
  BY <1>5, QueueKept DEF GetGiveUp
<1>6. ASSUME NEW p \in Borrowers, Created(p) PROVE Queue'
  BY <1>6, QueueKept DEF Created
<1>7. ASSUME NEW p \in Borrowers, CreateFailed(p) PROVE Queue'
  BY <1>7, QueueKept DEF CreateFailed
<1>8. ASSUME NEW p \in Borrowers, WaitTimeout(p) PROVE Queue'
  <2>1. PICK i \in 1..Len(parked) : parked[i] = p /\ parked' = RemoveAt(parked, i)
    BY <1>8 DEF WaitTimeout
  <2>2. Goto(p, "ready") \/ Goto(p, "overflowing")
    BY <1>8, LeaveType DEF WaitTimeout
  <2> QED
    BY <2>1, <2>2, QueueLeft
<1>9. ASSUME NEW p \in Borrowers, OverflowCreated(p) PROVE Queue'
  BY <1>9, QueueKept DEF OverflowCreated
<1>10. ASSUME NEW p \in Borrowers, OverflowFailed(p) PROVE Queue'
  BY <1>10, QueueKept DEF OverflowFailed
<1>11. ASSUME NEW p \in Borrowers, PutClosed(p) PROVE Queue'
  BY <1>11, QueueKept DEF PutClosed
<1>12. ASSUME NEW p \in Borrowers, PutShrink(p) PROVE Queue'
  BY <1>12, QueueKept DEF PutShrink
<1>13. ASSUME NEW p \in Borrowers, PutHandOff(p) PROVE Queue'
  <2>1. parked # <<>> /\ pc[p] = "using" /\ parked' = Tail(parked)
    BY <1>13, HandOffFacts DEF PutHandOff
  <2>2. \A r \in Procs : r # Head(parked) /\ r # p => pc'[r] = pc[r]
    BY <1>13, HandOffFacts
  <2> QED
    BY <2>1, <2>2, QueueHeadLeft
<1>14. ASSUME NEW p \in Borrowers, PutIdle(p) PROVE Queue'
  BY <1>14, QueueKept DEF PutIdle
<1>15. ASSUME NEW p \in Borrowers, RemoveLent(p) PROVE Queue'
  BY <1>15, QueueKept DEF RemoveLent
<1>16. ASSUME NEW p \in Recyclers, Recycle(p) PROVE Queue'
  BY <1>16, QueueKept DEF Recycle
<1>17. ASSUME NEW p \in Recyclers, RecycleEvict(p) PROVE Queue'
  BY <1>17, QueueKept DEF RecycleEvict
<1>18. ASSUME NEW p \in Recyclers, RecycleProbe(p) PROVE Queue'
  BY <1>18, QueueKept DEF RecycleProbe
<1>19. ASSUME NEW p \in Recyclers, RecycleAlive(p) PROVE Queue'
  BY <1>19, QueueKept DEF RecycleAlive
<1>20. ASSUME NEW p \in Recyclers, RecycleDead(p) PROVE Queue'
  BY <1>20, QueueKept DEF RecycleDead
<1>21. ASSUME NEW p \in Recyclers, RecycleScanned(p) PROVE Queue'
  BY <1>21, QueueKept DEF RecycleScanned
<1>22. ASSUME NEW p \in Recyclers, Refill(p) PROVE Queue'
  BY <1>22, QueueKept DEF Refill
<1>23. ASSUME NEW p \in Recyclers, RefillDone(p) PROVE Queue'
  BY <1>23, QueueKept DEF RefillDone
<1>24. ASSUME NEW p \in Recyclers, Refilled(p) PROVE Queue'
  BY <1>24, QueueKept DEF Refilled
<1>25. ASSUME NEW p \in Recyclers, RefillFailed(p) PROVE Queue'
  BY <1>25, QueueKept DEF RefillFailed
<1>26. ASSUME NEW p \in Checkers, HealthCheck(p) PROVE Queue'
  BY <1>26, QueueKept DEF HealthCheck
<1>27. ASSUME NEW p \in Checkers, HealthProbe(p) PROVE Queue'
  BY <1>27, QueueKept DEF HealthProbe
<1>28. ASSUME NEW p \in Checkers, HealthAlive(p) PROVE Queue'
  BY <1>28, QueueKept DEF HealthAlive
<1>29. ASSUME NEW p \in Checkers, HealthDead(p) PROVE Queue'
  BY <1>29, QueueKept DEF HealthDead
<1>30. ASSUME NEW p \in Checkers, HealthDone(p) PROVE Queue'
  BY <1>30, QueueKept DEF HealthDone
<1>31. ASSUME NEW p \in Closers, Close(p) PROVE Queue'
  <2>1. parked' = parked /\ (pc' = pc \/ Goto(p, "drain")) /\ pc[p] = "ready"
    BY <1>31 DEF Close
  <2> QED
    BY <2>1, QueueKept
<1>32. ASSUME NEW p \in Closers, CloseDrain(p) PROVE Queue'
  BY <1>32, QueueKept DEF CloseDrain
<1>33. ASSUME NEW p \in Closers, CloseDrained(p) PROVE Queue'
  <2>1. /\ pc[p] = "drain"
        /\ \/ Goto(p, "draining") /\ parked' = Append(parked, p)
           \/ Goto(p, "wake") /\ parked' = parked
    BY <1>33 DEF CloseDrained
  <2> QED
    BY <2>1, QueueJoined, QueueKept
<1>34. ASSUME NEW p \in Closers, CloseRound(p) PROVE Queue'
  <2>1. PICK i \in 1..Len(parked) :
           /\ parked[i] = p
           /\ \/ parked' = Append(RemoveAt(parked, i), p) /\ pc' = pc
              \/ parked' = RemoveAt(parked, i) /\ Goto(p, "wake")
    BY <1>34 DEF CloseRound
  <2>2. CASE parked' = RemoveAt(parked, i) /\ Goto(p, "wake")
    BY <2>1, <2>2, QueueLeft
  <2>3. CASE parked' = Append(RemoveAt(parked, i), p) /\ pc' = pc
    BY <2>1, <2>3, QueueRejoined
  <2> QED
    BY <2>1, <2>2, <2>3
<1>35. ASSUME NEW p \in Closers, CloseWake(p) PROVE Queue'
  <2>1. Head(parked) \in Procs /\ parked # <<>>
    BY <1>35, HeadParked DEF CloseWake
  <2>2. Goto(Head(parked), "ready") /\ parked' = Tail(parked)
    BY <1>35 DEF CloseWake
  <2> QED
    BY <2>1, <2>2, QueueHeadLeft
<1>36. ASSUME NEW p \in Closers, CloseFinish(p) PROVE Queue'
  BY <1>36, QueueKept DEF CloseFinish
<1>37. CASE UNCHANGED vars
  BY <1>37 DEF vars, Queue
<1> QED
  BY <1>1, <1>2, <1>3, <1>4, <1>5, <1>6, <1>7, <1>8, <1>9, <1>10, <1>11, <1>12,
     <1>13, <1>14, <1>15, <1>16, <1>17, <1>18, <1>19, <1>20, <1>21, <1>22, <1>23, <1>24,
     <1>25, <1>26, <1>27, <1>28, <1>29, <1>30, <1>31, <1>32, <1>33, <1>34, <1>35, <1>36,
     <1>37
  DEF Next, GetStep, RecycleStep, HealthStep, CloseStep, Return

-----------------------------------------------------------------------------
(* The closed flag against the places of close() and of get()'s loop.      *)
LEMMA CloseMarkedStep ==
  ASSUME TypeOK, HandsFull, Queue, WaitersExact, CloseMarked, [Next]_vars
  PROVE  CloseMarked'
<1> USE PoolAssumption, ProcsFacts, GotoFacts, LeaveType DEF CloseMarked
<1>1. ASSUME NEW p \in Borrowers, Get(p) PROVE CloseMarked'
  BY <1>1 DEF Get
<1>2. ASSUME NEW p \in Borrowers, GetIdle(p) PROVE CloseMarked'
  BY <1>2 DEF GetIdle
<1>3. ASSUME NEW p \in Borrowers, GetReserve(p) PROVE CloseMarked'
  BY <1>3 DEF GetReserve
<1>4. ASSUME NEW p \in Borrowers, GetPark(p) PROVE CloseMarked'
  BY <1>4 DEF GetPark
<1>5. ASSUME NEW p \in Borrowers, GetGiveUp(p) PROVE CloseMarked'
  BY <1>5 DEF GetGiveUp
<1>6. ASSUME NEW p \in Borrowers, Created(p) PROVE CloseMarked'
  BY <1>6 DEF Created
<1>7. ASSUME NEW p \in Borrowers, CreateFailed(p) PROVE CloseMarked'
  BY <1>7 DEF CreateFailed
<1>8. ASSUME NEW p \in Borrowers, WaitTimeout(p) PROVE CloseMarked'
  BY <1>8 DEF WaitTimeout
<1>9. ASSUME NEW p \in Borrowers, OverflowCreated(p) PROVE CloseMarked'
  BY <1>9 DEF OverflowCreated
<1>10. ASSUME NEW p \in Borrowers, OverflowFailed(p) PROVE CloseMarked'
  BY <1>10 DEF OverflowFailed
<1>11. ASSUME NEW p \in Borrowers, PutClosed(p) PROVE CloseMarked'
  BY <1>11 DEF PutClosed
<1>12. ASSUME NEW p \in Borrowers, PutShrink(p) PROVE CloseMarked'
  BY <1>12 DEF PutShrink
<1>13. ASSUME NEW p \in Borrowers, PutHandOff(p) PROVE CloseMarked'
  <2>1. \A r \in Closers : pc'[r] = pc[r]
    BY <1>13, HandOffFacts DEF Procs
  <2> QED
    BY <1>13, <2>1 DEF PutHandOff
<1>14. ASSUME NEW p \in Borrowers, PutIdle(p) PROVE CloseMarked'
  BY <1>14 DEF PutIdle
<1>15. ASSUME NEW p \in Borrowers, RemoveLent(p) PROVE CloseMarked'
  BY <1>15 DEF RemoveLent
<1>16. ASSUME NEW p \in Recyclers, Recycle(p) PROVE CloseMarked'
  BY <1>16 DEF Recycle
<1>17. ASSUME NEW p \in Recyclers, RecycleEvict(p) PROVE CloseMarked'
  BY <1>17 DEF RecycleEvict
<1>18. ASSUME NEW p \in Recyclers, RecycleProbe(p) PROVE CloseMarked'
  BY <1>18 DEF RecycleProbe
<1>19. ASSUME NEW p \in Recyclers, RecycleAlive(p) PROVE CloseMarked'
  BY <1>19 DEF RecycleAlive
<1>20. ASSUME NEW p \in Recyclers, RecycleDead(p) PROVE CloseMarked'
  BY <1>20 DEF RecycleDead
<1>21. ASSUME NEW p \in Recyclers, RecycleScanned(p) PROVE CloseMarked'
  BY <1>21 DEF RecycleScanned
<1>22. ASSUME NEW p \in Recyclers, Refill(p) PROVE CloseMarked'
  BY <1>22 DEF Refill
<1>23. ASSUME NEW p \in Recyclers, RefillDone(p) PROVE CloseMarked'
  BY <1>23 DEF RefillDone
<1>24. ASSUME NEW p \in Recyclers, Refilled(p) PROVE CloseMarked'
  BY <1>24 DEF Refilled
<1>25. ASSUME NEW p \in Recyclers, RefillFailed(p) PROVE CloseMarked'
  BY <1>25 DEF RefillFailed
<1>26. ASSUME NEW p \in Checkers, HealthCheck(p) PROVE CloseMarked'
  BY <1>26 DEF HealthCheck
<1>27. ASSUME NEW p \in Checkers, HealthProbe(p) PROVE CloseMarked'
  BY <1>27 DEF HealthProbe
<1>28. ASSUME NEW p \in Checkers, HealthAlive(p) PROVE CloseMarked'
  BY <1>28 DEF HealthAlive
<1>29. ASSUME NEW p \in Checkers, HealthDead(p) PROVE CloseMarked'
  BY <1>29 DEF HealthDead
<1>30. ASSUME NEW p \in Checkers, HealthDone(p) PROVE CloseMarked'
  BY <1>30 DEF HealthDone
<1>31. ASSUME NEW p \in Closers, Close(p) PROVE CloseMarked'
  BY <1>31 DEF Close
<1>32. ASSUME NEW p \in Closers, CloseDrain(p) PROVE CloseMarked'
  BY <1>32 DEF CloseDrain
<1>33. ASSUME NEW p \in Closers, CloseDrained(p) PROVE CloseMarked'
  BY <1>33 DEF CloseDrained
<1>34. ASSUME NEW p \in Closers, CloseRound(p) PROVE CloseMarked'
  BY <1>34 DEF CloseRound
<1>35. ASSUME NEW p \in Closers, CloseWake(p) PROVE CloseMarked'
  <2>1. Head(parked) \in Procs
    BY <1>35, HeadParked DEF CloseWake
  <2> QED
    BY <1>35, <2>1 DEF CloseWake
<1>36. ASSUME NEW p \in Closers, CloseFinish(p) PROVE CloseMarked'
  BY <1>36 DEF CloseFinish
<1>37. CASE UNCHANGED vars
  BY <1>37 DEF vars
<1> QED
  BY <1>1, <1>2, <1>3, <1>4, <1>5, <1>6, <1>7, <1>8, <1>9, <1>10, <1>11, <1>12,
     <1>13, <1>14, <1>15, <1>16, <1>17, <1>18, <1>19, <1>20, <1>21, <1>22, <1>23, <1>24,
     <1>25, <1>26, <1>27, <1>28, <1>29, <1>30, <1>31, <1>32, <1>33, <1>34, <1>35, <1>36,
     <1>37
  DEF Next, GetStep, RecycleStep, HealthStep, CloseStep, Return

(* Nobody else is in get()'s loop while p may run.                         *)
LEMMA LoopLeft ==
  ASSUME TypeOK, LoopOpen, NEW p \in Procs, CanRun(p),
         \A r \in Procs : r # p => pc'[r] = pc[r] \/ pc'[r] # "loop", pc'[p] # "loop"
  PROVE  LoopOpen'
<1>1. ASSUME NEW q \in Borrowers, pc[q] = "loop" PROVE q = p
  BY <1>1, PoolAssumption DEF LoopOpen, CanRun, Procs
<1> QED
  BY <1>1 DEF LoopOpen, Procs

LEMMA LoopOpenStep ==
  ASSUME TypeOK, HandsFull, Queue, WaitersExact, LoopOpen, [Next]_vars
  PROVE  LoopOpen'
<1> USE PoolAssumption, ProcsFacts, GotoFacts, LeaveType, LoopLeft
<1>1. ASSUME NEW p \in Borrowers, Get(p), CanRun(p) PROVE LoopOpen'
  <2>1. ~closed' /\ cpu' = p /\ Goto(p, "loop")
    BY <1>1 DEF Get, Keep
  <2>2. \A q \in Borrowers : pc[q] = "loop" => q = p
    BY <1>1 DEF LoopOpen, CanRun, Procs
  <2> QED
    BY <2>1, <2>2 DEF LoopOpen
<1>2. ASSUME NEW p \in Borrowers, GetIdle(p), CanRun(p) PROVE LoopOpen'
  BY <1>2 DEF GetIdle
<1>3. ASSUME NEW p \in Borrowers, GetReserve(p), CanRun(p) PROVE LoopOpen'
  BY <1>3 DEF GetReserve
<1>4. ASSUME NEW p \in Borrowers, GetPark(p), CanRun(p) PROVE LoopOpen'
  BY <1>4 DEF GetPark
<1>5. ASSUME NEW p \in Borrowers, GetGiveUp(p), CanRun(p) PROVE LoopOpen'
  BY <1>5 DEF GetGiveUp
<1>6. ASSUME NEW p \in Borrowers, Created(p), CanRun(p) PROVE LoopOpen'
  BY <1>6 DEF Created
<1>7. ASSUME NEW p \in Borrowers, CreateFailed(p), CanRun(p) PROVE LoopOpen'
  <2>1. CASE closed
    BY <1>7, <2>1 DEF CreateFailed
  <2>2. CASE ~closed
    <3>1. ~closed' /\ cpu' = p /\ Goto(p, "loop")
      BY <1>7, <2>2 DEF CreateFailed, Keep
    <3>2. \A q \in Borrowers : pc[q] = "loop" => q = p
      BY <1>7 DEF LoopOpen, CanRun, Procs
    <3> QED
      BY <3>1, <3>2 DEF LoopOpen
  <2> QED
    BY <2>1, <2>2
<1>8. ASSUME NEW p \in Borrowers, WaitTimeout(p), CanRun(p) PROVE LoopOpen'
  BY <1>8 DEF WaitTimeout
<1>9. ASSUME NEW p \in Borrowers, OverflowCreated(p), CanRun(p) PROVE LoopOpen'
  BY <1>9 DEF OverflowCreated
<1>10. ASSUME NEW p \in Borrowers, OverflowFailed(p), CanRun(p) PROVE LoopOpen'
  BY <1>10 DEF OverflowFailed
<1>11. ASSUME NEW p \in Borrowers, PutClosed(p), CanRun(p) PROVE LoopOpen'
  BY <1>11 DEF PutClosed
<1>12. ASSUME NEW p \in Borrowers, PutShrink(p), CanRun(p) PROVE LoopOpen'
  BY <1>12 DEF PutShrink
<1>13. ASSUME NEW p \in Borrowers, PutHandOff(p), CanRun(p) PROVE LoopOpen'
  <2>1. \A r \in Procs : pc'[r] = pc[r] \/ pc'[r] \in {"ready", "using"}
    BY <1>13, HandOffFacts
  <2>2. pc'[p] # "loop"
    BY <1>13, HandOffFacts
  <2> QED
    BY <1>13, <2>1, <2>2
<1>14. ASSUME NEW p \in Borrowers, PutIdle(p), CanRun(p) PROVE LoopOpen'
  BY <1>14 DEF PutIdle
<1>15. ASSUME NEW p \in Borrowers, RemoveLent(p), CanRun(p) PROVE LoopOpen'
  BY <1>15 DEF RemoveLent
<1>16. ASSUME NEW p \in Recyclers, Recycle(p), CanRun(p) PROVE LoopOpen'
  BY <1>16 DEF Recycle
<1>17. ASSUME NEW p \in Recyclers, RecycleEvict(p), CanRun(p) PROVE LoopOpen'
  <2>1. pc'[p] # "loop" /\ pc' = pc
    BY <1>17 DEF RecycleEvict, TypeOK, PlacesOK, RecyclerPC, CloserPC
  <2> QED
    BY <1>17, <2>1, LoopLeft
<1>18. ASSUME NEW p \in Recyclers, RecycleProbe(p), CanRun(p) PROVE LoopOpen'
  BY <1>18 DEF RecycleProbe
<1>19. ASSUME NEW p \in Recyclers, RecycleAlive(p), CanRun(p) PROVE LoopOpen'
  BY <1>19 DEF RecycleAlive
<1>20. ASSUME NEW p \in Recyclers, RecycleDead(p), CanRun(p) PROVE LoopOpen'
  BY <1>20 DEF RecycleDead
<1>21. ASSUME NEW p \in Recyclers, RecycleScanned(p), CanRun(p) PROVE LoopOpen'
  BY <1>21 DEF RecycleScanned
<1>22. ASSUME NEW p \in Recyclers, Refill(p), CanRun(p) PROVE LoopOpen'
  BY <1>22 DEF Refill
<1>23. ASSUME NEW p \in Recyclers, RefillDone(p), CanRun(p) PROVE LoopOpen'
  BY <1>23 DEF RefillDone
<1>24. ASSUME NEW p \in Recyclers, Refilled(p), CanRun(p) PROVE LoopOpen'
  BY <1>24 DEF Refilled
<1>25. ASSUME NEW p \in Recyclers, RefillFailed(p), CanRun(p) PROVE LoopOpen'
  BY <1>25 DEF RefillFailed
<1>26. ASSUME NEW p \in Checkers, HealthCheck(p), CanRun(p) PROVE LoopOpen'
  BY <1>26 DEF HealthCheck
<1>27. ASSUME NEW p \in Checkers, HealthProbe(p), CanRun(p) PROVE LoopOpen'
  BY <1>27 DEF HealthProbe
<1>28. ASSUME NEW p \in Checkers, HealthAlive(p), CanRun(p) PROVE LoopOpen'
  BY <1>28 DEF HealthAlive
<1>29. ASSUME NEW p \in Checkers, HealthDead(p), CanRun(p) PROVE LoopOpen'
  BY <1>29 DEF HealthDead
<1>30. ASSUME NEW p \in Checkers, HealthDone(p), CanRun(p) PROVE LoopOpen'
  BY <1>30 DEF HealthDone
<1>31. ASSUME NEW p \in Closers, Close(p), CanRun(p) PROVE LoopOpen'
  <2>1. pc' = pc \/ Goto(p, "drain")
    BY <1>31 DEF Close
  <2>2. pc[p] = "ready"
    BY <1>31 DEF Close
  <2> QED
    BY <1>31, <2>1, <2>2
<1>32. ASSUME NEW p \in Closers, CloseDrain(p), CanRun(p) PROVE LoopOpen'
  <2>1. pc'[p] # "loop" /\ pc' = pc
    BY <1>32 DEF CloseDrain, TypeOK, PlacesOK, RecyclerPC, CloserPC
  <2> QED
    BY <1>32, <2>1, LoopLeft
<1>33. ASSUME NEW p \in Closers, CloseDrained(p), CanRun(p) PROVE LoopOpen'
  BY <1>33 DEF CloseDrained
<1>34. ASSUME NEW p \in Closers, CloseRound(p), CanRun(p) PROVE LoopOpen'
  <2>1. pc' = pc \/ Goto(p, "wake")
    BY <1>34 DEF CloseRound
  <2>2. pc[p] = "draining"
    BY <1>34 DEF CloseRound
  <2> QED
    BY <1>34, <2>1, <2>2
<1>35. ASSUME NEW p \in Closers, CloseWake(p), CanRun(p) PROVE LoopOpen'
  <2>1. Head(parked) \in Procs /\ pc[p] = "wake" /\ Goto(Head(parked), "ready")
    BY <1>35, HeadParked DEF CloseWake
  <2> QED
    BY <1>35, <2>1
<1>36. ASSUME NEW p \in Closers, CloseFinish(p), CanRun(p) PROVE LoopOpen'
  BY <1>36 DEF CloseFinish
<1>37. CASE UNCHANGED vars
  BY <1>37 DEF vars, LoopOpen
<1> QED
  BY <1>1, <1>2, <1>3, <1>4, <1>5, <1>6, <1>7, <1>8, <1>9, <1>10, <1>11, <1>12,
     <1>13, <1>14, <1>15, <1>16, <1>17, <1>18, <1>19, <1>20, <1>21, <1>22, <1>23, <1>24,
     <1>25, <1>26, <1>27, <1>28, <1>29, <1>30, <1>31, <1>32, <1>33, <1>34, <1>35, <1>36,
     <1>37
  DEF Next, GetStep, RecycleStep, HealthStep, CloseStep, Return

-----------------------------------------------------------------------------
(* The C counter against the queue.                                        *)
LEMMA WaitersStep ==
  ASSUME TypeOK, HandsFull, Queue, CloseMarked, WaitersExact, [Next]_vars
  PROVE  WaitersExact'
<1> USE PoolAssumption, ProcsFacts DEF WaitersExact
<1>1. ASSUME NEW p \in Borrowers, Get(p) PROVE WaitersExact'
  BY <1>1 DEF Get
<1>2. ASSUME NEW p \in Borrowers, GetIdle(p) PROVE WaitersExact'
  BY <1>2 DEF GetIdle
<1>3. ASSUME NEW p \in Borrowers, GetReserve(p) PROVE WaitersExact'
  BY <1>3 DEF GetReserve
<1>4. ASSUME NEW p \in Borrowers, GetPark(p) PROVE WaitersExact'
  <2>1. /\ parked \in Seq(Borrowers \cup Closers) /\ Len(parked) \in Nat
        /\ parked' = Append(parked, p) /\ waiters' = waiters + 1 /\ closed' = closed
    BY <1>4 DEF GetPark, TypeOK
  <2>2. /\ Len(parked') = Len(parked) + 1
        /\ \A i \in 1..Len(parked) : parked'[i] = parked[i]
        /\ parked'[Len(parked) + 1] = p
    BY <2>1, AppendProperties
  <2>3. \A i \in 1..Len(parked') : i \in 1..Len(parked) \/ i = Len(parked) + 1
    BY <2>1, <2>2
  <2> QED
    BY <2>1, <2>2, <2>3
<1>5. ASSUME NEW p \in Borrowers, GetGiveUp(p) PROVE WaitersExact'
  BY <1>5 DEF GetGiveUp
<1>6. ASSUME NEW p \in Borrowers, Created(p) PROVE WaitersExact'
  BY <1>6 DEF Created
<1>7. ASSUME NEW p \in Borrowers, CreateFailed(p) PROVE WaitersExact'
  BY <1>7 DEF CreateFailed
<1>8. ASSUME NEW p \in Borrowers, WaitTimeout(p) PROVE WaitersExact'
  <2>1. PICK i \in 1..Len(parked) : parked' = RemoveAt(parked, i)
    BY <1>8 DEF WaitTimeout
  <2>2. Len(parked) \in Nat /\ closed' = closed /\ waiters' = OneWaiterLess
    BY <1>8 DEF WaitTimeout, TypeOK
  <2>3. /\ Len(parked') = Len(parked) - 1
        /\ \A j \in 1..Len(parked) - 1 :
              parked'[j] = IF j < i THEN parked[j] ELSE parked[j + 1]
    BY <2>1, RemoveAtFacts DEF TypeOK
  <2> QED
    BY <2>1, <2>2, <2>3 DEF OneWaiterLess
<1>9. ASSUME NEW p \in Borrowers, OverflowCreated(p) PROVE WaitersExact'
  BY <1>9 DEF OverflowCreated
<1>10. ASSUME NEW p \in Borrowers, OverflowFailed(p) PROVE WaitersExact'
  BY <1>10 DEF OverflowFailed
<1>11. ASSUME NEW p \in Borrowers, PutClosed(p) PROVE WaitersExact'
  BY <1>11 DEF PutClosed
<1>12. ASSUME NEW p \in Borrowers, PutShrink(p) PROVE WaitersExact'
  BY <1>12 DEF PutShrink
<1>13. ASSUME NEW p \in Borrowers, PutHandOff(p) PROVE WaitersExact'
  <2>1. /\ Len(parked) \in Nat /\ parked # <<>> /\ parked' = Tail(parked)
        /\ closed' = closed /\ waiters' = OneWaiterLess /\ waiters > 0
    BY <1>13, HandOffFacts DEF PutHandOff, TypeOK
  <2>2. /\ Len(parked') = Len(parked) - 1
        /\ \A j \in 1..Len(parked') : parked'[j] = parked[j + 1]
    BY <2>1, HeadTailProperties DEF TypeOK
  <2> QED
    BY <2>1, <2>2 DEF OneWaiterLess
<1>14. ASSUME NEW p \in Borrowers, PutIdle(p) PROVE WaitersExact'
  BY <1>14 DEF PutIdle
<1>15. ASSUME NEW p \in Borrowers, RemoveLent(p) PROVE WaitersExact'
  BY <1>15 DEF RemoveLent
<1>16. ASSUME NEW p \in Recyclers, Recycle(p) PROVE WaitersExact'
  BY <1>16 DEF Recycle
<1>17. ASSUME NEW p \in Recyclers, RecycleEvict(p) PROVE WaitersExact'
  BY <1>17 DEF RecycleEvict
<1>18. ASSUME NEW p \in Recyclers, RecycleProbe(p) PROVE WaitersExact'
  BY <1>18 DEF RecycleProbe
<1>19. ASSUME NEW p \in Recyclers, RecycleAlive(p) PROVE WaitersExact'
  BY <1>19 DEF RecycleAlive
<1>20. ASSUME NEW p \in Recyclers, RecycleDead(p) PROVE WaitersExact'
  BY <1>20 DEF RecycleDead
<1>21. ASSUME NEW p \in Recyclers, RecycleScanned(p) PROVE WaitersExact'
  BY <1>21 DEF RecycleScanned
<1>22. ASSUME NEW p \in Recyclers, Refill(p) PROVE WaitersExact'
  BY <1>22 DEF Refill
<1>23. ASSUME NEW p \in Recyclers, RefillDone(p) PROVE WaitersExact'
  BY <1>23 DEF RefillDone
<1>24. ASSUME NEW p \in Recyclers, Refilled(p) PROVE WaitersExact'
  BY <1>24 DEF Refilled
<1>25. ASSUME NEW p \in Recyclers, RefillFailed(p) PROVE WaitersExact'
  BY <1>25 DEF RefillFailed
<1>26. ASSUME NEW p \in Checkers, HealthCheck(p) PROVE WaitersExact'
  BY <1>26 DEF HealthCheck
<1>27. ASSUME NEW p \in Checkers, HealthProbe(p) PROVE WaitersExact'
  BY <1>27 DEF HealthProbe
<1>28. ASSUME NEW p \in Checkers, HealthAlive(p) PROVE WaitersExact'
  BY <1>28 DEF HealthAlive
<1>29. ASSUME NEW p \in Checkers, HealthDead(p) PROVE WaitersExact'
  BY <1>29 DEF HealthDead
<1>30. ASSUME NEW p \in Checkers, HealthDone(p) PROVE WaitersExact'
  BY <1>30 DEF HealthDone
<1>31. ASSUME NEW p \in Closers, Close(p) PROVE WaitersExact'
  BY <1>31 DEF Close
<1>32. ASSUME NEW p \in Closers, CloseDrain(p) PROVE WaitersExact'
  BY <1>32 DEF CloseDrain
<1>33. ASSUME NEW p \in Closers, CloseDrained(p) PROVE WaitersExact'
  BY <1>33 DEF CloseDrained, CloseMarked
<1>34. ASSUME NEW p \in Closers, CloseRound(p) PROVE WaitersExact'
  BY <1>34 DEF CloseRound, CloseMarked
<1>35. ASSUME NEW p \in Closers, CloseWake(p) PROVE WaitersExact'
  BY <1>35 DEF CloseWake, CloseMarked
<1>36. ASSUME NEW p \in Closers, CloseFinish(p) PROVE WaitersExact'
  BY <1>36 DEF CloseFinish, CloseMarked
<1>37. CASE UNCHANGED vars
  BY <1>37 DEF vars
<1> QED
  BY <1>1, <1>2, <1>3, <1>4, <1>5, <1>6, <1>7, <1>8, <1>9, <1>10, <1>11, <1>12,
     <1>13, <1>14, <1>15, <1>16, <1>17, <1>18, <1>19, <1>20, <1>21, <1>22, <1>23, <1>24,
     <1>25, <1>26, <1>27, <1>28, <1>29, <1>30, <1>31, <1>32, <1>33, <1>34, <1>35, <1>36,
     <1>37
  DEF Next, GetStep, RecycleStep, HealthStep, CloseStep, Return

-----------------------------------------------------------------------------
(* Who has which connection: the moves a connection makes between the idle *)
(* stack and a coroutine's hands, and what each does to Charged.           *)
OnlyMoves(p) == \A r \in Procs : r # p => pc'[r] = pc[r] /\ conn'[r] = conn[r]

LEMMA ChargedMember ==
  ASSUME NEW c
  PROVE  c \in Charged <=> \/ c \in Idle
                           \/ \E q \in Procs : conn[q] = c /\ c # NoConn /\ pc[q] # "refilling"
  BY DEF Charged, Charging

LEMMA ChargedMemberNext ==
  ASSUME NEW c
  PROVE  c \in Charged' <=> \/ c \in Idle'
                            \/ \E q \in Procs : conn'[q] = c /\ c # NoConn /\ pc'[q] # "refilling"
  BY DEF Charged, Charging

LEMMA IdleTyped ==
  ASSUME TypeOK
  PROVE  Idle \subseteq Conns /\ NoConn \notin Idle
  BY PoolAssumption, ElementOfSeq DEF TypeOK, Idle

LEMMA IdleFacts ==
  ASSUME TypeOK, ExclusiveUse, idle # <<>>
  PROVE  /\ Last(idle) \in Idle /\ Last(idle) \in Conns /\ Last(idle) # NoConn
         /\ \A q \in Procs : conn[q] # Last(idle)
         /\ idle' = Front(idle) => /\ Idle' = Idle \ {Last(idle)}
                                   /\ \A i, j \in 1..Len(idle') : idle'[i] = idle'[j] => i = j
<1>1. /\ Len(idle) \in Nat /\ Len(idle) > 0
      /\ Last(idle) = idle[Len(idle)] /\ Last(idle) \in Conns
      /\ Len(Front(idle)) = Len(idle) - 1
      /\ \A i \in 1..Len(idle) - 1 : Front(idle)[i] = idle[i]
  <2>1. idle \in Seq(Conns)
    BY DEF TypeOK
  <2> QED
    BY <2>1, FrontFacts, EmptySeq
<1>2. Last(idle) \in Idle /\ Last(idle) # NoConn
  BY <1>1, PoolAssumption DEF Idle
<1>3. \A q \in Procs : conn[q] # Last(idle)
  BY <1>2 DEF ExclusiveUse
<1>4. ASSUME idle' = Front(idle)
      PROVE  /\ Idle' = Idle \ {Last(idle)}
             /\ \A i, j \in 1..Len(idle') : idle'[i] = idle'[j] => i = j
  <2>1. /\ Len(idle') = Len(idle) - 1
        /\ \A i \in 1..Len(idle') : i \in 1..Len(idle) /\ i # Len(idle) /\ idle'[i] = idle[i]
    BY <1>1, <1>4
  <2>2. ASSUME NEW i \in 1..Len(idle), i # Len(idle) PROVE i \in 1..Len(idle')
    BY <1>1, <2>1, <2>2
  <2>3. \A i \in 1..Len(idle') : idle'[i] # Last(idle)
    BY <1>1, <2>1 DEF ExclusiveUse
  <2>4. Idle' \subseteq Idle \ {Last(idle)}
    BY <2>1, <2>3 DEF Idle
  <2>5. Idle \ {Last(idle)} \subseteq Idle'
    BY <1>1, <2>1, <2>2 DEF Idle
  <2> QED
    BY <2>1, <2>4, <2>5 DEF ExclusiveUse
<1> QED
  BY <1>1, <1>2, <1>3, <1>4

(* The top of the stack is dropped.                                        *)
LEMMA OwnPop ==
  ASSUME TypeOK, ExclusiveUse, idle # <<>>, idle' = Front(idle), conn' = conn, pc' = pc
  PROVE  /\ ExclusiveUse'
         /\ Last(idle) \in Charged /\ Charged' = Charged \ {Last(idle)}
<1>1. /\ Last(idle) \in Idle /\ \A q \in Procs : conn[q] # Last(idle)
      /\ Idle' = Idle \ {Last(idle)}
      /\ \A i, j \in 1..Len(idle') : idle'[i] = idle'[j] => i = j
  BY IdleFacts
<1>2. ExclusiveUse'
  BY <1>1 DEF ExclusiveUse
<1>3. Last(idle) \in Charged
  BY <1>1 DEF Charged
<1>4. Charged' = Charged \ {Last(idle)}
  BY <1>1, ChargedMember, ChargedMemberNext
<1> QED
  BY <1>2, <1>3, <1>4

(* The top of the stack goes to p.                                         *)
LEMMA OwnTake ==
  ASSUME TypeOK, ExclusiveUse, NEW p \in Procs, OnlyMoves(p), conn[p] = NoConn,
         idle # <<>>, idle' = Front(idle), conn'[p] = Last(idle)
  PROVE  ExclusiveUse' /\ (pc'[p] # "refilling" => Charged' = Charged)
<1>1. /\ Last(idle) \in Idle /\ Last(idle) # NoConn
      /\ \A q \in Procs : conn[q] # Last(idle)
      /\ Idle' = Idle \ {Last(idle)}
      /\ \A i, j \in 1..Len(idle') : idle'[i] = idle'[j] => i = j
  BY IdleFacts
<1>2. ExclusiveUse'
  BY <1>1 DEF ExclusiveUse, OnlyMoves
<1>3. ASSUME pc'[p] # "refilling" PROVE Charged' = Charged
  <2>1. ASSUME NEW c \in Charged PROVE c \in Charged'
    <3>1. CASE c = Last(idle)
      BY <1>1, <1>3, <3>1, ChargedMemberNext
    <3>2. CASE c # Last(idle)
      BY <1>1, <3>2, <2>1, ChargedMember, ChargedMemberNext DEF OnlyMoves
    <3> QED
      BY <3>1, <3>2
  <2>2. ASSUME NEW c \in Charged' PROVE c \in Charged
    BY <1>1, <2>2, ChargedMember, ChargedMemberNext DEF OnlyMoves
  <2> QED
    BY <2>1, <2>2
<1> QED
  BY <1>2, <1>3

(* p opens a new connection.                                               *)
LEMMA OwnFresh ==
  ASSUME TypeOK, ExclusiveUse, NEW p \in Procs, OnlyMoves(p), conn[p] = NoConn,
         NEW c \in Fresh, conn'[p] = c, idle' = idle
  PROVE  /\ ExclusiveUse'
         /\ c \in Conns /\ c \notin Charged
         /\ Charged' = IF pc'[p] = "refilling" THEN Charged ELSE Charged \cup {c}
<1>1. /\ c \in Conns /\ c # NoConn /\ c \notin Idle /\ \A q \in Procs : conn[q] # c
      /\ Idle' = Idle
  BY PoolAssumption DEF Fresh, Idle
<1>2. ExclusiveUse'
  BY <1>1 DEF ExclusiveUse, OnlyMoves
<1>3. c \notin Charged
  BY <1>1, ChargedMember
<1>4. ASSUME NEW d PROVE d \in Charged' <=> d \in Charged \/ (pc'[p] # "refilling" /\ d = c)
  <2>1. CASE d = c
    BY <1>1, <2>1, ChargedMember, ChargedMemberNext DEF OnlyMoves
  <2>2. CASE d # c
    BY <1>1, <2>2, ChargedMember, ChargedMemberNext DEF OnlyMoves
  <2> QED
    BY <2>1, <2>2
<1> QED
  BY <1>1, <1>2, <1>3, <1>4

(* p drops its connection, if it has one.                                  *)
LEMMA OwnDrop ==
  ASSUME TypeOK, ExclusiveUse, NEW p \in Procs, OnlyMoves(p), conn'[p] = NoConn, idle' = idle
  PROVE  /\ ExclusiveUse'
         /\ conn[p] # NoConn /\ pc[p] # "refilling" =>
               conn[p] \in Charged /\ Charged' = Charged \ {conn[p]}
         /\ conn[p] = NoConn \/ pc[p] = "refilling" => Charged' = Charged
<1>1. Idle' = Idle /\ NoConn \notin Idle
  BY IdleTyped DEF Idle
<1>2. ExclusiveUse'
  BY <1>1 DEF ExclusiveUse, OnlyMoves
<1>3. ASSUME NEW d
      PROVE  d \in Charged' <=> /\ d \in Charged
                                /\ ~(d = conn[p] /\ conn[p] # NoConn /\ pc[p] # "refilling")
  <2>1. CASE d = conn[p] /\ d # NoConn
    BY <1>1, <2>1, ChargedMember, ChargedMemberNext DEF OnlyMoves, ExclusiveUse
  <2>2. CASE ~(d = conn[p] /\ d # NoConn)
    BY <1>1, <2>2, ChargedMember, ChargedMemberNext DEF OnlyMoves
  <2> QED
    BY <2>1, <2>2
<1>4. conn[p] # NoConn /\ pc[p] # "refilling" => conn[p] \in Charged
  BY ChargedMember
<1> QED
  BY <1>2, <1>3, <1>4

(* p puts its connection onto the stack.                                   *)
LEMMA OwnReturn ==
  ASSUME TypeOK, ExclusiveUse, NEW p \in Procs, OnlyMoves(p), conn'[p] = NoConn,
         conn[p] \in Conns, idle' = Append(idle, conn[p])
  PROVE  /\ ExclusiveUse'
         /\ pc[p] # "refilling" => Charged' = Charged
         /\ pc[p] = "refilling" => conn[p] \notin Charged /\ Charged' = Charged \cup {conn[p]}
<1>1. /\ Len(idle) \in Nat /\ Len(idle') = Len(idle) + 1
      /\ \A i \in 1..Len(idle) : idle'[i] = idle[i]
      /\ idle'[Len(idle) + 1] = conn[p]
  BY AppendProperties DEF TypeOK
<1>2. \A i \in 1..Len(idle') : i \in 1..Len(idle) \/ i = Len(idle) + 1
  BY <1>1
<1>3. Idle' = Idle \cup {conn[p]}
  <2>1. Idle' \subseteq Idle \cup {conn[p]}
    BY <1>1, <1>2 DEF Idle
  <2>2. Idle \subseteq Idle'
    BY <1>1 DEF Idle
  <2>3. conn[p] \in Idle'
    BY <1>1 DEF Idle
  <2> QED
    BY <2>1, <2>2, <2>3
<1>4. conn[p] # NoConn /\ conn[p] \notin Idle /\ NoConn \notin Idle
  BY PoolAssumption, IdleTyped DEF ExclusiveUse
<1>5. \A i, j \in 1..Len(idle') : idle'[i] = idle'[j] => i = j
  BY <1>1, <1>2, <1>4 DEF ExclusiveUse, Idle
<1>6. ExclusiveUse'
  <2>1. \A q \in Procs : conn'[q] \notin Idle'
    BY <1>3, <1>4 DEF ExclusiveUse, OnlyMoves
  <2>2. \A q, r \in Procs : conn'[q] = conn'[r] /\ conn'[q] # NoConn => q = r
    BY DEF ExclusiveUse, OnlyMoves
  <2> QED
    BY <1>5, <2>1, <2>2 DEF ExclusiveUse
<1>7. ASSUME NEW d PROVE d \in Charged' <=> d \in Charged \/ d = conn[p]
  <2>1. CASE d = conn[p]
    BY <1>3, <2>1, ChargedMemberNext
  <2>2. CASE d # conn[p]
    BY <1>3, <1>4, <2>2, ChargedMember, ChargedMemberNext DEF OnlyMoves
  <2> QED
    BY <2>1, <2>2
<1>8. pc[p] # "refilling" => conn[p] \in Charged
  BY <1>4, ChargedMember
<1>9. pc[p] = "refilling" => conn[p] \notin Charged
  BY <1>4, ChargedMember DEF ExclusiveUse
<1> QED
  BY <1>6, <1>7, <1>8, <1>9

(* put() hands p's connection to the first parked get().                   *)
LEMMA OwnPass ==
  ASSUME TypeOK, HandsFull, Queue, WaitersExact, ExclusiveUse,
         NEW p \in Borrowers, PutHandOff(p)
  PROVE  ExclusiveUse' /\ Charged' = Charged
<1> DEFINE q == Head(parked)
<1>1. /\ q \in Procs /\ q # p /\ conn[q] = NoConn
      /\ \A r \in Procs :
            /\ pc'[r] = IF r = q THEN "using" ELSE IF r = p THEN "ready" ELSE pc[r]
            /\ conn'[r] = IF r = q THEN conn[p] ELSE IF r = p THEN NoConn ELSE conn[r]
  BY HandOffFacts
<1> HIDE DEF q
<1>2. /\ p \in Procs /\ idle' = idle /\ Idle' = Idle /\ NoConn \notin Idle
      /\ pc[p] = "using"
  BY IdleTyped, ProcsFacts DEF PutHandOff, Idle
<1>3. ExclusiveUse'
  <2>1. \A r \in Procs : conn'[r] \notin Idle'
    BY <1>1, <1>2 DEF ExclusiveUse
  <2>2. \A r, s \in Procs : conn'[r] = conn'[s] /\ conn'[r] # NoConn => r = s
    BY <1>1, <1>2 DEF ExclusiveUse
  <2> QED
    BY <1>2, <2>1, <2>2 DEF ExclusiveUse
<1>4. ASSUME NEW d PROVE d \in Charged' <=> d \in Charged
  <2>1. ASSUME NEW r \in Procs, conn[r] = d, d # NoConn, pc[r] # "refilling"
        PROVE  \E s \in Procs : conn'[s] = d /\ d # NoConn /\ pc'[s] # "refilling"
    BY <1>1, <1>2, <2>1
  <2>2. ASSUME NEW r \in Procs, conn'[r] = d, d # NoConn, pc'[r] # "refilling"
        PROVE  \E s \in Procs : conn[s] = d /\ d # NoConn /\ pc[s] # "refilling"
    BY <1>1, <1>2, <2>2
  <2> QED
    BY <1>2, <2>1, <2>2, ChargedMember, ChargedMemberNext
<1> QED
  BY <1>3, <1>4

(* No connection moves.                                                    *)
LEMMA OwnPlace ==
  ASSUME ExclusiveUse, NEW p \in Procs, OnlyMoves(p), conn' = conn, idle' = idle,
         pc[p] # "refilling", pc'[p] # "refilling"
  PROVE  ExclusiveUse' /\ Charged' = Charged
<1>1. Idle' = Idle
  BY DEF Idle
<1>2. ExclusiveUse'
  BY <1>1 DEF ExclusiveUse
<1>3. ASSUME NEW d PROVE d \in Charged' <=> d \in Charged
  BY <1>1, ChargedMember, ChargedMemberNext DEF OnlyMoves
<1> QED
  BY <1>2, <1>3

LEMMA MoveFacts ==
  ASSUME TypeOK, NEW p \in Procs
  PROVE  /\ \A l : Goto(p, l) => pc'[p] = l
         /\ \A c : Hold(p, c) => conn'[p] = c
         /\ \A l, c : Goto(p, l) /\ Hold(p, c) => OnlyMoves(p)
         /\ \A l : Goto(p, l) /\ conn' = conn => OnlyMoves(p)
         /\ \A c : pc' = pc /\ Hold(p, c) => OnlyMoves(p)
         /\ pc' = pc /\ conn' = conn => OnlyMoves(p)
         /\ \A l : Leave(p, l) => Goto(p, l)
  BY GotoFacts, HoldFacts, LeaveType DEF OnlyMoves

-----------------------------------------------------------------------------
(* The counter follows Charged.                                            *)
LEMMA ChargedFinite ==
  ASSUME TypeOK
  PROVE  /\ Charged \subseteq Conns /\ IsFiniteSet(Charged)
         /\ Cardinality(Charged) \in Nat /\ Cardinality(Charged) <= Cardinality(Conns)
         /\ Cardinality(Conns) \in Nat
<1>1. Charged \subseteq Conns
  BY IdleTyped DEF TypeOK, Charged, Charging
<1> QED
  BY <1>1, FS_Subset, FS_CardinalityType, PoolAssumption

LEMMA CountSame ==
  ASSUME CountIsExact, closed' = closed, Charged' = Charged, ~closed => count' = count
  PROVE  CountIsExact'
  BY DEF CountIsExact

LEMMA CountUp ==
  ASSUME TypeOK, CountIsExact, closed' = closed, NEW c \in Conns, c \notin Charged,
         Charged' = Charged \cup {c}, ~closed => count' = Add(count)
  PROVE  CountIsExact'
<1>1. Cardinality(Charged \cup {c}) = Cardinality(Charged) + 1
  BY ChargedFinite, FS_AddElement
<1> QED
  BY <1>1, ChargedFinite, PoolAssumption DEF CountIsExact, Add

LEMMA CountDown ==
  ASSUME TypeOK, CountIsExact, closed' = closed, NEW c \in Charged,
         Charged' = Charged \ {c}, ~closed => count' = Sub(count)
  PROVE  CountIsExact'
<1>1. Cardinality(Charged \ {c}) = Cardinality(Charged) - 1
  BY ChargedFinite, FS_RemoveElement
<1>2. Cardinality(Charged \ {c}) \in Nat
  BY ChargedFinite, FS_RemoveElement, FS_CardinalityType
<1> QED
  BY <1>1, <1>2, ChargedFinite DEF CountIsExact, Sub

LEMMA OwnStep ==
  ASSUME TypeOK, HandsFull, Queue, WaitersExact, CloseMarked, ExclusiveUse, CountIsExact, [Next]_vars
  PROVE  ExclusiveUse' /\ CountIsExact'
<1> USE ProcsFacts
<1>1. ASSUME NEW p \in Borrowers, Get(p) PROVE ExclusiveUse' /\ CountIsExact'
  <2>1. /\ OnlyMoves(p) /\ conn' = conn /\ idle' = idle /\ pc[p] # "refilling" /\ pc'[p] # "refilling"
        /\ closed' = closed /\ count' = count
    BY <1>1, MoveFacts DEF Get
  <2> QED
    BY <2>1, OwnPlace, CountSame
<1>2. ASSUME NEW p \in Borrowers, GetIdle(p) PROVE ExclusiveUse' /\ CountIsExact'
  <2>1. /\ OnlyMoves(p) /\ conn[p] = NoConn /\ idle # <<>> /\ idle' = Front(idle)
        /\ conn'[p] = Last(idle) /\ pc'[p] # "refilling"
        /\ closed' = closed /\ count' = count
    BY <1>2, MoveFacts DEF GetIdle, HandsFull, Holding
  <2> QED
    BY <2>1, OwnTake, CountSame
<1>3. ASSUME NEW p \in Borrowers, GetReserve(p) PROVE ExclusiveUse' /\ CountIsExact'
  <2>1. /\ conn[p] = NoConn /\ idle' = idle /\ closed' = closed
        /\ count' = Add(count)
    BY <1>3 DEF GetReserve, HandsFull, Holding
  <2>2. PICK c \in Fresh : Hold(p, c) /\ Goto(p, "creating")
    BY <1>3 DEF GetReserve
  <2>3. OnlyMoves(p) /\ conn'[p] = c /\ pc'[p] = "creating"
    BY <2>2, MoveFacts
  <2> QED
    BY <2>1, <2>3, OwnFresh, CountUp
<1>4. ASSUME NEW p \in Borrowers, GetPark(p) PROVE ExclusiveUse' /\ CountIsExact'
  <2>1. /\ OnlyMoves(p) /\ conn' = conn /\ idle' = idle /\ pc[p] # "refilling" /\ pc'[p] # "refilling"
        /\ closed' = closed /\ count' = count
    BY <1>4, MoveFacts DEF GetPark
  <2> QED
    BY <2>1, OwnPlace, CountSame
<1>5. ASSUME NEW p \in Borrowers, GetGiveUp(p) PROVE ExclusiveUse' /\ CountIsExact'
  <2>1. /\ OnlyMoves(p) /\ conn' = conn /\ idle' = idle /\ pc[p] # "refilling" /\ pc'[p] # "refilling"
        /\ closed' = closed /\ count' = count
    BY <1>5, MoveFacts DEF GetGiveUp
  <2> QED
    BY <2>1, OwnPlace, CountSame
<1>6. ASSUME NEW p \in Borrowers, Created(p) PROVE ExclusiveUse' /\ CountIsExact'
  <2>1. closed' = closed /\ idle' = idle /\ pc[p] = "creating"
    BY <1>6 DEF Created
  <2>2. CASE closed
    <3>1. OnlyMoves(p) /\ conn'[p] = NoConn
      BY <1>6, <2>2, MoveFacts DEF Created, Drop
    <3> QED
      BY <2>1, <2>2, <3>1, OwnDrop DEF CountIsExact
  <2>3. CASE ~closed
    <3>1. OnlyMoves(p) /\ conn' = conn /\ pc'[p] = "using" /\ count' = count
      BY <1>6, <2>3, MoveFacts DEF Created
    <3> QED
      BY <2>1, <3>1, OwnPlace, CountSame
  <2> QED
    BY <2>2, <2>3
<1>7. ASSUME NEW p \in Borrowers, CreateFailed(p) PROVE ExclusiveUse' /\ CountIsExact'
  <2>1. /\ OnlyMoves(p) /\ conn'[p] = NoConn /\ idle' = idle
        /\ conn[p] # NoConn /\ pc[p] # "refilling"
    BY <1>7, MoveFacts DEF CreateFailed, Drop, HandsFull, Holding
  <2>2. closed' = closed /\ (~closed => count' = Sub(count))
    BY <1>7 DEF CreateFailed
  <2> QED
    BY <2>1, <2>2, OwnDrop, CountDown
<1>8. ASSUME NEW p \in Borrowers, WaitTimeout(p) PROVE ExclusiveUse' /\ CountIsExact'
  <2>1. closed' = closed /\ idle' = idle /\ conn[p] = NoConn /\ pc[p] = "parked"
    BY <1>8 DEF WaitTimeout, HandsFull, Holding
  <2>2. CASE closed
    <3>1. OnlyMoves(p) /\ conn' = conn /\ pc'[p] = "ready"
      BY <1>8, <2>2, MoveFacts DEF WaitTimeout
    <3> QED
      BY <2>1, <2>2, <3>1, OwnPlace DEF CountIsExact
  <2>3. CASE ~closed
    <3>1. PICK c \in Fresh : Hold(p, c) /\ Goto(p, "overflowing")
      BY <1>8, <2>3 DEF WaitTimeout
    <3>2. OnlyMoves(p) /\ conn'[p] = c /\ pc'[p] = "overflowing" /\ count' = Add(count)
      BY <1>8, <2>3, <3>1, MoveFacts DEF WaitTimeout
    <3> QED
      BY <2>1, <3>2, OwnFresh, CountUp
  <2> QED
    BY <2>2, <2>3
<1>9. ASSUME NEW p \in Borrowers, OverflowCreated(p) PROVE ExclusiveUse' /\ CountIsExact'
  <2>1. closed' = closed /\ idle' = idle /\ pc[p] = "overflowing"
    BY <1>9 DEF OverflowCreated
  <2>2. CASE closed
    <3>1. OnlyMoves(p) /\ conn'[p] = NoConn
      BY <1>9, <2>2, MoveFacts DEF OverflowCreated, Drop
    <3> QED
      BY <2>1, <2>2, <3>1, OwnDrop DEF CountIsExact
  <2>3. CASE ~closed
    <3>1. OnlyMoves(p) /\ conn' = conn /\ pc'[p] = "using" /\ count' = count
      BY <1>9, <2>3, MoveFacts DEF OverflowCreated
    <3> QED
      BY <2>1, <3>1, OwnPlace, CountSame
  <2> QED
    BY <2>2, <2>3
<1>10. ASSUME NEW p \in Borrowers, OverflowFailed(p) PROVE ExclusiveUse' /\ CountIsExact'
  <2>1. /\ OnlyMoves(p) /\ conn'[p] = NoConn /\ idle' = idle
        /\ conn[p] # NoConn /\ pc[p] # "refilling"
    BY <1>10, MoveFacts DEF OverflowFailed, Drop, HandsFull, Holding
  <2>2. closed' = closed /\ (~closed => count' = Sub(count))
    BY <1>10 DEF OverflowFailed
  <2> QED
    BY <2>1, <2>2, OwnDrop, CountDown
<1>11. ASSUME NEW p \in Borrowers, PutClosed(p) PROVE ExclusiveUse' /\ CountIsExact'
  <2>1. /\ OnlyMoves(p) /\ conn'[p] = NoConn /\ idle' = idle
        /\ conn[p] # NoConn /\ pc[p] # "refilling"
    BY <1>11, MoveFacts DEF PutClosed, Drop, HandsFull, Holding
  <2>2. closed' = closed /\ (~closed => count' = Sub(count))
    BY <1>11 DEF PutClosed
  <2> QED
    BY <2>1, <2>2, OwnDrop, CountDown
<1>12. ASSUME NEW p \in Borrowers, PutShrink(p) PROVE ExclusiveUse' /\ CountIsExact'
  <2>1. /\ OnlyMoves(p) /\ conn'[p] = NoConn /\ idle' = idle
        /\ conn[p] # NoConn /\ pc[p] # "refilling"
    BY <1>12, MoveFacts DEF PutShrink, Drop, HandsFull, Holding
  <2>2. closed' = closed /\ (~closed => count' = Sub(count))
    BY <1>12 DEF PutShrink
  <2> QED
    BY <2>1, <2>2, OwnDrop, CountDown
<1>13. ASSUME NEW p \in Borrowers, PutHandOff(p) PROVE ExclusiveUse' /\ CountIsExact'
  BY <1>13, OwnPass, CountSame DEF PutHandOff
<1>14. ASSUME NEW p \in Borrowers, PutIdle(p) PROVE ExclusiveUse' /\ CountIsExact'
  <2>1. /\ OnlyMoves(p) /\ conn'[p] = NoConn /\ idle' = Append(idle, conn[p])
        /\ conn[p] \in Conns /\ pc[p] # "refilling"
        /\ closed' = closed /\ count' = count
    BY <1>14, MoveFacts DEF PutIdle, Drop, HandsFull, Holding, TypeOK
  <2> QED
    BY <2>1, OwnReturn, CountSame
<1>15. ASSUME NEW p \in Borrowers, RemoveLent(p) PROVE ExclusiveUse' /\ CountIsExact'
  <2>1. /\ OnlyMoves(p) /\ conn'[p] = NoConn /\ idle' = idle
        /\ conn[p] # NoConn /\ pc[p] # "refilling"
    BY <1>15, MoveFacts DEF RemoveLent, Drop, HandsFull, Holding
  <2>2. closed' = closed /\ (~closed => count' = Sub(count))
    BY <1>15 DEF RemoveLent
  <2> QED
    BY <2>1, <2>2, OwnDrop, CountDown
<1>16. ASSUME NEW p \in Recyclers, Recycle(p) PROVE ExclusiveUse' /\ CountIsExact'
  <2>1. /\ OnlyMoves(p) /\ conn' = conn /\ idle' = idle /\ pc[p] # "refilling" /\ pc'[p] # "refilling"
        /\ closed' = closed /\ count' = count
    BY <1>16, MoveFacts DEF Recycle
  <2> QED
    BY <2>1, OwnPlace, CountSame
<1>17. ASSUME NEW p \in Recyclers, RecycleEvict(p) PROVE ExclusiveUse' /\ CountIsExact'
  <2>1. /\ idle # <<>> /\ idle' = Front(idle) /\ conn' = conn /\ pc' = pc
        /\ closed' = closed /\ count' = Sub(count)
    BY <1>17 DEF RecycleEvict
  <2> QED
    BY <2>1, OwnPop, CountDown
<1>18. ASSUME NEW p \in Recyclers, RecycleProbe(p) PROVE ExclusiveUse' /\ CountIsExact'
  <2>1. /\ OnlyMoves(p) /\ conn[p] = NoConn /\ idle # <<>> /\ idle' = Front(idle)
        /\ conn'[p] = Last(idle) /\ pc'[p] # "refilling"
        /\ closed' = closed /\ count' = count
    BY <1>18, MoveFacts DEF RecycleProbe, HandsFull, Holding
  <2> QED
    BY <2>1, OwnTake, CountSame
<1>19. ASSUME NEW p \in Recyclers, RecycleAlive(p) PROVE ExclusiveUse' /\ CountIsExact'
  <2>1. /\ OnlyMoves(p) /\ conn'[p] = NoConn /\ conn[p] \in Conns
        /\ pc[p] = "probing" /\ closed' = closed
    BY <1>19, MoveFacts DEF RecycleAlive, Drop, HandsFull, Holding, TypeOK
  <2>2. CASE closed
    <3>1. idle' = idle
      BY <1>19, <2>2 DEF RecycleAlive
    <3> QED
      BY <2>1, <2>2, <3>1, OwnDrop DEF CountIsExact
  <2>3. CASE ~closed
    <3>1. idle' = Append(idle, conn[p]) /\ count' = count
      BY <1>19, <2>3 DEF RecycleAlive
    <3> QED
      BY <2>1, <3>1, OwnReturn, CountSame
  <2> QED
    BY <2>2, <2>3
<1>20. ASSUME NEW p \in Recyclers, RecycleDead(p) PROVE ExclusiveUse' /\ CountIsExact'
  <2>1. /\ OnlyMoves(p) /\ conn'[p] = NoConn /\ idle' = idle
        /\ conn[p] # NoConn /\ pc[p] # "refilling"
    BY <1>20, MoveFacts DEF RecycleDead, Drop, HandsFull, Holding
  <2>2. closed' = closed /\ (~closed => count' = Sub(count))
    BY <1>20 DEF RecycleDead
  <2> QED
    BY <2>1, <2>2, OwnDrop, CountDown
<1>21. ASSUME NEW p \in Recyclers, RecycleScanned(p) PROVE ExclusiveUse' /\ CountIsExact'
  <2>1. /\ OnlyMoves(p) /\ conn' = conn /\ idle' = idle /\ pc[p] # "refilling" /\ pc'[p] # "refilling"
        /\ closed' = closed /\ count' = count
    BY <1>21, MoveFacts DEF RecycleScanned
  <2> QED
    BY <2>1, OwnPlace, CountSame
<1>22. ASSUME NEW p \in Recyclers, Refill(p) PROVE ExclusiveUse' /\ CountIsExact'
  <2>1. /\ conn[p] = NoConn /\ idle' = idle /\ closed' = closed
        /\ count' = count
    BY <1>22 DEF Refill, HandsFull, Holding
  <2>2. PICK c \in Fresh : Hold(p, c) /\ Goto(p, "refilling")
    BY <1>22 DEF Refill
  <2>3. OnlyMoves(p) /\ conn'[p] = c /\ pc'[p] = "refilling"
    BY <2>2, MoveFacts
  <2> QED
    BY <2>1, <2>3, OwnFresh, CountSame
<1>23. ASSUME NEW p \in Recyclers, RefillDone(p) PROVE ExclusiveUse' /\ CountIsExact'
  <2>1. /\ OnlyMoves(p) /\ conn' = conn /\ idle' = idle /\ pc[p] # "refilling" /\ pc'[p] # "refilling"
        /\ closed' = closed /\ count' = count
    BY <1>23, MoveFacts DEF RefillDone
  <2> QED
    BY <2>1, OwnPlace, CountSame
<1>24. ASSUME NEW p \in Recyclers, Refilled(p) PROVE ExclusiveUse' /\ CountIsExact'
  <2>1. /\ OnlyMoves(p) /\ conn'[p] = NoConn /\ conn[p] \in Conns
        /\ pc[p] = "refilling" /\ closed' = closed
    BY <1>24, MoveFacts DEF Refilled, Drop, HandsFull, Holding, TypeOK
  <2>2. CASE closed
    <3>1. idle' = idle
      BY <1>24, <2>2 DEF Refilled
    <3> QED
      BY <2>1, <2>2, <3>1, OwnDrop DEF CountIsExact
  <2>3. CASE ~closed
    <3>1. idle' = Append(idle, conn[p]) /\ count' = Add(count)
      BY <1>24, <2>3 DEF Refilled
    <3> QED
      BY <2>1, <3>1, OwnReturn, CountUp
  <2> QED
    BY <2>2, <2>3
<1>25. ASSUME NEW p \in Recyclers, RefillFailed(p) PROVE ExclusiveUse' /\ CountIsExact'
  <2>1. /\ OnlyMoves(p) /\ conn'[p] = NoConn /\ idle' = idle /\ pc[p] = "refilling"
        /\ closed' = closed /\ count' = count
    BY <1>25, MoveFacts DEF RefillFailed, Drop
  <2> QED
    BY <2>1, OwnDrop, CountSame
<1>26. ASSUME NEW p \in Checkers, HealthCheck(p) PROVE ExclusiveUse' /\ CountIsExact'
  <2>1. /\ OnlyMoves(p) /\ conn' = conn /\ idle' = idle /\ pc[p] # "refilling" /\ pc'[p] # "refilling"
        /\ closed' = closed /\ count' = count
    BY <1>26, MoveFacts DEF HealthCheck
  <2> QED
    BY <2>1, OwnPlace, CountSame
<1>27. ASSUME NEW p \in Checkers, HealthProbe(p) PROVE ExclusiveUse' /\ CountIsExact'
  <2>1. /\ OnlyMoves(p) /\ conn[p] = NoConn /\ idle # <<>> /\ idle' = Front(idle)
        /\ conn'[p] = Last(idle) /\ pc'[p] # "refilling"
        /\ closed' = closed /\ count' = count
    BY <1>27, MoveFacts DEF HealthProbe, HandsFull, Holding
  <2> QED
    BY <2>1, OwnTake, CountSame
<1>28. ASSUME NEW p \in Checkers, HealthAlive(p) PROVE ExclusiveUse' /\ CountIsExact'
  <2>1. /\ OnlyMoves(p) /\ conn'[p] = NoConn /\ idle' = Append(idle, conn[p])
        /\ conn[p] \in Conns /\ pc[p] # "refilling"
        /\ closed' = closed /\ count' = count
    BY <1>28, MoveFacts DEF HealthAlive, Drop, HandsFull, Holding, TypeOK
  <2> QED
    BY <2>1, OwnReturn, CountSame
<1>29. ASSUME NEW p \in Checkers, HealthDead(p) PROVE ExclusiveUse' /\ CountIsExact'
  <2>1. /\ OnlyMoves(p) /\ conn'[p] = NoConn /\ idle' = idle
        /\ conn[p] # NoConn /\ pc[p] # "refilling"
    BY <1>29, MoveFacts DEF HealthDead, Drop, HandsFull, Holding
  <2>2. closed' = closed /\ (~closed => count' = Sub(count))
    BY <1>29 DEF HealthDead
  <2> QED
    BY <2>1, <2>2, OwnDrop, CountDown
<1>30. ASSUME NEW p \in Checkers, HealthDone(p) PROVE ExclusiveUse' /\ CountIsExact'
  <2>1. /\ OnlyMoves(p) /\ conn' = conn /\ idle' = idle /\ pc[p] # "refilling" /\ pc'[p] # "refilling"
        /\ closed' = closed /\ count' = count
    BY <1>30, MoveFacts DEF HealthDone
  <2> QED
    BY <2>1, OwnPlace, CountSame
<1>31. ASSUME NEW p \in Closers, Close(p) PROVE ExclusiveUse' /\ CountIsExact'
  <2>1. conn' = conn /\ idle' = idle /\ closed'
    BY <1>31 DEF Close
  <2> QED
    BY <2>1 DEF ExclusiveUse, Idle, CountIsExact
<1>32. ASSUME NEW p \in Closers, CloseDrain(p) PROVE ExclusiveUse' /\ CountIsExact'
  <2>1. /\ idle # <<>> /\ idle' = Front(idle) /\ conn' = conn /\ pc' = pc
        /\ closed' = closed /\ count' = Sub(count)
    BY <1>32 DEF CloseDrain
  <2> QED
    BY <2>1, OwnPop, CountDown
<1>33. ASSUME NEW p \in Closers, CloseDrained(p) PROVE ExclusiveUse' /\ CountIsExact'
  <2>1. conn' = conn /\ idle' = idle /\ closed'
    BY <1>33 DEF CloseDrained, CloseMarked
  <2> QED
    BY <2>1 DEF ExclusiveUse, Idle, CountIsExact
<1>34. ASSUME NEW p \in Closers, CloseRound(p) PROVE ExclusiveUse' /\ CountIsExact'
  <2>1. conn' = conn /\ idle' = idle /\ closed'
    BY <1>34 DEF CloseRound, CloseMarked
  <2> QED
    BY <2>1 DEF ExclusiveUse, Idle, CountIsExact
<1>35. ASSUME NEW p \in Closers, CloseWake(p) PROVE ExclusiveUse' /\ CountIsExact'
  <2>1. conn' = conn /\ idle' = idle /\ closed'
    BY <1>35 DEF CloseWake, CloseMarked
  <2> QED
    BY <2>1 DEF ExclusiveUse, Idle, CountIsExact
<1>36. ASSUME NEW p \in Closers, CloseFinish(p) PROVE ExclusiveUse' /\ CountIsExact'
  <2>1. conn' = conn /\ idle' = idle /\ closed'
    BY <1>36 DEF CloseFinish, CloseMarked
  <2> QED
    BY <2>1 DEF ExclusiveUse, Idle, CountIsExact
<1>37. CASE UNCHANGED vars
  BY <1>37 DEF vars, ExclusiveUse, CountIsExact, Idle, Charged, Charging
<1> QED
  BY <1>1, <1>2, <1>3, <1>4, <1>5, <1>6, <1>7, <1>8, <1>9, <1>10, <1>11, <1>12,
     <1>13, <1>14, <1>15, <1>16, <1>17, <1>18, <1>19, <1>20, <1>21, <1>22, <1>23, <1>24,
     <1>25, <1>26, <1>27, <1>28, <1>29, <1>30, <1>31, <1>32, <1>33, <1>34, <1>35, <1>36,
     <1>37
  DEF Next, GetStep, RecycleStep, HealthStep, CloseStep, Return

-----------------------------------------------------------------------------
(* One step of a closed pool.                                              *)
LendsNothing == closed => \A b \in Borrowers : pc'[b] = "using" => pc[b] = "using"

LEMMA NothingLentStep ==
  ASSUME TypeOK, HandsFull, Queue, WaitersExact, LoopOpen, [Next]_vars
  PROVE  LendsNothing
<1> USE ProcsFacts, GotoFacts, LeaveType DEF LendsNothing
<1>1. ASSUME NEW p \in Borrowers, Get(p) PROVE LendsNothing
  BY <1>1 DEF Get
<1>2. ASSUME NEW p \in Borrowers, GetIdle(p) PROVE LendsNothing
  BY <1>2 DEF GetIdle, LoopOpen
<1>3. ASSUME NEW p \in Borrowers, GetReserve(p) PROVE LendsNothing
  BY <1>3 DEF GetReserve
<1>4. ASSUME NEW p \in Borrowers, GetPark(p) PROVE LendsNothing
  BY <1>4 DEF GetPark
<1>5. ASSUME NEW p \in Borrowers, GetGiveUp(p) PROVE LendsNothing
  BY <1>5 DEF GetGiveUp
<1>6. ASSUME NEW p \in Borrowers, Created(p) PROVE LendsNothing
  BY <1>6 DEF Created
<1>7. ASSUME NEW p \in Borrowers, CreateFailed(p) PROVE LendsNothing
  BY <1>7 DEF CreateFailed
<1>8. ASSUME NEW p \in Borrowers, WaitTimeout(p) PROVE LendsNothing
  BY <1>8 DEF WaitTimeout
<1>9. ASSUME NEW p \in Borrowers, OverflowCreated(p) PROVE LendsNothing
  BY <1>9 DEF OverflowCreated
<1>10. ASSUME NEW p \in Borrowers, OverflowFailed(p) PROVE LendsNothing
  BY <1>10 DEF OverflowFailed
<1>11. ASSUME NEW p \in Borrowers, PutClosed(p) PROVE LendsNothing
  BY <1>11 DEF PutClosed
<1>12. ASSUME NEW p \in Borrowers, PutShrink(p) PROVE LendsNothing
  BY <1>12 DEF PutShrink
<1>13. ASSUME NEW p \in Borrowers, PutHandOff(p) PROVE LendsNothing
  BY <1>13 DEF PutHandOff
<1>14. ASSUME NEW p \in Borrowers, PutIdle(p) PROVE LendsNothing
  BY <1>14 DEF PutIdle
<1>15. ASSUME NEW p \in Borrowers, RemoveLent(p) PROVE LendsNothing
  BY <1>15 DEF RemoveLent
<1>16. ASSUME NEW p \in Recyclers, Recycle(p) PROVE LendsNothing
  BY <1>16 DEF Recycle
<1>17. ASSUME NEW p \in Recyclers, RecycleEvict(p) PROVE LendsNothing
  BY <1>17 DEF RecycleEvict
<1>18. ASSUME NEW p \in Recyclers, RecycleProbe(p) PROVE LendsNothing
  BY <1>18 DEF RecycleProbe
<1>19. ASSUME NEW p \in Recyclers, RecycleAlive(p) PROVE LendsNothing
  BY <1>19 DEF RecycleAlive
<1>20. ASSUME NEW p \in Recyclers, RecycleDead(p) PROVE LendsNothing
  BY <1>20 DEF RecycleDead
<1>21. ASSUME NEW p \in Recyclers, RecycleScanned(p) PROVE LendsNothing
  BY <1>21 DEF RecycleScanned
<1>22. ASSUME NEW p \in Recyclers, Refill(p) PROVE LendsNothing
  BY <1>22 DEF Refill
<1>23. ASSUME NEW p \in Recyclers, RefillDone(p) PROVE LendsNothing
  BY <1>23 DEF RefillDone
<1>24. ASSUME NEW p \in Recyclers, Refilled(p) PROVE LendsNothing
  BY <1>24 DEF Refilled
<1>25. ASSUME NEW p \in Recyclers, RefillFailed(p) PROVE LendsNothing
  BY <1>25 DEF RefillFailed
<1>26. ASSUME NEW p \in Checkers, HealthCheck(p) PROVE LendsNothing
  BY <1>26 DEF HealthCheck
<1>27. ASSUME NEW p \in Checkers, HealthProbe(p) PROVE LendsNothing
  BY <1>27 DEF HealthProbe
<1>28. ASSUME NEW p \in Checkers, HealthAlive(p) PROVE LendsNothing
  BY <1>28 DEF HealthAlive
<1>29. ASSUME NEW p \in Checkers, HealthDead(p) PROVE LendsNothing
  BY <1>29 DEF HealthDead
<1>30. ASSUME NEW p \in Checkers, HealthDone(p) PROVE LendsNothing
  BY <1>30 DEF HealthDone
<1>31. ASSUME NEW p \in Closers, Close(p) PROVE LendsNothing
  BY <1>31 DEF Close
<1>32. ASSUME NEW p \in Closers, CloseDrain(p) PROVE LendsNothing
  BY <1>32 DEF CloseDrain
<1>33. ASSUME NEW p \in Closers, CloseDrained(p) PROVE LendsNothing
  BY <1>33 DEF CloseDrained
<1>34. ASSUME NEW p \in Closers, CloseRound(p) PROVE LendsNothing
  BY <1>34 DEF CloseRound
<1>35. ASSUME NEW p \in Closers, CloseWake(p) PROVE LendsNothing
  <2>1. Head(parked) \in Procs /\ Goto(Head(parked), "ready")
    BY <1>35, HeadParked DEF CloseWake
  <2> QED
    BY <2>1
<1>36. ASSUME NEW p \in Closers, CloseFinish(p) PROVE LendsNothing
  BY <1>36 DEF CloseFinish
<1>37. CASE UNCHANGED vars
  BY <1>37 DEF vars
<1> QED
  BY <1>1, <1>2, <1>3, <1>4, <1>5, <1>6, <1>7, <1>8, <1>9, <1>10, <1>11, <1>12,
     <1>13, <1>14, <1>15, <1>16, <1>17, <1>18, <1>19, <1>20, <1>21, <1>22, <1>23, <1>24,
     <1>25, <1>26, <1>27, <1>28, <1>29, <1>30, <1>31, <1>32, <1>33, <1>34, <1>35, <1>36,
     <1>37
  DEF Next, GetStep, RecycleStep, HealthStep, CloseStep, Return

-----------------------------------------------------------------------------
(* The invariant.                                                          *)
LEMMA InitCount ==
  ASSUME Init
  PROVE  ExclusiveUse /\ CountIsExact
<1>0. PICK k \in 0..MinConns :
         \E s \in [1..k -> Conns] : /\ \A i, j \in 1..k : i # j => s[i] # s[j]
                                    /\ idle = s
                                    /\ count = k
  BY DEF Init
<1>1. PICK s \in [1..k -> Conns] :
         /\ \A i, j \in 1..k : i # j => s[i] # s[j]
         /\ idle = s
         /\ count = k
  BY <1>0
<1>2. k \in Nat /\ s \in Seq(Conns) /\ Len(s) = k
  BY <1>1, PoolAssumption, IsASeq
<1>3. \A p \in Procs : conn[p] = NoConn
  BY DEF Init
<1>4. Idle = {s[i] : i \in 1..k} /\ NoConn \notin Idle
  BY <1>1, <1>2, PoolAssumption DEF Idle
<1>5. Charged = Idle
  BY <1>3 DEF Charged, Charging
<1>6. ExclusiveUse
  BY <1>1, <1>2, <1>3, <1>4 DEF ExclusiveUse
<1>7. ExistsBijection(1..k, Idle)
  <2>1. s \in Injection(1..k, Idle)
    BY <1>1, <1>2, <1>4 DEF Injection, IsInjective
  <2>2. s \in Surjection(1..k, Idle)
    BY <1>1, <1>2, <1>4 DEF Surjection
  <2> QED
    BY <2>1, <2>2 DEF ExistsBijection, Bijection
<1>8. Cardinality(Idle) = k
  BY <1>2, <1>7, FS_CountingElements
<1> QED
  BY <1>1, <1>5, <1>6, <1>8 DEF CountIsExact

LEMMA InitInv ==
  ASSUME Init
  PROVE  PoolInv
<1>1. idle \in Seq(Conns) /\ count \in 0..MinConns
  BY PoolAssumption, IsASeq DEF Init
<1>2. PlacesOK
  BY DEF Init, PlacesOK, BorrowerPC, RecyclerPC, CheckerPC, CloserPC, Procs
<1>3. TypeOK
  <2>1. count \in 0..AtomicMax
    BY PoolAssumption, <1>1
  <2>2. /\ waiters \in Nat /\ closed \in BOOLEAN /\ channel \in BOOLEAN
        /\ parked \in Seq(Borrowers \cup Closers)
    BY EmptySeq DEF Init
  <2>3. conn \in [Procs -> Conns \cup {NoConn}]
    BY DEF Init
  <2>4. n \in [Procs -> Nat] /\ cached \in [Procs -> Int] /\ cpu \in Procs \cup {NoProc}
    BY DEF Init
  <2> QED
    BY <1>1, <1>2, <2>1, <2>2, <2>3, <2>4 DEF TypeOK
<1>4. HandsFull /\ CloseMarked /\ LoopOpen
  BY ProcsFacts DEF Init, HandsFull, Holding, CloseMarked, LoopOpen
<1>5. Queue /\ WaitersExact
  BY EmptySeq DEF Init, Queue, WaitersExact
<1> QED
  BY <1>3, <1>4, <1>5, InitCount DEF PoolInv

LEMMA NextInv ==
  ASSUME PoolInv, [Next]_vars
  PROVE  PoolInv'
  BY TypeStep, HandsStep, QueueStep, CloseMarkedStep, LoopOpenStep, WaitersStep, OwnStep
  DEF PoolInv

LEMMA PoolInvariant == Spec => []PoolInv
  BY InitInv, NextInv, PTL DEF Spec

-----------------------------------------------------------------------------
(* The state is always of its type.                                        *)
THEOREM TypeCorrect == Spec => []TypeOK
<1>1. PoolInv => TypeOK
  BY DEF PoolInv
<1> QED
  BY <1>1, PoolInvariant, PTL

(* While the pool is open, currentCount is the number of connections it    *)
(* answers for, whatever get(), put(), remove(), the recycler and health   *)
(* checks do in whatever order (pool.c:580-686).                           *)
THEOREM CountCorrect == Spec => []CountIsExact
<1>1. PoolInv => CountIsExact
  BY DEF PoolInv
<1> QED
  BY <1>1, PoolInvariant, PTL

(* No connection is in two places: two borrowers never share one, and a    *)
(* lent connection is not on the idle stack (get() and put(), 793-1011).   *)
THEOREM LentOnce == Spec => []ExclusiveUse
<1>1. PoolInv => ExclusiveUse
  BY DEF PoolInv
<1> QED
  BY <1>1, PoolInvariant, PTL

(* While the pool is open the C counter by which put() decides to push     *)
(* into the channel is the length of the channel's queue (998-1006).       *)
THEOREM WaitersCorrect == Spec => []WaitersExact
<1>1. PoolInv => WaitersExact
  BY DEF PoolInv
<1> QED
  BY <1>1, PoolInvariant, PTL

(* A closed pool lends nothing: the closed checks of get() after each of   *)
(* its parking points miss no path (856-930).                              *)
THEOREM ClosedLendsNothing == Spec => NothingLentAfterClose
<1>1. PoolInv /\ [Next]_vars => [LendsNothing]_vars
  BY NothingLentStep DEF PoolInv
<1> QED
  BY <1>1, PoolInvariant, PTL DEF Spec, NothingLentAfterClose, LendsNothing

-----------------------------------------------------------------------------
(* The refinement.                                                         *)


(* The recycler's loops run on an open pool, because it lets go of the cpu *)
(* only for a probe or a creation and looks at closed after each.          *)
ScanOpen == \A p \in Recyclers : pc[p] \in {"scan", "refill"} => ~closed /\ cpu = p

LEMMA ScanLeft ==
  ASSUME TypeOK, ScanOpen, NEW p \in Procs, CanRun(p),
         \A r \in Procs : r # p => pc'[r] = pc[r] \/ pc'[r] \notin {"scan", "refill"},
         p \in Recyclers => pc'[p] \notin {"scan", "refill"}
  PROVE  ScanOpen'
<1>1. ASSUME NEW q \in Recyclers, pc[q] \in {"scan", "refill"} PROVE q = p
  BY <1>1, PoolAssumption DEF ScanOpen, CanRun, Procs
<1> QED
  BY <1>1 DEF ScanOpen, Procs

LEMMA ScanStays ==
  ASSUME TypeOK, ScanOpen, NEW p \in Recyclers, CanRun(p), ~closed', cpu' = p,
         \A r \in Procs : r # p => pc'[r] = pc[r]
  PROVE  ScanOpen'
<1>1. ASSUME NEW q \in Recyclers, pc[q] \in {"scan", "refill"} PROVE q = p
  BY <1>1, PoolAssumption DEF ScanOpen, CanRun, Procs
<1> QED
  BY <1>1 DEF ScanOpen, Procs

LEMMA ScanOpenStep ==
  ASSUME TypeOK, HandsFull, Queue, WaitersExact, ScanOpen, [Next]_vars
  PROVE  ScanOpen'
<1> USE PoolAssumption, ProcsFacts, GotoFacts, LeaveType, ScanLeft
<1>1. ASSUME NEW p \in Borrowers, Get(p), CanRun(p) PROVE ScanOpen'
  BY <1>1 DEF Get
<1>2. ASSUME NEW p \in Borrowers, GetIdle(p), CanRun(p) PROVE ScanOpen'
  BY <1>2 DEF GetIdle
<1>3. ASSUME NEW p \in Borrowers, GetReserve(p), CanRun(p) PROVE ScanOpen'
  BY <1>3 DEF GetReserve
<1>4. ASSUME NEW p \in Borrowers, GetPark(p), CanRun(p) PROVE ScanOpen'
  BY <1>4 DEF GetPark
<1>5. ASSUME NEW p \in Borrowers, GetGiveUp(p), CanRun(p) PROVE ScanOpen'
  BY <1>5 DEF GetGiveUp
<1>6. ASSUME NEW p \in Borrowers, Created(p), CanRun(p) PROVE ScanOpen'
  <2>1. Goto(p, "ready") \/ Goto(p, "using")
    BY <1>6, LeaveType DEF Created
  <2> QED
    BY <1>6, <2>1
<1>7. ASSUME NEW p \in Borrowers, CreateFailed(p), CanRun(p) PROVE ScanOpen'
  <2>1. Goto(p, "ready") \/ Goto(p, "loop")
    BY <1>7, LeaveType DEF CreateFailed
  <2> QED
    BY <1>7, <2>1
<1>8. ASSUME NEW p \in Borrowers, WaitTimeout(p), CanRun(p) PROVE ScanOpen'
  <2>1. Goto(p, "ready") \/ Goto(p, "overflowing")
    BY <1>8, LeaveType DEF WaitTimeout
  <2> QED
    BY <1>8, <2>1
<1>9. ASSUME NEW p \in Borrowers, OverflowCreated(p), CanRun(p) PROVE ScanOpen'
  <2>1. Goto(p, "ready") \/ Goto(p, "using")
    BY <1>9, LeaveType DEF OverflowCreated
  <2> QED
    BY <1>9, <2>1
<1>10. ASSUME NEW p \in Borrowers, OverflowFailed(p), CanRun(p) PROVE ScanOpen'
  BY <1>10 DEF OverflowFailed
<1>11. ASSUME NEW p \in Borrowers, PutClosed(p), CanRun(p) PROVE ScanOpen'
  BY <1>11 DEF PutClosed
<1>12. ASSUME NEW p \in Borrowers, PutShrink(p), CanRun(p) PROVE ScanOpen'
  BY <1>12 DEF PutShrink
<1>13. ASSUME NEW p \in Borrowers, PutHandOff(p), CanRun(p) PROVE ScanOpen'
  <2>1. \A r \in Procs : pc'[r] = pc[r] \/ pc'[r] \in {"ready", "using"}
    BY <1>13, HandOffFacts
  <2> QED
    BY <1>13, <2>1
<1>14. ASSUME NEW p \in Borrowers, PutIdle(p), CanRun(p) PROVE ScanOpen'
  BY <1>14 DEF PutIdle
<1>15. ASSUME NEW p \in Borrowers, RemoveLent(p), CanRun(p) PROVE ScanOpen'
  BY <1>15 DEF RemoveLent
<1>16. ASSUME NEW p \in Recyclers, Recycle(p), CanRun(p) PROVE ScanOpen'
  <2>1. pc[p] = "ready" /\ Goto(p, "scan") /\ cpu' = p /\ closed' = closed
    BY <1>16 DEF Recycle, Keep
  <2>2. ~closed
    BY <1>16, <2>1 DEF ScanOpen, Recycle
  <2> QED
    BY <1>16, <2>1, <2>2, ScanStays
<1>17. ASSUME NEW p \in Recyclers, RecycleEvict(p), CanRun(p) PROVE ScanOpen'
  <2>1. pc[p] = "scan" /\ pc' = pc /\ cpu' = p /\ closed' = closed
    BY <1>17 DEF RecycleEvict, Keep
  <2>2. ~closed
    BY <2>1 DEF ScanOpen
  <2> QED
    BY <1>17, <2>1, <2>2, ScanStays
<1>18. ASSUME NEW p \in Recyclers, RecycleProbe(p), CanRun(p) PROVE ScanOpen'
  BY <1>18 DEF RecycleProbe
<1>19. ASSUME NEW p \in Recyclers, RecycleAlive(p), CanRun(p) PROVE ScanOpen'
  <2>1. CASE closed
    BY <1>19, <2>1 DEF RecycleAlive
  <2>2. CASE ~closed
    <3>1. Goto(p, "scan") /\ cpu' = p /\ ~closed'
      BY <1>19, <2>2 DEF RecycleAlive, Keep
    <3> QED
      BY <1>19, <3>1, ScanStays
  <2> QED
    BY <2>1, <2>2
<1>20. ASSUME NEW p \in Recyclers, RecycleDead(p), CanRun(p) PROVE ScanOpen'
  <2>1. CASE closed
    BY <1>20, <2>1 DEF RecycleDead
  <2>2. CASE ~closed
    <3>1. Goto(p, "scan") /\ cpu' = p /\ ~closed'
      BY <1>20, <2>2 DEF RecycleDead, Keep
    <3> QED
      BY <1>20, <3>1, ScanStays
  <2> QED
    BY <2>1, <2>2
<1>21. ASSUME NEW p \in Recyclers, RecycleScanned(p), CanRun(p) PROVE ScanOpen'
  <2>1. pc[p] = "scan" /\ Goto(p, "refill") /\ cpu' = p /\ closed' = closed
    BY <1>21 DEF RecycleScanned, Keep
  <2>2. ~closed
    BY <1>21, <2>1 DEF ScanOpen, Recycle
  <2> QED
    BY <1>21, <2>1, <2>2, ScanStays
<1>22. ASSUME NEW p \in Recyclers, Refill(p), CanRun(p) PROVE ScanOpen'
  BY <1>22 DEF Refill
<1>23. ASSUME NEW p \in Recyclers, RefillDone(p), CanRun(p) PROVE ScanOpen'
  BY <1>23 DEF RefillDone
<1>24. ASSUME NEW p \in Recyclers, Refilled(p), CanRun(p) PROVE ScanOpen'
  <2>1. CASE closed
    BY <1>24, <2>1 DEF Refilled
  <2>2. CASE ~closed
    <3>1. Goto(p, "refill") /\ cpu' = p /\ ~closed'
      BY <1>24, <2>2 DEF Refilled, Keep
    <3> QED
      BY <1>24, <3>1, ScanStays
  <2> QED
    BY <2>1, <2>2
<1>25. ASSUME NEW p \in Recyclers, RefillFailed(p), CanRun(p) PROVE ScanOpen'
  BY <1>25 DEF RefillFailed
<1>26. ASSUME NEW p \in Checkers, HealthCheck(p), CanRun(p) PROVE ScanOpen'
  BY <1>26 DEF HealthCheck
<1>27. ASSUME NEW p \in Checkers, HealthProbe(p), CanRun(p) PROVE ScanOpen'
  BY <1>27 DEF HealthProbe
<1>28. ASSUME NEW p \in Checkers, HealthAlive(p), CanRun(p) PROVE ScanOpen'
  BY <1>28 DEF HealthAlive
<1>29. ASSUME NEW p \in Checkers, HealthDead(p), CanRun(p) PROVE ScanOpen'
  BY <1>29 DEF HealthDead
<1>30. ASSUME NEW p \in Checkers, HealthDone(p), CanRun(p) PROVE ScanOpen'
  BY <1>30 DEF HealthDone
<1>31. ASSUME NEW p \in Closers, Close(p), CanRun(p) PROVE ScanOpen'
  <2>1. pc' = pc \/ Goto(p, "drain")
    BY <1>31 DEF Close
  <2> QED
    BY <1>31, <2>1
<1>32. ASSUME NEW p \in Closers, CloseDrain(p), CanRun(p) PROVE ScanOpen'
  <2>1. pc' = pc
    BY <1>32 DEF CloseDrain
  <2> QED
    BY <1>32, <2>1
<1>33. ASSUME NEW p \in Closers, CloseDrained(p), CanRun(p) PROVE ScanOpen'
  BY <1>33 DEF CloseDrained
<1>34. ASSUME NEW p \in Closers, CloseRound(p), CanRun(p) PROVE ScanOpen'
  <2>1. pc' = pc \/ Goto(p, "wake")
    BY <1>34 DEF CloseRound
  <2> QED
    BY <1>34, <2>1
<1>35. ASSUME NEW p \in Closers, CloseWake(p), CanRun(p) PROVE ScanOpen'
  <2>1. Head(parked) \in Procs /\ Goto(Head(parked), "ready")
    BY <1>35, HeadParked DEF CloseWake
  <2> QED
    BY <1>35, <2>1
<1>36. ASSUME NEW p \in Closers, CloseFinish(p), CanRun(p) PROVE ScanOpen'
  BY <1>36 DEF CloseFinish
<1>37. CASE UNCHANGED vars
  BY <1>37 DEF vars, ScanOpen
<1> QED
  BY <1>1, <1>2, <1>3, <1>4, <1>5, <1>6, <1>7, <1>8, <1>9, <1>10, <1>11, <1>12, <1>13, <1>14, <1>15, <1>16, <1>17, <1>18, <1>19,
     <1>20, <1>21, <1>22, <1>23, <1>24, <1>25, <1>26, <1>27, <1>28, <1>29, <1>30, <1>31, <1>32, <1>33, <1>34, <1>35, <1>36, <1>37
  DEF Next, GetStep, RecycleStep, HealthStep, CloseStep, Return
-----------------------------------------------------------------------------
(* What is in stock, by its members.                                       *)
Keepers == Recyclers \cup Checkers

LEMMA KeepersFacts ==
  /\ Keepers \subseteq Procs
  /\ Borrowers \cap Keepers = {} /\ Closers \cap Keepers = {}
  BY PoolAssumption DEF Keepers, Procs

LEMMA KeptMember ==
  ASSUME NEW d
  PROVE  d \in Kept <=> d \in Idle \/ \E r \in Keepers : conn[r] = d /\ d # NoConn
  BY DEF Kept, Keepers

LEMMA KeptMemberNext ==
  ASSUME NEW d
  PROVE  d \in Kept' <=> d \in Idle' \/ \E r \in Keepers : conn'[r] = d /\ d # NoConn
  BY DEF Kept, Keepers

(* A connection pushed on the stack.                                       *)
LEMMA IdlePushed ==
  ASSUME TypeOK, NEW c \in Conns, idle' = Append(idle, c)
  PROVE  Idle' = Idle \cup {c}
<1>1. /\ Len(idle) \in Nat /\ Len(idle') = Len(idle) + 1
      /\ \A i \in 1..Len(idle) : idle'[i] = idle[i]
      /\ idle'[Len(idle) + 1] = c
  BY AppendProperties DEF TypeOK
<1>2. \A i \in 1..Len(idle') : i \in 1..Len(idle) \/ i = Len(idle) + 1
  BY <1>1
<1>3. Idle' \subseteq Idle \cup {c}
  BY <1>1, <1>2 DEF Idle
<1>4. Idle \subseteq Idle'
  BY <1>1 DEF Idle
<1>5. c \in Idle'
  BY <1>1 DEF Idle
<1> QED
  BY <1>3, <1>4, <1>5

(* Nothing of the pool's own moves.                                        *)
LEMMA KeptSame ==
  ASSUME NEW p \in Procs, OnlyMoves(p), Idle' = Idle,
         p \in Keepers => conn'[p] = conn[p]
  PROVE  Kept' = Kept
<1>1. \A r \in Keepers : conn'[r] = conn[r]
  BY KeepersFacts DEF OnlyMoves
<1>2. ASSUME NEW d PROVE d \in Kept' <=> d \in Kept
  BY <1>1, KeptMember, KeptMemberNext
<1> QED
  BY <1>2

(* From the stack into the hands of the recycler, and back.                *)
LEMMA KeptTaken ==
  ASSUME TypeOK, ExclusiveUse, NEW p \in Keepers, OnlyMoves(p), conn[p] = NoConn,
         idle # <<>>, idle' = Front(idle), conn'[p] = Last(idle)
  PROVE  Kept' = Kept
<1>1. /\ Last(idle) \in Idle /\ Last(idle) # NoConn /\ Idle' = Idle \ {Last(idle)}
  BY IdleFacts
<1>2. \A r \in Keepers : r # p => conn'[r] = conn[r]
  BY KeepersFacts DEF OnlyMoves
<1>3. ASSUME NEW d PROVE d \in Kept' <=> d \in Kept
  <2>1. CASE d = Last(idle)
    BY <1>1, <2>1, KeptMember, KeptMemberNext
  <2>2. CASE d # Last(idle)
    BY <1>1, <1>2, <2>2, KeptMember, KeptMemberNext
  <2> QED
    BY <2>1, <2>2
<1> QED
  BY <1>3

LEMMA KeptBack ==
  ASSUME NEW p \in Keepers, OnlyMoves(p), conn[p] # NoConn, conn'[p] = NoConn,
         Idle' = Idle \cup {conn[p]}
  PROVE  Kept' = Kept
<1>1. \A r \in Keepers : r # p => conn'[r] = conn[r]
  BY KeepersFacts DEF OnlyMoves
<1>2. ASSUME NEW d PROVE d \in Kept' <=> d \in Kept
  <2>1. CASE d = conn[p]
    BY <2>1, KeptMember, KeptMemberNext
  <2>2. CASE d # conn[p]
    BY <1>1, <2>2, KeptMember, KeptMemberNext
  <2> QED
    BY <2>1, <2>2
<1> QED
  BY <1>2

(* A connection leaves the stock: from the recycler's hands, or from the   *)
(* stack.                                                                  *)
LEMMA KeptLost ==
  ASSUME ExclusiveUse, NEW p \in Keepers, OnlyMoves(p), conn[p] # NoConn, conn'[p] = NoConn,
         Idle' = Idle
  PROVE  conn[p] \in Kept /\ Kept' = Kept \ {conn[p]}
<1>1. \A r \in Keepers : r # p => conn'[r] = conn[r] /\ conn[r] # conn[p]
  BY KeepersFacts DEF OnlyMoves, ExclusiveUse
<1>2. conn[p] \notin Idle
  BY KeepersFacts DEF ExclusiveUse
<1>3. ASSUME NEW d PROVE d \in Kept' <=> d \in Kept \ {conn[p]}
  <2>1. CASE d = conn[p]
    BY <1>1, <1>2, <2>1, KeptMember, KeptMemberNext
  <2>2. CASE d # conn[p]
    BY <1>1, <2>2, KeptMember, KeptMemberNext
  <2> QED
    BY <2>1, <2>2
<1> QED
  BY <1>3, KeptMember

LEMMA KeptPopped ==
  ASSUME TypeOK, ExclusiveUse, NEW p \in Procs, OnlyMoves(p),
         p \in Keepers => conn'[p] = conn[p],
         idle # <<>>, idle' = Front(idle)
  PROVE  /\ Last(idle) \in Conns /\ Last(idle) \in Kept
         /\ Kept' = Kept \ {Last(idle)}
<1>1. /\ Last(idle) \in Idle /\ Last(idle) \in Conns /\ Idle' = Idle \ {Last(idle)}
      /\ \A q \in Procs : conn[q] # Last(idle)
  BY IdleFacts
<1>2. \A r \in Keepers : conn'[r] = conn[r] /\ conn[r] # Last(idle)
  BY <1>1, KeepersFacts DEF OnlyMoves
<1>3. ASSUME NEW d PROVE d \in Kept' <=> d \in Kept \ {Last(idle)}
  BY <1>1, <1>2, KeptMember, KeptMemberNext
<1> QED
  BY <1>1, <1>3, KeptMember

(* A connection enters it: a new one, or one that a borrower puts back.    *)
LEMMA KeptGained ==
  ASSUME NEW p \in Keepers, OnlyMoves(p), conn[p] = NoConn, NEW c, c # NoConn, conn'[p] = c,
         Idle' = Idle
  PROVE  Kept' = Kept \cup {c}
<1>1. \A r \in Keepers : r # p => conn'[r] = conn[r]
  BY KeepersFacts DEF OnlyMoves
<1>2. ASSUME NEW d PROVE d \in Kept' <=> d \in Kept \cup {c}
  <2>1. CASE d = c
    BY <2>1, KeptMember, KeptMemberNext
  <2>2. CASE d # c
    BY <1>1, <2>2, KeptMember, KeptMemberNext
  <2> QED
    BY <2>1, <2>2
<1> QED
  BY <1>2

LEMMA KeptReturned ==
  ASSUME NEW p \in Borrowers, OnlyMoves(p), NEW c, Idle' = Idle \cup {c}
  PROVE  Kept' = Kept \cup {c}
<1>1. \A r \in Keepers : conn'[r] = conn[r]
  BY KeepersFacts, ProcsFacts DEF OnlyMoves
<1>2. ASSUME NEW d PROVE d \in Kept' <=> d \in Kept \cup {c}
  BY <1>1, KeptMember, KeptMemberNext
<1> QED
  BY <1>2

-----------------------------------------------------------------------------
(* Moves of a connection as steps of the lender.                           *)
LenderSteps == [Lease!Next]_(Lease!vars)

LEMMA LeaseUnseen ==
  ASSUME NEW p \in Procs, OnlyMoves(p),
         p \in Borrowers => pc[p] # "using" /\ pc'[p] # "using"
  PROVE  LeaseOf' = LeaseOf
<1>1. \A b \in Borrowers : (IF pc'[b] = "using" THEN conn'[b] ELSE NoConn)
                              = (IF pc[b] = "using" THEN conn[b] ELSE NoConn)
  BY ProcsFacts DEF OnlyMoves
<1> QED
  BY <1>1 DEF LeaseOf

LEMMA Unseen ==
  ASSUME LeaseOf' = LeaseOf, Kept' = Kept, closed' = closed
  PROVE  LenderSteps
  BY DEF LenderSteps, Lease!vars

(* A coroutine that neither borrows nor keeps moves, or keeps what it has. *)
LEMMA Aside ==
  ASSUME NEW p \in Procs, OnlyMoves(p), idle' = idle, closed' = closed,
         p \in Borrowers => pc[p] # "using" /\ pc'[p] # "using",
         p \in Keepers => conn'[p] = conn[p]
  PROVE  LenderSteps
<1>1. Idle' = Idle
  BY DEF Idle
<1> QED
  BY <1>1, LeaseUnseen, KeptSame, Unseen

LEMMA LeasedMember ==
  ASSUME NEW d
  PROVE  d \in Lease!Leased <=> \E b \in Borrowers : pc[b] = "using" /\ conn[b] = d /\ d # NoConn
  BY DEF Lease!Leased, LeaseOf

LEMMA Lends ==
  ASSUME NEW p \in Borrowers, OnlyMoves(p), pc[p] # "using", pc'[p] = "using",
         NEW c \in Conns, conn'[p] = c, \A b \in Borrowers : conn[b] = c => b = p,
         Kept' = Kept \ {c}, ~closed, closed' = closed
  PROVE  LenderSteps
<1>1. c \notin Lease!Leased
  BY LeasedMember
<1>2. LeaseOf[p] = NoConn
  BY DEF LeaseOf
<1>3. LeaseOf' = [LeaseOf EXCEPT ![p] = c]
  <2>1. \A b \in Borrowers : (IF pc'[b] = "using" THEN conn'[b] ELSE NoConn)
             = IF b = p THEN c ELSE IF pc[b] = "using" THEN conn[b] ELSE NoConn
    BY ProcsFacts DEF OnlyMoves
  <2> QED
    BY <2>1 DEF LeaseOf
<1>4. Lease!Lend(p, c)
  BY <1>1, <1>2, <1>3 DEF Lease!Lend
<1> QED
  BY <1>4 DEF LenderSteps, Lease!Next

LEMMA LeaseEnds ==
  ASSUME NEW p \in Borrowers, OnlyMoves(p), pc'[p] # "using"
  PROVE  LeaseOf' = [LeaseOf EXCEPT ![p] = NoConn]
<1>1. \A b \in Borrowers : (IF pc'[b] = "using" THEN conn'[b] ELSE NoConn)
         = IF b = p THEN NoConn ELSE IF pc[b] = "using" THEN conn[b] ELSE NoConn
  BY ProcsFacts DEF OnlyMoves
<1> QED
  BY <1>1 DEF LeaseOf

LEMMA Discards ==
  ASSUME NEW p \in Borrowers, OnlyMoves(p), pc[p] = "using", conn[p] # NoConn, pc'[p] # "using",
         idle' = idle, closed' = closed
  PROVE  LenderSteps
<1>1. LeaseOf[p] # NoConn /\ LeaseOf' = [LeaseOf EXCEPT ![p] = NoConn]
  BY LeaseEnds DEF LeaseOf
<1>2. Kept' = Kept
  BY KeptSame, KeepersFacts, ProcsFacts DEF Idle
<1>3. Lease!Discard(p)
  BY <1>1, <1>2 DEF Lease!Discard
<1> QED
  BY <1>3 DEF LenderSteps, Lease!Next

LEMMA GivesBack ==
  ASSUME TypeOK, NEW p \in Borrowers, OnlyMoves(p), pc[p] = "using", conn[p] \in Conns,
         pc'[p] # "using", idle' = Append(idle, conn[p]), ~closed, closed' = closed
  PROVE  LenderSteps
<1>1. LeaseOf[p] = conn[p] /\ conn[p] # NoConn /\ LeaseOf' = [LeaseOf EXCEPT ![p] = NoConn]
  BY LeaseEnds, PoolAssumption DEF LeaseOf
<1>2. Kept' = Kept \cup {conn[p]}
  BY IdlePushed, KeptReturned
<1>3. Lease!GiveBack(p)
  BY <1>1, <1>2 DEF Lease!GiveBack
<1> QED
  BY <1>3 DEF LenderSteps, Lease!Next

LEMMA Retires ==
  ASSUME NEW c \in Conns, c \in Kept, Kept' = Kept \ {c}, LeaseOf' = LeaseOf, closed' = closed
  PROVE  LenderSteps
<1>1. Lease!Retire(c)
  BY DEF Lease!Retire
<1> QED
  BY <1>1 DEF LenderSteps, Lease!Next

LEMMA Supplies ==
  ASSUME NEW c \in Conns, \A b \in Borrowers : conn[b] # c,
         Kept' = Kept \cup {c}, LeaseOf' = LeaseOf, ~closed, closed' = closed
  PROVE  LenderSteps
<1>1. c \notin Lease!Leased
  BY LeasedMember
<1>2. Lease!Supply(c)
  BY <1>1 DEF Lease!Supply
<1> QED
  BY <1>2 DEF LenderSteps, Lease!Next

LEMMA Shuts ==
  ASSUME LeaseOf' = LeaseOf, Kept' = Kept, closed' = TRUE
  PROVE  LenderSteps
<1>1. Lease!Shut
  BY DEF Lease!Shut
<1> QED
  BY <1>1 DEF LenderSteps, Lease!Next

(* put() to a parked get().                                                *)
LEMMA Passes ==
  ASSUME TypeOK, HandsFull, Queue, WaitersExact, NEW p \in Borrowers, PutHandOff(p)
  PROVE  LenderSteps
<1> DEFINE q == Head(parked)
<1>1. /\ q \in Borrowers /\ q \in Procs /\ q # p /\ pc[q] = "parked"
      /\ \A r \in Procs :
            /\ pc'[r] = IF r = q THEN "using" ELSE IF r = p THEN "ready" ELSE pc[r]
            /\ conn'[r] = IF r = q THEN conn[p] ELSE IF r = p THEN NoConn ELSE conn[r]
  BY HandOffFacts
<1> HIDE DEF q
<1>2. pc[p] = "using" /\ ~closed /\ closed' = closed /\ idle' = idle
  BY DEF PutHandOff
<1>3. conn[p] # NoConn
  BY <1>2, ProcsFacts DEF HandsFull, Holding
<1>4. LeaseOf[p] = conn[p] /\ LeaseOf[q] = NoConn
  BY <1>1, <1>2 DEF LeaseOf
<1>5. LeaseOf' = [LeaseOf EXCEPT ![p] = NoConn, ![q] = LeaseOf[p]]
  <2>1. \A b \in Borrowers : (IF pc'[b] = "using" THEN conn'[b] ELSE NoConn)
           = IF b = q THEN conn[p] ELSE IF b = p THEN NoConn
             ELSE IF pc[b] = "using" THEN conn[b] ELSE NoConn
    BY <1>1, ProcsFacts
  <2> QED
    BY <1>1, <1>4, <2>1 DEF LeaseOf
<1>6. Kept' = Kept
  <2>1. Idle' = Idle /\ \A r \in Keepers : conn'[r] = conn[r]
    BY <1>1, <1>2, KeepersFacts DEF Idle
  <2>2. ASSUME NEW d PROVE d \in Kept' <=> d \in Kept
    BY <2>1, KeptMember, KeptMemberNext
  <2> QED
    BY <2>2
<1>7. Lease!PassOn(p, q)
  BY <1>2, <1>3, <1>4, <1>5, <1>6 DEF Lease!PassOn
<1> QED
  BY <1>1, <1>7 DEF LenderSteps, Lease!Next

-----------------------------------------------------------------------------
LEMMA LeaseStep ==
  ASSUME PoolInv, ScanOpen, [Next]_vars
  PROVE  LenderSteps
<1>0. /\ TypeOK /\ HandsFull /\ Queue /\ LoopOpen /\ ExclusiveUse /\ WaitersExact
      /\ \A b \in Borrowers : b \in Procs /\ b \notin Keepers
      /\ \A b \in Closers : b \in Procs /\ b \notin Keepers /\ b \notin Borrowers
      /\ \A b \in Recyclers \cup Checkers : b \in Procs /\ b \in Keepers /\ b \notin Borrowers
  BY PoolAssumption, ProcsFacts, KeepersFacts DEF PoolInv, Keepers
<1> USE <1>0
<1>1. ASSUME NEW p \in Borrowers, Get(p) PROVE LenderSteps
  <2>1. OnlyMoves(p) /\ idle' = idle /\ closed' = closed /\ pc[p] # "using" /\ pc'[p] # "using"
    BY <1>1, MoveFacts DEF Get, Drop
  <2> QED
    BY <2>1, Aside
<1>2. ASSUME NEW p \in Borrowers, GetIdle(p) PROVE LenderSteps
  <2>1. /\ OnlyMoves(p) /\ pc[p] # "using" /\ pc'[p] = "using" /\ idle # <<>>
        /\ idle' = Front(idle) /\ conn'[p] = Last(idle) /\ closed' = closed /\ ~closed
    BY <1>2, MoveFacts DEF GetIdle, LoopOpen
  <2>2. Last(idle) \in Conns /\ Kept' = Kept \ {Last(idle)}
    BY <2>1, KeptPopped
  <2>3. \A b \in Borrowers : conn[b] # Last(idle)
    BY <2>1, IdleFacts
  <2> QED
    BY <2>1, <2>2, <2>3, Lends
<1>3. ASSUME NEW p \in Borrowers, GetReserve(p) PROVE LenderSteps
  <2>1. PICK c \in Fresh : Hold(p, c) /\ Goto(p, "creating")
    BY <1>3 DEF GetReserve
  <2>2. /\ OnlyMoves(p) /\ pc'[p] = "creating" /\ pc[p] # "using"
        /\ idle' = idle /\ closed' = closed
    BY <1>3, <2>1, MoveFacts DEF GetReserve
  <2> QED
    BY <2>2, Aside
<1>4. ASSUME NEW p \in Borrowers, GetPark(p) PROVE LenderSteps
  <2>1. OnlyMoves(p) /\ idle' = idle /\ closed' = closed /\ pc[p] # "using" /\ pc'[p] # "using"
    BY <1>4, MoveFacts DEF GetPark, Drop
  <2> QED
    BY <2>1, Aside
<1>5. ASSUME NEW p \in Borrowers, GetGiveUp(p) PROVE LenderSteps
  <2>1. OnlyMoves(p) /\ idle' = idle /\ closed' = closed /\ pc[p] # "using" /\ pc'[p] # "using"
    BY <1>5, MoveFacts DEF GetGiveUp, Drop
  <2> QED
    BY <2>1, Aside
<1>6. ASSUME NEW p \in Borrowers, Created(p) PROVE LenderSteps
  <2>1. pc[p] = "creating" /\ idle' = idle /\ closed' = closed
    BY <1>6 DEF Created
  <2>2. CASE closed
    <3>1. OnlyMoves(p) /\ pc'[p] # "using"
      BY <1>6, <2>2, MoveFacts DEF Created, Drop
    <3> QED
      BY <2>1, <3>1, Aside
  <2>3. CASE ~closed
    <3>1. OnlyMoves(p) /\ pc'[p] = "using" /\ conn' = conn
      BY <1>6, <2>3, MoveFacts DEF Created
    <3>2. conn[p] \in Conns /\ conn[p] # NoConn
      BY <2>1 DEF HandsFull, Holding, TypeOK
    <3>3. /\ \A b \in Borrowers : conn[b] = conn[p] => b = p
          /\ conn[p] \notin Idle /\ \A r \in Keepers : conn[r] # conn[p]
      BY <3>2, KeepersFacts DEF ExclusiveUse
    <3>4. conn[p] \notin Kept
      BY <3>3, KeptMember
    <3>5. Kept' = Kept \ {conn[p]}
      BY <2>1, <3>1, <3>4, KeptSame DEF Idle
    <3> QED
      BY <2>1, <2>3, <3>1, <3>2, <3>3, <3>5, Lends
  <2> QED
    BY <2>2, <2>3
<1>7. ASSUME NEW p \in Borrowers, CreateFailed(p) PROVE LenderSteps
  <2>1. OnlyMoves(p) /\ idle' = idle /\ closed' = closed /\ pc[p] # "using" /\ pc'[p] # "using"
    BY <1>7, MoveFacts DEF CreateFailed, Drop
  <2> QED
    BY <2>1, Aside
<1>8. ASSUME NEW p \in Borrowers, WaitTimeout(p) PROVE LenderSteps
  <2>1. idle' = idle /\ closed' = closed /\ pc[p] # "using"
    BY <1>8 DEF WaitTimeout
  <2>2. CASE closed
    <3>1. OnlyMoves(p) /\ pc'[p] # "using"
      BY <1>8, <2>2, MoveFacts DEF WaitTimeout
    <3> QED
      BY <2>1, <3>1, Aside
  <2>3. CASE ~closed
    <3>1. PICK c \in Fresh : Hold(p, c) /\ Goto(p, "overflowing")
      BY <1>8, <2>3 DEF WaitTimeout
    <3>2. OnlyMoves(p) /\ pc'[p] # "using"
      BY <3>1, MoveFacts
    <3> QED
      BY <2>1, <3>2, Aside
  <2> QED
    BY <2>2, <2>3
<1>9. ASSUME NEW p \in Borrowers, OverflowCreated(p) PROVE LenderSteps
  <2>1. pc[p] = "overflowing" /\ idle' = idle /\ closed' = closed
    BY <1>9 DEF OverflowCreated
  <2>2. CASE closed
    <3>1. OnlyMoves(p) /\ pc'[p] # "using"
      BY <1>9, <2>2, MoveFacts DEF OverflowCreated, Drop
    <3> QED
      BY <2>1, <3>1, Aside
  <2>3. CASE ~closed
    <3>1. OnlyMoves(p) /\ pc'[p] = "using" /\ conn' = conn
      BY <1>9, <2>3, MoveFacts DEF OverflowCreated
    <3>2. conn[p] \in Conns /\ conn[p] # NoConn
      BY <2>1 DEF HandsFull, Holding, TypeOK
    <3>3. /\ \A b \in Borrowers : conn[b] = conn[p] => b = p
          /\ conn[p] \notin Idle /\ \A r \in Keepers : conn[r] # conn[p]
      BY <3>2, KeepersFacts DEF ExclusiveUse
    <3>4. conn[p] \notin Kept
      BY <3>3, KeptMember
    <3>5. Kept' = Kept \ {conn[p]}
      BY <2>1, <3>1, <3>4, KeptSame DEF Idle
    <3> QED
      BY <2>1, <2>3, <3>1, <3>2, <3>3, <3>5, Lends
  <2> QED
    BY <2>2, <2>3
<1>10. ASSUME NEW p \in Borrowers, OverflowFailed(p) PROVE LenderSteps
  <2>1. OnlyMoves(p) /\ idle' = idle /\ closed' = closed /\ pc[p] # "using" /\ pc'[p] # "using"
    BY <1>10, MoveFacts DEF OverflowFailed, Drop
  <2> QED
    BY <2>1, Aside
<1>11. ASSUME NEW p \in Borrowers, PutClosed(p) PROVE LenderSteps
  <2>1. /\ OnlyMoves(p) /\ pc[p] = "using" /\ pc'[p] # "using"
        /\ idle' = idle /\ closed' = closed
    BY <1>11, MoveFacts DEF PutClosed, Drop
  <2>2. conn[p] # NoConn
    BY <2>1 DEF HandsFull, Holding
  <2> QED
    BY <2>1, <2>2, Discards
<1>12. ASSUME NEW p \in Borrowers, PutShrink(p) PROVE LenderSteps
  <2>1. /\ OnlyMoves(p) /\ pc[p] = "using" /\ pc'[p] # "using"
        /\ idle' = idle /\ closed' = closed
    BY <1>12, MoveFacts DEF PutShrink, Drop
  <2>2. conn[p] # NoConn
    BY <2>1 DEF HandsFull, Holding
  <2> QED
    BY <2>1, <2>2, Discards
<1>13. ASSUME NEW p \in Borrowers, PutHandOff(p) PROVE LenderSteps
  BY <1>13, Passes
<1>14. ASSUME NEW p \in Borrowers, PutIdle(p) PROVE LenderSteps
  <2>1. /\ OnlyMoves(p) /\ pc[p] = "using" /\ pc'[p] # "using"
        /\ idle' = Append(idle, conn[p]) /\ closed' = closed /\ ~closed
    BY <1>14, MoveFacts DEF PutIdle, Drop
  <2>2. conn[p] \in Conns
    BY <2>1 DEF HandsFull, Holding, TypeOK
  <2> QED
    BY <2>1, <2>2, GivesBack
<1>15. ASSUME NEW p \in Borrowers, RemoveLent(p) PROVE LenderSteps
  <2>1. /\ OnlyMoves(p) /\ pc[p] = "using" /\ pc'[p] # "using"
        /\ idle' = idle /\ closed' = closed
    BY <1>15, MoveFacts DEF RemoveLent, Drop
  <2>2. conn[p] # NoConn
    BY <2>1 DEF HandsFull, Holding
  <2> QED
    BY <2>1, <2>2, Discards
<1>16. ASSUME NEW p \in Recyclers, Recycle(p) PROVE LenderSteps
  <2>1. OnlyMoves(p) /\ idle' = idle /\ closed' = closed /\ conn' = conn
    BY <1>16, MoveFacts DEF Recycle, Drop
  <2> QED
    BY <2>1, Aside
<1>17. ASSUME NEW p \in Recyclers, RecycleEvict(p) PROVE LenderSteps
  <2>1. /\ OnlyMoves(p) /\ conn' = conn /\ idle # <<>> /\ idle' = Front(idle) /\ closed' = closed
    BY <1>17, MoveFacts DEF RecycleEvict
  <2>2. /\ Last(idle) \in Conns /\ Last(idle) \in Kept
        /\ Kept' = Kept \ {Last(idle)}
    BY <2>1, KeptPopped
  <2>3. LeaseOf' = LeaseOf
    BY <2>1, LeaseUnseen
  <2> QED
    BY <2>1, <2>2, <2>3, Retires
<1>18. ASSUME NEW p \in Recyclers, RecycleProbe(p) PROVE LenderSteps
  <2>1. /\ OnlyMoves(p) /\ conn[p] = NoConn /\ conn'[p] = Last(idle)
        /\ idle # <<>> /\ idle' = Front(idle) /\ closed' = closed
    BY <1>18, MoveFacts DEF RecycleProbe, HandsFull, Holding
  <2>2. Kept' = Kept /\ LeaseOf' = LeaseOf
    BY <2>1, KeptTaken, LeaseUnseen
  <2> QED
    BY <2>1, <2>2, Unseen
<1>19. ASSUME NEW p \in Recyclers, RecycleAlive(p) PROVE LenderSteps
  <2>1. /\ OnlyMoves(p) /\ conn'[p] = NoConn /\ closed' = closed
        /\ conn[p] \in Conns /\ conn[p] # NoConn
    BY <1>19, MoveFacts DEF RecycleAlive, Drop, HandsFull, Holding, TypeOK
  <2>2. LeaseOf' = LeaseOf
    BY <2>1, LeaseUnseen
  <2>3. CASE closed
    <3>1. idle' = idle
      BY <1>19, <2>3 DEF RecycleAlive
    <3>2. conn[p] \in Kept /\ Kept' = Kept \ {conn[p]}
      BY <2>1, <3>1, KeptLost DEF Idle
    <3> QED
      BY <2>1, <2>2, <3>2, Retires
  <2>4. CASE ~closed
    <3>1. idle' = Append(idle, conn[p])
      BY <1>19, <2>4 DEF RecycleAlive
    <3>2. Kept' = Kept
      BY <2>1, <3>1, IdlePushed, KeptBack
    <3> QED
      BY <2>1, <2>2, <3>2, Unseen
  <2> QED
    BY <2>3, <2>4
<1>20. ASSUME NEW p \in Recyclers, RecycleDead(p) PROVE LenderSteps
  <2>1. /\ OnlyMoves(p) /\ conn'[p] = NoConn /\ closed' = closed
        /\ conn[p] \in Conns /\ conn[p] # NoConn
    BY <1>20, MoveFacts DEF RecycleDead, Drop, HandsFull, Holding, TypeOK
  <2>2. LeaseOf' = LeaseOf
    BY <2>1, LeaseUnseen
  <2>3. conn[p] \in Kept /\ Kept' = Kept \ {conn[p]}
    BY <1>20, <2>1, KeptLost DEF RecycleDead, Idle
  <2> QED
    BY <2>1, <2>2, <2>3, Retires
<1>21. ASSUME NEW p \in Recyclers, RecycleScanned(p) PROVE LenderSteps
  <2>1. OnlyMoves(p) /\ idle' = idle /\ closed' = closed /\ conn' = conn
    BY <1>21, MoveFacts DEF RecycleScanned, Drop
  <2> QED
    BY <2>1, Aside
<1>22. ASSUME NEW p \in Recyclers, Refill(p) PROVE LenderSteps
  <2>1. PICK c \in Fresh : Hold(p, c) /\ Goto(p, "refilling")
    BY <1>22 DEF Refill
  <2>2. /\ OnlyMoves(p) /\ conn'[p] = c /\ conn[p] = NoConn
        /\ idle' = idle /\ closed' = closed /\ ~closed
    BY <1>22, <2>1, MoveFacts DEF Refill, HandsFull, Holding, ScanOpen
  <2>3. c \in Conns /\ c # NoConn /\ \A b \in Borrowers : conn[b] # c
    BY <2>1, PoolAssumption DEF Fresh
  <2>4. Kept' = Kept \cup {c}
    BY <2>2, <2>3, KeptGained DEF Idle
  <2>5. LeaseOf' = LeaseOf
    BY <2>2, LeaseUnseen
  <2> QED
    BY <2>2, <2>3, <2>4, <2>5, Supplies
<1>23. ASSUME NEW p \in Recyclers, RefillDone(p) PROVE LenderSteps
  <2>1. OnlyMoves(p) /\ idle' = idle /\ closed' = closed /\ conn' = conn
    BY <1>23, MoveFacts DEF RefillDone, Drop
  <2> QED
    BY <2>1, Aside
<1>24. ASSUME NEW p \in Recyclers, Refilled(p) PROVE LenderSteps
  <2>1. /\ OnlyMoves(p) /\ conn'[p] = NoConn /\ closed' = closed
        /\ conn[p] \in Conns /\ conn[p] # NoConn
    BY <1>24, MoveFacts DEF Refilled, Drop, HandsFull, Holding, TypeOK
  <2>2. LeaseOf' = LeaseOf
    BY <2>1, LeaseUnseen
  <2>3. CASE closed
    <3>1. idle' = idle
      BY <1>24, <2>3 DEF Refilled
    <3>2. conn[p] \in Kept /\ Kept' = Kept \ {conn[p]}
      BY <2>1, <3>1, KeptLost DEF Idle
    <3> QED
      BY <2>1, <2>2, <3>2, Retires
  <2>4. CASE ~closed
    <3>1. idle' = Append(idle, conn[p])
      BY <1>24, <2>4 DEF Refilled
    <3>2. Kept' = Kept
      BY <2>1, <3>1, IdlePushed, KeptBack
    <3> QED
      BY <2>1, <2>2, <3>2, Unseen
  <2> QED
    BY <2>3, <2>4
<1>25. ASSUME NEW p \in Recyclers, RefillFailed(p) PROVE LenderSteps
  <2>1. /\ OnlyMoves(p) /\ conn'[p] = NoConn /\ closed' = closed
        /\ conn[p] \in Conns /\ conn[p] # NoConn
    BY <1>25, MoveFacts DEF RefillFailed, Drop, HandsFull, Holding, TypeOK
  <2>2. LeaseOf' = LeaseOf
    BY <2>1, LeaseUnseen
  <2>3. conn[p] \in Kept /\ Kept' = Kept \ {conn[p]}
    BY <1>25, <2>1, KeptLost DEF RefillFailed, Idle
  <2> QED
    BY <2>1, <2>2, <2>3, Retires
<1>26. ASSUME NEW p \in Checkers, HealthCheck(p) PROVE LenderSteps
  <2>1. OnlyMoves(p) /\ idle' = idle /\ closed' = closed /\ conn' = conn
    BY <1>26, MoveFacts DEF HealthCheck, Drop
  <2> QED
    BY <2>1, Aside
<1>27. ASSUME NEW p \in Checkers, HealthProbe(p) PROVE LenderSteps
  <2>1. /\ OnlyMoves(p) /\ conn[p] = NoConn /\ conn'[p] = Last(idle)
        /\ idle # <<>> /\ idle' = Front(idle) /\ closed' = closed
    BY <1>27, MoveFacts DEF HealthProbe, HandsFull, Holding
  <2>2. Kept' = Kept /\ LeaseOf' = LeaseOf
    BY <2>1, KeptTaken, LeaseUnseen
  <2> QED
    BY <2>1, <2>2, Unseen
<1>28. ASSUME NEW p \in Checkers, HealthAlive(p) PROVE LenderSteps
  <2>1. /\ OnlyMoves(p) /\ conn'[p] = NoConn /\ closed' = closed
        /\ conn[p] \in Conns /\ conn[p] # NoConn
    BY <1>28, MoveFacts DEF HealthAlive, Drop, HandsFull, Holding, TypeOK
  <2>2. LeaseOf' = LeaseOf
    BY <2>1, LeaseUnseen
  <2>3. idle' = Append(idle, conn[p])
    BY <1>28 DEF HealthAlive
  <2>4. Kept' = Kept
    BY <2>1, <2>3, IdlePushed, KeptBack
  <2> QED
    BY <2>1, <2>2, <2>4, Unseen
<1>29. ASSUME NEW p \in Checkers, HealthDead(p) PROVE LenderSteps
  <2>1. /\ OnlyMoves(p) /\ conn'[p] = NoConn /\ closed' = closed
        /\ conn[p] \in Conns /\ conn[p] # NoConn
    BY <1>29, MoveFacts DEF HealthDead, Drop, HandsFull, Holding, TypeOK
  <2>2. LeaseOf' = LeaseOf
    BY <2>1, LeaseUnseen
  <2>3. conn[p] \in Kept /\ Kept' = Kept \ {conn[p]}
    BY <1>29, <2>1, KeptLost DEF HealthDead, Idle
  <2> QED
    BY <2>1, <2>2, <2>3, Retires
<1>30. ASSUME NEW p \in Checkers, HealthDone(p) PROVE LenderSteps
  <2>1. OnlyMoves(p) /\ idle' = idle /\ closed' = closed /\ conn' = conn
    BY <1>30, MoveFacts DEF HealthDone, Drop
  <2> QED
    BY <2>1, Aside
<1>31. ASSUME NEW p \in Closers, Close(p) PROVE LenderSteps
  <2>1. OnlyMoves(p) /\ idle' = idle /\ closed' = TRUE
    BY <1>31, MoveFacts DEF Close
  <2>2. Kept' = Kept /\ LeaseOf' = LeaseOf
    BY <2>1, KeptSame, LeaseUnseen DEF Idle
  <2> QED
    BY <2>1, <2>2, Shuts
<1>32. ASSUME NEW p \in Closers, CloseDrain(p) PROVE LenderSteps
  <2>1. /\ OnlyMoves(p) /\ conn' = conn /\ idle # <<>> /\ idle' = Front(idle) /\ closed' = closed
    BY <1>32, MoveFacts DEF CloseDrain
  <2>2. /\ Last(idle) \in Conns /\ Last(idle) \in Kept
        /\ Kept' = Kept \ {Last(idle)}
    BY <2>1, KeptPopped
  <2>3. LeaseOf' = LeaseOf
    BY <2>1, LeaseUnseen
  <2> QED
    BY <2>1, <2>2, <2>3, Retires
<1>33. ASSUME NEW p \in Closers, CloseDrained(p) PROVE LenderSteps
  <2>1. OnlyMoves(p) /\ idle' = idle /\ closed' = closed
    BY <1>33, MoveFacts DEF CloseDrained, Drop
  <2> QED
    BY <2>1, Aside
<1>34. ASSUME NEW p \in Closers, CloseRound(p) PROVE LenderSteps
  <2>1. (pc' = pc \/ Goto(p, "wake")) /\ conn' = conn /\ idle' = idle /\ closed' = closed
    BY <1>34 DEF CloseRound
  <2>2. OnlyMoves(p)
    BY <2>1, MoveFacts
  <2> QED
    BY <2>1, <2>2, Aside
<1>35. ASSUME NEW p \in Closers, CloseWake(p) PROVE LenderSteps
  <2> DEFINE q == Head(parked)
  <2>1. /\ q \in Procs /\ pc[q] \in {"parked", "draining"} /\ Goto(q, "ready")
        /\ conn' = conn /\ idle' = idle /\ closed' = closed
    BY <1>35, HeadParked DEF CloseWake
  <2> HIDE DEF q
  <2>2. OnlyMoves(q) /\ pc[q] # "using" /\ pc'[q] # "using"
    BY <2>1, MoveFacts
  <2> QED
    BY <2>1, <2>2, Aside
<1>36. ASSUME NEW p \in Closers, CloseFinish(p) PROVE LenderSteps
  <2>1. OnlyMoves(p) /\ idle' = idle /\ closed' = closed
    BY <1>36, MoveFacts DEF CloseFinish, Drop
  <2> QED
    BY <2>1, Aside
<1>37. CASE UNCHANGED vars
  BY <1>37, Unseen DEF vars, LeaseOf, Kept, Idle
<1> QED
  BY <1>1, <1>2, <1>3, <1>4, <1>5, <1>6, <1>7, <1>8, <1>9, <1>10, <1>11, <1>12, <1>13, <1>14, <1>15, <1>16, <1>17, <1>18, <1>19,
     <1>20, <1>21, <1>22, <1>23, <1>24, <1>25, <1>26, <1>27, <1>28, <1>29, <1>30, <1>31, <1>32, <1>33, <1>34, <1>35, <1>36, <1>37
  DEF Next, GetStep, RecycleStep, HealthStep, CloseStep, Return

LEMMA LeaseInit ==
  ASSUME Init
  PROVE  Lease!Init /\ ScanOpen
<1>1. LeaseOf = [b \in Borrowers |-> NoConn]
  BY ProcsFacts DEF Init, LeaseOf
<1>2. Idle \subseteq Conns
  BY InitInv, IdleTyped DEF PoolInv
<1>3. Kept = Idle
  BY DEF Init, Kept, Procs
<1>4. ScanOpen
  BY ProcsFacts DEF Init, ScanOpen
<1> QED
  BY <1>1, <1>2, <1>3, <1>4 DEF Init, Lease!Init

(* Gene\Pool is a lender: whatever its coroutines do, in whatever order,   *)
(* the borrowers see a pool that lends a connection to one of them at a    *)
(* time and nothing after close() (pool.c:580-1130).                       *)
THEOREM PoolImplementsLease == Spec => ImplementsLease
<1>1. Init => Lease!Init /\ ScanOpen
  BY LeaseInit
<1>2. PoolInv /\ ScanOpen /\ [Next]_vars => ScanOpen'
  BY ScanOpenStep DEF PoolInv
<1>3. PoolInv /\ ScanOpen /\ [Next]_vars => [Lease!Next]_(Lease!vars)
  BY LeaseStep DEF LenderSteps
<1> QED
  BY <1>1, <1>2, <1>3, PoolInvariant, PTL DEF Spec, ImplementsLease, Lease!Spec

-----------------------------------------------------------------------------
(* The end of a pool that is closed in a coroutine: what close() leaves    *)
(* behind.  WakeInv and DrainInv, inductive together with PoolInv, follow  *)
(* it: one close() at a time has the cpu in its loops, and the queue       *)
(* (WakeInv), the stack and the counter (DrainInv) are what it has made of *)
(* them so far.                                                            *)

(* close() does not let go of the cpu while it drains the stack (with the  *)
(* channel still there) and wakes the parked.                              *)
CloserRuns ==
    \A p \in Closers : pc[p] \in {"drain", "wake"} => cpu = p /\ (pc[p] = "drain" => channel)

(* The channel goes last, when the counter is reset.                       *)
Gone == ~channel => closed
Reset == ~channel => count = 0

(* Once it is gone, only the close() that wakes them finds others parked.  *)
Waking == ~channel => parked = <<>> \/ \E p \in Closers : pc[p] = "wake"

(* Nothing comes back to a stack that close() has drained.                 *)
Drained == closed => idle = <<>> \/ \E p \in Closers : pc[p] = "drain"

(* Until then the counter covers what is out: each later subtraction has   *)
(* something to subtract.                                                  *)
Covered == channel => Cardinality(Charged) <= count

WakeInv == CloserRuns /\ Gone /\ Waking
DrainInv == Reset /\ Drained /\ Covered /\ NeverWraps

-----------------------------------------------------------------------------
(* What get(), put(), remove() and the recycler may do to a closed pool.   *)
Tidy ==
    /\ channel' = channel /\ closed' = closed
    /\ \A r \in Closers : pc'[r] = pc[r]
    /\ idle' = idle
    /\ parked = <<>> => parked' = <<>>
    /\ \/ count' = count /\ Charged' \subseteq Charged
       \/ ReleaseSlotIfLive /\ \E c \in Charged : Charged' = Charged \ {c}

LEMMA TidyDrop ==
  ASSUME TypeOK, HandsFull, ExclusiveUse, NEW p \in Borrowers \cup Recyclers,
         pc[p] \in Holding, OnlyMoves(p), conn'[p] = NoConn,
         idle' = idle, parked' = parked, channel' = channel, closed' = closed,
         \/ count' = count
         \/ ReleaseSlotIfLive /\ pc[p] # "refilling"
  PROVE  Tidy
<1>1. p \in Procs /\ p \notin Closers /\ \A r \in Closers : r \in Procs
  BY PoolAssumption, ProcsFacts
<1>2. \A r \in Closers : pc'[r] = pc[r]
  BY <1>1 DEF OnlyMoves
<1>3. conn[p] # NoConn
  BY <1>1 DEF HandsFull
<1>4. Charged' \subseteq Charged
  BY <1>1, OwnDrop
<1>5. CASE count' = count
  BY <1>2, <1>4, <1>5 DEF Tidy
<1>6. CASE ReleaseSlotIfLive /\ pc[p] # "refilling"
  <2>1. conn[p] \in Charged /\ Charged' = Charged \ {conn[p]}
    BY <1>1, <1>3, <1>6, OwnDrop
  <2> QED
    BY <1>2, <1>6, <2>1 DEF Tidy
<1> QED
  BY <1>5, <1>6

LEMMA BorrowerTidy ==
  ASSUME PoolInv, closed, NEW p \in Borrowers, Get(p) \/ GetStep(p) \/ Return(p)
  PROVE  Tidy
<1>0. TypeOK /\ HandsFull /\ ExclusiveUse /\ p \in Procs /\ p \notin Closers /\ pc[p] # "loop"
  BY PoolAssumption, ProcsFacts DEF PoolInv, LoopOpen
<1> USE <1>0
<1>1. ASSUME Created(p) PROVE Tidy
  BY <1>1, TidyDrop, MoveFacts DEF Created, Drop, Holding
<1>2. ASSUME CreateFailed(p) PROVE Tidy
  BY <1>2, TidyDrop, MoveFacts DEF CreateFailed, Drop, Holding
<1>3. ASSUME WaitTimeout(p) PROVE Tidy
  <2>1. PICK i \in 1..Len(parked) : parked[i] = p
    BY <1>3 DEF WaitTimeout
  <2>2. parked # <<>>
    BY <2>1
  <2>3. /\ OnlyMoves(p) /\ conn' = conn /\ idle' = idle /\ channel' = channel /\ closed' = closed
        /\ count' = count /\ pc[p] # "refilling" /\ pc'[p] # "refilling"
    BY <1>3, MoveFacts DEF WaitTimeout
  <2>4. Charged' = Charged
    BY <2>3, OwnPlace
  <2>5. \A r \in Closers : pc'[r] = pc[r]
    BY <2>3, ProcsFacts DEF OnlyMoves
  <2> QED
    BY <2>2, <2>3, <2>4, <2>5 DEF Tidy
<1>4. ASSUME OverflowCreated(p) PROVE Tidy
  BY <1>4, TidyDrop, MoveFacts DEF OverflowCreated, Drop, Holding
<1>5. ASSUME OverflowFailed(p) PROVE Tidy
  BY <1>5, TidyDrop, MoveFacts DEF OverflowFailed, Drop, Holding
<1>6. ASSUME PutClosed(p) PROVE Tidy
  BY <1>6, TidyDrop, MoveFacts DEF PutClosed, Drop, Holding
<1>7. ASSUME RemoveLent(p) PROVE Tidy
  BY <1>7, TidyDrop, MoveFacts DEF RemoveLent, Drop, Holding
<1>8. ~(Get(p) \/ GetIdle(p) \/ GetReserve(p) \/ GetPark(p) \/ GetGiveUp(p))
  BY DEF Get, GetIdle, GetReserve, GetPark, GetGiveUp
<1>9. ~(PutShrink(p) \/ PutHandOff(p) \/ PutIdle(p))
  BY DEF PutShrink, PutHandOff, PutIdle
<1> QED
  BY <1>1, <1>2, <1>3, <1>4, <1>5, <1>6, <1>7, <1>8, <1>9 DEF GetStep, Return

LEMMA RecyclerTidy ==
  ASSUME PoolInv, ScanOpen, closed, NEW p \in Recyclers, Recycle(p) \/ RecycleStep(p)
  PROVE  Tidy
<1>0. /\ TypeOK /\ HandsFull /\ ExclusiveUse /\ p \in Procs /\ p \notin Closers
      /\ pc[p] # "scan" /\ pc[p] # "refill"
  BY PoolAssumption, ProcsFacts DEF PoolInv, ScanOpen
<1> USE <1>0
<1>1. ASSUME RecycleAlive(p) PROVE Tidy
  BY <1>1, TidyDrop, MoveFacts DEF RecycleAlive, Drop, Holding
<1>2. ASSUME RecycleDead(p) PROVE Tidy
  BY <1>2, TidyDrop, MoveFacts DEF RecycleDead, Drop, Holding
<1>3. ASSUME Refilled(p) PROVE Tidy
  BY <1>3, TidyDrop, MoveFacts DEF Refilled, Drop, Holding
<1>4. ASSUME RefillFailed(p) PROVE Tidy
  BY <1>4, TidyDrop, MoveFacts DEF RefillFailed, Drop, Holding
<1>5. ~(Recycle(p) \/ RecycleEvict(p) \/ RecycleProbe(p) \/ RecycleScanned(p))
  BY DEF Recycle, RecycleEvict, RecycleProbe, RecycleScanned
<1>6. ~(Refill(p) \/ RefillDone(p))
  BY DEF Refill, RefillDone
<1> QED
  BY <1>1, <1>2, <1>3, <1>4, <1>5, <1>6 DEF RecycleStep

(* On an open pool they leave the marks of close() alone.                  *)
LEMMA OpenStays ==
  ASSUME \/ \E p \in Borrowers : Get(p) \/ GetStep(p) \/ Return(p)
         \/ \E p \in Recyclers : Recycle(p) \/ RecycleStep(p)
  PROVE  channel' = channel /\ closed' = closed
<1>1. ASSUME NEW p, Get(p) \/ GetStep(p) PROVE channel' = channel /\ closed' = closed
  BY <1>1 DEF Get, GetStep, GetIdle, GetReserve, GetPark, GetGiveUp, Created, CreateFailed,
              WaitTimeout, OverflowCreated, OverflowFailed
<1>2. ASSUME NEW p, Return(p) PROVE channel' = channel /\ closed' = closed
  BY <1>2 DEF Return, PutClosed, PutShrink, PutHandOff, PutIdle, RemoveLent
<1>3. ASSUME NEW p, Recycle(p) \/ RecycleStep(p) PROVE channel' = channel /\ closed' = closed
  BY <1>3 DEF Recycle, RecycleStep, RecycleEvict, RecycleProbe, RecycleAlive, RecycleDead,
              RecycleScanned, Refill, RefillDone, Refilled, RefillFailed
<1> QED
  BY <1>1, <1>2, <1>3

-----------------------------------------------------------------------------
(* The counter of an open pool is exact, so CloseInv says nothing new.     *)
LEMMA OpenCloseInv ==
  ASSUME PoolInv, ~closed, channel
  PROVE  WakeInv /\ DrainInv
<1>1. Covered /\ NeverWraps
  BY ChargedFinite DEF PoolInv, CountIsExact, Covered, NeverWraps
<1>2. WakeInv /\ Reset /\ Drained
  BY DEF PoolInv, CloseMarked, WakeInv, CloserRuns, Gone, Waking, Reset, Drained
<1> QED
  BY <1>1, <1>2 DEF DrainInv

LEMMA OpenCloseInvNext ==
  ASSUME PoolInv', ~closed', channel'
  PROVE  WakeInv' /\ DrainInv'
<1>1. Charged' \subseteq Conns
  <2>1. Idle' \subseteq Conns
    BY ElementOfSeq DEF PoolInv, TypeOK, Idle
  <2> QED
    BY <2>1 DEF PoolInv, TypeOK, Charged, Charging
<1>2. /\ Cardinality(Charged') \in Nat /\ Cardinality(Conns) \in Nat
      /\ Cardinality(Charged') <= Cardinality(Conns)
  BY <1>1, FS_Subset, FS_CardinalityType, PoolAssumption
<1>3. Covered' /\ NeverWraps'
  BY <1>2 DEF PoolInv, CountIsExact, Covered, NeverWraps
<1>4. WakeInv' /\ Reset' /\ Drained'
  BY DEF PoolInv, CloseMarked, WakeInv, CloserRuns, Gone, Waking, Reset, Drained
<1> QED
  BY <1>3, <1>4 DEF DrainInv

(* A subtraction from a counter that covers what is out.                   *)
LEMMA SubCovers ==
  ASSUME TypeOK, Covered, NeverWraps, channel, NEW c \in Charged,
         Charged' = Charged \ {c}, count' = Sub(count)
  PROVE  Covered' /\ NeverWraps'
<1>1. /\ Cardinality(Charged \ {c}) = Cardinality(Charged) - 1
      /\ Cardinality(Charged \ {c}) \in Nat
  BY ChargedFinite, FS_RemoveElement, FS_CardinalityType
<1>2. count \in Nat /\ count >= 1 /\ count' = count - 1
  BY <1>1, ChargedFinite DEF Covered, TypeOK, Sub
<1> QED
  BY <1>1, <1>2, ChargedFinite DEF Covered, NeverWraps

LEMMA SameCovers ==
  ASSUME TypeOK, Covered, NeverWraps, count' = count, Charged' \subseteq Charged,
         channel' => channel
  PROVE  Covered' /\ NeverWraps'
<1>1. /\ Cardinality(Charged') \in Nat /\ Cardinality(Charged') <= Cardinality(Charged)
      /\ Cardinality(Charged) \in Nat
  BY ChargedFinite, FS_Subset, FS_CardinalityType
<1> QED
  BY <1>1, ChargedFinite DEF Covered, NeverWraps, TypeOK

LEMMA ResetCovers ==
  ASSUME count' = 0, ~channel'
  PROVE  Covered' /\ NeverWraps'
<1>1. Cardinality(Conns) \in Nat
  BY PoolAssumption, FS_CardinalityType
<1> QED
  BY <1>1 DEF Covered, NeverWraps

LEMMA TidyStep ==
  ASSUME PoolInv, WakeInv, closed, Tidy, NEW p, p \notin Closers, NoProc \notin Closers, CanRun(p)
  PROVE  WakeInv' /\ (DrainInv => DrainInv')
<1>1. \A r \in Closers : pc[r] \notin {"drain", "wake"}
  BY DEF WakeInv, CloserRuns, CanRun
<1>2. WakeInv'
  BY <1>1 DEF Tidy, WakeInv, CloserRuns, Gone, Waking
<1>3. ASSUME DrainInv PROVE DrainInv'
  <2>1. Drained'
    BY <1>1, <1>3 DEF Tidy, DrainInv, Drained
  <2>2. TypeOK /\ Covered /\ NeverWraps /\ Reset /\ channel' = channel
    BY <1>3 DEF PoolInv, DrainInv, Tidy
  <2>3. CASE count' = count /\ Charged' \subseteq Charged
    BY <2>1, <2>2, <2>3, SameCovers DEF DrainInv, Reset
  <2>4. CASE ReleaseSlotIfLive /\ \E c \in Charged : Charged' = Charged \ {c}
    <3>1. PICK c \in Charged : Charged' = Charged \ {c}
      BY <2>4
    <3>2. CASE channel
      BY <2>1, <2>2, <2>4, <3>1, <3>2, SubCovers DEF DrainInv, Reset, ReleaseSlotIfLive
    <3>3. CASE ~channel
      <4>1. count' = count /\ Charged' \subseteq Charged
        BY <2>4, <3>1, <3>3 DEF ReleaseSlotIfLive
      <4> QED
        BY <2>1, <2>2, <4>1, SameCovers DEF DrainInv, Reset
    <3> QED
      BY <3>2, <3>3
  <2> QED
    BY <2>3, <2>4 DEF Tidy
<1> QED
  BY <1>2, <1>3

-----------------------------------------------------------------------------
(* The steps of close() itself.                                            *)
LEMMA CloserStep ==
  ASSUME CoroutineClose, PoolInv, WakeInv, NEW p \in Closers, CanRun(p),
         Close(p) \/ CloseStep(p)
  PROVE  WakeInv' /\ (DrainInv => DrainInv')
<1>0. /\ TypeOK /\ HandsFull /\ Queue /\ ExclusiveUse /\ p \in Procs /\ p # NoProc
      /\ CloserRuns /\ Gone /\ Waking
      /\ DrainInv => Reset /\ Drained /\ Covered /\ NeverWraps
      /\ \A r \in Closers : r \in Procs /\ r # NoProc
  BY PoolAssumption, ProcsFacts DEF PoolInv, WakeInv, DrainInv
<1>a. \A r \in Closers : r # p => pc[r] \notin {"drain", "wake"}
  BY <1>0 DEF CloserRuns, CanRun
<1> USE <1>0, <1>a
<1>1. ASSUME Close(p) PROVE WakeInv' /\ (DrainInv => DrainInv')
  <2>1. /\ OnlyMoves(p) /\ pc[p] = "ready" /\ pc'[p] = "drain" /\ conn' = conn /\ idle' = idle
        /\ cpu' = p /\ channel /\ channel' = channel /\ closed' = TRUE /\ count' = count
    BY <1>1, MoveFacts DEF Close, Keep
  <2>2. Charged' = Charged
    BY <2>1, OwnPlace
  <2>3. WakeInv'
    BY <2>1 DEF WakeInv, CloserRuns, Gone, Waking, OnlyMoves
  <2>4. ASSUME DrainInv PROVE DrainInv'
    <3>1. Covered' /\ NeverWraps'
      BY <2>4, <2>1, <2>2, SameCovers
    <3>2. Reset' /\ Drained'
      BY <2>4, <2>1 DEF Reset, Drained, OnlyMoves
    <3> QED
      BY <3>1, <3>2 DEF DrainInv
  <2> QED
    BY <2>3, <2>4
<1>2. ASSUME CloseDrain(p) PROVE WakeInv' /\ (DrainInv => DrainInv')
  <2>1. /\ pc' = pc /\ pc[p] = "drain" /\ conn' = conn /\ idle # <<>> /\ idle' = Front(idle)
        /\ cpu' = p /\ channel /\ channel' = channel /\ closed' = closed /\ count' = Sub(count)
    BY <1>2 DEF CloseDrain, Keep, CloserRuns
  <2>2. Last(idle) \in Charged /\ Charged' = Charged \ {Last(idle)}
    BY <2>1, OwnPop
  <2>3. WakeInv'
    BY <2>1 DEF WakeInv, CloserRuns, Gone, Waking
  <2>4. ASSUME DrainInv PROVE DrainInv'
    <3>1. Covered' /\ NeverWraps'
      BY <2>4, <2>1, <2>2, SubCovers
    <3>2. Reset' /\ Drained'
      BY <2>4, <2>1 DEF Reset, Drained
    <3> QED
      BY <3>1, <3>2 DEF DrainInv
  <2> QED
    BY <2>3, <2>4
<1>3. ASSUME CloseDrained(p) PROVE WakeInv' /\ (DrainInv => DrainInv')
  <2>0. \/ Goto(p, "draining")
        \/ Goto(p, "wake") /\ cpu' = p
    BY <1>3 DEF CloseDrained, Keep
  <2>1. /\ OnlyMoves(p) /\ pc[p] = "drain" /\ conn' = conn /\ idle = <<>> /\ idle' = idle
        /\ channel /\ channel' = channel /\ closed' = closed /\ count' = count
        /\ pc'[p] = "draining" \/ (pc'[p] = "wake" /\ cpu' = p)
    BY <1>3, <2>0, MoveFacts DEF CloseDrained, CloserRuns
  <2>2. Charged' = Charged
    BY <2>1, OwnPlace
  <2>3. WakeInv'
    BY <2>1 DEF WakeInv, CloserRuns, Gone, Waking, OnlyMoves
  <2>4. ASSUME DrainInv PROVE DrainInv'
    <3>1. Covered' /\ NeverWraps'
      BY <2>4, <2>1, <2>2, SameCovers
    <3>2. Reset' /\ Drained'
      BY <2>4, <2>1 DEF Reset, Drained, OnlyMoves
    <3> QED
      BY <3>1, <3>2 DEF DrainInv
  <2> QED
    BY <2>3, <2>4
<1>4. ASSUME CloseRound(p) PROVE WakeInv' /\ (DrainInv => DrainInv')
  <2>1. /\ pc[p] = "draining" /\ conn' = conn /\ idle' = idle
        /\ channel' = channel /\ closed' = closed /\ count' = count
    BY <1>4 DEF CloseRound
  <2>2. PICK i \in 1..Len(parked) :
           parked[i] = p /\ (pc' = pc \/ (Goto(p, "wake") /\ cpu' = p))
    BY <1>4 DEF CloseRound, Keep
  <2>3. parked # <<>>
    BY <2>2
  <2>4. channel
    BY <2>1, <2>3 DEF Waking
  <2>5. OnlyMoves(p) /\ (pc'[p] = "draining" \/ (pc'[p] = "wake" /\ cpu' = p))
    BY <2>1, <2>2, MoveFacts
  <2>6. Charged' = Charged
    BY <2>1, <2>5, OwnPlace
  <2>7. WakeInv'
    BY <2>1, <2>4, <2>5 DEF WakeInv, CloserRuns, Gone, Waking, OnlyMoves
  <2>8. ASSUME DrainInv PROVE DrainInv'
    <3>1. Covered' /\ NeverWraps'
      BY <2>8, <2>1, <2>6, SameCovers
    <3>2. Reset' /\ Drained'
      BY <2>8, <2>1, <2>4, <2>5 DEF Reset, Drained, OnlyMoves
    <3> QED
      BY <3>1, <3>2 DEF DrainInv
  <2> QED
    BY <2>7, <2>8
<1>5. ASSUME CloseWake(p) PROVE WakeInv' /\ (DrainInv => DrainInv')
  <2> DEFINE q == Head(parked)
  <2>1. /\ q \in Procs /\ pc[q] \in {"parked", "draining"} /\ Goto(q, "ready") /\ pc[p] = "wake"
        /\ conn' = conn /\ idle' = idle /\ cpu' = p /\ closed' = closed
        /\ \/ count' = 0 /\ channel' = FALSE
           \/ count' = count /\ channel' = channel
    BY <1>5, HeadParked DEF CloseWake, Keep
  <2> HIDE DEF q
  <2>2. OnlyMoves(q) /\ pc'[q] = "ready" /\ q # p
    BY <2>1, MoveFacts
  <2>3. closed
    BY <2>1 DEF PoolInv, CloseMarked
  <2>4. Charged' = Charged
    BY <2>1, <2>2, OwnPlace
  <2>6. pc'[p] = "wake" /\ \A r \in Closers : r # p => pc'[r] \notin {"drain", "wake"}
    BY <2>1, <2>2 DEF OnlyMoves
  <2>5. WakeInv'
    BY <2>1, <2>3, <2>6 DEF WakeInv, CloserRuns, Gone, Waking
  <2>7. ASSUME DrainInv PROVE DrainInv'
    <3>1. Covered' /\ NeverWraps'
      BY <2>7, <2>1, <2>4, SameCovers, ResetCovers
    <3>2. Reset' /\ Drained'
      BY <2>7, <2>1, <2>3, <2>6 DEF Reset, Drained
    <3> QED
      BY <3>1, <3>2 DEF DrainInv
  <2> QED
    BY <2>5, <2>7
<1>6. ASSUME CloseFinish(p) PROVE WakeInv' /\ (DrainInv => DrainInv')
  <2>1. /\ OnlyMoves(p) /\ pc[p] = "wake" /\ pc'[p] = "ready" /\ idle' = idle
        /\ parked = <<>> /\ parked' = parked /\ closed' = closed
        /\ count' = 0 /\ channel' = FALSE
    BY <1>6, MoveFacts DEF CloseFinish
  <2>2. closed
    BY <2>1 DEF PoolInv, CloseMarked
  <2>3. WakeInv'
    BY <2>1, <2>2 DEF WakeInv, CloserRuns, Gone, Waking, OnlyMoves
  <2>4. ASSUME DrainInv PROVE DrainInv'
    <3>1. Covered' /\ NeverWraps'
      BY <2>4, <2>1, ResetCovers
    <3>2. Reset' /\ Drained'
      BY <2>4, <2>1, <2>2 DEF Reset, Drained, OnlyMoves
    <3> QED
      BY <3>1, <3>2 DEF DrainInv
  <2> QED
    BY <2>3, <2>4
<1> QED
  BY <1>1, <1>2, <1>3, <1>4, <1>5, <1>6 DEF CloseStep

(* A health check touches neither the queue nor what close() marks.        *)
LEMMA CheckerStep ==
  ASSUME PoolInv, WakeInv, NEW p \in Checkers, CanRun(p), HealthCheck(p) \/ HealthStep(p)
  PROVE  WakeInv'
<1>1. /\ p \in Procs /\ p \notin Closers /\ NoProc \notin Closers /\ TypeOK
      /\ \A r \in Closers : r \in Procs /\ r # p
  BY PoolAssumption, ProcsFacts DEF PoolInv
<1>2. \A r \in Closers : pc[r] \notin {"drain", "wake"}
  BY <1>1 DEF WakeInv, CloserRuns, CanRun
<1>3. /\ OnlyMoves(p) /\ channel' = channel /\ closed' = closed /\ parked' = parked
  BY <1>1, MoveFacts DEF HealthCheck, HealthStep, HealthProbe, HealthAlive, HealthDead, HealthDone, Drop
<1>4. \A r \in Closers : pc'[r] = pc[r]
  BY <1>1, <1>3 DEF OnlyMoves
<1> QED
  BY <1>2, <1>3, <1>4 DEF WakeInv, CloserRuns, Gone, Waking

LEMMA CloseInvStep ==
  ASSUME CoroutineClose, PoolInv, ScanOpen, WakeInv, [Next]_vars
  PROVE  WakeInv' /\ (Checkers = {} /\ DrainInv => DrainInv')
<1>0. PoolInv' /\ NoProc \notin Closers
  BY NextInv, PoolAssumption, ProcsFacts
<1>1. ASSUME NEW p \in Borrowers, CanRun(p), Get(p) \/ GetStep(p) \/ Return(p)
      PROVE  WakeInv' /\ (DrainInv => DrainInv')
  <2>1. CASE closed
    BY <1>0, <1>1, <2>1, BorrowerTidy, TidyStep, PoolAssumption
  <2>2. CASE ~closed
    <3>1. ~closed' /\ channel'
      BY <1>1, <2>2, OpenStays DEF WakeInv, Gone
    <3> QED
      BY <1>0, <3>1, OpenCloseInvNext
  <2> QED
    BY <2>1, <2>2
<1>2. ASSUME NEW p \in Recyclers, CanRun(p), Recycle(p) \/ RecycleStep(p)
      PROVE  WakeInv' /\ (DrainInv => DrainInv')
  <2>1. CASE closed
    BY <1>0, <1>2, <2>1, RecyclerTidy, TidyStep, PoolAssumption
  <2>2. CASE ~closed
    <3>1. ~closed' /\ channel'
      BY <1>2, <2>2, OpenStays DEF WakeInv, Gone
    <3> QED
      BY <1>0, <3>1, OpenCloseInvNext
  <2> QED
    BY <2>1, <2>2
<1>3. ASSUME NEW p \in Checkers, CanRun(p), HealthCheck(p) \/ HealthStep(p)
      PROVE  WakeInv' /\ Checkers # {}
  BY <1>3, CheckerStep
<1>4. ASSUME NEW p \in Closers, CanRun(p), Close(p) \/ CloseStep(p)
      PROVE  WakeInv' /\ (DrainInv => DrainInv')
  BY <1>4, CloserStep
<1>5. CASE UNCHANGED vars
  <2>1. WakeInv'
    BY <1>5 DEF vars, WakeInv, CloserRuns, Gone, Waking
  <2>2. DrainInv => DrainInv'
    BY <1>5 DEF vars, DrainInv, Reset, Drained, Covered, NeverWraps, Charged, Charging, Idle
  <2> QED
    BY <2>1, <2>2
<1> QED
  BY <1>1, <1>2, <1>3, <1>4, <1>5 DEF Next

LEMMA CloseInit ==
  ASSUME Init
  PROVE  WakeInv /\ DrainInv
  BY InitInv, OpenCloseInv DEF Init

-----------------------------------------------------------------------------
(* When close() is done, no coroutine is left parked in the channel that   *)
(* it dropped, whether a get() or another close(), however they overlap    *)
(* (pool.c:1106-1129).                                                     *)
THEOREM NobodyLeftParked ==
  ASSUME CoroutineClose
  PROVE  Spec => []NobodyParkedAfterClose
<1>1. Init => WakeInv /\ ScanOpen
  BY CloseInit, LeaseInit
<1>2. PoolInv /\ ScanOpen /\ [Next]_vars => ScanOpen'
  BY ScanOpenStep DEF PoolInv
<1>3. PoolInv /\ ScanOpen /\ WakeInv /\ [Next]_vars => WakeInv'
  BY CloseInvStep
<1>4. WakeInv => NobodyParkedAfterClose
  BY DEF WakeInv, Waking, NobodyParkedAfterClose
<1> QED
  BY <1>1, <1>2, <1>3, <1>4, PoolInvariant, PTL DEF Spec

(* A pool that was closed in a coroutine, and that no health check probes, *)
(* keeps no connection, and its counter never wraps below zero, whatever   *)
(* comes back late and however many close() overlap (pool.c:966-977,       *)
(* 1064-1075, 1124-1127).                                                  *)
THEOREM ClosesClean ==
  ASSUME CoroutineClose, Checkers = {}
  PROVE  Spec => []ClosedClean
<1>1. Init => WakeInv /\ DrainInv /\ ScanOpen
  BY CloseInit, LeaseInit
<1>2. PoolInv /\ ScanOpen /\ [Next]_vars => ScanOpen'
  BY ScanOpenStep DEF PoolInv
<1>3. PoolInv /\ ScanOpen /\ WakeInv /\ DrainInv /\ [Next]_vars => WakeInv' /\ DrainInv'
  BY CloseInvStep
<1>4. WakeInv /\ DrainInv => ClosedClean
  BY DEF WakeInv, DrainInv, ClosedClean, ClosedHoldsNothing, Gone, CloserRuns, Drained
<1> QED
  BY <1>1, <1>2, <1>3, <1>4, PoolInvariant, PTL DEF Spec
=============================================================================
