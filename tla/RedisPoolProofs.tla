---------------------------- MODULE RedisPoolProofs ----------------------------
(***************************************************************************)
(* Proofs about RedisPool for every number of borrowers and connections    *)
(* and every configuration of the pool.                                    *)
(*                                                                         *)
(* RedisPoolInv is inductive.  Beside the two properties to prove it says  *)
(* who is in the channel's queue (Queue), who has a connection (Holding),  *)
(* and that the count covers, while close() drains, the slots that are     *)
(* still to come back (the second part of Counted).                        *)
(***************************************************************************)
EXTENDS RedisPool, DataFacts, FiniteSetTheorems, TLAPS

Places == {"free", "create", "parked", "overflow", "held"}
Slotted == {"create", "overflow", "held"}
Busy == Of(Slotted)
Timers == [pc : {"off", "probe", "refill"}, conn : Conns \cup {Absent}, left : Nat, cached : Int]

Typed ==
    /\ pool \in Pools
    /\ idle \in Seq(Conns) /\ channel = <<>> /\ parked \in Seq(Borrowers)
    /\ live \in BOOLEAN /\ closed \in BOOLEAN
    /\ count \in Int /\ waiters \in Int
    /\ pcs \in [Borrowers -> Places]
    /\ lent \in [Borrowers -> Conns \cup {Absent}]
    /\ recycler \in Timers

(* Who is parked is in the channel's queue, once, and nobody else.         *)
Queue ==
    /\ \A i \in 1..Len(parked) : pcs[parked[i]] = "parked"
    /\ \A i, j \in 1..Len(parked) : parked[i] = parked[j] => i = j
    /\ \A b \in Borrowers : pcs[b] = "parked" => \E i \in 1..Len(parked) : parked[i] = b

Holding ==
    /\ \A b \in Borrowers : pcs[b] = "held" <=> lent[b] # Absent
    /\ recycler.pc = "probe" <=> recycler.conn # Absent

(* LendsOnce, said of all borrowers.                                       *)
Apart ==
    /\ \A i, j \in 1..Len(idle) : idle[i] = idle[j] => i = j
    /\ \A i \in 1..Len(idle) : idle[i] # recycler.conn /\ \A b \in Borrowers : idle[i] # lent[b]
    /\ \A b \in Borrowers : lent[b] # Absent =>
          lent[b] # recycler.conn /\ \A d \in Borrowers : lent[d] = lent[b] => d = b

(* The slots: SlotsExact, and what close() waits for.                      *)
Counted ==
    /\ ~closed => /\ live
                  /\ count = Len(idle) + Cardinality(Busy) + Probing
                  /\ waiters = Len(parked)
    /\ closed /\ live => count >= Cardinality(Busy)
    /\ ~live => count = 0

RedisPoolInv == Typed /\ Queue /\ Holding /\ Apart /\ Counted

(* Only a pool that was closed has a close() that waits.                   *)
Draining == closer # Absent => closed

-----------------------------------------------------------------------------
(* One borrower goes to place p with connection x, or with none.           *)
Move(b, p, x) ==
    /\ pcs' = [pcs EXCEPT ![b] = p]
    /\ lent' = [lent EXCEPT ![b] = x]

LEMMA BusyFacts ==
  ASSUME RedisPoolAssumption
  PROVE  IsFiniteSet(Busy) /\ Cardinality(Busy) \in Nat
<1>1. Busy \subseteq Borrowers
  BY DEF Busy, Of
<1> QED
  BY <1>1, FS_Subset, FS_CardinalityType DEF RedisPoolAssumption

LEMMA MoveFacts ==
  ASSUME RedisPoolAssumption, Typed, NEW b \in Borrowers, NEW p \in Places,
         NEW x \in Conns \cup {Absent}, Move(b, p, x)
  PROVE  /\ pcs' \in [Borrowers -> Places] /\ lent' \in [Borrowers -> Conns \cup {Absent}]
         /\ \A d \in Borrowers : /\ pcs'[d] = IF d = b THEN p ELSE pcs[d]
                                 /\ lent'[d] = IF d = b THEN x ELSE lent[d]
         /\ Cardinality(Busy) \in Nat /\ Cardinality(Busy') \in Nat
         /\ Cardinality(Busy') = Cardinality(Busy) + (IF p \in Slotted THEN 1 ELSE 0)
                                   - (IF pcs[b] \in Slotted THEN 1 ELSE 0)
<1>1. pcs \in [Borrowers -> Places] /\ lent \in [Borrowers -> Conns \cup {Absent}]
  BY DEF Typed
<1>2. pcs' \in [Borrowers -> Places] /\ \A d \in Borrowers : pcs'[d] = IF d = b THEN p ELSE pcs[d]
  BY <1>1 DEF Move
<1>3. /\ lent' \in [Borrowers -> Conns \cup {Absent}]
      /\ \A d \in Borrowers : lent'[d] = IF d = b THEN x ELSE lent[d]
  BY <1>1 DEF Move
<1>4. Busy' = {d \in Borrowers : pcs'[d] \in Slotted}
  BY DEF Busy, Of, Slotted
<1>5. /\ \A d : d # b => (d \in Busy' <=> d \in Busy)
      /\ b \in Busy' <=> p \in Slotted
      /\ b \in Busy <=> pcs[b] \in Slotted
  BY <1>2, <1>4 DEF Busy, Of
<1>6. IsFiniteSet(Busy)
  BY BusyFacts
<1>7. /\ Cardinality(Busy) \in Nat /\ Cardinality(Busy') \in Nat
      /\ Cardinality(Busy') = Cardinality(Busy) + (IF b \in Busy' THEN 1 ELSE 0)
                                   - (IF b \in Busy THEN 1 ELSE 0)
  BY <1>5, <1>6, SetChange
<1> QED
  BY <1>2, <1>3, <1>5, <1>7

(* With the places unchanged, or only those outside of Slotted changed.    *)
LEMMA SameBusy ==
  ASSUME \A d \in Borrowers : pcs'[d] \in Slotted <=> pcs[d] \in Slotted
  PROVE  Busy' = Busy
  BY DEF Busy, Of, Slotted

LEMMA SpareFacts ==
  ASSUME Typed, Spare # {}
  PROVE  /\ Fresh \in Conns /\ Fresh # recycler.conn
         /\ \A i \in 1..Len(idle) : idle[i] # Fresh
         /\ \A b \in Borrowers : lent[b] # Fresh
<1>1. Fresh \in Spare
  BY DEF Fresh
<1>2. \A i \in 1..Len(idle) : idle[i] \in ToSet(idle)
  BY DEF Typed, ToSet
<1> QED
  BY <1>1, <1>2 DEF Spare, InUse

LEMMA ConnsNotAbsent ==
  ASSUME RedisPoolAssumption, Typed
  PROVE  /\ Len(idle) \in Nat
         /\ \A i \in 1..Len(idle) : idle[i] \in Conns /\ idle[i] # Absent
  BY LenProperties, ElementOfSeq DEF Typed, RedisPoolAssumption

-----------------------------------------------------------------------------
(* The channel's queue.                                                    *)
LEMMA QueueKept ==
  ASSUME Typed, Queue, parked' = parked,
         \A d \in Borrowers : pcs'[d] = "parked" <=> pcs[d] = "parked"
  PROVE  Queue'
<1>1. \A i \in 1..Len(parked) : parked[i] \in Borrowers
  BY ElementOfSeq DEF Typed
<1> QED
  BY <1>1 DEF Queue

LEMMA QueueJoined ==
  ASSUME Typed, Queue, NEW b \in Borrowers, pcs[b] # "parked",
         parked' = Append(parked, b), pcs' = [pcs EXCEPT ![b] = "parked"]
  PROVE  /\ parked' \in Seq(Borrowers) /\ Len(parked') = Len(parked) + 1 /\ Len(parked) \in Nat
         /\ Queue'
<1>1. parked \in Seq(Borrowers) /\ Len(parked) \in Nat
  BY LenProperties DEF Typed
<1>2. /\ parked' \in Seq(Borrowers) /\ Len(parked') = Len(parked) + 1
      /\ \A i \in 1..Len(parked) + 1 : parked'[i] = IF i = Len(parked) + 1 THEN b ELSE parked[i]
  BY <1>1, AppendProperties
<1>3. \A d \in Borrowers : pcs'[d] = IF d = b THEN "parked" ELSE pcs[d]
  BY DEF Typed
<1>4. \A i \in 1..Len(parked) : parked[i] \in Borrowers /\ parked[i] # b
  BY <1>1, ElementOfSeq DEF Queue
<1>5. Queue'
  <2>1. ASSUME NEW i \in 1..Len(parked') PROVE pcs'[parked'[i]] = "parked"
    <3>1. i \in 1..Len(parked) + 1
      BY <1>2
    <3>2. CASE i = Len(parked) + 1
      BY <1>2, <1>3, <3>1, <3>2
    <3>3. CASE i # Len(parked) + 1
      <4>1. i \in 1..Len(parked) /\ parked'[i] = parked[i]
        BY <1>1, <1>2, <3>1, <3>3
      <4> QED
        BY <1>3, <1>4, <4>1 DEF Queue
    <3> QED
      BY <3>2, <3>3
  <2>2. ASSUME NEW i \in 1..Len(parked'), NEW j \in 1..Len(parked'), parked'[i] = parked'[j]
        PROVE  i = j
    <3>1. i \in 1..Len(parked) + 1 /\ j \in 1..Len(parked) + 1
      BY <1>2
    <3>2. CASE i = Len(parked) + 1 \/ j = Len(parked) + 1
      <4>1. parked'[i] = b /\ parked'[j] = b
        BY <1>2, <2>2, <3>1, <3>2
      <4>2. \A k \in 1..Len(parked) + 1 : parked'[k] = b => k = Len(parked) + 1
        <5> SUFFICES ASSUME NEW k \in 1..Len(parked) + 1, parked'[k] = b, k # Len(parked) + 1
                     PROVE  FALSE
          OBVIOUS
        <5>1. k \in 1..Len(parked) /\ parked'[k] = parked[k]
          BY <1>1, <1>2
        <5> QED
          BY <1>4, <5>1
      <4> QED
        BY <3>1, <4>1, <4>2
    <3>3. CASE i # Len(parked) + 1 /\ j # Len(parked) + 1
      <4>1. i \in 1..Len(parked) /\ j \in 1..Len(parked) /\ parked[i] = parked[j]
        BY <1>1, <1>2, <2>2, <3>1, <3>3
      <4> QED
        BY <4>1 DEF Queue
    <3> QED
      BY <3>2, <3>3
  <2>3. ASSUME NEW d \in Borrowers, pcs'[d] = "parked"
        PROVE  \E i \in 1..Len(parked') : parked'[i] = d
    <3>1. CASE d = b
      <4>1. Len(parked) + 1 \in 1..Len(parked')
        BY <1>1, <1>2
      <4> QED
        BY <1>2, <3>1, <4>1
    <3>2. CASE d # b
      <4>1. PICK i \in 1..Len(parked) : parked[i] = d
        BY <1>3, <2>3, <3>2 DEF Queue
      <4>2. i \in 1..Len(parked) + 1 /\ i # Len(parked) + 1 /\ i \in 1..Len(parked')
        BY <1>1, <1>2
      <4> QED
        BY <1>2, <4>1, <4>2
    <3> QED
      BY <3>1, <3>2
  <2> QED
    BY <2>1, <2>2, <2>3 DEF Queue
<1> QED
  BY <1>1, <1>2, <1>5

(* The n-th leaves.                                                        *)
LEMMA QueueLeft ==
  ASSUME Typed, Queue, NEW b \in Borrowers, NEW n \in 1..Len(parked), parked[n] = b,
         parked' \in Seq(Borrowers), Len(parked') = Len(parked) - 1,
         \A m \in 1..Len(parked) - 1 : parked'[m] = IF m < n THEN parked[m] ELSE parked[m + 1],
         pcs'[b] # "parked",
         \A d \in Borrowers : d # b => (pcs'[d] = "parked" <=> pcs[d] = "parked")
  PROVE  Queue'
<1>1. parked \in Seq(Borrowers) /\ Len(parked) \in Nat /\ n \in 1..Len(parked)
  BY LenProperties DEF Typed
<1>2. \A m \in 1..Len(parked) : parked[m] \in Borrowers
  BY <1>1, ElementOfSeq
<1>3. ASSUME NEW m \in 1..Len(parked')
      PROVE  \E o \in 1..Len(parked) : /\ parked'[m] = parked[o] /\ o # n
                                       /\ o = IF m < n THEN m ELSE m + 1
  <2>1. m \in 1..Len(parked) - 1
    OBVIOUS
  <2>2. CASE m < n
    BY <1>1, <2>1, <2>2
  <2>3. CASE ~(m < n)
    BY <1>1, <2>1, <2>3
  <2> QED
    BY <2>2, <2>3
<1>4. ASSUME NEW m \in 1..Len(parked') PROVE pcs'[parked'[m]] = "parked"
  <2>1. PICK o \in 1..Len(parked) : parked'[m] = parked[o] /\ o # n
    BY <1>3
  <2>2. parked[o] # b /\ pcs[parked[o]] = "parked" /\ parked[o] \in Borrowers
    BY <1>2, <2>1 DEF Queue
  <2> QED
    BY <2>1, <2>2
<1>5. ASSUME NEW m \in 1..Len(parked'), NEW q \in 1..Len(parked'), parked'[m] = parked'[q]
      PROVE  m = q
  <2>1. PICK o \in 1..Len(parked) : parked'[m] = parked[o] /\ o = IF m < n THEN m ELSE m + 1
    BY <1>3
  <2>2. PICK r \in 1..Len(parked) : parked'[q] = parked[r] /\ r = IF q < n THEN q ELSE q + 1
    BY <1>3
  <2>3. o = r
    <3>1. parked[o] = parked[r]
      BY <1>5, <2>1, <2>2
    <3>2. \A i, j \in 1..Len(parked) : parked[i] = parked[j] => i = j
      BY DEF Queue
    <3> QED
      BY <3>1, <3>2
  <2>4. m \in Int /\ q \in Int /\ n \in Int
    OBVIOUS
  <2>5. (IF m < n THEN m ELSE m + 1) = IF q < n THEN q ELSE q + 1
    BY <2>1, <2>2, <2>3
  <2> QED
    BY <2>4, <2>5
<1>6. ASSUME NEW d \in Borrowers, pcs'[d] = "parked"
      PROVE  \E m \in 1..Len(parked') : parked'[m] = d
  <2>1. d # b
    BY <1>6
  <2>2. PICK o \in 1..Len(parked) : parked[o] = d
    BY <1>6, <2>1 DEF Queue
  <2>3. o # n
    BY <2>1, <2>2
  <2>4. CASE o < n
    <3>1. o \in 1..Len(parked) - 1 /\ o \in 1..Len(parked')
      BY <1>1, <2>2, <2>4
    <3> QED
      BY <2>2, <2>4, <3>1
  <2>5. CASE o > n
    <3>1. /\ o - 1 \in 1..Len(parked) - 1 /\ o - 1 \in 1..Len(parked') /\ ~(o - 1 < n)
          /\ (o - 1) + 1 = o
      BY <1>1, <2>2, <2>5
    <3>2. parked'[o - 1] = parked[o]
      BY <3>1
    <3> QED
      BY <2>2, <3>1, <3>2
  <2> QED
    BY <1>1, <2>2, <2>3, <2>4, <2>5
<1> QED
  BY <1>4, <1>5, <1>6 DEF Queue

-----------------------------------------------------------------------------
(* What the actions of the borrowers have in common.                       *)
Elsewhere == UNCHANGED <<pool, channel, live, closed, recycler>>

(* One round of get()'s loop: b's own slot is not among the n counted.     *)
LEMMA RoundStep ==
  ASSUME RedisPoolAssumption, RedisPoolInv, NEW b \in Borrowers, NEW n, NEW r, Round(b, n, r),
         Elsewhere, ~closed, pcs[b] # "parked",
         n = count - (IF pcs[b] \in Slotted THEN 1 ELSE 0)
  PROVE  RedisPoolInv'
<1>1. Typed /\ Queue /\ Holding /\ Apart /\ Counted
  BY DEF RedisPoolInv
<1>2. /\ live /\ waiters = Len(parked)
      /\ count = Len(idle) + Cardinality(Busy) + Probing
      /\ n = Len(idle) + (Cardinality(Busy) - (IF pcs[b] \in Slotted THEN 1 ELSE 0)) + Probing
  <2>1. live /\ waiters = Len(parked) /\ count = Len(idle) + Cardinality(Busy) + Probing
    BY <1>1 DEF Counted
  <2>2. Len(idle) \in Nat /\ Cardinality(Busy) \in Nat /\ Probing \in Nat
    BY <1>1, BusyFacts, ConnsNotAbsent DEF Probing
  <2> QED
    BY <2>1, <2>2
<1>3. n \in Int /\ Len(idle) \in Nat /\ Probing \in Nat /\ Probing' = Probing
  <2>1. Probing \in Nat /\ Probing' = Probing
    BY DEF Probing, Elsewhere
  <2>2. count \in Int
    BY <1>1 DEF Typed
  <2> QED
    BY <1>1, <2>1, <2>2, ConnsNotAbsent
<1>4. /\ pool' = pool /\ channel' = channel /\ live' = live /\ closed' = closed /\ recycler' = recycler
  BY DEF Elsewhere
<1>5. CASE idle # <<>> /\ Move(b, "held", Last(idle)) /\ idle' = Front(idle) /\ count' = n
           /\ UNCHANGED <<parked, waiters>>
  <2> DEFINE x == Last(idle)
  <2>1. /\ Front(idle) \in Seq(Conns) /\ Len(Front(idle)) = Len(idle) - 1
        /\ \A i \in 1..Len(idle) - 1 : Front(idle)[i] = idle[i]
        /\ x = idle[Len(idle)] /\ x \in Conns
    BY <1>1, <1>5, FrontFacts DEF Typed
  <2>2. Len(idle) \in 1..Len(idle)
    BY <1>1, <1>3, <1>5, EmptySeq DEF Typed
  <2> HIDE DEF x
  <2>3. "held" \in Places /\ "held" \in Slotted
    BY DEF Places, Slotted
  <2>4. /\ pcs' \in [Borrowers -> Places] /\ lent' \in [Borrowers -> Conns \cup {Absent}]
        /\ \A d \in Borrowers : /\ pcs'[d] = IF d = b THEN "held" ELSE pcs[d]
                                /\ lent'[d] = IF d = b THEN x ELSE lent[d]
        /\ Cardinality(Busy) \in Nat /\ Cardinality(Busy') \in Nat
        /\ Cardinality(Busy') = Cardinality(Busy) + 1 - (IF pcs[b] \in Slotted THEN 1 ELSE 0)
    BY <1>1, <1>5, <2>1, <2>3, MoveFacts DEF x
  <2>5. Typed'
    BY <1>1, <1>3, <1>4, <1>5, <2>1, <2>4 DEF Typed, Places
  <2>6. Queue'
    BY <1>1, <1>5, <2>4, QueueKept
  <2>7. x # Absent /\ x # recycler.conn /\ \A d \in Borrowers : x # lent[d]
    BY <1>1, <2>1, <2>2, ConnsNotAbsent DEF Apart
  <2>8. Holding'
    BY <1>1, <1>4, <2>4, <2>7 DEF Holding
  <2>9. Apart'
    <3>1. ASSUME NEW i \in 1..Len(idle')
          PROVE  i \in 1..Len(idle) /\ idle'[i] = idle[i] /\ i # Len(idle)
      BY <1>3, <1>5, <2>1
    <3>2. \A i \in 1..Len(idle') : idle'[i] # x
      BY <1>1, <2>1, <2>2, <3>1 DEF Apart
    <3>3. \A i, j \in 1..Len(idle') : idle'[i] = idle'[j] => i = j
      BY <1>1, <3>1 DEF Apart
    <3>4. \A i \in 1..Len(idle') : idle'[i] # recycler.conn /\ \A d \in Borrowers : idle'[i] # lent'[d]
      BY <1>1, <2>4, <3>1, <3>2 DEF Apart
    <3>5. \A d \in Borrowers : lent'[d] # Absent =>
             lent'[d] # recycler.conn /\ \A e \in Borrowers : lent'[e] = lent'[d] => e = d
      BY <1>1, <2>4, <2>7 DEF Apart
    <3> QED
      BY <1>4, <3>3, <3>4, <3>5 DEF Apart
  <2>10. Counted'
    <3>1. count' = Len(idle') + Cardinality(Busy') + Probing'
      BY <1>2, <1>3, <1>5, <2>1, <2>4
    <3> QED
      BY <1>2, <1>4, <1>5, <3>1 DEF Counted
  <2> QED
    BY <2>5, <2>6, <2>8, <2>9, <2>10 DEF RedisPoolInv
<1>6. CASE /\ idle' = idle /\ count' = n + 1 /\ UNCHANGED <<parked, waiters>>
           /\ Move(b, "create", Absent)
  <2>1. "create" \in Places /\ "create" \in Slotted
    BY DEF Places, Slotted
  <2>2. /\ pcs' \in [Borrowers -> Places] /\ lent' \in [Borrowers -> Conns \cup {Absent}]
        /\ \A d \in Borrowers : /\ pcs'[d] = IF d = b THEN "create" ELSE pcs[d]
                                /\ lent'[d] = IF d = b THEN Absent ELSE lent[d]
        /\ Cardinality(Busy) \in Nat /\ Cardinality(Busy') \in Nat
        /\ Cardinality(Busy') = Cardinality(Busy) + 1 - (IF pcs[b] \in Slotted THEN 1 ELSE 0)
    BY <1>1, <1>6, <2>1, MoveFacts
  <2>3. Typed'
    BY <1>1, <1>3, <1>4, <1>6, <2>2 DEF Typed, Places
  <2>4. Queue'
    BY <1>1, <1>6, <2>2, QueueKept
  <2>5. Holding'
    BY <1>1, <1>4, <2>2 DEF Holding
  <2>6. Apart'
    BY <1>1, <1>4, <1>6, <2>2, ConnsNotAbsent DEF Apart
  <2>7. Counted'
    <3>1. count' = Len(idle') + Cardinality(Busy') + Probing'
      BY <1>2, <1>3, <1>6, <2>2
    <3> QED
      BY <1>2, <1>4, <1>6, <3>1 DEF Counted
  <2> QED
    BY <2>3, <2>4, <2>5, <2>6, <2>7 DEF RedisPoolInv
<1>7. CASE /\ idle' = idle /\ count' = n /\ waiters' = waiters + 1 /\ parked' = Append(parked, b)
           /\ Move(b, "parked", Absent)
  <2>1. "parked" \in Places /\ "parked" \notin Slotted
    BY DEF Places, Slotted
  <2>2. /\ pcs' \in [Borrowers -> Places] /\ lent' \in [Borrowers -> Conns \cup {Absent}]
        /\ \A d \in Borrowers : /\ pcs'[d] = IF d = b THEN "parked" ELSE pcs[d]
                                /\ lent'[d] = IF d = b THEN Absent ELSE lent[d]
        /\ Cardinality(Busy) \in Nat /\ Cardinality(Busy') \in Nat
        /\ Cardinality(Busy') = Cardinality(Busy) - (IF pcs[b] \in Slotted THEN 1 ELSE 0)
    BY <1>1, <1>7, <2>1, MoveFacts
  <2>3. /\ parked' \in Seq(Borrowers) /\ Len(parked') = Len(parked) + 1 /\ Len(parked) \in Nat
        /\ Queue'
    BY <1>1, <1>7, QueueJoined DEF Move
  <2>4. waiters' \in Int
    BY <1>1, <1>7 DEF Typed
  <2>5. Typed'
    BY <1>1, <1>3, <1>4, <1>7, <2>2, <2>3, <2>4 DEF Typed, Places
  <2>6. Holding'
    BY <1>1, <1>4, <2>2 DEF Holding
  <2>7. Apart'
    BY <1>1, <1>4, <1>7, <2>2, ConnsNotAbsent DEF Apart
  <2>8. Counted'
    <3>1. count' = Len(idle') + Cardinality(Busy') + Probing' /\ waiters' = Len(parked')
      BY <1>2, <1>3, <1>7, <2>2, <2>3
    <3> QED
      BY <1>2, <1>4, <1>7, <3>1 DEF Counted
  <2> QED
    BY <2>3, <2>5, <2>6, <2>7, <2>8 DEF RedisPoolInv
<1> QED
  BY <1>5, <1>6, <1>7 DEF Round, Move

(* b gives up its slot, and its connection if it had one.                  *)
LEMMA SlotLeft ==
  ASSUME RedisPoolAssumption, RedisPoolInv, NEW b \in Borrowers, pcs[b] \in Slotted,
         Move(b, "free", Absent), Elsewhere, UNCHANGED <<idle, parked, waiters>>,
         count' = IF live THEN count - 1 ELSE count
  PROVE  RedisPoolInv'
<1>1. Typed /\ Queue /\ Holding /\ Apart /\ Counted
  BY DEF RedisPoolInv
<1>2. "free" \in Places /\ "free" \notin Slotted /\ pcs[b] # "parked"
  BY DEF Places, Slotted
<1>3. /\ pcs' \in [Borrowers -> Places] /\ lent' \in [Borrowers -> Conns \cup {Absent}]
      /\ \A d \in Borrowers : /\ pcs'[d] = IF d = b THEN "free" ELSE pcs[d]
                              /\ lent'[d] = IF d = b THEN Absent ELSE lent[d]
      /\ Cardinality(Busy) \in Nat /\ Cardinality(Busy') \in Nat
      /\ Cardinality(Busy') = Cardinality(Busy) - 1
  BY <1>1, <1>2, MoveFacts
<1>4. /\ pool' = pool /\ channel' = channel /\ live' = live /\ closed' = closed /\ recycler' = recycler
      /\ idle' = idle /\ parked' = parked /\ waiters' = waiters
  BY DEF Elsewhere
<1>5. count \in Int /\ count' \in Int /\ count' = IF live THEN count - 1 ELSE count
  BY <1>1 DEF Typed
<1>6. Typed'
  BY <1>1, <1>3, <1>4, <1>5 DEF Typed, Places
<1>7. Queue'
  BY <1>1, <1>2, <1>3, <1>4, QueueKept
<1>8. Holding'
  BY <1>1, <1>3, <1>4 DEF Holding
<1>9. Apart'
  BY <1>1, <1>3, <1>4, ConnsNotAbsent DEF Apart
<1>10. Counted'
  <2>1. Probing' = Probing /\ Probing \in Nat /\ Len(idle) \in Nat
    BY <1>1, <1>4, ConnsNotAbsent DEF Probing
  <2>2. CASE ~closed
    <3>1. live /\ count = Len(idle) + Cardinality(Busy) + Probing /\ waiters = Len(parked)
      BY <1>1, <2>2 DEF Counted
    <3>2. count' = Len(idle) + Cardinality(Busy') + Probing'
      BY <1>3, <1>5, <2>1, <3>1
    <3> QED
      BY <1>4, <2>2, <3>1, <3>2 DEF Counted
  <2>3. CASE closed
    <3>1. closed /\ live => count >= Cardinality(Busy)
      BY <1>1 DEF Counted
    <3>2. closed /\ live => count' >= Cardinality(Busy')
      BY <1>3, <1>5, <2>3, <3>1
    <3>3. ~live => count' = 0
      BY <1>1, <1>5 DEF Counted
    <3> QED
      BY <1>4, <2>3, <3>2, <3>3 DEF Counted
  <2> QED
    BY <2>2, <2>3
<1> QED
  BY <1>6, <1>7, <1>8, <1>9, <1>10 DEF RedisPoolInv

LEMMA GetStep ==
  ASSUME RedisPoolAssumption, RedisPoolInv, NEW b \in Borrowers, Get(b)
  PROVE  RedisPoolInv'
<1>1. /\ Round(b, count, 0) /\ Elsewhere /\ ~closed /\ pcs[b] # "parked" /\ pcs[b] \notin Slotted
  BY DEF Get, Elsewhere, Slotted
<1>2. count = count - (IF pcs[b] \in Slotted THEN 1 ELSE 0)
  BY <1>1 DEF RedisPoolInv, Typed
<1> QED
  BY <1>1, <1>2, RoundStep

LEMMA ReconnectStep ==
  ASSUME RedisPoolAssumption, RedisPoolInv, NEW b \in Borrowers, Reconnect(b)
  PROVE  RedisPoolInv'
<1>1. Elsewhere /\ pcs[b] = "held" /\ pcs[b] \in Slotted /\ pcs[b] # "parked"
  BY DEF Reconnect, Elsewhere, Slotted
<1>2. CASE Refused(b, Released(count))
  BY <1>1, <1>2, SlotLeft DEF Refused, Released, Move
<1>3. CASE ~closed /\ Round(b, count - 1, 0)
  <2>1. count - 1 = count - (IF pcs[b] \in Slotted THEN 1 ELSE 0)
    BY <1>1
  <2> QED
    BY <1>1, <1>3, <2>1, RoundStep
<1> QED
  BY <1>2, <1>3 DEF Reconnect

LEMMA CreatedStep ==
  ASSUME RedisPoolAssumption, RedisPoolInv, NEW b \in Borrowers, Created(b)
  PROVE  RedisPoolInv'
<1>1. Elsewhere /\ pcs[b] \in {"create", "overflow"} /\ pcs[b] \in Slotted /\ pcs[b] # "parked"
  BY DEF Created, Elsewhere, Slotted
<1>2. Typed /\ Queue /\ Holding /\ Apart /\ Counted
  BY DEF RedisPoolInv
<1>3. ~closed => live
  BY <1>2 DEF Counted
<1>4. CASE closed /\ Refused(b, Released(count))
  BY <1>1, <1>4, SlotLeft DEF Refused, Released, Move
<1>5. CASE ~closed /\ Refused(b, count - 1)
  BY <1>1, <1>3, <1>5, SlotLeft DEF Refused, Move
<1>6. CASE ~closed /\ Spare # {} /\ Move(b, "held", Fresh) /\ UNCHANGED <<idle, parked, waiters, count>>
  <2>1. /\ Fresh \in Conns /\ Fresh # recycler.conn
        /\ \A i \in 1..Len(idle) : idle[i] # Fresh
        /\ \A d \in Borrowers : lent[d] # Fresh
    BY <1>2, <1>6, SpareFacts
  <2> DEFINE x == Fresh
  <2>2. x # Absent /\ x \in Conns
    BY <2>1 DEF RedisPoolAssumption
  <2>3. "held" \in Places /\ "held" \in Slotted
    BY DEF Places, Slotted
  <2> HIDE DEF x
  <2>4. /\ pcs' \in [Borrowers -> Places] /\ lent' \in [Borrowers -> Conns \cup {Absent}]
        /\ \A d \in Borrowers : /\ pcs'[d] = IF d = b THEN "held" ELSE pcs[d]
                                /\ lent'[d] = IF d = b THEN x ELSE lent[d]
        /\ Cardinality(Busy) \in Nat /\ Cardinality(Busy') = Cardinality(Busy)
    BY <1>1, <1>2, <1>6, <2>2, <2>3, MoveFacts DEF x
  <2>5. /\ pool' = pool /\ channel' = channel /\ live' = live /\ closed' = closed /\ recycler' = recycler
        /\ idle' = idle /\ parked' = parked /\ waiters' = waiters /\ count' = count /\ Probing' = Probing
    BY <1>1, <1>6 DEF Elsewhere, Probing
  <2>6. Typed'
    BY <1>2, <2>4, <2>5 DEF Typed, Places
  <2>7. Queue'
    BY <1>1, <1>2, <2>4, <2>5, QueueKept
  <2>8. Holding'
    BY <1>2, <2>2, <2>4, <2>5 DEF Holding
  <2>9. Apart'
    BY <1>2, <2>1, <2>4, <2>5 DEF Apart, x
  <2>10. Counted'
    BY <1>2, <2>4, <2>5 DEF Counted
  <2> QED
    BY <2>6, <2>7, <2>8, <2>9, <2>10 DEF RedisPoolInv
<1> QED
  <2>1. ASSUME ~closed,
               IF tries[b] + 1 < pool.max + 2 THEN Round(b, count - 1, tries[b] + 1)
                                              ELSE Refused(b, count - 1)
        PROVE  RedisPoolInv'
    <3>1. CASE Round(b, count - 1, tries[b] + 1)
      <4>1. count - 1 = count - (IF pcs[b] \in Slotted THEN 1 ELSE 0)
        BY <1>1
      <4> QED
        BY <1>1, <2>1, <3>1, <4>1, RoundStep
    <3> QED
      BY <1>5, <2>1, <3>1
  <2> QED
    BY <1>4, <1>5, <1>6, <2>1 DEF Created, Move

(* A borrower leaves the queue by itself.                                  *)
LEMMA LeavesStep ==
  ASSUME RedisPoolAssumption, RedisPoolInv, NEW b \in Borrowers, TimedOut(b) \/ TimedOutClosed(b)
  PROVE  RedisPoolInv'
<1>1. Typed /\ Queue /\ Holding /\ Apart /\ Counted
  BY DEF RedisPoolInv
<1>2. /\ pcs[b] = "parked" /\ lent' = lent /\ Elsewhere /\ idle' = idle
      /\ waiters' = IF waiters > 0 THEN waiters - 1 ELSE 0
      /\ \/ ~closed /\ pcs' = [pcs EXCEPT ![b] = "overflow"] /\ count' = count + 1
         \/ closed /\ pcs' = [pcs EXCEPT ![b] = "free"] /\ count' = count
  BY DEF TimedOut, TimedOutClosed, Elsewhere
<1>3. PICK n \in 1..Len(parked) : parked[n] = b /\ parked' = RemoveAt(parked, n)
  BY DEF TimedOut, TimedOutClosed, LeavesQueue
<1>4. parked \in Seq(Borrowers) /\ Len(parked) \in Nat /\ Len(parked) > 0
  <2>1. parked \in Seq(Borrowers) /\ Len(parked) \in Nat
    BY <1>1, LenProperties DEF Typed
  <2> QED
    BY <1>3, <2>1
<1>5. /\ parked' \in Seq(Borrowers) /\ Len(parked') = Len(parked) - 1
      /\ \A m \in 1..Len(parked) - 1 : parked'[m] = IF m < n THEN parked[m] ELSE parked[m + 1]
  BY <1>3, <1>4, RemoveAtFacts
<1>6. PICK p \in {"free", "overflow"} :
         /\ pcs' = [pcs EXCEPT ![b] = p]
         /\ \/ ~closed /\ p = "overflow" /\ count' = count + 1
            \/ closed /\ p = "free" /\ count' = count
  BY <1>2
<1>7. p \in Places /\ p # "parked" /\ (p \in Slotted <=> p = "overflow") /\ pcs[b] \notin Slotted
  BY <1>2 DEF Places, Slotted
<1>8. Move(b, p, lent[b]) /\ lent[b] \in Conns \cup {Absent}
  BY <1>1, <1>2, <1>6 DEF Move, Typed
<1>9. /\ pcs' \in [Borrowers -> Places]
      /\ \A d \in Borrowers : pcs'[d] = IF d = b THEN p ELSE pcs[d]
      /\ Cardinality(Busy) \in Nat /\ Cardinality(Busy') \in Nat
      /\ Cardinality(Busy') = Cardinality(Busy) + (IF p \in Slotted THEN 1 ELSE 0)
                                - (IF pcs[b] \in Slotted THEN 1 ELSE 0)
  BY <1>1, <1>7, <1>8, MoveFacts
<1>10. /\ pool' = pool /\ channel' = channel /\ live' = live /\ closed' = closed /\ recycler' = recycler
       /\ idle' = idle /\ Probing' = Probing /\ Probing \in Nat /\ Len(idle) \in Nat
  BY <1>1, <1>2, ConnsNotAbsent DEF Elsewhere, Probing
<1>11. count \in Int /\ count' \in Int /\ waiters' \in Int
  <2>1. count \in Int /\ waiters \in Int
    BY <1>1 DEF Typed
  <2> QED
    BY <1>2, <1>6, <2>1
<1>12. Typed'
  BY <1>1, <1>2, <1>5, <1>9, <1>10, <1>11 DEF Typed, Places
<1>13. Queue'
  BY <1>1, <1>3, <1>5, <1>7, <1>9, QueueLeft
<1>14. Holding'
  BY <1>1, <1>2, <1>6, <1>9, <1>10 DEF Holding
<1>15. Apart'
  BY <1>1, <1>2, <1>10 DEF Apart
<1>16. Counted'
  <2>1. CASE ~closed
    <3>1. live /\ count = Len(idle) + Cardinality(Busy) + Probing /\ waiters = Len(parked)
      BY <1>1, <2>1 DEF Counted
    <3>2. p = "overflow" /\ count' = count + 1
      BY <1>6, <2>1
    <3>3. waiters' = Len(parked')
      BY <1>2, <1>4, <1>5, <3>1
    <3>4. count' = Len(idle) + Cardinality(Busy') + Probing
      BY <1>7, <1>9, <1>10, <1>11, <3>1, <3>2
    <3> QED
      BY <1>10, <2>1, <3>1, <3>3, <3>4 DEF Counted
  <2>2. CASE closed
    <3>1. p = "free" /\ count' = count
      BY <1>6, <2>2
    <3>2. Cardinality(Busy') = Cardinality(Busy)
      BY <1>7, <1>9, <3>1
    <3> QED
      BY <1>1, <1>10, <2>2, <3>1, <3>2 DEF Counted
  <2> QED
    BY <2>1, <2>2
<1> QED
  BY <1>12, <1>13, <1>14, <1>15, <1>16 DEF RedisPoolInv

(* put() hands the connection to who waits longest.                        *)
LEMMA HandOffStep ==
  ASSUME RedisPoolAssumption, RedisPoolInv, NEW b \in Borrowers, pcs[b] = "held", ~closed,
         parked # <<>>, parked' = Tail(parked), waiters' = waiters - 1,
         pcs' = [pcs EXCEPT ![b] = "free", ![Head(parked)] = "held"],
         lent' = [lent EXCEPT ![b] = Absent, ![Head(parked)] = lent[b]],
         Elsewhere, UNCHANGED <<idle, count>>
  PROVE  RedisPoolInv'
<1> DEFINE d == Head(parked)  c == lent[b]
<1>1. Typed /\ Queue /\ Holding /\ Apart /\ Counted
  BY DEF RedisPoolInv
<1>2. parked \in Seq(Borrowers) /\ Len(parked) \in Nat /\ 1 \in 1..Len(parked)
  BY <1>1, EmptySeq, LenProperties DEF Typed
<1>3. /\ d \in Borrowers /\ d = parked[1]
      /\ parked' \in Seq(Borrowers) /\ Len(parked') = Len(parked) - 1
      /\ \A m \in 1..Len(parked') : parked'[m] = parked[m + 1]
  BY <1>2, HeadTailProperties
<1>4. \A m \in 1..Len(parked) - 1 : parked'[m] = IF m < 1 THEN parked[m] ELSE parked[m + 1]
  BY <1>3
<1>5. pcs[d] = "parked" /\ d # b
  BY <1>1, <1>2, <1>3 DEF Queue
<1>6. c \in Conns /\ c # Absent
  BY <1>1 DEF Typed, Holding
<1>7. pcs' = [pcs EXCEPT ![b] = "free", ![d] = "held"] /\ lent' = [lent EXCEPT ![b] = Absent, ![d] = c]
  OBVIOUS
<1> HIDE DEF c, d
<1>8. /\ pcs' \in [Borrowers -> Places]
      /\ \A e \in Borrowers : pcs'[e] = IF e = d THEN "held" ELSE IF e = b THEN "free" ELSE pcs[e]
  BY <1>1, <1>3, <1>7 DEF Typed, Places
<1>9. /\ lent' \in [Borrowers -> Conns \cup {Absent}]
      /\ \A e \in Borrowers : lent'[e] = IF e = d THEN c ELSE IF e = b THEN Absent ELSE lent[e]
  BY <1>1, <1>3, <1>6, <1>7 DEF Typed
<1>10. Cardinality(Busy') = Cardinality(Busy)
  <2>1. Busy' = {e \in Borrowers : pcs'[e] \in Slotted}
    BY DEF Busy, Of, Slotted
  <2>2. b \in Busy /\ d \notin Busy
    BY <1>5 DEF Busy, Of, Slotted
  <2>3. Busy' = (Busy \ {b}) \cup {d}
    BY <1>3, <1>5, <1>8, <2>1 DEF Busy, Of, Slotted
  <2>4. IsFiniteSet(Busy) /\ Cardinality(Busy) \in Nat
    BY BusyFacts
  <2>5. IsFiniteSet(Busy \ {b}) /\ Cardinality(Busy \ {b}) = Cardinality(Busy) - 1
    BY <2>2, <2>4, FS_RemoveElement
  <2>6. Cardinality((Busy \ {b}) \cup {d}) = Cardinality(Busy \ {b}) + 1
    BY <2>2, <2>5, FS_AddElement
  <2> QED
    BY <2>3, <2>4, <2>5, <2>6
<1>11. /\ pool' = pool /\ channel' = channel /\ live' = live /\ closed' = closed /\ recycler' = recycler
       /\ idle' = idle /\ count' = count /\ Probing' = Probing
  BY DEF Elsewhere, Probing
<1>12. waiters' \in Int
  BY <1>1 DEF Typed
<1>13. Typed'
  BY <1>1, <1>3, <1>8, <1>9, <1>11, <1>12 DEF Typed, Places
<1>14. Queue'
  <2>1. pcs'[d] # "parked" /\ \A e \in Borrowers : e # d => (pcs'[e] = "parked" <=> pcs[e] = "parked")
    BY <1>3, <1>8
  <2> QED
    BY <1>1, <1>2, <1>3, <1>4, <2>1, QueueLeft
<1>15. Holding'
  BY <1>1, <1>5, <1>6, <1>8, <1>9, <1>11 DEF Holding
<1>16. Apart'
  <2>1. /\ c = lent[b] /\ c # recycler.conn /\ \A e \in Borrowers : lent[e] = c => e = b
        /\ \A i \in 1..Len(idle) : idle[i] # c
    BY <1>1, <1>6 DEF Apart, c
  <2> QED
    BY <1>1, <1>3, <1>9, <1>11, <2>1, ConnsNotAbsent DEF Apart
<1>17. Counted'
  <2>1. live /\ count = Len(idle) + Cardinality(Busy) + Probing /\ waiters = Len(parked)
    BY <1>1 DEF Counted
  <2>2. waiters' = Len(parked')
    BY <1>2, <1>3, <2>1
  <2> QED
    BY <1>10, <1>11, <2>1, <2>2 DEF Counted
<1> QED
  BY <1>13, <1>14, <1>15, <1>16, <1>17 DEF RedisPoolInv

(* put() leaves the connection on the stack.                               *)
LEMMA PutIdleStep ==
  ASSUME RedisPoolAssumption, RedisPoolInv, NEW b \in Borrowers, pcs[b] = "held", ~closed,
         idle' = Append(idle, lent[b]), Move(b, "free", Absent),
         Elsewhere, UNCHANGED <<parked, waiters, count>>
  PROVE  RedisPoolInv'
<1> DEFINE c == lent[b]
<1>1. Typed /\ Queue /\ Holding /\ Apart /\ Counted
  BY DEF RedisPoolInv
<1>2. "free" \in Places /\ "free" \notin Slotted /\ pcs[b] \in Slotted
  BY DEF Places, Slotted
<1>3. /\ pcs' \in [Borrowers -> Places] /\ lent' \in [Borrowers -> Conns \cup {Absent}]
      /\ \A d \in Borrowers : /\ pcs'[d] = IF d = b THEN "free" ELSE pcs[d]
                              /\ lent'[d] = IF d = b THEN Absent ELSE lent[d]
      /\ Cardinality(Busy) \in Nat /\ Cardinality(Busy') \in Nat
      /\ Cardinality(Busy') = Cardinality(Busy) - 1
  BY <1>1, <1>2, MoveFacts
<1>4. /\ c \in Conns /\ c # Absent /\ c # recycler.conn
      /\ \A d \in Borrowers : lent[d] = c => d = b
      /\ \A i \in 1..Len(idle) : idle[i] # c
  BY <1>1 DEF Typed, Holding, Apart
<1> HIDE DEF c
<1>5. /\ idle \in Seq(Conns) /\ Len(idle) \in Nat /\ idle' = Append(idle, c)
      /\ \A i \in 1..Len(idle) : idle[i] \in Conns /\ idle[i] # Absent
  BY <1>1, ConnsNotAbsent DEF Typed, c
<1>6. /\ idle' \in Seq(Conns) /\ Len(idle') = Len(idle) + 1
      /\ \A i \in 1..Len(idle) + 1 : idle'[i] = IF i = Len(idle) + 1 THEN c ELSE idle[i]
  BY <1>4, <1>5, AppendProperties
<1>7. /\ pool' = pool /\ channel' = channel /\ live' = live /\ closed' = closed /\ recycler' = recycler
      /\ parked' = parked /\ waiters' = waiters /\ count' = count
      /\ Probing' = Probing /\ Probing \in Nat
  BY DEF Elsewhere, Probing
<1>8. Typed'
  BY <1>1, <1>3, <1>6, <1>7 DEF Typed, Places
<1>9. Queue'
  BY <1>1, <1>3, <1>7, QueueKept
<1>10. Holding'
  BY <1>1, <1>3, <1>7 DEF Holding
<1>11. Apart'
  <2>1. ASSUME NEW i \in 1..Len(idle')
        PROVE  \/ i = Len(idle) + 1 /\ idle'[i] = c
               \/ i \in 1..Len(idle) /\ idle'[i] = idle[i]
    BY <1>5, <1>6
  <2>2. \A i, j \in 1..Len(idle') : idle'[i] = idle'[j] => i = j
    BY <1>1, <1>4, <2>1 DEF Apart
  <2>3. \A i \in 1..Len(idle') : idle'[i] # recycler.conn /\ \A d \in Borrowers : idle'[i] # lent'[d]
    BY <1>1, <1>3, <1>4, <1>5, <2>1 DEF Apart
  <2>4. \A d \in Borrowers : lent'[d] # Absent =>
           lent'[d] # recycler.conn /\ \A e \in Borrowers : lent'[e] = lent'[d] => e = d
    BY <1>1, <1>3 DEF Apart
  <2> QED
    BY <1>7, <2>2, <2>3, <2>4 DEF Apart
<1>12. Counted'
  <2>1. live /\ count = Len(idle) + Cardinality(Busy) + Probing /\ waiters = Len(parked)
    BY <1>1 DEF Counted
  <2>2. count' = Len(idle') + Cardinality(Busy') + Probing'
    BY <1>3, <1>5, <1>6, <1>7, <2>1
  <2> QED
    BY <1>7, <2>1, <2>2 DEF Counted
<1> QED
  BY <1>8, <1>9, <1>10, <1>11, <1>12 DEF RedisPoolInv

LEMMA PutStep ==
  ASSUME RedisPoolAssumption, RedisPoolInv, NEW b \in Borrowers, Put(b)
  PROVE  RedisPoolInv'
<1>1. pcs[b] = "held" /\ pcs[b] \in Slotted /\ UNCHANGED <<pool, live, closed, recycler>>
  BY DEF Put, Slotted
<1>2. ASSUME closed, pcs' = [pcs EXCEPT ![b] = "free"], lent' = [lent EXCEPT ![b] = Absent],
             count' = Released(count), UNCHANGED <<idle, channel, parked, waiters>>
      PROVE  RedisPoolInv'
  <2>1. Move(b, "free", Absent) /\ Elsewhere
    BY <1>1, <1>2 DEF Move, Elsewhere
  <2>2. count' = IF live THEN count - 1 ELSE count
    BY <1>2 DEF Released
  <2>3. UNCHANGED <<idle, parked, waiters>>
    BY <1>2
  <2> QED
    BY <1>1, <2>1, <2>2, <2>3, SlotLeft
<1>3. ASSUME ~closed, live, PutOpen(b, lent[b])
      PROVE  RedisPoolInv'
  <2>1. ASSUME count' = count - 1, pcs' = [pcs EXCEPT ![b] = "free"],
               lent' = [lent EXCEPT ![b] = Absent], UNCHANGED <<idle, channel, parked, waiters>>
        PROVE  RedisPoolInv'
    <3>1. Move(b, "free", Absent) /\ Elsewhere
      BY <1>1, <2>1 DEF Move, Elsewhere
    <3>2. count' = IF live THEN count - 1 ELSE count
      BY <1>3, <2>1
    <3>3. UNCHANGED <<idle, parked, waiters>>
      BY <2>1
    <3> QED
      BY <1>1, <3>1, <3>2, <3>3, SlotLeft
  <2>2. ASSUME waiters > 0, UNCHANGED <<idle, count>>,
               IF parked = <<>>
                 THEN TRUE
                 ELSE LET d == Head(parked) IN
                      /\ parked' = Tail(parked)
                      /\ waiters' = waiters - 1
                      /\ pcs' = [pcs EXCEPT ![b] = "free", ![d] = "held"]
                      /\ lent' = [lent EXCEPT ![b] = Absent, ![d] = lent[b]]
                      /\ UNCHANGED channel
        PROVE  RedisPoolInv'
    <3>1. waiters = Len(parked)
      BY <1>3 DEF RedisPoolInv, Counted
    <3>2. parked # <<>>
      BY <2>2, <3>1
    <3>3. /\ parked' = Tail(parked) /\ waiters' = waiters - 1
          /\ pcs' = [pcs EXCEPT ![b] = "free", ![Head(parked)] = "held"]
          /\ lent' = [lent EXCEPT ![b] = Absent, ![Head(parked)] = lent[b]]
          /\ UNCHANGED channel
      BY <2>2, <3>2
    <3>4. Elsewhere
      BY <1>1, <3>3 DEF Elsewhere
    <3>5. UNCHANGED <<idle, count>>
      BY <2>2
    <3> QED
      BY <1>1, <1>3, <3>2, <3>3, <3>4, <3>5, HandOffStep
  <2>3. ASSUME idle' = Append(idle, lent[b]), pcs' = [pcs EXCEPT ![b] = "free"],
               lent' = [lent EXCEPT ![b] = Absent], UNCHANGED <<channel, parked, waiters, count>>
        PROVE  RedisPoolInv'
    <3>1. Move(b, "free", Absent) /\ Elsewhere
      BY <1>1, <2>3 DEF Move, Elsewhere
    <3>2. UNCHANGED <<parked, waiters, count>>
      BY <2>3
    <3> QED
      BY <1>1, <1>3, <2>3, <3>1, <3>2, PutIdleStep
  <2> QED
    BY <1>3, <2>1, <2>2, <2>3 DEF PutOpen
<1> QED
  BY <1>2, <1>3 DEF Put

-----------------------------------------------------------------------------
(* The timer.  Its actions change the stack, the count and its own state.  *)
ByTimer == UNCHANGED <<pool, channel, parked, live, waiters, closed, pcs, lent>>

LEMMA TimerStep ==
  ASSUME RedisPoolAssumption, RedisPoolInv, ByTimer, ~closed,
         idle' \in Seq(Conns), recycler' \in Timers, count' \in Int,
         \A i, j \in 1..Len(idle') : idle'[i] = idle'[j] => i = j,
         \A i \in 1..Len(idle') :
            idle'[i] # recycler'.conn /\ \A b \in Borrowers : idle'[i] # lent[b],
         recycler'.pc = "probe" <=> recycler'.conn # Absent,
         \A b \in Borrowers : lent[b] # Absent => lent[b] # recycler'.conn,
         count' = Len(idle') + Cardinality(Busy) + Probing'
  PROVE  RedisPoolInv'
<1>1. Typed /\ Queue /\ Holding /\ Apart /\ Counted
  BY DEF RedisPoolInv
<1>2. /\ pool' = pool /\ channel' = channel /\ parked' = parked /\ live' = live
      /\ waiters' = waiters /\ closed' = closed /\ pcs' = pcs /\ lent' = lent
  BY DEF ByTimer
<1>3. Busy' = Busy
  BY <1>2, SameBusy
<1>4. Typed'
  BY <1>1, <1>2 DEF Typed, Places, Timers
<1>5. Queue'
  BY <1>1, <1>2, QueueKept
<1>6. Holding'
  BY <1>1, <1>2 DEF Holding
<1>7. Apart'
  BY <1>1, <1>2 DEF Apart
<1>8. Counted'
  BY <1>1, <1>2, <1>3 DEF Counted
<1> QED
  BY <1>4, <1>5, <1>6, <1>7, <1>8 DEF RedisPoolInv

LEMMA TimerStops ==
  ASSUME RedisPoolAssumption, RedisPoolInv, ByTimer, recycler' = Off, UNCHANGED <<idle, count>>,
         closed \/ recycler.pc # "probe"
  PROVE  RedisPoolInv'
<1>1. Typed /\ Queue /\ Holding /\ Apart /\ Counted
  BY DEF RedisPoolInv
<1>2. /\ pool' = pool /\ channel' = channel /\ parked' = parked /\ live' = live
      /\ waiters' = waiters /\ closed' = closed /\ pcs' = pcs /\ lent' = lent
      /\ idle' = idle /\ count' = count
  BY DEF ByTimer
<1>3. Busy' = Busy
  BY <1>2, SameBusy
<1>4. recycler' \in Timers /\ recycler'.pc = "off" /\ recycler'.conn = Absent /\ Probing' = 0
  BY DEF Off, Timers, Probing
<1>5. Typed'
  BY <1>1, <1>2, <1>4 DEF Typed, Places
<1>6. Queue'
  BY <1>1, <1>2, QueueKept
<1>7. Holding'
  BY <1>1, <1>2, <1>4 DEF Holding
<1>8. Apart'
  BY <1>1, <1>2, <1>4, ConnsNotAbsent DEF Apart
<1>9. Counted'
  <2>1. ~closed => Probing = 0
    BY DEF Probing
  <2>2. ~closed => count = Len(idle) + Cardinality(Busy) + Probing'
    BY <1>1, <1>4, <2>1 DEF Counted
  <2> QED
    BY <1>1, <1>2, <1>3, <2>2 DEF Counted
<1> QED
  BY <1>5, <1>6, <1>7, <1>8, <1>9 DEF RedisPoolInv

(* A scan of a stack that is nobody's, with its slots and the busy ones    *)
(* counted.                                                                *)
LEMMA ScanStep ==
  ASSUME RedisPoolAssumption, RedisPoolInv, ByTimer, ~closed,
         NEW stack \in Seq(Conns), NEW n, NEW left \in Nat, NEW cached \in Int,
         n = Len(stack) + Cardinality(Busy),
         \A i, j \in 1..Len(stack) : stack[i] = stack[j] => i = j,
         \A i \in 1..Len(stack) : \A b \in Borrowers : stack[i] # lent[b],
         Scan(stack, n, left, cached)
  PROVE  RedisPoolInv'
<1>1. PICK gone \in 0..left :
         LET rest == left - gone
             deep == Len(stack) - gone
         IN /\ deep >= 0 /\ count' = n - gone
            /\ \/ /\ rest > 0 /\ deep > 0
                  /\ idle' = SubSeq(stack, 1, deep - 1)
                  /\ recycler' = [pc |-> "probe", conn |-> stack[deep], left |-> rest - 1,
                                  cached |-> cached - gone]
               \/ /\ idle' = SubSeq(stack, 1, deep)
                  /\ \/ recycler' = [Off EXCEPT !.pc = "refill", !.cached = cached - gone]
                     \/ recycler' = Off
  BY DEF Scan
<1> DEFINE rest == left - gone
           deep == Len(stack) - gone
<1>2. Len(stack) \in Nat /\ gone \in Nat /\ Cardinality(Busy) \in Nat
  BY BusyFacts, LenProperties
<1>3. deep \in 0..Len(stack) /\ rest \in Int /\ cached - gone \in Int
  BY <1>1, <1>2
<1>4. count' = deep + Cardinality(Busy) /\ count' \in Int
  BY <1>1, <1>2
<1>5. \A i \in 1..Len(stack) : stack[i] \in Conns /\ stack[i] # Absent
  BY ElementOfSeq DEF RedisPoolAssumption
<1>6. CASE /\ rest > 0 /\ deep > 0 /\ idle' = SubSeq(stack, 1, deep - 1)
           /\ recycler' = [pc |-> "probe", conn |-> stack[deep], left |-> rest - 1,
                           cached |-> cached - gone]
  <2>1. deep - 1 \in 0..Len(stack) /\ deep \in 1..Len(stack) /\ rest - 1 \in Nat
    BY <1>2, <1>3, <1>6
  <2> HIDE DEF deep, rest
  <2>2. /\ idle' \in Seq(Conns) /\ Len(idle') = deep - 1
        /\ \A i \in 1..deep - 1 : idle'[i] = stack[i]
    BY <1>6, <2>1, PrefixFacts
  <2>3. recycler' \in Timers
    BY <1>3, <1>5, <1>6, <2>1 DEF Timers
  <2>4. recycler'.pc = "probe" /\ recycler'.conn = stack[deep] /\ Probing' = 1
    BY <1>6 DEF Probing
  <2>5. ASSUME NEW i \in 1..Len(idle')
        PROVE  i \in 1..Len(stack) /\ i # deep /\ idle'[i] = stack[i]
    BY <1>2, <1>3, <2>1, <2>2
  <2>6. \A i, j \in 1..Len(idle') : idle'[i] = idle'[j] => i = j
    BY <2>5
  <2>7. \A i \in 1..Len(idle') :
           idle'[i] # recycler'.conn /\ \A b \in Borrowers : idle'[i] # lent[b]
    BY <2>1, <2>4, <2>5
  <2>8. recycler'.pc = "probe" <=> recycler'.conn # Absent
    BY <1>5, <2>1, <2>4
  <2>9. \A b \in Borrowers : lent[b] # Absent => lent[b] # recycler'.conn
    BY <2>1, <2>4
  <2>10. count' = Len(idle') + Cardinality(Busy) + Probing'
    BY <1>2, <1>3, <1>4, <2>2, <2>4
  <2> QED
    BY <1>4, <2>2, <2>3, <2>6, <2>7, <2>8, <2>9, <2>10, TimerStep
<1>7. CASE /\ idle' = SubSeq(stack, 1, deep)
           /\ \/ recycler' = [Off EXCEPT !.pc = "refill", !.cached = cached - gone]
              \/ recycler' = Off
  <2> HIDE DEF deep, rest
  <2>1. /\ idle' \in Seq(Conns) /\ Len(idle') = deep
        /\ \A i \in 1..deep : idle'[i] = stack[i]
    BY <1>3, <1>7, PrefixFacts
  <2>2. recycler' \in Timers /\ recycler'.pc # "probe" /\ recycler'.conn = Absent /\ Probing' = 0
    <3>1. CASE recycler' = Off
      BY <3>1 DEF Off, Timers, Probing
    <3>2. CASE recycler' = [Off EXCEPT !.pc = "refill", !.cached = cached - gone]
      <4>1. recycler' = [pc |-> "refill", conn |-> Absent, left |-> 0, cached |-> cached - gone]
        BY <3>2 DEF Off
      <4> QED
        BY <1>3, <4>1 DEF Timers, Probing
    <3> QED
      BY <1>7, <3>1, <3>2
  <2>3. ASSUME NEW i \in 1..Len(idle')
        PROVE  i \in 1..Len(stack) /\ idle'[i] = stack[i]
    BY <1>2, <1>3, <2>1
  <2>4. \A i, j \in 1..Len(idle') : idle'[i] = idle'[j] => i = j
    BY <2>3
  <2>5. \A i \in 1..Len(idle') :
           idle'[i] # recycler'.conn /\ \A b \in Borrowers : idle'[i] # lent[b]
    BY <1>5, <2>2, <2>3
  <2>6. \A b \in Borrowers : lent[b] # Absent => lent[b] # recycler'.conn
    BY <2>2
  <2>7. count' = Len(idle') + Cardinality(Busy) + Probing'
    BY <1>2, <1>3, <1>4, <2>1, <2>2
  <2> QED
    BY <1>4, <2>1, <2>2, <2>4, <2>5, <2>6, <2>7, TimerStep
<1> QED
  BY <1>1, <1>6, <1>7

LEMMA RecycleStep ==
  ASSUME RedisPoolAssumption, RedisPoolInv, RecycleIdle
  PROVE  RedisPoolInv'
<1>1. Typed /\ Holding /\ Apart /\ Counted
  BY DEF RedisPoolInv
<1>2. /\ recycler.pc = "off" /\ ~closed /\ ByTimer /\ Scan(idle, count, Len(idle), count)
  BY DEF RecycleIdle, ByTimer
<1>3. idle \in Seq(Conns) /\ Len(idle) \in Nat /\ count \in Int
  BY <1>1, ConnsNotAbsent DEF Typed
<1>4. count = Len(idle) + Cardinality(Busy)
  <2>1. Probing = 0
    BY <1>2 DEF Probing
  <2>2. count = Len(idle) + Cardinality(Busy) + Probing
    BY <1>1, <1>2 DEF Counted
  <2> QED
    BY <1>3, <2>1, <2>2, BusyFacts
<1>5. /\ \A i, j \in 1..Len(idle) : idle[i] = idle[j] => i = j
      /\ \A i \in 1..Len(idle) : \A b \in Borrowers : idle[i] # lent[b]
  BY <1>1 DEF Apart
<1> QED
  BY <1>2, <1>3, <1>4, <1>5, ScanStep

LEMMA ProbedStep ==
  ASSUME RedisPoolAssumption, RedisPoolInv, Probed
  PROVE  RedisPoolInv'
<1>1. Typed /\ Holding /\ Apart /\ Counted
  BY DEF RedisPoolInv
<1>2. recycler.pc = "probe" /\ ByTimer
  BY DEF Probed, ByTimer
<1> DEFINE c == recycler.conn
           stack == Append(idle, c)
<1>3. c \in Conns /\ c # Absent /\ recycler.left \in Nat
  BY <1>1, <1>2 DEF Typed, Timers, Holding
<1>4. /\ idle \in Seq(Conns) /\ Len(idle) \in Nat /\ count \in Int
      /\ Cardinality(Busy) \in Nat
  BY <1>1, BusyFacts, ConnsNotAbsent DEF Typed
<1>5. ~closed => count = Len(idle) + Cardinality(Busy) + 1
  BY <1>1, <1>2 DEF Counted, Probing
<1>6. /\ \A i, j \in 1..Len(idle) : idle[i] = idle[j] => i = j
      /\ \A i \in 1..Len(idle) : idle[i] # c /\ \A b \in Borrowers : idle[i] # lent[b]
      /\ \A b \in Borrowers : c # lent[b]
  BY <1>1, <1>3 DEF Apart
<1>7. CASE closed /\ recycler' = Off /\ UNCHANGED <<idle, count>>
  BY <1>2, <1>7, TimerStops
<1>8. CASE ~closed /\ Scan(stack, count, recycler.left, count)
  <2> HIDE DEF c
  <2>1. /\ stack \in Seq(Conns) /\ Len(stack) = Len(idle) + 1
        /\ \A i \in 1..Len(idle) + 1 : stack[i] = IF i = Len(idle) + 1 THEN c ELSE idle[i]
    BY <1>3, <1>4, AppendProperties
  <2> HIDE DEF stack
  <2>2. count = Len(stack) + Cardinality(Busy)
    BY <1>4, <1>5, <1>8, <2>1
  <2>3. ASSUME NEW i \in 1..Len(stack)
        PROVE  \/ i = Len(idle) + 1 /\ stack[i] = c
               \/ i \in 1..Len(idle) /\ stack[i] = idle[i]
    BY <1>4, <2>1
  <2>4. \A i, j \in 1..Len(stack) : stack[i] = stack[j] => i = j
    BY <1>6, <2>3
  <2>5. \A i \in 1..Len(stack) : \A b \in Borrowers : stack[i] # lent[b]
    BY <1>6, <2>3
  <2> QED
    BY <1>2, <1>3, <1>4, <1>8, <2>1, <2>2, <2>4, <2>5, ScanStep
<1>9. CASE ~closed /\ Scan(idle, count - 1, recycler.left, count - 1)
  <2>1. count - 1 = Len(idle) + Cardinality(Busy) /\ count - 1 \in Int
    BY <1>4, <1>5, <1>9
  <2> QED
    BY <1>2, <1>3, <1>4, <1>6, <1>9, <2>1, ScanStep
<1> QED
  BY <1>7, <1>8, <1>9 DEF Probed

LEMMA RefilledStep ==
  ASSUME RedisPoolAssumption, RedisPoolInv, Refilled
  PROVE  RedisPoolInv'
<1>1. Typed /\ Holding /\ Apart /\ Counted
  BY DEF RedisPoolInv
<1>2. recycler.pc = "refill" /\ ByTimer
  BY DEF Refilled, ByTimer
<1>3. CASE recycler' = Off /\ UNCHANGED <<idle, count>>
  BY <1>2, <1>3, TimerStops
<1>4. CASE /\ ~closed /\ Spare # {} /\ idle' = Append(idle, Fresh) /\ count' = count + 1
           /\ recycler' = [recycler EXCEPT !.cached = @ + 1] \/ recycler' = Off
  <2> DEFINE c == Fresh
  <2>1. /\ c \in Conns /\ c # Absent
        /\ \A i \in 1..Len(idle) : idle[i] # c
        /\ \A b \in Borrowers : lent[b] # c
    BY <1>1, <1>4, SpareFacts DEF RedisPoolAssumption
  <2> HIDE DEF c
  <2>2. /\ idle \in Seq(Conns) /\ Len(idle) \in Nat /\ count \in Int
        /\ Cardinality(Busy) \in Nat /\ idle' = Append(idle, c)
        /\ \A i \in 1..Len(idle) : idle[i] # Absent
    BY <1>1, <1>4, BusyFacts, ConnsNotAbsent DEF Typed, c
  <2>3. /\ idle' \in Seq(Conns) /\ Len(idle') = Len(idle) + 1
        /\ \A i \in 1..Len(idle) + 1 : idle'[i] = IF i = Len(idle) + 1 THEN c ELSE idle[i]
    BY <2>1, <2>2, AppendProperties
  <2>4. recycler' \in Timers /\ recycler'.pc # "probe" /\ recycler'.conn = Absent
    <3>1. CASE recycler' = Off
      BY <3>1 DEF Off, Timers
    <3>2. CASE recycler' = [recycler EXCEPT !.cached = @ + 1]
      <4>1. recycler \in Timers /\ recycler.pc # "probe" /\ recycler.conn = Absent
        BY <1>1, <1>2 DEF Typed, Holding
      <4> QED
        BY <3>2, <4>1 DEF Timers
    <3> QED
      BY <1>4, <3>1, <3>2
  <2>5. ASSUME NEW i \in 1..Len(idle')
        PROVE  \/ i = Len(idle) + 1 /\ idle'[i] = c
               \/ i \in 1..Len(idle) /\ idle'[i] = idle[i]
    BY <2>2, <2>3
  <2>6. \A i, j \in 1..Len(idle') : idle'[i] = idle'[j] => i = j
    BY <1>1, <2>1, <2>5 DEF Apart
  <2>7. \A i \in 1..Len(idle') :
           idle'[i] # recycler'.conn /\ \A b \in Borrowers : idle'[i] # lent[b]
    BY <1>1, <2>1, <2>2, <2>4, <2>5 DEF Apart
  <2>8. \A b \in Borrowers : lent[b] # Absent => lent[b] # recycler'.conn
    BY <2>4
  <2>9. count' = Len(idle') + Cardinality(Busy) + Probing' /\ count' \in Int
    <3>1. Probing = 0 /\ Probing' = 0
      BY <1>2, <2>4 DEF Probing
    <3>2. count = Len(idle) + Cardinality(Busy) + Probing
      BY <1>1, <1>4 DEF Counted
    <3> QED
      BY <1>4, <2>2, <2>3, <3>1, <3>2
  <2> QED
    BY <1>2, <1>4, <2>3, <2>4, <2>6, <2>7, <2>8, <2>9, TimerStep
<1> QED
  BY <1>3, <1>4 DEF Refilled

-----------------------------------------------------------------------------
(* close()                                                                 *)

(* Who is in the queue is woken; nobody stays parked.                      *)
LEMMA WokenFacts ==
  ASSUME Typed, Queue, Finished
  PROVE  /\ pcs' \in [Borrowers -> Places]
         /\ \A b \in Borrowers : pcs'[b] = IF pcs[b] = "parked" THEN "free" ELSE pcs[b]
<1>1. pcs \in [Borrowers -> Places] /\ parked \in Seq(Borrowers)
  BY DEF Typed
<1>2. ASSUME NEW b \in Borrowers PROVE b \in ToSet(parked) <=> pcs[b] = "parked"
  <2>1. DOMAIN parked = 1..Len(parked)
    BY <1>1
  <2> QED
    BY <2>1 DEF Queue, ToSet
<1> QED
  BY <1>1, <1>2 DEF Finished, Places

LEMMA FinishedStep ==
  ASSUME RedisPoolAssumption, RedisPoolInv, Finished, closed' = TRUE, waiters' \in Int,
         UNCHANGED <<pool, lent, recycler>>, idle' = idle \/ idle' = <<>>
  PROVE  RedisPoolInv'
<1>1. Typed /\ Queue /\ Holding /\ Apart
  BY DEF RedisPoolInv
<1>2. /\ pool' = pool /\ lent' = lent /\ recycler' = recycler
      /\ parked' = <<>> /\ channel' = <<>> /\ live' = FALSE /\ count' = 0
  BY DEF Finished
<1>3. /\ pcs' \in [Borrowers -> Places]
      /\ \A b \in Borrowers : pcs'[b] = IF pcs[b] = "parked" THEN "free" ELSE pcs[b]
  BY <1>1, WokenFacts
<1>4. idle' \in Seq(Conns) /\ parked' \in Seq(Borrowers)
  <2>1. idle \in Seq(Conns) /\ <<>> \in Seq(Conns) /\ <<>> \in Seq(Borrowers)
    BY <1>1 DEF Typed
  <2> QED
    BY <1>2, <2>1
<1>5. Typed'
  <2>1. pool' \in Pools /\ lent' \in [Borrowers -> Conns \cup {Absent}] /\ recycler' \in Timers
    BY <1>1, <1>2 DEF Typed
  <2>2. live' \in BOOLEAN /\ closed' \in BOOLEAN
    BY <1>2
  <2>3. count' \in Int /\ waiters' \in Int
    BY <1>2
  <2> QED
    BY <1>2, <1>3, <1>4, <2>1, <2>2, <2>3 DEF Typed, Places, Timers
<1>6. Queue'
  <2>1. Len(parked') = 0
    BY <1>2
  <2> QED
    BY <1>3, <2>1 DEF Queue
<1>7. Holding'
  BY <1>1, <1>2, <1>3 DEF Holding
<1>8. Apart'
  <2>1. CASE idle' = idle
    BY <1>1, <1>2, <2>1 DEF Apart
  <2>2. CASE idle' = <<>>
    <3>1. Len(idle') = 0
      BY <2>2
    <3> QED
      BY <1>1, <1>2, <3>1 DEF Apart
  <2> QED
    BY <2>1, <2>2
<1>9. Counted'
  BY <1>2 DEF Counted
<1> QED
  BY <1>5, <1>6, <1>7, <1>8, <1>9 DEF RedisPoolInv

(* close() starts to wait for the slots that are still out.                *)
LEMMA DrainStep ==
  ASSUME RedisPoolAssumption, RedisPoolInv, ~closed, closed' = TRUE, waiters' = 0, idle' = <<>>,
         count' = count - Len(idle) - Len(channel), channel' = <<>>,
         UNCHANGED <<pool, parked, live, pcs, lent, recycler>>
  PROVE  RedisPoolInv'
<1>1. Typed /\ Queue /\ Holding /\ Apart /\ Counted
  BY DEF RedisPoolInv
<1>2. /\ pool' = pool /\ parked' = parked /\ live' = live /\ pcs' = pcs /\ lent' = lent
      /\ recycler' = recycler
  OBVIOUS
<1>3. Busy' = Busy
  BY <1>2, SameBusy
<1>4. Len(idle) \in Nat /\ Cardinality(Busy) \in Nat /\ Probing \in Nat /\ Len(channel) = 0
  BY <1>1, BusyFacts, ConnsNotAbsent DEF Probing, Typed
<1>5. live /\ count = Len(idle) + Cardinality(Busy) + Probing
  BY <1>1 DEF Counted
<1>6. count' = Cardinality(Busy) + Probing /\ count' \in Int
  BY <1>4, <1>5
<1>7. Typed'
  BY <1>1, <1>2, <1>6 DEF Typed, Places, Timers
<1>8. Queue'
  BY <1>1, <1>2, QueueKept
<1>9. Holding'
  BY <1>1, <1>2 DEF Holding
<1>10. Apart'
  <2>1. Len(idle') = 0
    OBVIOUS
  <2> QED
    BY <1>1, <1>2, <2>1 DEF Apart
<1>11. Counted'
  <2>1. count' >= Cardinality(Busy')
    BY <1>3, <1>4, <1>6
  <2> QED
    BY <1>2, <1>5, <2>1 DEF Counted
<1> QED
  BY <1>7, <1>8, <1>9, <1>10, <1>11 DEF RedisPoolInv

(* Outside a coroutine everything stays where it is, and counts no more.   *)
LEMMA OutsideStep ==
  ASSUME RedisPoolAssumption, RedisPoolInv, CloseOutside
  PROVE  RedisPoolInv'
<1>1. Typed /\ Queue /\ Holding /\ Apart
  BY DEF RedisPoolInv
<1>2. /\ UNCHANGED <<pool, idle, parked, pcs, lent, recycler>>
      /\ channel' = <<>> /\ live' = FALSE /\ count' = 0 /\ closed' = TRUE /\ waiters' = 0
  BY DEF CloseOutside
<1>3. Typed'
  <2>1. live' \in BOOLEAN /\ closed' \in BOOLEAN
    BY <1>2
  <2>2. count' \in Int /\ waiters' \in Int
    BY <1>2
  <2> QED
    BY <1>1, <1>2, <2>1, <2>2 DEF Typed, Timers
<1>4. Queue'
  BY <1>1, <1>2, QueueKept
<1>5. Holding'
  BY <1>1, <1>2 DEF Holding
<1>6. Apart'
  BY <1>1, <1>2 DEF Apart
<1>7. Counted'
  BY <1>2 DEF Counted
<1> QED
  BY <1>3, <1>4, <1>5, <1>6, <1>7 DEF RedisPoolInv

LEMMA CloseStep ==
  ASSUME RedisPoolAssumption, RedisPoolInv, Draining, Close \/ Waited \/ CloseOutside
  PROVE  RedisPoolInv'
<1>1. CASE Close
  <2>1. ~closed /\ closed' = TRUE /\ waiters' = 0 /\ idle' = <<>> /\ UNCHANGED <<pool, lent, recycler>>
    BY <1>1 DEF Close
  <2>2. CASE Finished
    BY <2>1, <2>2, FinishedStep
  <2>3. CASE count' = count - Len(idle) - Len(channel) /\ channel' = <<>> /\ UNCHANGED <<parked, pcs, live>>
    BY <2>1, <2>3, DrainStep
  <2> QED
    BY <1>1, <2>2, <2>3 DEF Close
<1>2. CASE Waited
  <2>1. UNCHANGED <<pool, lent, recycler, idle, waiters, closed>>
    BY <1>2 DEF Waited
  <2>2. CASE UNCHANGED <<parked, pcs, count, live, channel>>
    BY <2>1, <2>2 DEF RedisPoolInv, Typed, Queue, Holding, Apart, Counted, Busy, Of, Probing
  <2>3. CASE Finished
    <3>1. closed' = TRUE /\ waiters' \in Int
      <4>1. closed
        BY <1>2 DEF Typed, Waited, Draining
      <4> QED
        BY <2>1, <4>1 DEF RedisPoolInv, Typed
    <3> QED
      BY <2>1, <2>3, <3>1, FinishedStep
  <2> QED
    BY <1>2, <2>2, <2>3 DEF Waited
<1>3. CASE CloseOutside
  BY <1>3, OutsideStep
<1> QED
  BY <1>1, <1>2, <1>3

-----------------------------------------------------------------------------
LEMMA RedisPoolInitInv ==
  ASSUME RedisPoolAssumption, RedisPoolInit
  PROVE  RedisPoolInv /\ Draining
<1>1. PICK n \in 0..pool.min :
         /\ idle = CHOOSE s \in [1..n -> Conns] : IsInjective(s)
         /\ count = n
  BY DEF RedisPoolInit
<1>2. pool \in Pools /\ n \in Nat /\ \E s \in [1..n -> Conns] : IsInjective(s)
  BY DEF RedisPoolInit, RedisPoolAssumption
<1>3. idle \in [1..n -> Conns] /\ IsInjective(idle)
  BY <1>1, <1>2
<1>4. idle \in Seq(Conns) /\ Len(idle) = n
  BY <1>2, <1>3, IsASeq, LenProperties
<1>5. /\ channel = <<>> /\ parked = <<>> /\ live = TRUE /\ waiters = 0 /\ closed = FALSE
      /\ pcs = [b \in Borrowers |-> "free"] /\ lent = [b \in Borrowers |-> Absent]
      /\ recycler = Off /\ closer = Absent
  BY DEF RedisPoolInit
<1>6. recycler \in Timers /\ recycler.pc = "off" /\ recycler.conn = Absent /\ Probing = 0
  BY <1>5 DEF Off, Timers, Probing
<1>7. \A i \in 1..Len(idle) : idle[i] \in Conns /\ idle[i] # Absent
  BY <1>3, <1>4 DEF RedisPoolAssumption
<1>8. Typed
  <2>1. pcs \in [Borrowers -> Places]
    BY <1>5 DEF Places
  <2>2. lent \in [Borrowers -> Conns \cup {Absent}] /\ parked \in Seq(Borrowers)
    BY <1>5
  <2>3. live \in BOOLEAN /\ closed \in BOOLEAN
    BY <1>5
  <2>4. count \in Int /\ waiters \in Int
    BY <1>1, <1>2, <1>5
  <2> QED
    BY <1>2, <1>4, <1>5, <1>6, <2>1, <2>2, <2>3, <2>4 DEF Typed
<1>9. Queue
  BY <1>5 DEF Queue
<1>10. Holding
  BY <1>5, <1>6 DEF Holding
<1>11. Apart
  BY <1>3, <1>4, <1>5, <1>6, <1>7 DEF Apart, IsInjective
<1>12. Counted
  <2>1. Busy = {}
    BY <1>5 DEF Busy, Of, Slotted
  <2>2. Cardinality(Busy) = 0
    BY <2>1, FS_EmptySet
  <2> QED
    BY <1>1, <1>2, <1>4, <1>5, <1>6, <2>2 DEF Counted
<1> QED
  BY <1>5, <1>8, <1>9, <1>10, <1>11, <1>12 DEF RedisPoolInv, Draining

LEMMA DrainingStep ==
  ASSUME Draining, RedisPoolNext
  PROVE  Draining'
<1>1. \/ closer' = closer /\ closed' = closed
      \/ closed' = TRUE
      \/ Waited
  BY DEF RedisPoolNext, Get, Created, TimedOut, TimedOutClosed, Put, Reconnect, RecycleIdle,
         Probed, Refilled, Close, CloseOutside
<1>2. CASE Waited
  BY <1>2 DEF Waited, Draining
<1> QED
  BY <1>1, <1>2 DEF Draining

LEMMA RedisPoolStep ==
  ASSUME RedisPoolAssumption, RedisPoolInv, Draining, [RedisPoolNext]_poolVars
  PROVE  RedisPoolInv' /\ Draining'
<1>1. CASE RedisPoolNext
  <2>1. RedisPoolInv'
    BY <1>1, GetStep, CreatedStep, LeavesStep, PutStep, ReconnectStep, RecycleStep, ProbedStep,
       RefilledStep, CloseStep DEF RedisPoolNext
  <2> QED
    BY <1>1, <2>1, DrainingStep
<1>2. CASE UNCHANGED poolVars
  BY <1>2 DEF poolVars, RedisPoolInv, Typed, Queue, Holding, Apart, Counted, Busy, Of, Probing,
              Draining
<1> QED
  BY <1>1, <1>2

LEMMA RedisPoolInvExact ==
  ASSUME RedisPoolAssumption, RedisPoolInv
  PROVE  RedisPoolExact
<1>1. Typed /\ Holding /\ Apart /\ Counted
  BY DEF RedisPoolInv
<1>2. SlotsExact
  <2>1. {"held", "create", "overflow"} = Slotted
    BY DEF Slotted
  <2>2. Of({"held", "create", "overflow"}) = Busy
    BY <2>1 DEF Busy
  <2> QED
    BY <1>1, <2>2 DEF Counted, SlotsExact
<1>3. LendsOnce
  <2>1. DOMAIN idle = 1..Len(idle)
    BY <1>1 DEF Typed
  <2>2. IsInjective(idle)
    BY <1>1, <2>1 DEF Apart, IsInjective
  <2>3. \A b \in Borrowers : lent[b] \notin ToSet(idle)
    BY <1>1, <2>1 DEF Apart, ToSet
  <2>4. recycler.conn \notin ToSet(idle)
    BY <1>1, <2>1 DEF Apart, ToSet
  <2>5. \A b \in Of({"held"}) : /\ b \in Borrowers /\ lent[b] # Absent
                                /\ lent[b] # recycler.conn
                                /\ \A d \in Borrowers : lent[d] = lent[b] => d = b
    BY <1>1 DEF Holding, Apart, Of
  <2>6. Of({"held"}) \subseteq Borrowers
    BY DEF Of
  <2> QED
    BY <2>2, <2>3, <2>4, <2>5, <2>6 DEF LendsOnce
<1> QED
  BY <1>2, <1>3 DEF RedisPoolExact

(* No slot of the pool is lost or invented and no connection lent twice,   *)
(* whatever the numbers of coroutines and connections and the              *)
(* configuration (src/cache/redis_pool.c, get, put, remove, recycleIdle,   *)
(* close).                                                                 *)
THEOREM RedisPoolCorrect ==
  ASSUME RedisPoolAssumption
  PROVE  RedisPoolSpec => []RedisPoolExact
<1>1. RedisPoolInit => RedisPoolInv /\ Draining
  BY RedisPoolInitInv
<1>2. RedisPoolInv /\ Draining /\ [RedisPoolNext]_poolVars => (RedisPoolInv /\ Draining)'
  BY RedisPoolStep
<1>3. RedisPoolInv => RedisPoolExact
  BY RedisPoolInvExact
<1> QED
  BY <1>1, <1>2, <1>3, PTL DEF RedisPoolSpec

(* The counter never goes below zero: not while close() drains, nor after  *)
(* it has reset the counter, when connections still come back.             *)
THEOREM RedisCountNatural ==
  ASSUME RedisPoolAssumption
  PROVE  RedisPoolSpec => [](count \in Nat)
<1>1. RedisPoolInit => RedisPoolInv /\ Draining
  BY RedisPoolInitInv
<1>2. RedisPoolInv /\ Draining /\ [RedisPoolNext]_poolVars => (RedisPoolInv /\ Draining)'
  BY RedisPoolStep
<1>3. ASSUME RedisPoolInv PROVE count \in Nat
  <2>1. Typed /\ Counted /\ live \in BOOLEAN /\ closed \in BOOLEAN /\ count \in Int
    BY <1>3 DEF RedisPoolInv, Typed
  <2>2. Len(idle) \in Nat /\ Cardinality(Busy) \in Nat /\ Probing \in Nat
    BY <2>1, BusyFacts, ConnsNotAbsent DEF Probing
  <2>3. CASE ~closed
    <3>1. count = Len(idle) + Cardinality(Busy) + Probing
      BY <2>1, <2>3 DEF Counted
    <3> QED
      BY <2>2, <3>1
  <2>4. CASE closed /\ live
    <3>1. count >= Cardinality(Busy)
      BY <2>1, <2>4 DEF Counted
    <3> QED
      BY <2>1, <2>2, <3>1
  <2>5. CASE ~live
    BY <2>1, <2>5 DEF Counted
  <2> QED
    BY <2>3, <2>4, <2>5
<1> QED
  BY <1>1, <1>2, <1>3, PTL DEF RedisPoolSpec
================================================================================
