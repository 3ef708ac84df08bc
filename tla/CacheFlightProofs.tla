--------------------------- MODULE CacheFlightProofs ---------------------------
(***************************************************************************)
(* Proofs about CacheFlight for every number of coroutines, keys and       *)
(* flights, any depth of calls within calls, and any callbacks.            *)
(*                                                                         *)
(* The stacks of all coroutines are seen as one table of calls, View, of   *)
(* which each action changes one entry.  FlightInv says which calls hold   *)
(* a flight (Shaped), that a flight has one leader (LedOnce), whose        *)
(* channel is in its list (Listed), and that the innermost call of a       *)
(* coroutine is the only one that may be parked (Nested).                  *)
(***************************************************************************)
EXTENDS CacheFlight, DataFacts, FiniteSetTheorems, TLAPS

Slots == Coros \X (1..MaxDepth)
Nobody == [key |-> None, at |-> "none", flight |-> None, lead |-> FALSE, out |-> "error"]
View == [i \in Slots |-> IF i[2] <= Len(stack[i[1]]) THEN stack[i[1]][i[2]] ELSE Nobody]

Here(c) == <<c, Len(stack[c])>>
Above(c) == <<c, Len(stack[c]) + 1>>

(* The types, without the sign of the counters: that follows from Counted. *)
Typed ==
    /\ stack \in [Coros -> Seq(FrameType)]
    /\ \A c \in Coros : Len(stack[c]) <= MaxDepth
    /\ table \in [Keys -> Flights \cup {None}]
    /\ refs \in [Flights -> Int] /\ fillers \in [Flights -> Int]
    /\ waiters \in [Flights -> Seq(Slots)]

Nested == \A c \in Coros : \A d \in 1..Len(stack[c]) - 1 : stack[c][d].at = "load"

Shape(x) ==
    /\ x.flight # None <=> x.at \in {"wait", "load", "notify"}
    /\ x.at = "notify" => x.lead
    /\ x.at \in {"get", "hit", "miss", "wait"} => ~x.lead
Shaped == \A i \in Slots : Shape(View[i])

LedOnce ==
    \A i, j \in Slots :
        /\ View[i].lead /\ View[j].lead
        /\ View[i].flight = View[j].flight /\ View[i].flight # None
        => i = j

Listed ==
    \A f \in Flights : \A n \in 1..Len(waiters[f]) :
        /\ View[waiters[f][n]].at = "wait" /\ View[waiters[f][n]].flight = f
        /\ \A m \in 1..Len(waiters[f]) : waiters[f][m] = waiters[f][n] => m = n

(* WaiterHasLeader, InflightExact and RefsExact, said of View.             *)
Served ==
    \A i \in Slots : View[i].at = "wait" =>
        /\ \E n \in 1..Len(waiters[View[i].flight]) : waiters[View[i].flight][n] = i
        /\ \E j \in Slots : View[j].lead /\ View[j].flight = View[i].flight

Leads(x) == x.lead /\ x.at = "load"
Landed == \A i \in Slots : Leads(View[i]) => table[View[i].key] = View[i].flight
Flown ==
    \A k \in Keys : table[k] # None =>
        \E i \in Slots : Leads(View[i]) /\ View[i].key = k /\ View[i].flight = table[k]

Held(f) == {i \in Slots : View[i].flight = f}
Filling(f) == {i \in Slots : View[i].flight = f /\ View[i].at = "load"}
Keyed(f) == {k \in Keys : table[k] = f}
Counted ==
    \A f \in Flights :
        /\ refs[f] = Cardinality(Held(f)) + Cardinality(Keyed(f))
        /\ fillers[f] = Cardinality(Filling(f))

FlightInv ==
    /\ Typed /\ Nested
    /\ Shaped /\ LedOnce /\ Listed /\ Served /\ Landed /\ Flown /\ Counted

-----------------------------------------------------------------------------
(* One entry of the table of calls changes.                                *)
LEMMA ViewType ==
  ASSUME Typed
  PROVE  View \in [Slots -> FrameType \cup {Nobody}]
<1> SUFFICES ASSUME NEW i \in Slots, i[2] <= Len(stack[i[1]])
             PROVE  stack[i[1]][i[2]] \in FrameType
  BY DEF View
<1>1. i[1] \in Coros /\ i[2] \in 1..MaxDepth
  BY DEF Slots
<1>2. stack[i[1]] \in Seq(FrameType)
  BY <1>1 DEF Typed
<1>3. i[2] \in 1..Len(stack[i[1]])
  BY <1>1, <1>2, LenProperties
<1> QED
  BY <1>2, <1>3, ElementOfSeq

LEMMA TopFacts ==
  ASSUME Typed, NEW c \in Coros, stack[c] # <<>>
  PROVE  /\ Len(stack[c]) \in 1..MaxDepth
         /\ Here(c) \in Slots /\ View[Here(c)] = Top(c) /\ Top(c) \in FrameType
<1>1. stack[c] \in Seq(FrameType) /\ Len(stack[c]) <= MaxDepth /\ MaxDepth \in Nat
  BY FlightAssumption DEF Typed
<1>2. Len(stack[c]) \in Nat /\ Len(stack[c]) > 0
  BY <1>1, EmptySeq, LenProperties
<1>3. Len(stack[c]) \in 1..MaxDepth
  BY <1>1, <1>2
<1>4. Here(c) \in Slots
  BY <1>3 DEF Here, Slots
<1>5. Top(c) = stack[c][Len(stack[c])] /\ Top(c) \in FrameType
  BY <1>1, <1>2, FrontFacts DEF Top
<1>6. View[Here(c)] = stack[c][Len(stack[c])]
  <2>1. Here(c)[1] = c /\ Here(c)[2] = Len(stack[c])
    BY DEF Here
  <2> QED
    BY <1>2, <1>4, <2>1 DEF View
<1> QED
  BY <1>3, <1>4, <1>5, <1>6

LEMMA BecomeFacts ==
  ASSUME Typed, Nested, NEW c \in Coros, stack[c] # <<>>,
         NEW fr \in FrameType, Become(c, fr)
  PROVE  /\ stack' \in [Coros -> Seq(FrameType)]
         /\ \A d \in Coros : Len(stack'[d]) <= MaxDepth
         /\ Nested'
         /\ View' = [View EXCEPT ![Here(c)] = fr]
<1> DEFINE s == stack[c]  t == Append(Front(s), fr)
<1>1. s \in Seq(FrameType) /\ Len(s) \in 1..MaxDepth /\ s # <<>>
  BY TopFacts DEF Typed
<1>2. /\ Front(s) \in Seq(FrameType) /\ Len(Front(s)) = Len(s) - 1
      /\ \A i \in 1..Len(s) - 1 : Front(s)[i] = s[i]
  BY <1>1, FrontFacts
<1>3. t \in Seq(FrameType) /\ Len(t) = Len(s)
  BY <1>1, <1>2, AppendProperties
<1>4. \A i \in 1..Len(s) : t[i] = IF i = Len(s) THEN fr ELSE s[i]
  BY <1>1, <1>2, AppendProperties
<1>5. stack' = [stack EXCEPT ![c] = t]
  BY DEF Become, With
<1> HIDE DEF s, t
<1>6. \A d \in Coros : stack'[d] = IF d = c THEN t ELSE stack[d]
  BY <1>5 DEF Typed
<1>7. stack' \in [Coros -> Seq(FrameType)]
  BY <1>3, <1>5 DEF Typed
<1>8. \A d \in Coros : Len(stack'[d]) = Len(stack[d])
  BY <1>3, <1>6 DEF s
<1>9. Nested'
  <2> SUFFICES ASSUME NEW d \in Coros, NEW i \in 1..Len(stack'[d]) - 1
               PROVE  stack'[d][i].at = "load"
    BY DEF Nested
  <2>1. CASE d = c
    <3>1. i \in 1..Len(s) - 1 /\ stack'[d][i] = t[i]
      BY <1>6, <1>8, <2>1 DEF s
    <3>2. t[i] = s[i]
      BY <1>1, <1>4, <3>1
    <3> QED
      BY <2>1, <3>1, <3>2 DEF Nested, s
  <2>2. CASE d # c
    BY <1>6, <1>8, <2>2 DEF Nested
  <2> QED
    BY <2>1, <2>2
<1>10. View' = [View EXCEPT ![Here(c)] = fr]
  <2>1. View' = [i \in Slots |-> IF i[2] <= Len(stack'[i[1]]) THEN stack'[i[1]][i[2]] ELSE Nobody]
    BY DEF View, Slots, Nobody
  <2>2. [View EXCEPT ![Here(c)] = fr] = [i \in Slots |-> IF i = Here(c) THEN fr ELSE View[i]]
    BY DEF View
  <2>3. ASSUME NEW i \in Slots
        PROVE  (IF i[2] <= Len(stack'[i[1]]) THEN stack'[i[1]][i[2]] ELSE Nobody)
                 = IF i = Here(c) THEN fr ELSE View[i]
    <3>1. i[1] \in Coros /\ i[2] \in 1..MaxDepth /\ i = <<i[1], i[2]>>
      BY DEF Slots
    <3>2. i = Here(c) <=> i[1] = c /\ i[2] = Len(s)
      BY <3>1 DEF Here, s
    <3>3. View[i] = IF i[2] <= Len(stack[i[1]]) THEN stack[i[1]][i[2]] ELSE Nobody
      BY DEF View
    <3>4. CASE i[1] = c
      <4>1. stack'[i[1]] = t /\ stack[i[1]] = s
        BY <1>6, <3>1, <3>4 DEF s
      <4>2. CASE i[2] <= Len(s)
        <5>1. i[2] \in 1..Len(s)
          BY <1>1, <3>1, <4>2
        <5>2. t[i[2]] = IF i[2] = Len(s) THEN fr ELSE s[i[2]]
          BY <1>4, <5>1
        <5> QED
          BY <1>3, <3>2, <3>3, <3>4, <4>1, <4>2, <5>2
      <4>3. CASE ~(i[2] <= Len(s))
        <5>1. i[2] # Len(s)
          BY <1>1, <3>1, <4>3
        <5> QED
          BY <1>3, <3>2, <3>3, <4>1, <4>3, <5>1
      <4> QED
        BY <4>2, <4>3
    <3>5. CASE i[1] # c
      BY <1>6, <3>1, <3>2, <3>3, <3>5
    <3> QED
      BY <3>4, <3>5
  <2> QED
    BY <2>1, <2>2, <2>3
<1> QED
  BY <1>7, <1>8, <1>9, <1>10 DEF Typed

LEMMA ReturnFacts ==
  ASSUME Typed, Nested, NEW c \in Coros, stack[c] # <<>>, Return(c)
  PROVE  /\ stack' \in [Coros -> Seq(FrameType)]
         /\ \A d \in Coros : Len(stack'[d]) <= MaxDepth
         /\ Nested'
         /\ View' = [View EXCEPT ![Here(c)] = Nobody]
<1> DEFINE s == stack[c]  t == Front(s)
<1>1. s \in Seq(FrameType) /\ Len(s) \in 1..MaxDepth /\ s # <<>> /\ MaxDepth \in Nat
  BY FlightAssumption, TopFacts DEF Typed
<1>2. /\ t \in Seq(FrameType) /\ Len(t) = Len(s) - 1
      /\ \A i \in 1..Len(s) - 1 : t[i] = s[i]
  BY <1>1, FrontFacts
<1>3. stack' = [stack EXCEPT ![c] = t]
  BY DEF Return
<1> HIDE DEF s, t
<1>4. \A d \in Coros : stack'[d] = IF d = c THEN t ELSE stack[d]
  BY <1>3 DEF Typed
<1>5. stack' \in [Coros -> Seq(FrameType)]
  BY <1>2, <1>3 DEF Typed
<1>6. \A d \in Coros : Len(stack'[d]) <= MaxDepth
  <2>1. Len(t) <= MaxDepth
    BY <1>1, <1>2
  <2> QED
    BY <1>4, <2>1 DEF Typed
<1>7. Nested'
  <2> SUFFICES ASSUME NEW d \in Coros, NEW i \in 1..Len(stack'[d]) - 1
               PROVE  stack'[d][i].at = "load"
    BY DEF Nested
  <2>1. CASE d = c
    <3>1. i \in 1..Len(s) - 1 /\ stack'[d][i] = s[i]
      BY <1>1, <1>2, <1>4, <2>1
    <3> QED
      BY <2>1, <3>1 DEF Nested, s
  <2>2. CASE d # c
    BY <1>4, <2>2 DEF Nested
  <2> QED
    BY <2>1, <2>2
<1>8. View' = [View EXCEPT ![Here(c)] = Nobody]
  <2>1. View' = [i \in Slots |-> IF i[2] <= Len(stack'[i[1]]) THEN stack'[i[1]][i[2]] ELSE Nobody]
    BY DEF View, Slots, Nobody
  <2>2. [View EXCEPT ![Here(c)] = Nobody] = [i \in Slots |-> IF i = Here(c) THEN Nobody ELSE View[i]]
    BY DEF View
  <2>3. ASSUME NEW i \in Slots
        PROVE  (IF i[2] <= Len(stack'[i[1]]) THEN stack'[i[1]][i[2]] ELSE Nobody)
                 = IF i = Here(c) THEN Nobody ELSE View[i]
    <3>1. i[1] \in Coros /\ i[2] \in 1..MaxDepth /\ i = <<i[1], i[2]>>
      BY DEF Slots
    <3>2. i = Here(c) <=> i[1] = c /\ i[2] = Len(s)
      BY <3>1 DEF Here, s
    <3>3. View[i] = IF i[2] <= Len(stack[i[1]]) THEN stack[i[1]][i[2]] ELSE Nobody
      BY DEF View
    <3>4. CASE i[1] = c
      <4>1. stack'[i[1]] = t /\ stack[i[1]] = s
        BY <1>4, <3>1, <3>4 DEF s
      <4>2. CASE i[2] <= Len(s) - 1
        <5>1. i[2] \in 1..Len(s) - 1 /\ i[2] # Len(s) /\ i[2] <= Len(s)
          BY <1>1, <3>1, <4>2
        <5> QED
          BY <1>2, <3>2, <3>3, <4>1, <4>2, <5>1
      <4>3. CASE i[2] = Len(s)
        <5>1. ~(i[2] <= Len(t))
          BY <1>1, <1>2, <4>3
        <5> QED
          BY <3>2, <3>4, <4>1, <4>3, <5>1
      <4>4. CASE i[2] > Len(s)
        <5>1. ~(i[2] <= Len(t)) /\ ~(i[2] <= Len(s))
          BY <1>1, <1>2, <3>1, <4>4
        <5> QED
          BY <3>3, <4>1, <5>1
      <4> QED
        BY <1>1, <3>1, <4>2, <4>3, <4>4
    <3>5. CASE i[1] # c
      BY <1>4, <3>1, <3>2, <3>3, <3>5
    <3> QED
      BY <3>4, <3>5
  <2> QED
    BY <2>1, <2>2, <2>3
<1> QED
  BY <1>5, <1>6, <1>7, <1>8

LEMMA CallFacts ==
  ASSUME Typed, Nested, NEW c \in Coros, NEW k \in Keys,
         Len(stack[c]) < MaxDepth, stack[c] # <<>> => At(c, "load"),
         stack' = [stack EXCEPT ![c] = Append(@, Frame(k))]
  PROVE  /\ stack' \in [Coros -> Seq(FrameType)]
         /\ \A d \in Coros : Len(stack'[d]) <= MaxDepth
         /\ Nested'
         /\ Above(c) \in Slots /\ View[Above(c)] = Nobody
         /\ Frame(k) \in FrameType
         /\ View' = [View EXCEPT ![Above(c)] = Frame(k)]
<1> DEFINE s == stack[c]  fr == Frame(k)  t == Append(s, fr)
<1>1. s \in Seq(FrameType) /\ Len(s) \in Nat /\ MaxDepth \in Nat /\ Len(s) + 1 <= MaxDepth
  BY FlightAssumption, LenProperties DEF Typed
<1>2. fr \in FrameType
  BY DEF Frame, FrameType, Places, Outcomes
<1>3. /\ t \in Seq(FrameType) /\ Len(t) = Len(s) + 1
      /\ \A i \in 1..Len(s) : t[i] = s[i]
      /\ t[Len(s) + 1] = fr
  BY <1>1, <1>2, AppendProperties
<1>4. stack' = [stack EXCEPT ![c] = t]
  OBVIOUS
<1>5. s # <<>> => Len(s) > 0 /\ s[Len(s)].at = "load"
  <2> HAVE s # <<>>
  <2>1. Len(s) > 0
    BY <1>1, EmptySeq
  <2>2. Last(s) = s[Len(s)]
    BY <1>1, FrontFacts
  <2> QED
    BY <2>1, <2>2 DEF At, Top
<1>6. Above(c) \in Slots /\ View[Above(c)] = Nobody
  <2>1. Above(c) = <<c, Len(s) + 1>> /\ Len(s) + 1 \in 1..MaxDepth
    BY <1>1 DEF Above
  <2>2. ~(Len(s) + 1 <= Len(s))
    BY <1>1
  <2> QED
    BY <2>1, <2>2 DEF Slots, View
<1> HIDE DEF s, t, fr
<1>7. \A d \in Coros : stack'[d] = IF d = c THEN t ELSE stack[d]
  BY <1>4 DEF Typed
<1>8. stack' \in [Coros -> Seq(FrameType)]
  BY <1>3, <1>4 DEF Typed
<1>9. \A d \in Coros : Len(stack'[d]) <= MaxDepth
  <2>1. Len(t) <= MaxDepth
    BY <1>1, <1>3
  <2> QED
    BY <1>7, <2>1 DEF Typed
<1>10. Nested'
  <2> SUFFICES ASSUME NEW d \in Coros, NEW i \in 1..Len(stack'[d]) - 1
               PROVE  stack'[d][i].at = "load"
    BY DEF Nested
  <2>1. CASE d = c
    <3>1. stack'[d] = t
      BY <1>7, <2>1
    <3>2. i \in 1..Len(s)
      <4>1. Len(t) - 1 = Len(s)
        BY <1>1, <1>3
      <4> QED
        BY <3>1, <4>1
    <3>3. stack'[d][i] = s[i]
      BY <1>3, <3>1, <3>2
    <3>4. CASE i = Len(s)
      <4>1. s # <<>>
        BY <1>1, <3>2, EmptySeq
      <4> QED
        BY <1>5, <3>3, <3>4, <4>1
    <3>5. CASE i # Len(s)
      <4>1. i \in 1..Len(s) - 1
        BY <1>1, <3>2, <3>5
      <4> QED
        BY <2>1, <3>3, <4>1 DEF Nested, s
    <3> QED
      BY <3>4, <3>5
  <2>2. CASE d # c
    BY <1>7, <2>2 DEF Nested
  <2> QED
    BY <2>1, <2>2
<1>11. View' = [View EXCEPT ![Above(c)] = fr]
  <2>1. View' = [i \in Slots |-> IF i[2] <= Len(stack'[i[1]]) THEN stack'[i[1]][i[2]] ELSE Nobody]
    BY DEF View, Slots, Nobody
  <2>2. [View EXCEPT ![Above(c)] = fr] = [i \in Slots |-> IF i = Above(c) THEN fr ELSE View[i]]
    BY DEF View
  <2>3. ASSUME NEW i \in Slots
        PROVE  (IF i[2] <= Len(stack'[i[1]]) THEN stack'[i[1]][i[2]] ELSE Nobody)
                 = IF i = Above(c) THEN fr ELSE View[i]
    <3>1. i[1] \in Coros /\ i[2] \in 1..MaxDepth /\ i = <<i[1], i[2]>>
      BY DEF Slots
    <3>2. i = Above(c) <=> i[1] = c /\ i[2] = Len(s) + 1
      BY <3>1 DEF Above, s
    <3>3. View[i] = IF i[2] <= Len(stack[i[1]]) THEN stack[i[1]][i[2]] ELSE Nobody
      BY DEF View
    <3>4. CASE i[1] = c
      <4>1. stack'[i[1]] = t /\ stack[i[1]] = s
        BY <1>7, <3>1, <3>4 DEF s
      <4>2. CASE i[2] <= Len(s)
        <5>1. i[2] \in 1..Len(s) /\ i[2] # Len(s) + 1 /\ i[2] <= Len(s) + 1
          BY <1>1, <3>1, <4>2
        <5> QED
          BY <1>3, <3>2, <3>3, <4>1, <4>2, <5>1
      <4>3. CASE i[2] = Len(s) + 1
        <5>1. i[2] <= Len(t)
          BY <1>1, <1>3, <4>3
        <5> QED
          BY <1>3, <3>2, <3>4, <4>1, <4>3, <5>1
      <4>4. CASE i[2] > Len(s) + 1
        <5>1. ~(i[2] <= Len(t)) /\ ~(i[2] <= Len(s)) /\ i[2] # Len(s) + 1
          BY <1>1, <1>3, <3>1, <4>4
        <5> QED
          BY <3>2, <3>3, <4>1, <5>1
      <4> QED
        BY <1>1, <3>1, <4>2, <4>3, <4>4
    <3>5. CASE i[1] # c
      BY <1>7, <3>1, <3>2, <3>3, <3>5
    <3> QED
      BY <3>4, <3>5
  <2> QED
    BY <2>1, <2>2, <2>3
<1> QED
  BY <1>2, <1>6, <1>8, <1>9, <1>10, <1>11 DEF fr

(* With the stacks unchanged so is the table of calls.                     *)
LEMMA SameView ==
  ASSUME stack' = stack
  PROVE  View' = View /\ (Nested => Nested')
  BY DEF View, Slots, Nobody, Nested

-----------------------------------------------------------------------------
(* What one change of the table of calls does to each conjunct.            *)
Change(t, fr) == View' = [View EXCEPT ![t] = fr]

LEMMA ChangeFacts ==
  ASSUME Typed, NEW t \in Slots, NEW fr, Change(t, fr)
  PROVE  \A i \in Slots : View'[i] = IF i = t THEN fr ELSE View[i]
<1>1. View \in [Slots -> FrameType \cup {Nobody}]
  BY ViewType
<1> QED
  BY <1>1 DEF Change

LEMMA ShapedStep ==
  ASSUME Typed, Shaped, NEW t \in Slots, NEW fr, Change(t, fr), Shape(fr)
  PROVE  Shaped'
<1> SUFFICES ASSUME NEW i \in Slots PROVE Shape(View'[i])
  BY DEF Shaped, Shape, Slots
<1> QED
  BY ChangeFacts DEF Shaped

LEMMA LedOnceStep ==
  ASSUME Typed, LedOnce, NEW t \in Slots, NEW fr, Change(t, fr),
         \/ ~fr.lead \/ fr.flight = None
         \/ View[t].lead /\ fr.flight = View[t].flight
         \/ \A i \in Slots : View[i].flight # fr.flight
  PROVE  LedOnce'
<1> SUFFICES ASSUME NEW i \in Slots, NEW j \in Slots,
                    View'[i].lead, View'[j].lead,
                    View'[i].flight = View'[j].flight, View'[i].flight # None
             PROVE  i = j
  BY DEF LedOnce, Slots
<1> QED
  BY ChangeFacts DEF LedOnce

(* No leader starts or ends.                                               *)
LEMMA TableKept ==
  ASSUME Typed, Landed, Flown, NEW t \in Slots, NEW fr, Change(t, fr),
         table' = table, ~Leads(View[t]), ~Leads(fr)
  PROVE  Landed' /\ Flown'
<1>1. \A i \in Slots : View'[i] = IF i = t THEN fr ELSE View[i]
  BY ChangeFacts
<1>2. Landed'
  <2> SUFFICES ASSUME NEW i \in Slots, Leads(View'[i])
               PROVE  table[View'[i].key] = View'[i].flight
    BY DEF Landed, Leads, Slots
  <2> QED
    BY <1>1 DEF Landed
<1>3. Flown'
  <2> SUFFICES ASSUME NEW k \in Keys, table[k] # None
               PROVE  \E i \in Slots : Leads(View'[i]) /\ View'[i].key = k /\ View'[i].flight = table[k]
    BY DEF Flown, Leads, Slots
  <2>1. PICK i \in Slots : Leads(View[i]) /\ View[i].key = k /\ View[i].flight = table[k]
    BY DEF Flown
  <2>2. i # t /\ View'[i] = View[i]
    BY <1>1, <2>1
  <2> QED
    BY <2>1, <2>2
<1> QED
  BY <1>2, <1>3

(* Nobody starts or stops waiting, and no leader leaves somebody waiting.  *)
LEMMA WaitersKept ==
  ASSUME Typed, Shaped, Listed, Served, NEW t \in Slots, NEW fr, Change(t, fr),
         waiters' = waiters, View[t].at # "wait", fr.at # "wait",
         \/ ~View[t].lead \/ View[t].flight = None
         \/ fr.lead /\ fr.flight = View[t].flight
         \/ \A i \in Slots : View[i].at = "wait" => View[i].flight # View[t].flight
  PROVE  Listed' /\ Served'
<1>1. \A i \in Slots : View'[i] = IF i = t THEN fr ELSE View[i]
  BY ChangeFacts
<1>2. ASSUME NEW f \in Flights, NEW n \in 1..Len(waiters[f])
      PROVE  waiters[f][n] \in Slots /\ waiters[f][n] # t /\ View'[waiters[f][n]] = View[waiters[f][n]]
  <2>1. waiters[f][n] \in Slots
    BY ElementOfSeq DEF Typed
  <2> QED
    BY <1>1, <2>1 DEF Listed
<1>3. Listed'
  <2> SUFFICES ASSUME NEW f \in Flights, NEW n \in 1..Len(waiters[f])
               PROVE  /\ View'[waiters[f][n]].at = "wait" /\ View'[waiters[f][n]].flight = f
                      /\ \A m \in 1..Len(waiters[f]) : waiters[f][m] = waiters[f][n] => m = n
    BY DEF Listed
  <2> QED
    BY <1>2 DEF Listed
<1>4. Served'
  <2> SUFFICES ASSUME NEW i \in Slots, View'[i].at = "wait"
               PROVE  /\ \E n \in 1..Len(waiters[View'[i].flight]) : waiters[View'[i].flight][n] = i
                      /\ \E j \in Slots : View'[j].lead /\ View'[j].flight = View'[i].flight
    BY DEF Served, Slots
  <2>1. View'[i] = View[i] /\ View[i].at = "wait"
    BY <1>1
  <2>2. PICK j \in Slots : View[j].lead /\ View[j].flight = View[i].flight
    BY <2>1 DEF Served
  <2>3. View[i].flight # None
    BY <2>1 DEF Shaped, Shape
  <2>4. View'[j].lead /\ View'[j].flight = View[i].flight
    BY <1>1, <2>1, <2>2, <2>3
  <2>5. \E n \in 1..Len(waiters[View[i].flight]) : waiters[View[i].flight][n] = i
    BY <2>1 DEF Served
  <2> QED
    BY <2>1, <2>4, <2>5
<1> QED
  BY <1>3, <1>4

LEMMA Finite ==
  ASSUME NEW f
  PROVE  /\ IsFiniteSet(Slots)
         /\ IsFiniteSet(Held(f)) /\ IsFiniteSet(Filling(f)) /\ IsFiniteSet(Keyed(f))
<1>1. IsFiniteSet(Slots)
  <2>1. IsFiniteSet(1..MaxDepth)
    BY FlightAssumption, 1 \in Int, MaxDepth \in Int, FS_Interval
  <2> QED
    BY <2>1, FlightAssumption, FS_Product DEF Slots
<1> QED
  BY <1>1, FlightAssumption, FS_Subset DEF Held, Filling, Keyed

LEMMA HeldCount ==
  ASSUME Typed, NEW t \in Slots, NEW fr, Change(t, fr), NEW f
  PROVE  /\ Cardinality(Held(f)) \in Nat /\ Cardinality(Filling(f)) \in Nat
         /\ Cardinality(Held(f)') \in Nat /\ Cardinality(Filling(f)') \in Nat
         /\ Cardinality(Held(f)') = Cardinality(Held(f)) + (IF fr.flight = f THEN 1 ELSE 0)
                                      - (IF View[t].flight = f THEN 1 ELSE 0)
         /\ Cardinality(Filling(f)') = Cardinality(Filling(f))
                                      + (IF fr.flight = f /\ fr.at = "load" THEN 1 ELSE 0)
                                      - (IF View[t].flight = f /\ View[t].at = "load" THEN 1 ELSE 0)
<1>1. \A i \in Slots : View'[i] = IF i = t THEN fr ELSE View[i]
  BY ChangeFacts
<1>2. Held(f)' = {i \in Slots : View'[i].flight = f}
  BY DEF Held, Slots
<1>3. Filling(f)' = {i \in Slots : View'[i].flight = f /\ View'[i].at = "load"}
  BY DEF Filling, Slots
<1>4. /\ \A y : y # t => (y \in Held(f)' <=> y \in Held(f))
      /\ t \in Held(f)' <=> fr.flight = f
      /\ t \in Held(f) <=> View[t].flight = f
  BY <1>1, <1>2 DEF Held
<1>5. /\ \A y : y # t => (y \in Filling(f)' <=> y \in Filling(f))
      /\ t \in Filling(f)' <=> fr.flight = f /\ fr.at = "load"
      /\ t \in Filling(f) <=> View[t].flight = f /\ View[t].at = "load"
  BY <1>1, <1>3 DEF Filling
<1>6. IsFiniteSet(Held(f)) /\ IsFiniteSet(Filling(f))
  BY Finite
<1>7. /\ Cardinality(Held(f)) \in Nat /\ Cardinality(Held(f)') \in Nat
      /\ Cardinality(Held(f)') = Cardinality(Held(f)) + (IF t \in Held(f)' THEN 1 ELSE 0)
                                      - (IF t \in Held(f) THEN 1 ELSE 0)
  BY <1>4, <1>6, SetChange
<1>8. /\ Cardinality(Filling(f)) \in Nat /\ Cardinality(Filling(f)') \in Nat
      /\ Cardinality(Filling(f)') = Cardinality(Filling(f)) + (IF t \in Filling(f)' THEN 1 ELSE 0)
                                      - (IF t \in Filling(f) THEN 1 ELSE 0)
  BY <1>5, <1>6, SetChange
<1> QED
  BY <1>4, <1>5, <1>7, <1>8

LEMMA KeyedCount ==
  ASSUME Typed, NEW k \in Keys, NEW g, table' = [table EXCEPT ![k] = g], NEW f
  PROVE  /\ Cardinality(Keyed(f)) \in Nat /\ Cardinality(Keyed(f)') \in Nat
         /\ Cardinality(Keyed(f)') = Cardinality(Keyed(f)) + (IF g = f THEN 1 ELSE 0)
                                       - (IF table[k] = f THEN 1 ELSE 0)
<1>1. \A j \in Keys : table'[j] = IF j = k THEN g ELSE table[j]
  BY DEF Typed
<1>2. Keyed(f)' = {j \in Keys : table'[j] = f}
  BY DEF Keyed
<1>3. /\ \A y : y # k => (y \in Keyed(f)' <=> y \in Keyed(f))
      /\ k \in Keyed(f)' <=> g = f
      /\ k \in Keyed(f) <=> table[k] = f
  BY <1>1, <1>2 DEF Keyed
<1>4. /\ Cardinality(Keyed(f)) \in Nat /\ Cardinality(Keyed(f)') \in Nat
      /\ Cardinality(Keyed(f)') = Cardinality(Keyed(f)) + (IF k \in Keyed(f)' THEN 1 ELSE 0)
                                      - (IF k \in Keyed(f) THEN 1 ELSE 0)
  BY <1>3, Finite, SetChange
<1> QED
  BY <1>3, <1>4

LEMMA SameKeyed ==
  ASSUME NEW f
  PROVE  /\ Cardinality(Keyed(f)) \in Nat
         /\ table' = table => Keyed(f)' = Keyed(f)
  BY Finite, FS_CardinalityType DEF Keyed

(* A block that is free is in nobody's hands.                              *)
LEMMA FreeFlight ==
  ASSUME Typed, Counted, NEW f \in Flights, refs[f] = 0
  PROVE  /\ \A i \in Slots : View[i].flight # f
         /\ \A k \in Keys : table[k] # f
<1>1. /\ IsFiniteSet(Held(f)) /\ IsFiniteSet(Keyed(f))
      /\ Cardinality(Held(f)) \in Nat /\ Cardinality(Keyed(f)) \in Nat
  BY Finite, FS_CardinalityType
<1>2. Cardinality(Held(f)) = 0 /\ Cardinality(Keyed(f)) = 0
  BY <1>1 DEF Counted
<1>3. Held(f) = {} /\ Keyed(f) = {}
  BY <1>1, <1>2, FS_EmptySet
<1> QED
  BY <1>3 DEF Held, Keyed

(* Who gives a reference back while somebody waits is not the last one.    *)
LEMMA ReleaseKeeps ==
  ASSUME Typed, Listed, Counted, NEW f \in Flights, NEW t \in Slots,
         View[t].flight = f, View[t].at # "wait", Release(f)
  PROVE  waiters' = waiters
<1>1. waiters[f] \in Seq(Slots)
  BY DEF Typed
<1>2. CASE waiters[f] = <<>>
  BY <1>2 DEF Release, Typed
<1>3. CASE waiters[f] # <<>>
  <2>1. 1 \in 1..Len(waiters[f])
    BY <1>1, <1>3, EmptySeq, LenProperties
  <2> DEFINE e == waiters[f][1]
  <2>2. e \in Slots /\ View[e].at = "wait" /\ View[e].flight = f
    BY <1>1, <2>1, ElementOfSeq DEF Listed
  <2>3. e # t /\ {t, e} \subseteq Held(f)
    BY <2>2 DEF Held
  <2>4. Cardinality({t, e}) = 2
    <3>1. IsFiniteSet({t}) /\ Cardinality({t}) = 1
      BY FS_Singleton
    <3>2. {t, e} = {t} \cup {e} /\ e \notin {t}
      BY <2>3
    <3> HIDE DEF e
    <3>3. Cardinality({t} \cup {e}) = Cardinality({t}) + 1
      BY <3>1, <3>2, FS_AddElement
    <3> QED
      BY <3>1, <3>2, <3>3
  <2>5. Cardinality({t, e}) <= Cardinality(Held(f))
    BY <2>3, Finite, FS_Subset
  <2>6. Cardinality(Held(f)) \in Nat /\ Cardinality(Keyed(f)) \in Nat
    BY Finite, FS_CardinalityType
  <2>7. refs[f] # 1
    BY <2>4, <2>5, <2>6 DEF Counted
  <2> QED
    BY <2>7 DEF Release
<1> QED
  BY <1>2, <1>3

(* A call that is listed is the innermost one of its coroutine.            *)
LEMMA ListedTop ==
  ASSUME FlightInv, NEW f \in Flights, NEW n \in 1..Len(waiters[f])
  PROVE  LET w == waiters[f][n][1]
         IN  /\ w \in Coros /\ stack[w] # <<>> /\ Here(w) = waiters[f][n]
             /\ Top(w).at = "wait" /\ Top(w).flight = f
<1> DEFINE e == waiters[f][n]  w == e[1]
<1> USE DEF FlightInv
<1>1. e \in Slots /\ View[e].at = "wait" /\ View[e].flight = f
  BY ElementOfSeq DEF Typed, Listed
<1>2. w \in Coros /\ e[2] \in 1..MaxDepth /\ e = <<w, e[2]>>
  BY <1>1 DEF Slots
<1> HIDE DEF e, w
<1>3. e[2] <= Len(stack[w]) /\ stack[w][e[2]].at = "wait"
  BY <1>1, <1>2 DEF View, Nobody, w
<1>4. stack[w] \in Seq(FrameType) /\ Len(stack[w]) \in Nat /\ MaxDepth \in Nat
  BY <1>2, FlightAssumption, LenProperties DEF Typed
<1>5. stack[w] # <<>>
  BY <1>2, <1>3, <1>4, EmptySeq
<1>6. e[2] = Len(stack[w])
  <2>1. ASSUME e[2] # Len(stack[w]) PROVE FALSE
    <3>1. e[2] \in 1..Len(stack[w]) - 1
      BY <1>2, <1>3, <1>4, <2>1
    <3>2. stack[w][e[2]].at = "load"
      BY <1>2, <3>1 DEF Nested
    <3> QED
      BY <1>3, <3>2
  <2> QED
    BY <2>1
<1>7. Here(w) = e
  BY <1>2, <1>6 DEF Here
<1>8. View[Here(w)] = Top(w)
  BY <1>2, <1>5, TopFacts
<1> QED
  BY <1>1, <1>2, <1>5, <1>7, <1>8 DEF e, w

-----------------------------------------------------------------------------
(* The steps of a call that has no flight.                                 *)
StackOK ==
    /\ stack' \in [Coros -> Seq(FrameType)]
    /\ \A d \in Coros : Len(stack'[d]) <= MaxDepth
    /\ Nested'

LEMMA TypedStep ==
  ASSUME StackOK, table' \in [Keys -> Flights \cup {None}],
         refs' \in [Flights -> Int], fillers' \in [Flights -> Int],
         waiters' \in [Flights -> Seq(Slots)]
  PROVE  Typed'
  BY DEF Typed, Slots, StackOK, FrameType, Places, Outcomes

LEMMA Quiet ==
  ASSUME FlightInv, StackOK, NEW t \in Slots, NEW fr, Change(t, fr), Shape(fr),
         View[t].flight = None, fr.flight = None,
         UNCHANGED <<table, refs, fillers, waiters>>
  PROVE  FlightInv'
<1> USE DEF FlightInv
<1>1. Typed'
  BY DEF Typed, Slots, StackOK, FrameType, Places, Outcomes
<1>2. View[t].at \notin {"wait", "load", "notify"} /\ fr.at \notin {"wait", "load", "notify"}
  BY DEF Shaped, Shape
<1>3. Shaped' /\ LedOnce'
  BY ShapedStep, LedOnceStep
<1>4. Landed' /\ Flown'
  BY <1>2, TableKept DEF Leads
<1>5. Listed' /\ Served'
  BY <1>2, WaitersKept
<1>6. Counted'
  <2> SUFFICES ASSUME NEW f \in Flights
               PROVE  /\ refs[f] = Cardinality(Held(f)') + Cardinality(Keyed(f)')
                      /\ fillers[f] = Cardinality(Filling(f)')
    BY DEF Counted
  <2>1. f # None
    BY FlightAssumption
  <2>2. Cardinality(Held(f)') = Cardinality(Held(f)) /\ Cardinality(Filling(f)') = Cardinality(Filling(f))
    BY <2>1, HeldCount
  <2>3. Keyed(f)' = Keyed(f)
    BY SameKeyed
  <2> QED
    BY <2>2, <2>3 DEF Counted
<1> QED
  BY <1>1, <1>3, <1>4, <1>5, <1>6 DEF StackOK

LEMMA CallStep ==
  ASSUME FlightInv, NEW c \in Coros, Call(c)
  PROVE  FlightInv'
<1>1. PICK k \in Keys : /\ stack[c] # <<>> => At(c, "load")
                        /\ stack' = [stack EXCEPT ![c] = Append(@, Frame(k))]
  BY DEF Call
<1>2. /\ Len(stack[c]) < MaxDepth /\ Typed /\ Nested
      /\ UNCHANGED <<table, refs, fillers, waiters>>
  BY DEF Call, FlightInv
<1>3. /\ StackOK /\ Above(c) \in Slots /\ View[Above(c)] = Nobody
      /\ Change(Above(c), Frame(k))
  BY <1>1, <1>2, CallFacts DEF StackOK, Change
<1>4. Frame(k).flight = None /\ Shape(Frame(k)) /\ Nobody.flight = None
  BY DEF Frame, Shape, Nobody
<1> QED
  BY <1>2, <1>3, <1>4, Quiet

LEMMA GetStep ==
  ASSUME FlightInv, NEW c \in Coros, Get(c)
  PROVE  FlightInv'
<1> DEFINE fr == [Top(c) EXCEPT !.at = IF Top(c).key \in cached THEN "hit" ELSE "miss"]
<1>1. /\ stack[c] # <<>> /\ Top(c).at = "get" /\ Become(c, fr) /\ Typed /\ Nested /\ Shaped
      /\ UNCHANGED <<table, refs, fillers, waiters>>
  BY DEF Get, At, FlightInv
<1>2. Here(c) \in Slots /\ View[Here(c)] = Top(c) /\ Top(c) \in FrameType /\ Shape(Top(c))
  BY <1>1, TopFacts DEF Shaped
<1>3. fr \in FrameType
  BY <1>2 DEF FrameType, Places
<1>4. Top(c).flight = None /\ fr.flight = None /\ Shape(fr)
  BY <1>1, <1>2 DEF Shape, FrameType
<1> HIDE DEF fr
<1>5. StackOK /\ Change(Here(c), fr)
  BY <1>1, <1>3, BecomeFacts DEF StackOK, Change
<1> QED
  BY <1>1, <1>2, <1>4, <1>5, Quiet

LEMMA LeaveStep ==
  ASSUME FlightInv, NEW c \in Coros, Hit(c) \/ Store(c)
  PROVE  FlightInv'
<1>1. /\ stack[c] # <<>> /\ Top(c).at \in {"hit", "store"} /\ Return(c) /\ Typed /\ Nested /\ Shaped
      /\ UNCHANGED <<table, refs, fillers, waiters>>
  BY DEF Hit, Store, At, FlightInv
<1>2. Here(c) \in Slots /\ View[Here(c)] = Top(c) /\ Shape(Top(c))
  BY <1>1, TopFacts DEF Shaped
<1>3. Top(c).flight = None /\ Nobody.flight = None /\ Shape(Nobody)
  BY <1>1, <1>2 DEF Shape, Nobody
<1>4. StackOK /\ Change(Here(c), Nobody)
  BY <1>1, ReturnFacts DEF StackOK, Change
<1> QED
  BY <1>1, <1>2, <1>3, <1>4, Quiet

(* Neither the calls nor the flights change.                               *)
LEMMA Unaffected ==
  ASSUME FlightInv, UNCHANGED <<stack, table, refs, fillers, waiters>>
  PROVE  FlightInv'
<1> USE DEF FlightInv
<1>1. View' = View /\ Nested'
  BY SameView
<1>2. Typed'
  BY DEF Typed, Slots, FrameType, Places, Outcomes
<1>3. Shaped' /\ LedOnce' /\ Landed' /\ Flown'
  BY <1>1 DEF Shaped, Shape, LedOnce, Landed, Flown, Leads, Slots
<1>4. Listed' /\ Served'
  BY <1>1 DEF Listed, Served, Slots
<1>5. Counted'
  BY <1>1 DEF Counted, Held, Filling, Keyed, Slots
<1> QED
  BY <1>1, <1>2, <1>3, <1>4, <1>5

-----------------------------------------------------------------------------
(* A counter of one flight changes.                                        *)
LEMMA Updated ==
  ASSUME NEW h \in [Flights -> Int], NEW f \in Flights, NEW d \in Int
  PROVE  /\ [h EXCEPT ![f] = d] \in [Flights -> Int]
         /\ \A g \in Flights : [h EXCEPT ![f] = d][g] = IF g = f THEN d ELSE h[g]
  OBVIOUS

(* The counters of each flight follow the call that changes.               *)
LEMMA CountedStep ==
  ASSUME Typed, Counted, NEW t \in Slots, NEW fr, Change(t, fr), table' = table,
         \A g \in Flights :
            /\ refs'[g] = refs[g] + (IF fr.flight = g THEN 1 ELSE 0)
                                  - (IF View[t].flight = g THEN 1 ELSE 0)
            /\ fillers'[g] = fillers[g] + (IF fr.flight = g /\ fr.at = "load" THEN 1 ELSE 0)
                                  - (IF View[t].flight = g /\ View[t].at = "load" THEN 1 ELSE 0)
  PROVE  Counted'
<1> SUFFICES ASSUME NEW g \in Flights
             PROVE  /\ refs'[g] = Cardinality(Held(g)') + Cardinality(Keyed(g)')
                    /\ fillers'[g] = Cardinality(Filling(g)')
  BY DEF Counted
<1>1. Cardinality(Keyed(g)) \in Nat /\ Keyed(g)' = Keyed(g)
  BY SameKeyed
<1>2. /\ refs[g] = Cardinality(Held(g)) + Cardinality(Keyed(g))
      /\ fillers[g] = Cardinality(Filling(g))
  BY DEF Counted
<1>3. /\ Cardinality(Held(g)) \in Nat /\ Cardinality(Filling(g)) \in Nat
      /\ Cardinality(Held(g)') = Cardinality(Held(g)) + (IF fr.flight = g THEN 1 ELSE 0)
                                   - (IF View[t].flight = g THEN 1 ELSE 0)
      /\ Cardinality(Filling(g)') = Cardinality(Filling(g))
                                   + (IF fr.flight = g /\ fr.at = "load" THEN 1 ELSE 0)
                                   - (IF View[t].flight = g /\ View[t].at = "load" THEN 1 ELSE 0)
  BY HeldCount
<1> QED
  BY <1>1, <1>2, <1>3

(* A new flight: its block was free, so nobody knows it yet.               *)
LEMMA LeadStep ==
  ASSUME FlightInv, NEW c \in Coros, Lead(c)
  PROVE  FlightInv'
<1> DEFINE x == Top(c)  k == x.key  t == Here(c)
           f == CHOOSE g \in Flights : refs[g] = 0
           fr == [x EXCEPT !.at = "load", !.flight = f, !.lead = TRUE]
<1>1. /\ Typed /\ Nested /\ Shaped /\ LedOnce /\ Listed /\ Served /\ Landed /\ Flown /\ Counted
      /\ stack[c] # <<>> /\ x.at = "miss" /\ table[k] = None /\ Become(c, fr)
      /\ table' = [table EXCEPT ![k] = f] /\ refs' = [refs EXCEPT ![f] = 2]
      /\ fillers' = [fillers EXCEPT ![f] = 1] /\ waiters' = waiters
  BY DEF Lead, At, FlightInv
<1>2. f \in Flights /\ refs[f] = 0 /\ f # None
  BY FlightAssumption DEF Lead
<1>3. t \in Slots /\ View[t] = x /\ x \in FrameType /\ Shape(x)
  BY <1>1, TopFacts DEF Shaped
<1> HIDE DEF f, x
<1>4. /\ fr \in FrameType /\ fr.at = "load" /\ fr.flight = f /\ fr.lead = TRUE
      /\ fr.key = k /\ k \in Keys /\ x.flight = None /\ ~x.lead
  BY <1>1, <1>2, <1>3 DEF FrameType, Places, Shape
<1> HIDE DEF fr, t, k
<1>5. StackOK /\ Change(t, fr)
  BY <1>1, <1>4, BecomeFacts DEF StackOK, Change, t, x
<1>6. (\A i \in Slots : View[i].flight # f) /\ (\A j \in Keys : table[j] # f)
  BY <1>1, <1>2, FreeFlight
<1>7. Typed'
  <2>1. table' \in [Keys -> Flights \cup {None}]
    BY <1>1, <1>2 DEF Typed
  <2>2. refs' \in [Flights -> Int]
    <3>1. refs \in [Flights -> Int] /\ refs' = [refs EXCEPT ![f] = 2]
      BY <1>1 DEF Typed
    <3> QED
      BY <1>2, <3>1, Updated
  <2>3. fillers' \in [Flights -> Int]
    <3>1. fillers \in [Flights -> Int] /\ fillers' = [fillers EXCEPT ![f] = 1]
      BY <1>1 DEF Typed
    <3> QED
      BY <1>2, <3>1, Updated
  <2>4. waiters' \in [Flights -> Seq(Slots)]
    BY <1>1 DEF Typed
  <2> QED
    BY <1>5, <2>1, <2>2, <2>3, <2>4, TypedStep
<1>8. Shaped'
  <2>1. Shape(fr)
    BY <1>2, <1>4 DEF Shape
  <2> QED
    BY <1>1, <1>3, <1>5, <2>1, ShapedStep
<1>9. LedOnce'
  BY <1>1, <1>3, <1>4, <1>5, <1>6, LedOnceStep
<1>10. Listed' /\ Served'
  BY <1>1, <1>3, <1>4, <1>5, WaitersKept
<1>11. \A i \in Slots : View'[i] = IF i = t THEN fr ELSE View[i]
  BY <1>1, <1>3, <1>5, ChangeFacts
<1>12. \A j \in Keys : table'[j] = IF j = k THEN f ELSE table[j]
  BY <1>1 DEF Typed
<1>13. Landed'
  <2> SUFFICES ASSUME NEW i \in Slots, Leads(View'[i])
               PROVE  table'[View'[i].key] = View'[i].flight
    BY DEF Landed, Leads, Slots
  <2>1. CASE i = t
    BY <1>4, <1>11, <1>12, <2>1
  <2>2. CASE i # t
    <3>1. View'[i] = View[i] /\ Leads(View[i]) /\ table[View[i].key] = View[i].flight
      BY <1>1, <1>11, <2>2 DEF Landed
    <3>2. View[i].flight # None
      BY <1>1, <3>1 DEF Shaped, Shape, Leads
    <3>3. View[i].key # k
      BY <1>1, <3>1, <3>2
    <3>4. View[i].key \in Keys
      BY <1>1, <3>1, ViewType DEF FrameType, Nobody, Leads
    <3> QED
      BY <1>12, <3>1, <3>3, <3>4
  <2> QED
    BY <2>1, <2>2
<1>14. Flown'
  <2> SUFFICES ASSUME NEW j \in Keys, table'[j] # None
               PROVE  \E i \in Slots : Leads(View'[i]) /\ View'[i].key = j /\ View'[i].flight = table'[j]
    BY DEF Flown, Leads, Slots
  <2>1. CASE j = k
    BY <1>3, <1>4, <1>11, <1>12, <2>1 DEF Leads
  <2>2. CASE j # k
    <3>1. PICK i \in Slots : Leads(View[i]) /\ View[i].key = j /\ View[i].flight = table[j]
      BY <1>1, <1>12, <2>2 DEF Flown
    <3>2. i # t
      BY <1>3, <1>4, <3>1 DEF Leads
    <3> QED
      BY <1>11, <1>12, <2>2, <3>1, <3>2
  <2> QED
    BY <2>1, <2>2
<1>15. Counted'
  <2> SUFFICES ASSUME NEW g \in Flights
               PROVE  /\ refs'[g] = Cardinality(Held(g)') + Cardinality(Keyed(g)')
                      /\ fillers'[g] = Cardinality(Filling(g)')
    BY DEF Counted
  <2>1. g # None
    BY FlightAssumption
  <2>2. /\ refs'[g] = IF g = f THEN 2 ELSE refs[g]
        /\ fillers'[g] = IF g = f THEN 1 ELSE fillers[g]
    BY <1>1 DEF Typed
  <2>3. /\ Cardinality(Held(g)) \in Nat /\ Cardinality(Filling(g)) \in Nat
        /\ Cardinality(Held(g)') = Cardinality(Held(g)) + (IF g = f THEN 1 ELSE 0)
        /\ Cardinality(Filling(g)') = Cardinality(Filling(g)) + (IF g = f THEN 1 ELSE 0)
    BY <1>1, <1>3, <1>4, <1>5, <2>1, HeldCount
  <2>4. /\ Cardinality(Keyed(g)) \in Nat
        /\ Cardinality(Keyed(g)') = Cardinality(Keyed(g)) + (IF g = f THEN 1 ELSE 0)
    <3>1. /\ Cardinality(Keyed(g)) \in Nat
          /\ Cardinality(Keyed(g)') = Cardinality(Keyed(g)) + (IF f = g THEN 1 ELSE 0)
                                       - (IF table[k] = g THEN 1 ELSE 0)
      <4>1. Typed /\ k \in Keys /\ table' = [table EXCEPT ![k] = f]
        BY <1>1, <1>4
      <4> QED
        BY <4>1, KeyedCount
    <3>2. table[k] # g
      BY <1>1, <2>1
    <3> QED
      BY <3>1, <3>2
  <2>5. CASE g = f
    <3>1. Held(g) = {} /\ Filling(g) = {} /\ Keyed(g) = {}
      BY <1>6, <2>5 DEF Held, Filling, Keyed
    <3>2. Cardinality(Held(g)) = 0 /\ Cardinality(Filling(g)) = 0 /\ Cardinality(Keyed(g)) = 0
      BY <3>1, FS_EmptySet
    <3> QED
      BY <2>2, <2>3, <2>4, <2>5, <3>2
  <2>6. CASE g # f
    BY <1>1, <2>2, <2>3, <2>4, <2>6 DEF Counted
  <2> QED
    BY <2>5, <2>6
<1> QED
  BY <1>5, <1>7, <1>8, <1>9, <1>10, <1>13, <1>14, <1>15 DEF FlightInv, StackOK

(* The flight that is in the table has a leader whose callback runs.       *)
LEMMA TableHasLeader ==
  ASSUME FlightInv, NEW k \in Keys, table[k] # None
  PROVE  /\ table[k] \in Flights
         /\ \E i \in Slots : View[i].lead /\ View[i].at = "load" /\ View[i].flight = table[k]
<1>1. table[k] \in Flights
  BY DEF FlightInv, Typed
<1>2. PICK i \in Slots : Leads(View[i]) /\ View[i].flight = table[k]
  BY DEF FlightInv, Flown
<1> QED
  BY <1>1, <1>2 DEF Leads

(* One that does not wait joins.                                           *)
LEMMA JoinVersionedStep ==
  ASSUME FlightInv, NEW c \in Coros, JoinVersioned(c)
  PROVE  FlightInv'
<1> DEFINE x == Top(c)  t == Here(c)  f == table[x.key]
           fr == [x EXCEPT !.at = "load", !.flight = f]
<1>1. /\ Typed /\ Nested /\ Shaped /\ LedOnce /\ Listed /\ Served /\ Landed /\ Flown /\ Counted
      /\ stack[c] # <<>> /\ x.at = "miss" /\ f # None /\ Become(c, fr)
      /\ refs' = [refs EXCEPT ![f] = @ + 1]
      /\ fillers' = [fillers EXCEPT ![f] = @ + 1] /\ waiters' = waiters /\ table' = table
  BY DEF JoinVersioned, At, FlightInv
<1>2. t \in Slots /\ View[t] = x /\ x \in FrameType /\ Shape(x)
  BY <1>1, TopFacts DEF Shaped
<1>3. f \in Flights
  BY <1>1, <1>2 DEF Typed, FrameType
<1> HIDE DEF f, x
<1>4. /\ fr \in FrameType /\ fr.at = "load" /\ fr.flight = f /\ ~fr.lead
      /\ x.flight = None /\ ~x.lead
  BY <1>1, <1>2, <1>3 DEF FrameType, Places, Shape
<1> HIDE DEF fr, t
<1>5. StackOK /\ Change(t, fr)
  BY <1>1, <1>4, BecomeFacts DEF StackOK, Change, t, x
<1>6. /\ refs \in [Flights -> Int] /\ refs[f] + 1 \in Int
      /\ refs' = [refs EXCEPT ![f] = refs[f] + 1]
  BY <1>1, <1>3 DEF Typed
<1>7. /\ fillers \in [Flights -> Int] /\ fillers[f] + 1 \in Int
      /\ fillers' = [fillers EXCEPT ![f] = fillers[f] + 1]
  BY <1>1, <1>3 DEF Typed
<1>8. Typed'
  <2>1. table' \in [Keys -> Flights \cup {None}]
    BY <1>1 DEF Typed
  <2>2. refs' \in [Flights -> Int]
    BY <1>3, <1>6, Updated
  <2>3. fillers' \in [Flights -> Int]
    BY <1>3, <1>7, Updated
  <2>4. waiters' \in [Flights -> Seq(Slots)]
    BY <1>1 DEF Typed
  <2> QED
    BY <1>5, <2>1, <2>2, <2>3, <2>4, TypedStep
<1>9. Shape(fr)
  BY <1>1, <1>4 DEF Shape
<1>10. Shaped' /\ LedOnce'
  BY <1>1, <1>2, <1>4, <1>5, <1>9, ShapedStep, LedOnceStep
<1>11. Landed' /\ Flown'
  BY <1>1, <1>2, <1>4, <1>5, TableKept DEF Leads
<1>12. Listed' /\ Served'
  BY <1>1, <1>2, <1>4, <1>5, WaitersKept
<1>13. Counted'
  <2>1. ASSUME NEW g \in Flights
        PROVE  /\ refs'[g] = refs[g] + (IF fr.flight = g THEN 1 ELSE 0)
                                     - (IF View[t].flight = g THEN 1 ELSE 0)
               /\ fillers'[g] = fillers[g] + (IF fr.flight = g /\ fr.at = "load" THEN 1 ELSE 0)
                                     - (IF View[t].flight = g /\ View[t].at = "load" THEN 1 ELSE 0)
    <3>1. g # None /\ refs[g] \in Int /\ fillers[g] \in Int
      BY <1>6, <1>7, FlightAssumption
    <3>2. refs'[g] = IF g = f THEN refs[f] + 1 ELSE refs[g]
      BY <1>3, <1>6, Updated
    <3>3. fillers'[g] = IF g = f THEN fillers[f] + 1 ELSE fillers[g]
      BY <1>3, <1>7, Updated
    <3>4. fr.flight = f /\ fr.at = "load" /\ View[t].flight # g
      BY <1>2, <1>4, <3>1
    <3> QED
      BY <3>1, <3>2, <3>3, <3>4
  <2>2. Typed /\ Counted /\ t \in Slots /\ Change(t, fr) /\ table' = table
    BY <1>1, <1>2, <1>5
  <2> QED
    BY <2>1, <2>2, CountedStep
<1> QED
  BY <1>5, <1>8, <1>10, <1>11, <1>12, <1>13 DEF FlightInv, StackOK

-----------------------------------------------------------------------------
(* Somebody starts to wait.                                                *)
LEMMA WaiterAdded ==
  ASSUME Typed, Shaped, Listed, Served, NEW t \in Slots, NEW fr, Change(t, fr),
         NEW f \in Flights, waiters' = [waiters EXCEPT ![f] = Append(waiters[f], t)],
         View[t].at # "wait", ~View[t].lead, fr.at = "wait", fr.flight = f,
         \E j \in Slots : View[j].lead /\ View[j].flight = f
  PROVE  waiters' \in [Flights -> Seq(Slots)] /\ Listed' /\ Served'
<1> DEFINE s == waiters[f]  u == Append(s, t)
<1>1. s \in Seq(Slots) /\ Len(s) \in Nat
  BY LenProperties DEF Typed
<1>2. u \in Seq(Slots) /\ Len(u) = Len(s) + 1
  BY <1>1, AppendProperties
<1>3. \A n \in 1..Len(s) + 1 : u[n] = IF n = Len(s) + 1 THEN t ELSE s[n]
  BY <1>1, AppendProperties
<1>4. waiters' = [waiters EXCEPT ![f] = u] /\ waiters \in [Flights -> Seq(Slots)]
  BY DEF Typed
<1>5. \A n \in 1..Len(s) : s[n] \in Slots
  BY <1>1, ElementOfSeq
<1> HIDE DEF s, u
<1>6. waiters' \in [Flights -> Seq(Slots)]
  BY <1>2, <1>4
<1>7. \A g \in Flights : waiters'[g] = IF g = f THEN u ELSE waiters[g]
  BY <1>4
<1>8. \A i \in Slots : View'[i] = IF i = t THEN fr ELSE View[i]
  BY ChangeFacts
<1>9. \A n \in 1..Len(s) : s[n] # t
  BY DEF Listed, s
<1>10. Listed'
  <2> SUFFICES ASSUME NEW g \in Flights, NEW n \in 1..Len(waiters'[g])
               PROVE  /\ View'[waiters'[g][n]].at = "wait" /\ View'[waiters'[g][n]].flight = g
                      /\ \A m \in 1..Len(waiters'[g]) : waiters'[g][m] = waiters'[g][n] => m = n
    BY DEF Listed
  <2>1. CASE g # f
    <3>1. waiters'[g] = waiters[g] /\ waiters[g] \in Seq(Slots)
      BY <1>4, <1>7, <2>1
    <3>2. n \in 1..Len(waiters[g])
      BY <3>1
    <3>3. waiters[g][n] \in Slots
      BY <3>1, <3>2, ElementOfSeq
    <3>4. /\ View[waiters[g][n]].at = "wait" /\ View[waiters[g][n]].flight = g
          /\ \A m \in 1..Len(waiters[g]) : waiters[g][m] = waiters[g][n] => m = n
      BY <3>2 DEF Listed
    <3> QED
      BY <1>8, <3>1, <3>3, <3>4
  <2>2. CASE g = f
    <3>1. waiters'[g] = u /\ n \in 1..Len(s) + 1
      BY <1>2, <1>7, <2>2
    <3>2. CASE n = Len(s) + 1
      <4>1. u[n] = t
        BY <1>3, <3>1, <3>2
      <4>2. ASSUME NEW m \in 1..Len(s) + 1, u[m] = t PROVE m = n
        <5>1. CASE m # Len(s) + 1
          <6>1. m \in 1..Len(s) /\ s[m] = t
            BY <1>1, <1>3, <4>2, <5>1
          <6> QED
            BY <1>9, <6>1
        <5> QED
          BY <3>2, <5>1
      <4> QED
        BY <1>2, <1>8, <2>2, <3>1, <4>1, <4>2
    <3>3. CASE n # Len(s) + 1
      <4>1. n \in 1..Len(s)
        BY <1>1, <3>1, <3>3
      <4>2. u[n] = s[n] /\ s[n] # t /\ s[n] \in Slots
        BY <1>3, <1>5, <1>9, <3>1, <3>3, <4>1
      <4>3. /\ View[s[n]].at = "wait" /\ View[s[n]].flight = f
            /\ \A m \in 1..Len(s) : s[m] = s[n] => m = n
        BY <4>1 DEF Listed, s
      <4>4. ASSUME NEW m \in 1..Len(s) + 1, u[m] = u[n] PROVE m = n
        <5>1. m # Len(s) + 1
          BY <1>3, <4>2, <4>4
        <5>2. m \in 1..Len(s) /\ u[m] = s[m]
          BY <1>1, <1>3, <5>1
        <5> QED
          BY <4>2, <4>3, <4>4, <5>2
      <4> QED
        BY <1>2, <1>8, <2>2, <3>1, <4>2, <4>3, <4>4
    <3> QED
      BY <3>2, <3>3
  <2> QED
    BY <2>1, <2>2
<1>11. Served'
  <2> SUFFICES ASSUME NEW i \in Slots, View'[i].at = "wait"
               PROVE  /\ \E n \in 1..Len(waiters'[View'[i].flight]) : waiters'[View'[i].flight][n] = i
                      /\ \E j \in Slots : View'[j].lead /\ View'[j].flight = View'[i].flight
    BY DEF Served, Slots
  <2>1. CASE i = t
    <3>1. View'[i].flight = f /\ waiters'[f] = u
      BY <1>7, <1>8, <2>1
    <3>2. Len(s) + 1 \in 1..Len(u) /\ u[Len(s) + 1] = t
      BY <1>1, <1>2, <1>3
    <3>3. PICK j \in Slots : View[j].lead /\ View[j].flight = f
      OBVIOUS
    <3>4. View'[j].lead /\ View'[j].flight = f
      BY <1>8, <3>3
    <3> QED
      BY <2>1, <3>1, <3>2, <3>4
  <2>2. CASE i # t
    <3>1. View'[i] = View[i] /\ View[i].at = "wait"
      BY <1>8, <2>2
    <3>2. PICK n \in 1..Len(waiters[View[i].flight]) : waiters[View[i].flight][n] = i
      BY <3>1 DEF Served
    <3>3. PICK j \in Slots : View[j].lead /\ View[j].flight = View[i].flight
      BY <3>1 DEF Served
    <3>4. View'[j].lead /\ View'[j].flight = View[i].flight
      BY <1>8, <3>3
    <3>5. View[i].flight \in Flights
      BY <3>1, ViewType DEF Shaped, Shape, FrameType, Nobody
    <3>6. \E m \in 1..Len(waiters'[View[i].flight]) : waiters'[View[i].flight][m] = i
      <4>1. CASE View[i].flight = f
        <5>1. n \in 1..Len(s) /\ s[n] = i
          BY <3>2, <4>1 DEF s
        <5>2. n \in 1..Len(u) /\ u[n] = i
          BY <1>1, <1>2, <1>3, <5>1
        <5> QED
          BY <1>7, <4>1, <5>2
      <4>2. CASE View[i].flight # f
        BY <1>7, <3>2, <3>5, <4>2
      <4> QED
        BY <4>1, <4>2
    <3> QED
      BY <3>1, <3>4, <3>6
  <2> QED
    BY <2>1, <2>2
<1> QED
  BY <1>6, <1>10, <1>11

(* The n-th of those who wait stops waiting.                               *)
LEMMA WaiterGone ==
  ASSUME Typed, Shaped, Listed, Served, NEW t \in Slots, NEW fr, Change(t, fr),
         NEW f \in Flights, NEW n \in 1..Len(waiters[f]), waiters[f][n] = t,
         ~View[t].lead, fr.at # "wait",
         NEW u \in Seq(Slots), waiters' = [waiters EXCEPT ![f] = u],
         Len(u) = Len(waiters[f]) - 1,
         \A m \in 1..Len(waiters[f]) - 1 :
            u[m] = IF m < n THEN waiters[f][m] ELSE waiters[f][m + 1]
  PROVE  waiters' \in [Flights -> Seq(Slots)] /\ Listed' /\ Served'
<1> DEFINE s == waiters[f]
<1>1. s \in Seq(Slots) /\ Len(s) \in Nat /\ n \in 1..Len(s) /\ s[n] = t
  BY LenProperties DEF Typed
<1>2. \A m \in 1..Len(s) : s[m] \in Slots
  BY <1>1, ElementOfSeq
<1>3. /\ Len(u) = Len(s) - 1
      /\ \A m \in 1..Len(s) - 1 : u[m] = IF m < n THEN s[m] ELSE s[m + 1]
  OBVIOUS
<1>4. /\ View[t].at = "wait" /\ View[t].flight = f
      /\ \A m \in 1..Len(s) : /\ View[s[m]].at = "wait" /\ View[s[m]].flight = f
                              /\ s[m] = t => m = n
      /\ \A m, o \in 1..Len(s) : s[m] = s[o] => m = o
  BY <1>1 DEF Listed
<1>5. waiters' = [waiters EXCEPT ![f] = u] /\ waiters \in [Flights -> Seq(Slots)]
  BY DEF Typed
<1> HIDE DEF s
<1>6. waiters' \in [Flights -> Seq(Slots)]
  BY <1>5
<1>7. \A g \in Flights : waiters'[g] = IF g = f THEN u ELSE waiters[g]
  BY <1>5
<1>8. \A i \in Slots : View'[i] = IF i = t THEN fr ELSE View[i]
  BY ChangeFacts
<1>9. \A m \in 1..Len(u) : \E o \in 1..Len(s) :
         /\ u[m] = s[o] /\ o # n /\ o = IF m < n THEN m ELSE m + 1
  <2> SUFFICES ASSUME NEW m \in 1..Len(u)
               PROVE  \E o \in 1..Len(s) :
                         /\ u[m] = s[o] /\ o # n /\ o = IF m < n THEN m ELSE m + 1
    OBVIOUS
  <2>1. m \in 1..Len(s) - 1
    BY <1>3
  <2>2. CASE m < n
    BY <1>1, <1>3, <2>1, <2>2
  <2>3. CASE ~(m < n)
    BY <1>1, <1>3, <2>1, <2>3
  <2> QED
    BY <2>2, <2>3
<1>10. Listed'
  <2> SUFFICES ASSUME NEW g \in Flights, NEW m \in 1..Len(waiters'[g])
               PROVE  /\ View'[waiters'[g][m]].at = "wait" /\ View'[waiters'[g][m]].flight = g
                      /\ \A p \in 1..Len(waiters'[g]) : waiters'[g][p] = waiters'[g][m] => p = m
    BY DEF Listed
  <2>1. CASE g # f
    <3>1. waiters'[g] = waiters[g] /\ waiters[g] \in Seq(Slots)
      BY <1>5, <1>7, <2>1
    <3>2. m \in 1..Len(waiters[g])
      BY <3>1
    <3>3. waiters[g][m] \in Slots
      BY <3>1, <3>2, ElementOfSeq
    <3>4. /\ View[waiters[g][m]].at = "wait" /\ View[waiters[g][m]].flight = g
          /\ \A p \in 1..Len(waiters[g]) : waiters[g][p] = waiters[g][m] => p = m
      BY <3>2 DEF Listed
    <3>5. waiters[g][m] # t
      BY <1>4, <2>1, <3>4
    <3> QED
      BY <1>8, <3>1, <3>3, <3>4, <3>5
  <2>2. CASE g = f
    <3>1. waiters'[g] = u /\ m \in 1..Len(u)
      BY <1>7, <2>2
    <3>2. PICK o \in 1..Len(s) : u[m] = s[o] /\ o # n /\ o = IF m < n THEN m ELSE m + 1
      BY <1>9, <3>1
    <3>3. s[o] # t /\ s[o] \in Slots /\ View[s[o]].at = "wait" /\ View[s[o]].flight = f
      BY <1>2, <1>4, <3>2
    <3>4. ASSUME NEW p \in 1..Len(u), u[p] = u[m] PROVE p = m
      <4>1. PICK q \in 1..Len(s) : u[p] = s[q] /\ q = IF p < n THEN p ELSE p + 1
        BY <1>9
      <4>2. q = o
        BY <1>4, <3>2, <3>4, <4>1
      <4> QED
        BY <1>1, <1>3, <3>1, <3>2, <4>1, <4>2
    <3> QED
      BY <1>8, <2>2, <3>1, <3>2, <3>3, <3>4
  <2> QED
    BY <2>1, <2>2
<1>11. Served'
  <2> SUFFICES ASSUME NEW i \in Slots, View'[i].at = "wait"
               PROVE  /\ \E m \in 1..Len(waiters'[View'[i].flight]) : waiters'[View'[i].flight][m] = i
                      /\ \E j \in Slots : View'[j].lead /\ View'[j].flight = View'[i].flight
    BY DEF Served, Slots
  <2>1. i # t /\ View'[i] = View[i] /\ View[i].at = "wait"
    BY <1>8
  <2>2. PICK o \in 1..Len(waiters[View[i].flight]) : waiters[View[i].flight][o] = i
    BY <2>1 DEF Served
  <2>3. PICK j \in Slots : View[j].lead /\ View[j].flight = View[i].flight
    BY <2>1 DEF Served
  <2>4. View'[j].lead /\ View'[j].flight = View[i].flight
    BY <1>8, <2>3
  <2>5. View[i].flight \in Flights
    BY <2>1, ViewType DEF Shaped, Shape, FrameType, Nobody
  <2>6. \E m \in 1..Len(waiters'[View[i].flight]) : waiters'[View[i].flight][m] = i
    <3>1. CASE View[i].flight = f
      <4>1. o \in 1..Len(s) /\ s[o] = i /\ o # n
        BY <1>1, <2>1, <2>2, <3>1 DEF s
      <4>2. CASE o < n
        <5>1. o \in 1..Len(s) - 1 /\ o \in 1..Len(u) /\ u[o] = s[o]
          BY <1>1, <1>3, <4>1, <4>2
        <5> QED
          BY <1>7, <3>1, <4>1, <5>1
      <4>3. CASE o > n
        <5>1. /\ o - 1 \in 1..Len(s) - 1 /\ o - 1 \in 1..Len(u) /\ ~(o - 1 < n)
              /\ (o - 1) + 1 = o
          BY <1>1, <1>3, <4>1, <4>3
        <5>2. u[o - 1] = s[o]
          BY <1>3, <5>1
        <5> QED
          BY <1>7, <3>1, <4>1, <5>1, <5>2
      <4> QED
        BY <1>1, <4>1, <4>2, <4>3
    <3>2. CASE View[i].flight # f
      BY <1>7, <2>2, <2>5, <3>2
    <3> QED
      BY <3>1, <3>2
  <2> QED
    BY <2>1, <2>4, <2>6
<1> QED
  BY <1>6, <1>10, <1>11

-----------------------------------------------------------------------------
(* c parks; the flight it found in the table has a leader.                 *)
LEMMA JoinStep ==
  ASSUME FlightInv, NEW c \in Coros, Join(c)
  PROVE  FlightInv'
<1> DEFINE x == Top(c)  t == Here(c)  f == table[x.key]
           fr == [x EXCEPT !.at = "wait", !.flight = f]
<1>1. /\ Typed /\ Nested /\ Shaped /\ LedOnce /\ Listed /\ Served /\ Landed /\ Flown /\ Counted
      /\ stack[c] # <<>> /\ x.at = "miss" /\ f # None /\ Become(c, fr)
      /\ refs' = [refs EXCEPT ![f] = @ + 1] /\ fillers' = fillers /\ table' = table
      /\ waiters' = [waiters EXCEPT ![f] = Append(@, t)]
  BY DEF Join, At, FlightInv, Here
<1>2. t \in Slots /\ View[t] = x /\ x \in FrameType /\ Shape(x)
  BY <1>1, TopFacts DEF Shaped
<1>3. x.key \in Keys
  BY <1>2 DEF FrameType
<1>4. f \in Flights /\ \E j \in Slots : View[j].lead /\ View[j].flight = f
  <2>1. table[x.key] # None
    BY <1>1
  <2> QED
    BY <1>3, <2>1, TableHasLeader
<1> HIDE DEF f, x
<1>5. /\ fr \in FrameType /\ fr.at = "wait" /\ fr.flight = f /\ ~fr.lead
      /\ x.flight = None /\ ~x.lead
  BY <1>1, <1>2, <1>4 DEF FrameType, Places, Shape
<1> HIDE DEF fr, t
<1>6. StackOK /\ Change(t, fr)
  BY <1>1, <1>5, BecomeFacts DEF StackOK, Change, t, x
<1>7. /\ refs \in [Flights -> Int] /\ refs[f] + 1 \in Int
      /\ refs' = [refs EXCEPT ![f] = refs[f] + 1]
  BY <1>1, <1>4 DEF Typed
<1>8. waiters' \in [Flights -> Seq(Slots)] /\ Listed' /\ Served'
  <2>1. waiters' = [waiters EXCEPT ![f] = Append(waiters[f], t)]
    BY <1>1
  <2>2. View[t].at # "wait" /\ ~View[t].lead
    BY <1>1, <1>2, <1>5
  <2> QED
    BY <1>1, <1>2, <1>4, <1>5, <1>6, <2>1, <2>2, WaiterAdded
<1>9. Typed'
  <2>1. table' \in [Keys -> Flights \cup {None}]
    BY <1>1 DEF Typed
  <2>2. refs' \in [Flights -> Int]
    BY <1>4, <1>7, Updated
  <2>3. fillers' \in [Flights -> Int]
    BY <1>1 DEF Typed
  <2> QED
    BY <1>6, <1>8, <2>1, <2>2, <2>3, TypedStep
<1>10. Shape(fr)
  BY <1>4, <1>5, FlightAssumption DEF Shape
<1>11. Shaped' /\ LedOnce'
  BY <1>1, <1>2, <1>5, <1>6, <1>10, ShapedStep, LedOnceStep
<1>12. Landed' /\ Flown'
  BY <1>1, <1>2, <1>5, <1>6, TableKept DEF Leads
<1>13. Counted'
  <2>1. ASSUME NEW g \in Flights
        PROVE  /\ refs'[g] = refs[g] + (IF fr.flight = g THEN 1 ELSE 0)
                                     - (IF View[t].flight = g THEN 1 ELSE 0)
               /\ fillers'[g] = fillers[g] + (IF fr.flight = g /\ fr.at = "load" THEN 1 ELSE 0)
                                     - (IF View[t].flight = g /\ View[t].at = "load" THEN 1 ELSE 0)
    <3>1. g # None /\ refs[g] \in Int /\ fillers[g] \in Int
      BY <1>1, <1>7, FlightAssumption DEF Typed
    <3>2. refs'[g] = IF g = f THEN refs[f] + 1 ELSE refs[g]
      BY <1>4, <1>7, Updated
    <3>3. fillers'[g] = fillers[g]
      BY <1>1
    <3>4. fr.flight = f /\ fr.at # "load" /\ View[t].flight # g
      BY <1>2, <1>5, <3>1
    <3> QED
      BY <3>1, <3>2, <3>3, <3>4
  <2>2. Typed /\ Counted /\ t \in Slots /\ Change(t, fr) /\ table' = table
    BY <1>1, <1>2, <1>6
  <2> QED
    BY <2>1, <2>2, CountedStep
<1> QED
  BY <1>6, <1>8, <1>9, <1>11, <1>12, <1>13 DEF FlightInv, StackOK

(* The n-th of those who wait goes on, with the value or to load it.       *)
GoesOn(w, f) ==
    \/ Return(w) /\ refs' = [refs EXCEPT ![f] = refs[f] - 1] /\ fillers' = fillers
    \/ /\ Become(w, [Top(w) EXCEPT !.at = "load"])
       /\ refs' = refs /\ fillers' = [fillers EXCEPT ![f] = fillers[f] + 1]

LEMMA WaiterStep ==
  ASSUME FlightInv, NEW w \in Coros, stack[w] # <<>>, NEW f \in Flights,
         NEW n \in 1..Len(waiters[f]), waiters[f][n] = Here(w), GoesOn(w, f),
         NEW u \in Seq(Slots), waiters' = [waiters EXCEPT ![f] = u],
         Len(u) = Len(waiters[f]) - 1,
         \A m \in 1..Len(waiters[f]) - 1 :
            u[m] = IF m < n THEN waiters[f][m] ELSE waiters[f][m + 1],
         table' = table
  PROVE  FlightInv'
<1> DEFINE x == Top(w)  t == Here(w)  ld == [x EXCEPT !.at = "load"]
<1>1. Typed /\ Nested /\ Shaped /\ LedOnce /\ Listed /\ Served /\ Landed /\ Flown /\ Counted
  BY DEF FlightInv
<1>2. t \in Slots /\ View[t] = x /\ x \in FrameType /\ Shape(x)
  BY <1>1, TopFacts DEF Shaped
<1>3. x.at = "wait" /\ x.flight = f
  BY <1>1, <1>2 DEF Listed
<1>4. ~x.lead /\ f # None
  BY <1>2, <1>3, FlightAssumption DEF Shape
<1> HIDE DEF x
<1>5. /\ ld \in FrameType /\ ld.at = "load" /\ ld.flight = f /\ ~ld.lead
  BY <1>2, <1>3, <1>4 DEF FrameType, Places
<1>6. Nobody.at = "none" /\ Nobody.flight = None /\ ~Nobody.lead
  BY DEF Nobody
<1> HIDE DEF ld, t
<1>7. PICK fr : /\ StackOK /\ Change(t, fr) /\ fr.at # "wait" /\ ~fr.lead /\ Shape(fr)
                /\ \/ /\ fr.flight = None /\ fr.at = "none" /\ fillers' = fillers
                      /\ refs' = [refs EXCEPT ![f] = refs[f] - 1]
                   \/ /\ fr.flight = f /\ fr.at = "load" /\ refs' = refs
                      /\ fillers' = [fillers EXCEPT ![f] = fillers[f] + 1]
  <2>1. CASE Return(w) /\ refs' = [refs EXCEPT ![f] = refs[f] - 1] /\ fillers' = fillers
    <3>1. StackOK /\ Change(t, Nobody)
      BY <1>1, <2>1, ReturnFacts DEF StackOK, Change, t
    <3>2. Shape(Nobody)
      BY <1>6 DEF Shape
    <3>3. Nobody.at # "wait"
      BY <1>6
    <3> QED
      BY <1>6, <2>1, <3>1, <3>2, <3>3
  <2>2. CASE /\ Become(w, ld) /\ refs' = refs
             /\ fillers' = [fillers EXCEPT ![f] = fillers[f] + 1]
    <3>1. StackOK /\ Change(t, ld)
      BY <1>1, <1>5, <2>2, BecomeFacts DEF StackOK, Change, t
    <3>2. Shape(ld)
      BY <1>4, <1>5 DEF Shape
    <3> QED
      BY <1>5, <2>2, <3>1, <3>2
  <2> QED
    BY <2>1, <2>2 DEF GoesOn, ld, x
<1>8. waiters' \in [Flights -> Seq(Slots)] /\ Listed' /\ Served'
  <2>1. waiters[f][n] = t /\ ~View[t].lead
    BY <1>2, <1>4 DEF t
  <2> QED
    BY <1>1, <1>2, <1>7, <2>1, WaiterGone
<1>9. refs \in [Flights -> Int] /\ refs[f] - 1 \in Int
  BY <1>1 DEF Typed
<1>10. fillers \in [Flights -> Int] /\ fillers[f] + 1 \in Int
  BY <1>1 DEF Typed
<1>11. Typed'
  <2>1. table' \in [Keys -> Flights \cup {None}]
    BY <1>1 DEF Typed
  <2>2. refs' \in [Flights -> Int]
    BY <1>7, <1>9, Updated
  <2>3. fillers' \in [Flights -> Int]
    BY <1>7, <1>10, Updated
  <2> QED
    BY <1>7, <1>8, <2>1, <2>2, <2>3, TypedStep
<1>12. Shaped' /\ LedOnce'
  BY <1>1, <1>2, <1>7, ShapedStep, LedOnceStep
<1>13. Landed' /\ Flown'
  BY <1>1, <1>2, <1>4, <1>7, TableKept DEF Leads
<1>14. Counted'
  <2>1. ASSUME NEW g \in Flights
        PROVE  /\ refs'[g] = refs[g] + (IF fr.flight = g THEN 1 ELSE 0)
                                     - (IF View[t].flight = g THEN 1 ELSE 0)
               /\ fillers'[g] = fillers[g] + (IF fr.flight = g /\ fr.at = "load" THEN 1 ELSE 0)
                                     - (IF View[t].flight = g /\ View[t].at = "load" THEN 1 ELSE 0)
    <3>1. g # None /\ refs[g] \in Int /\ fillers[g] \in Int
      BY <1>9, <1>10, FlightAssumption
    <3>2. View[t].flight = f /\ View[t].at # "load"
      BY <1>2, <1>3
    <3>3. CASE /\ fr.flight = None /\ fr.at = "none" /\ fillers' = fillers
               /\ refs' = [refs EXCEPT ![f] = refs[f] - 1]
      <4>1. refs'[g] = IF g = f THEN refs[f] - 1 ELSE refs[g]
        BY <1>9, <3>3, Updated
      <4> QED
        BY <3>1, <3>2, <3>3, <4>1
    <3>4. CASE /\ fr.flight = f /\ fr.at = "load" /\ refs' = refs
               /\ fillers' = [fillers EXCEPT ![f] = fillers[f] + 1]
      <4>1. fillers'[g] = IF g = f THEN fillers[f] + 1 ELSE fillers[g]
        BY <1>10, <3>4, Updated
      <4> QED
        BY <3>1, <3>2, <3>4, <4>1
    <3> QED
      BY <1>7, <3>3, <3>4
  <2>2. Typed /\ Counted /\ t \in Slots /\ Change(t, fr) /\ table' = table
    BY <1>1, <1>2, <1>7
  <2> QED
    BY <2>1, <2>2, CountedStep
<1> QED
  BY <1>7, <1>8, <1>11, <1>12, <1>13, <1>14 DEF FlightInv, StackOK

LEMMA WaitTimeoutStep ==
  ASSUME FlightInv, NEW c \in Coros, WaitTimeout(c)
  PROVE  FlightInv'
<1> DEFINE f == Top(c).flight
<1>1. PICK i \in 1..Len(waiters[f]) : /\ waiters[f][i] = Here(c)
                                      /\ waiters' = [waiters EXCEPT ![f] = RemoveAt(@, i)]
  BY DEF WaitTimeout, Here
<1>2. /\ stack[c] # <<>> /\ Top(c).at = "wait" /\ table' = table /\ refs' = refs
      /\ fillers' = [fillers EXCEPT ![f] = @ + 1] /\ Become(c, [Top(c) EXCEPT !.at = "load"])
      /\ Typed /\ Shaped
  BY DEF WaitTimeout, At, FlightInv
<1>3. View[Here(c)] = Top(c) /\ Top(c) \in FrameType /\ Shape(Top(c))
  BY <1>2, TopFacts DEF Shaped
<1>4. f \in Flights
  BY <1>2, <1>3 DEF Shape, FrameType
<1> HIDE DEF f
<1>5. GoesOn(c, f)
  BY <1>2 DEF GoesOn
<1>6. waiters[f] \in Seq(Slots)
  BY <1>2, <1>4 DEF Typed
<1>7. waiters' = [waiters EXCEPT ![f] = RemoveAt(waiters[f], i)]
  BY <1>1
<1>8. /\ RemoveAt(waiters[f], i) \in Seq(Slots)
      /\ Len(RemoveAt(waiters[f], i)) = Len(waiters[f]) - 1
      /\ \A m \in 1..Len(waiters[f]) - 1 :
            RemoveAt(waiters[f], i)[m] = IF m < i THEN waiters[f][m] ELSE waiters[f][m + 1]
  BY <1>1, <1>6, RemoveAtFacts
<1> QED
  BY <1>1, <1>2, <1>4, <1>5, <1>7, <1>8, WaiterStep

LEMMA NotifyStep ==
  ASSUME FlightInv, NEW c \in Coros, Notify(c)
  PROVE  FlightInv'
<1> DEFINE f == Top(c).flight  w == Head(waiters[f])[1]
<1>1. /\ stack[c] # <<>> /\ Top(c).at = "notify" /\ waiters[f] # <<>> /\ table' = table
      /\ Typed /\ Shaped /\ waiters' = [waiters EXCEPT ![f] = Tail(@)]
  BY DEF Notify, At, FlightInv
<1>2. \/ Return(w) /\ refs' = [refs EXCEPT ![f] = @ - 1] /\ fillers' = fillers
      \/ /\ Become(w, [Top(w) EXCEPT !.at = "load"]) /\ refs' = refs
         /\ fillers' = [fillers EXCEPT ![f] = @ + 1]
  BY DEF Notify
<1>3. View[Here(c)] = Top(c) /\ Top(c) \in FrameType /\ Shape(Top(c))
  BY <1>1, TopFacts DEF Shaped
<1>4. f \in Flights
  BY <1>1, <1>3 DEF Shape, FrameType
<1>5. GoesOn(w, f)
  BY <1>2 DEF GoesOn
<1>6. Head(waiters[f]) = waiters[f][1]
  OBVIOUS
<1> HIDE DEF f
<1>7. waiters[f] \in Seq(Slots)
  BY <1>1, <1>4 DEF Typed
<1>8. 1 \in 1..Len(waiters[f])
  BY <1>1, <1>7, EmptySeq, LenProperties
<1>9. w \in Coros /\ stack[w] # <<>> /\ waiters[f][1] = Here(w)
  BY <1>4, <1>6, <1>8, ListedTop
<1> HIDE DEF w
<1>10. /\ Tail(waiters[f]) \in Seq(Slots) /\ Len(Tail(waiters[f])) = Len(waiters[f]) - 1
       /\ \A m \in 1..Len(Tail(waiters[f])) : Tail(waiters[f])[m] = waiters[f][m + 1]
  BY <1>1, <1>7, HeadTailProperties
<1>11. \A m \in 1..Len(waiters[f]) - 1 :
          Tail(waiters[f])[m] = IF m < 1 THEN waiters[f][m] ELSE waiters[f][m + 1]
  BY <1>10
<1>12. waiters' = [waiters EXCEPT ![f] = Tail(waiters[f])]
  BY <1>1
<1> QED
  BY <1>1, <1>4, <1>5, <1>8, <1>9, <1>10, <1>11, <1>12, WaiterStep

-----------------------------------------------------------------------------
(* Somebody who does not wait gives its reference back.                    *)
LEMMA GivesBack ==
  ASSUME FlightInv, NEW c \in Coros, stack[c] # <<>>,
         NEW f \in Flights, Top(c).flight = f, Release(f), table' = table,
         \/ Top(c).at = "load" /\ ~Top(c).lead /\ fillers' = [fillers EXCEPT ![f] = fillers[f] - 1]
         \/ Top(c).at = "notify" /\ waiters[f] = <<>> /\ fillers' = fillers,
         Return(c) \/ Become(c, [Top(c) EXCEPT !.at = "store", !.flight = None])
  PROVE  FlightInv'
<1> DEFINE x == Top(c)  t == Here(c)  st == [x EXCEPT !.at = "store", !.flight = None]
<1>1. Typed /\ Nested /\ Shaped /\ LedOnce /\ Listed /\ Served /\ Landed /\ Flown /\ Counted
  BY DEF FlightInv
<1>2. t \in Slots /\ View[t] = x /\ x \in FrameType /\ Shape(x)
  BY <1>1, TopFacts DEF Shaped
<1>3. x.flight = f /\ f # None
  BY FlightAssumption
<1>4. \/ x.at = "load" /\ ~x.lead /\ fillers' = [fillers EXCEPT ![f] = fillers[f] - 1]
      \/ x.at = "notify" /\ waiters[f] = <<>> /\ fillers' = fillers
  OBVIOUS
<1>5. Return(c) \/ Become(c, st)
  OBVIOUS
<1> HIDE DEF x
<1>6. st \in FrameType /\ st.at = "store" /\ st.flight = None
  BY <1>2 DEF FrameType, Places
<1>7. Nobody.at = "none" /\ Nobody.flight = None
  BY DEF Nobody
<1> HIDE DEF st, t
<1>8. PICK fr : StackOK /\ Change(t, fr) /\ fr.at \in {"none", "store"} /\ fr.flight = None
  <2>1. CASE Return(c)
    <3>1. StackOK /\ Change(t, Nobody)
      BY <1>1, <2>1, ReturnFacts DEF StackOK, Change, t
    <3> QED
      BY <1>7, <3>1
  <2>2. CASE Become(c, st)
    <3>1. StackOK /\ Change(t, st)
      BY <1>1, <1>6, <2>2, BecomeFacts DEF StackOK, Change, t
    <3> QED
      BY <1>6, <3>1
  <2> QED
    BY <1>5, <2>1, <2>2
<1>9. x.at # "wait" /\ ~Leads(x)
  BY <1>4 DEF Leads
<1>10. waiters' = waiters
  BY <1>1, <1>2, <1>3, <1>9, ReleaseKeeps
<1>11. refs \in [Flights -> Int] /\ refs' = [refs EXCEPT ![f] = refs[f] - 1] /\ refs[f] - 1 \in Int
  BY <1>1 DEF Release, Typed
<1>12. fillers \in [Flights -> Int] /\ fillers[f] - 1 \in Int
  BY <1>1 DEF Typed
<1>13. Typed'
  <2>1. table' \in [Keys -> Flights \cup {None}] /\ waiters' \in [Flights -> Seq(Slots)]
    BY <1>1, <1>10 DEF Typed
  <2>2. refs' \in [Flights -> Int]
    BY <1>11, Updated
  <2>3. fillers' \in [Flights -> Int]
    BY <1>4, <1>12, Updated
  <2> QED
    BY <1>8, <2>1, <2>2, <2>3, TypedStep
<1>14. Shape(fr)
  BY <1>8 DEF Shape
<1>15. Shaped' /\ LedOnce'
  BY <1>1, <1>2, <1>8, <1>14, ShapedStep, LedOnceStep
<1>16. Landed' /\ Flown'
  <2>1. ~Leads(fr)
    BY <1>8 DEF Leads
  <2> QED
    BY <1>1, <1>2, <1>8, <1>9, <2>1, TableKept
<1>17. Listed' /\ Served'
  <2>1. ~View[t].lead \/ \A i \in Slots : View[i].at = "wait" => View[i].flight # View[t].flight
    <3>1. CASE waiters[f] = <<>>
      <4>1. ASSUME NEW i \in Slots, View[i].at = "wait" PROVE View[i].flight # f
        BY <1>1, <3>1, <4>1 DEF Served
      <4> QED
        BY <1>2, <1>3, <4>1
    <3> QED
      BY <1>2, <1>4, <3>1
  <2> QED
    BY <1>1, <1>2, <1>8, <1>9, <1>10, <2>1, WaitersKept
<1>18. Counted'
  <2>1. ASSUME NEW g \in Flights
        PROVE  /\ refs'[g] = refs[g] + (IF fr.flight = g THEN 1 ELSE 0)
                                     - (IF View[t].flight = g THEN 1 ELSE 0)
               /\ fillers'[g] = fillers[g] + (IF fr.flight = g /\ fr.at = "load" THEN 1 ELSE 0)
                                     - (IF View[t].flight = g /\ View[t].at = "load" THEN 1 ELSE 0)
    <3>1. g # None /\ refs[g] \in Int /\ fillers[g] \in Int
      BY <1>11, <1>12, FlightAssumption
    <3>2. refs'[g] = IF g = f THEN refs[f] - 1 ELSE refs[g]
      BY <1>11, Updated
    <3>3. View[t].flight = f /\ View[t].at = x.at /\ fr.flight = None
      BY <1>2, <1>3, <1>8
    <3>4. CASE x.at = "load" /\ fillers' = [fillers EXCEPT ![f] = fillers[f] - 1]
      <4>1. fillers'[g] = IF g = f THEN fillers[f] - 1 ELSE fillers[g]
        BY <1>12, <3>4, Updated
      <4> QED
        BY <3>1, <3>2, <3>3, <3>4, <4>1
    <3>5. CASE x.at = "notify" /\ fillers' = fillers
      BY <3>1, <3>2, <3>3, <3>5
    <3> QED
      BY <1>4, <3>4, <3>5
  <2>2. Typed /\ Counted /\ t \in Slots /\ Change(t, fr) /\ table' = table
    BY <1>1, <1>2, <1>8
  <2> QED
    BY <2>1, <2>2, CountedStep
<1> QED
  BY <1>8, <1>13, <1>15, <1>16, <1>17, <1>18 DEF FlightInv, StackOK

LEMMA FillEndsStep ==
  ASSUME FlightInv, NEW c \in Coros, FillEnds(c)
  PROVE  FlightInv'
<1> DEFINE f == Top(c).flight
<1>1. /\ stack[c] # <<>> /\ Top(c).at = "load" /\ ~Top(c).lead /\ table' = table
      /\ Release(f) /\ fillers' = [fillers EXCEPT ![f] = fillers[f] - 1]
      /\ Return(c) \/ Become(c, [Top(c) EXCEPT !.at = "store", !.flight = None])
  BY DEF FillEnds, At
<1>2. Top(c) \in FrameType /\ Shape(Top(c))
  BY <1>1, TopFacts DEF FlightInv, Shaped
<1>3. f \in Flights
  BY <1>1, <1>2 DEF Shape, FrameType
<1> QED
  BY <1>1, <1>3, GivesBack

LEMMA NotifiedStep ==
  ASSUME FlightInv, NEW c \in Coros, Notified(c)
  PROVE  FlightInv'
<1> DEFINE f == Top(c).flight
<1>1. /\ stack[c] # <<>> /\ Top(c).at = "notify" /\ waiters[f] = <<>> /\ table' = table
      /\ Release(f) /\ fillers' = fillers
      /\ Return(c) \/ Become(c, [Top(c) EXCEPT !.at = "store", !.flight = None])
  BY DEF Notified, At
<1>2. Top(c) \in FrameType /\ Shape(Top(c))
  BY <1>1, TopFacts DEF FlightInv, Shaped
<1>3. f \in Flights
  BY <1>1, <1>2 DEF Shape, FrameType
<1> QED
  BY <1>1, <1>3, GivesBack

(* The flight leaves the table, where its leader finds it.                 *)
LEMMA LoadEndsStep ==
  ASSUME FlightInv, NEW c \in Coros, LoadEnds(c)
  PROVE  FlightInv'
<1> DEFINE x == Top(c)  t == Here(c)  f == x.flight  k == x.key
<1>1. PICK o \in Outcomes : Become(c, [x EXCEPT !.at = "notify", !.out = o])
  BY DEF LoadEnds
<1> DEFINE fr == [x EXCEPT !.at = "notify", !.out = o]
<1>2. Typed /\ Nested /\ Shaped /\ LedOnce /\ Listed /\ Served /\ Landed /\ Flown /\ Counted
  BY DEF FlightInv
<1>3. /\ stack[c] # <<>> /\ x.at = "load" /\ x.lead /\ waiters' = waiters
      /\ fillers' = [fillers EXCEPT ![f] = fillers[f] - 1]
      /\ table' = [table EXCEPT ![k] = IF table[k] = f THEN None ELSE table[k]]
      /\ refs' = [refs EXCEPT ![f] = IF table[k] = f THEN refs[f] - 1 ELSE refs[f]]
  BY DEF LoadEnds, At
<1>4. t \in Slots /\ View[t] = x /\ x \in FrameType /\ Shape(x)
  BY <1>2, <1>3, TopFacts DEF Shaped
<1>5. f \in Flights /\ f # None /\ k \in Keys
  BY <1>3, <1>4, FlightAssumption DEF Shape, FrameType
<1>6. table[k] = f
  BY <1>2, <1>3, <1>4 DEF Landed, Leads
<1>7. table' = [table EXCEPT ![k] = None] /\ refs' = [refs EXCEPT ![f] = refs[f] - 1]
  BY <1>3, <1>6
<1>8. Become(c, fr)
  BY <1>1
<1>9. View[t].lead /\ View[t].at = "load" /\ View[t].flight = f /\ View[t].key = k
  BY <1>3, <1>4
<1> HIDE DEF x
<1>10. fr \in FrameType /\ fr.at = "notify" /\ fr.flight = f /\ fr.lead = x.lead /\ fr.key = k
  BY <1>4, <1>5 DEF FrameType, Places
<1> HIDE DEF fr, t, k, f
<1>11. StackOK /\ Change(t, fr)
  BY <1>2, <1>3, <1>8, <1>10, BecomeFacts DEF StackOK, Change, t
<1>12. refs \in [Flights -> Int] /\ refs[f] - 1 \in Int
  BY <1>2, <1>5 DEF Typed
<1>13. fillers \in [Flights -> Int] /\ fillers[f] - 1 \in Int
  BY <1>2, <1>5 DEF Typed
<1>14. Typed'
  <2>1. table' \in [Keys -> Flights \cup {None}]
    BY <1>2, <1>7 DEF Typed
  <2>2. refs' \in [Flights -> Int]
    BY <1>5, <1>7, <1>12, Updated
  <2>3. fillers' \in [Flights -> Int]
    BY <1>3, <1>5, <1>13, Updated
  <2>4. waiters' \in [Flights -> Seq(Slots)]
    BY <1>2, <1>3 DEF Typed
  <2> QED
    BY <1>11, <2>1, <2>2, <2>3, <2>4, TypedStep
<1>15. Shape(fr)
  BY <1>3, <1>5, <1>10 DEF Shape
<1>16. Shaped'
  BY <1>2, <1>4, <1>11, <1>15, ShapedStep
<1>17. LedOnce'
  BY <1>2, <1>4, <1>9, <1>10, <1>11, LedOnceStep
<1>18. Listed' /\ Served'
  BY <1>2, <1>3, <1>4, <1>9, <1>10, <1>11, WaitersKept
<1>19. \A i \in Slots : View'[i] = IF i = t THEN fr ELSE View[i]
  BY <1>2, <1>4, <1>11, ChangeFacts
<1>20. \A j \in Keys : table'[j] = IF j = k THEN None ELSE table[j]
  BY <1>2, <1>7 DEF Typed
<1>21. Landed'
  <2> SUFFICES ASSUME NEW i \in Slots, Leads(View'[i])
               PROVE  table'[View'[i].key] = View'[i].flight
    BY DEF Landed, Leads, Slots
  <2>1. i # t /\ View'[i] = View[i] /\ Leads(View[i])
    BY <1>10, <1>19 DEF Leads
  <2>2. table[View[i].key] = View[i].flight
    BY <1>2, <2>1 DEF Landed
  <2>3. View[i].key # k
    BY <1>2, <1>4, <1>5, <1>6, <1>9, <2>1, <2>2 DEF LedOnce, Leads
  <2>4. View[i].key \in Keys
    BY <1>2, <2>1, ViewType DEF FrameType, Nobody, Leads
  <2> QED
    BY <1>20, <2>1, <2>2, <2>3, <2>4
<1>22. Flown'
  <2> SUFFICES ASSUME NEW j \in Keys, table'[j] # None
               PROVE  \E i \in Slots : Leads(View'[i]) /\ View'[i].key = j /\ View'[i].flight = table'[j]
    BY DEF Flown, Leads, Slots
  <2>1. j # k /\ table'[j] = table[j]
    BY <1>20
  <2>2. PICK i \in Slots : Leads(View[i]) /\ View[i].key = j /\ View[i].flight = table[j]
    BY <1>2, <2>1 DEF Flown
  <2>3. i # t
    BY <1>9, <2>1, <2>2
  <2> QED
    BY <1>19, <2>1, <2>2, <2>3
<1>23. Counted'
  <2> SUFFICES ASSUME NEW g \in Flights
               PROVE  /\ refs'[g] = Cardinality(Held(g)') + Cardinality(Keyed(g)')
                      /\ fillers'[g] = Cardinality(Filling(g)')
    BY DEF Counted
  <2>1. g # None
    BY FlightAssumption
  <2>2. refs'[g] = IF g = f THEN refs[f] - 1 ELSE refs[g]
    BY <1>5, <1>7, <1>12, Updated
  <2>3. fillers'[g] = IF g = f THEN fillers[f] - 1 ELSE fillers[g]
    BY <1>3, <1>5, <1>13, Updated
  <2>4. /\ Cardinality(Held(g)) \in Nat /\ Cardinality(Filling(g)) \in Nat
        /\ Cardinality(Held(g)') = Cardinality(Held(g))
        /\ Cardinality(Filling(g)') = Cardinality(Filling(g)) - (IF g = f THEN 1 ELSE 0)
    BY <1>2, <1>4, <1>9, <1>10, <1>11, HeldCount
  <2>5. /\ Cardinality(Keyed(g)) \in Nat
        /\ Cardinality(Keyed(g)') = Cardinality(Keyed(g)) - (IF g = f THEN 1 ELSE 0)
    <3>1. Typed /\ k \in Keys /\ table' = [table EXCEPT ![k] = None]
      BY <1>2, <1>5, <1>7
    <3>2. /\ Cardinality(Keyed(g)) \in Nat
          /\ Cardinality(Keyed(g)') = Cardinality(Keyed(g)) + (IF None = g THEN 1 ELSE 0)
                                        - (IF table[k] = g THEN 1 ELSE 0)
      BY <3>1, KeyedCount
    <3> QED
      BY <1>6, <2>1, <3>2
  <2>6. /\ refs[g] = Cardinality(Held(g)) + Cardinality(Keyed(g))
        /\ fillers[g] = Cardinality(Filling(g))
    BY <1>2 DEF Counted
  <2> QED
    BY <2>2, <2>3, <2>4, <2>5, <2>6
<1> QED
  BY <1>11, <1>14, <1>16, <1>17, <1>18, <1>21, <1>22, <1>23 DEF FlightInv, StackOK

-----------------------------------------------------------------------------
LEMMA FlightInit ==
  ASSUME Init
  PROVE  FlightInv
<1>1. /\ \A c \in Coros : stack[c] = <<>>
      /\ \A k \in Keys : table[k] = None
      /\ \A f \in Flights : refs[f] = 0 /\ fillers[f] = 0 /\ waiters[f] = <<>>
  BY DEF Init
<1>2. Typed
  <2>1. stack \in [Coros -> Seq(FrameType)] /\ table \in [Keys -> Flights \cup {None}]
    BY DEF Init
  <2>2. refs \in [Flights -> Int] /\ fillers \in [Flights -> Int]
    BY DEF Init
  <2>3. waiters \in [Flights -> Seq(Slots)]
    BY DEF Init
  <2>4. \A c \in Coros : Len(stack[c]) <= MaxDepth
    BY <1>1, FlightAssumption
  <2> QED
    BY <2>1, <2>2, <2>3, <2>4 DEF Typed
<1>3. ASSUME NEW i \in Slots PROVE View[i] = Nobody
  <2>1. i[1] \in Coros /\ i[2] \in 1..MaxDepth
    BY DEF Slots
  <2>2. ~(i[2] <= Len(stack[i[1]]))
    BY <1>1, <2>1
  <2> QED
    BY <2>2 DEF View
<1>4. Nobody.at = "none" /\ Nobody.flight = None /\ ~Nobody.lead
  BY DEF Nobody
<1>5. Nested
  BY <1>1 DEF Nested
<1>6. Shaped /\ LedOnce /\ Served /\ Landed /\ Flown
  BY <1>1, <1>3, <1>4 DEF Shaped, Shape, LedOnce, Served, Landed, Flown, Leads
<1>7. Listed
  BY <1>1 DEF Listed
<1>8. Counted
  <2> SUFFICES ASSUME NEW f \in Flights
               PROVE  /\ 0 = Cardinality(Held(f)) + Cardinality(Keyed(f))
                      /\ 0 = Cardinality(Filling(f))
    BY <1>1 DEF Counted
  <2>1. f # None
    BY FlightAssumption
  <2>2. Held(f) = {} /\ Filling(f) = {} /\ Keyed(f) = {}
    BY <1>1, <1>3, <1>4, <2>1 DEF Held, Filling, Keyed
  <2>3. Cardinality(Held(f)) = 0 /\ Cardinality(Filling(f)) = 0 /\ Cardinality(Keyed(f)) = 0
    BY <2>2, FS_EmptySet
  <2> QED
    BY <2>3
<1> QED
  BY <1>2, <1>5, <1>6, <1>7, <1>8 DEF FlightInv

LEMMA FlightNext ==
  ASSUME FlightInv, [Next]_vars
  PROVE  FlightInv'
<1>1. CASE UNCHANGED vars
  BY <1>1, Unaffected DEF vars
<1>2. CASE \E k \in Keys : UnsetCached(k)
  BY <1>2, Unaffected DEF UnsetCached
<1>3. ASSUME NEW c \in Coros, Call(c) \/ Step(c)
      PROVE  FlightInv'
  <2>1. CASE Call(c)
    BY <2>1, CallStep
  <2>2. CASE Get(c)
    BY <2>2, GetStep
  <2>3. CASE Hit(c) \/ Store(c)
    BY <2>3, LeaveStep
  <2>4. CASE Lead(c)
    BY <2>4, LeadStep
  <2>5. CASE Join(c)
    BY <2>5, JoinStep
  <2>6. CASE JoinVersioned(c)
    BY <2>6, JoinVersionedStep
  <2>7. CASE WaitTimeout(c)
    BY <2>7, WaitTimeoutStep
  <2>8. CASE FillEnds(c)
    BY <2>8, FillEndsStep
  <2>9. CASE LoadEnds(c)
    BY <2>9, LoadEndsStep
  <2>10. CASE Notify(c)
    BY <2>10, NotifyStep
  <2>11. CASE Notified(c)
    BY <2>11, NotifiedStep
  <2> QED
    BY <1>3, <2>1, <2>2, <2>3, <2>4, <2>5, <2>6, <2>7, <2>8, <2>9, <2>10, <2>11 DEF Step
<1> QED
  BY <1>1, <1>2, <1>3 DEF Next

LEMMA FlightInvariant == Spec => []FlightInv
<1>1. Init => FlightInv
  BY FlightInit
<1>2. FlightInv /\ [Next]_vars => FlightInv'
  BY FlightNext
<1> QED
  BY <1>1, <1>2, PTL DEF Spec

-----------------------------------------------------------------------------
(* The calls that CacheFlight's properties speak of are those of View.     *)
LEMMA FramesSeen ==
  ASSUME Typed, NEW i
  PROVE  /\ i \in Frames => i \in Slots /\ FrameAt(i) = View[i]
         /\ i \in Slots /\ View[i].at # "none" => i \in Frames
  BY DEF Frames, FrameAt, Slots, View, Nobody

LEMMA CountsHold ==
  ASSUME FlightInv
  PROVE  RefsExact
<1> SUFFICES ASSUME NEW f \in Flights
             PROVE  LET held == {i \in Frames : FrameAt(i).flight = f} IN
                    /\ refs[f] = Cardinality(held) + Cardinality({k \in Keys : table[k] = f})
                    /\ fillers[f] = Cardinality({i \in held : FrameAt(i).at = "load"})
  BY DEF RefsExact
<1> DEFINE held == {i \in Frames : FrameAt(i).flight = f}
<1>1. Typed /\ Counted /\ f # None
  BY FlightAssumption DEF FlightInv
<1>2. \A i \in Slots : View[i].flight = f => View[i].at # "none"
  BY <1>1, ViewType DEF FrameType, Places, Nobody
<1>3. held = Held(f)
  BY <1>1, <1>2, FramesSeen DEF Held
<1>4. {i \in held : FrameAt(i).at = "load"} = Filling(f)
  BY <1>1, <1>2, FramesSeen DEF Filling
<1> QED
  BY <1>1, <1>3, <1>4 DEF Counted, Keyed

LEMMA TableExact ==
  ASSUME FlightInv
  PROVE  InflightExact
<1> SUFFICES ASSUME NEW k \in Keys
             PROVE  LET leading == {i \in Frames :
                                      FrameAt(i).key = k /\ FrameAt(i).lead /\ FrameAt(i).at = "load"}
                    IN  IF table[k] = None THEN leading = {}
                        ELSE \E i \in leading : leading = {i} /\ FrameAt(i).flight = table[k]
  BY DEF InflightExact
<1> DEFINE leading == {i \in Frames :
                         FrameAt(i).key = k /\ FrameAt(i).lead /\ FrameAt(i).at = "load"}
<1>1. Typed /\ Shaped /\ LedOnce /\ Landed /\ Flown
  BY DEF FlightInv
<1>2. ASSUME NEW i \in leading
      PROVE  /\ i \in Slots /\ FrameAt(i) = View[i] /\ View[i].lead
             /\ View[i].flight = table[k] /\ View[i].flight # None
  <2>1. i \in Slots /\ FrameAt(i) = View[i]
    BY <1>1, FramesSeen
  <2>2. View[i].key = k /\ View[i].lead /\ View[i].at = "load"
    BY <2>1
  <2> QED
    BY <1>1, <2>1, <2>2 DEF Landed, Leads, Shaped, Shape
<1>3. CASE table[k] = None
  BY <1>2, <1>3
<1>4. CASE table[k] # None
  <2>1. PICK i \in Slots : Leads(View[i]) /\ View[i].key = k /\ View[i].flight = table[k]
    BY <1>1, <1>4 DEF Flown
  <2>2. i \in Frames /\ FrameAt(i) = View[i]
    BY <1>1, <2>1, FramesSeen DEF Leads
  <2>3. i \in leading
    BY <2>1, <2>2 DEF Leads
  <2>4. \A j \in leading : j = i
    BY <1>1, <1>2, <2>3 DEF LedOnce
  <2> QED
    BY <1>4, <2>1, <2>2, <2>3, <2>4
<1> QED
  BY <1>3, <1>4

LEMMA WaitersHaveLeaders ==
  ASSUME FlightInv
  PROVE  WaiterHasLeader
<1> SUFFICES ASSUME NEW i \in Frames, FrameAt(i).at = "wait"
             PROVE  /\ i \in Range(waiters[FrameAt(i).flight])
                    /\ \E j \in Frames :
                          /\ FrameAt(j).lead /\ FrameAt(j).flight = FrameAt(i).flight
                          /\ FrameAt(j).at \in {"load", "notify"}
  BY DEF WaiterHasLeader
<1>1. Typed /\ Shaped /\ Served
  BY DEF FlightInv
<1>2. i \in Slots /\ FrameAt(i) = View[i] /\ View[i].at = "wait"
  BY <1>1, FramesSeen
<1>3. View[i].flight \in Flights /\ View[i].flight # None
  BY <1>1, <1>2, ViewType DEF Shaped, Shape, FrameType, Nobody
<1>4. PICK n \in 1..Len(waiters[View[i].flight]) : waiters[View[i].flight][n] = i
  BY <1>1, <1>2 DEF Served
<1>5. waiters[View[i].flight] \in Seq(Slots)
  BY <1>1, <1>3 DEF Typed
<1>6. n \in DOMAIN waiters[View[i].flight]
  BY <1>4, <1>5
<1>7. i \in Range(waiters[View[i].flight])
  BY <1>4, <1>6 DEF Range
<1>8. PICK j \in Slots : View[j].lead /\ View[j].flight = View[i].flight
  BY <1>1, <1>2 DEF Served
<1>9. View[j].at \in {"load", "notify"}
  BY <1>1, <1>3, <1>8 DEF Shaped, Shape
<1>10. j \in Frames /\ FrameAt(j) = View[j]
  BY <1>1, <1>8, <1>9, FramesSeen
<1> QED
  BY <1>2, <1>7, <1>8, <1>9, <1>10

-----------------------------------------------------------------------------
(* A flight's reference count and filler count are exact in every          *)
(* reachable state, and the table knows exactly the flights whose leader's *)
(* callback runs (gene_cache_fill): no flight is freed while somebody can  *)
(* still reach it, none leaks, and nobody joins one that has landed.       *)
THEOREM FlightsCounted == Spec => []FlightsExact
<1>1. FlightInv => FlightsExact
  BY CountsHold, TableExact DEF FlightsExact
<1> QED
  BY <1>1, FlightInvariant, PTL

(* Whoever is parked on a channel is in the list of a flight whose leader  *)
(* is still to notify it (gene_cache_flight_wait, _notify).                *)
THEOREM WaitersServed == Spec => []WaiterHasLeader
<1>1. FlightInv => WaiterHasLeader
  BY WaitersHaveLeaders
<1> QED
  BY <1>1, FlightInvariant, PTL

(* Type correctness; that no counter falls below 0 is what Counted adds.   *)
THEOREM FlightTypes == Spec => []TypeOK
<1>1. FlightInv => TypeOK
  <2> HAVE FlightInv
  <2>1. Typed /\ Counted
    BY DEF FlightInv
  <2>2. ASSUME NEW f \in Flights PROVE refs[f] \in Nat /\ fillers[f] \in Nat
    <3>1. Cardinality(Held(f)) \in Nat /\ Cardinality(Keyed(f)) \in Nat /\ Cardinality(Filling(f)) \in Nat
      BY Finite, FS_CardinalityType
    <3> QED
      BY <2>1, <3>1 DEF Counted
  <2>3. refs \in [Flights -> Nat] /\ fillers \in [Flights -> Nat]
    BY <2>1, <2>2 DEF Typed
  <2> QED
    BY <2>1, <2>3 DEF TypeOK, Typed, Slots
<1> QED
  BY <1>1, FlightInvariant, PTL
================================================================================
