----------------------------- MODULE StoresProofs -----------------------------
(***************************************************************************)
(* What the run of MCStores checks, proved for every value of its          *)
(* constants: a step of the composition is a step of one part, and leaves  *)
(* the others alone.  The pool of Redis connections has proofs of its own, *)
(* which are carried over; the throttle, the Redis client, the registries, *)
(* the memory store and the session are proved here.                       *)
(***************************************************************************)
EXTENDS MCStores, FiniteSetTheorems, TLAPS

PoolP == INSTANCE RedisPoolProofs

-----------------------------------------------------------------------------
(* The part is the module that RedisPoolProofs is about.                   *)
LEMMA SamePool ==
  /\ Pooling!RedisPoolAssumption <=> PoolP!RedisPoolAssumption
  /\ Pooling!RedisPoolInit <=> PoolP!RedisPoolInit
  /\ Pooling!RedisPoolNext <=> PoolP!RedisPoolNext
  /\ Pooling!RedisPoolExact <=> PoolP!RedisPoolExact
<1>1. Pooling!RedisPoolAssumption <=> PoolP!RedisPoolAssumption
  BY DEF Pooling!RedisPoolAssumption, PoolP!RedisPoolAssumption, Pooling!IsInjective,
         PoolP!IsInjective, Pooling!IsFiniteSet, PoolP!IsFiniteSet
<1>2. Pooling!RedisPoolInit <=> PoolP!RedisPoolInit
  BY DEF Pooling!RedisPoolInit, PoolP!RedisPoolInit, Pooling!Off, PoolP!Off,
         Pooling!IsInjective, PoolP!IsInjective
<1>3. ASSUME NEW S PROVE Pooling!Cardinality(S) = PoolP!Cardinality(S)
  BY DEF Pooling!Cardinality, PoolP!Cardinality
<1>4. Pooling!RedisPoolExact <=> PoolP!RedisPoolExact
  BY <1>3 DEF Pooling!RedisPoolExact, PoolP!RedisPoolExact, Pooling!SlotsExact, PoolP!SlotsExact,
         Pooling!LendsOnce, PoolP!LendsOnce, Pooling!Of, PoolP!Of, Pooling!Probing, PoolP!Probing,
         Pooling!IsInjective, PoolP!IsInjective, Pooling!ToSet, PoolP!ToSet
<1>5. ASSUME NEW b \in Borrowers PROVE Pooling!Get(b) <=> PoolP!Get(b)
  BY DEF Pooling!Get, PoolP!Get, Pooling!Round, PoolP!Round, Pooling!Last, PoolP!Last,
         Pooling!Front, PoolP!Front
<1>6. ASSUME NEW b \in Borrowers PROVE Pooling!Created(b) <=> PoolP!Created(b)
  BY DEF Pooling!Created, PoolP!Created, Pooling!Round, PoolP!Round, Pooling!Last,
         PoolP!Last, Pooling!Front, PoolP!Front, Pooling!Refused, PoolP!Refused,
         Pooling!Released, PoolP!Released, Pooling!Fresh, PoolP!Fresh, Pooling!Spare,
         PoolP!Spare, Pooling!InUse, PoolP!InUse, Pooling!ToSet, PoolP!ToSet
<1>7. ASSUME NEW b \in Borrowers PROVE Pooling!TimedOut(b) <=> PoolP!TimedOut(b)
  BY DEF Pooling!TimedOut, PoolP!TimedOut, Pooling!LeavesQueue, PoolP!LeavesQueue,
         Pooling!RemoveAt, PoolP!RemoveAt
<1>8. ASSUME NEW b \in Borrowers PROVE Pooling!TimedOutClosed(b) <=> PoolP!TimedOutClosed(b)
  BY DEF Pooling!TimedOutClosed, PoolP!TimedOutClosed, Pooling!LeavesQueue,
         PoolP!LeavesQueue, Pooling!RemoveAt, PoolP!RemoveAt
<1>9. ASSUME NEW b \in Borrowers PROVE Pooling!Put(b) <=> PoolP!Put(b)
  BY DEF Pooling!Put, PoolP!Put, Pooling!PutOpen, PoolP!PutOpen, Pooling!Released,
         PoolP!Released
<1>10. ASSUME NEW b \in Borrowers PROVE Pooling!Reconnect(b) <=> PoolP!Reconnect(b)
  BY DEF Pooling!Reconnect, PoolP!Reconnect, Pooling!Round, PoolP!Round, Pooling!Last,
         PoolP!Last, Pooling!Front, PoolP!Front, Pooling!Refused, PoolP!Refused,
         Pooling!Released, PoolP!Released
<1>11. Pooling!RecycleIdle <=> PoolP!RecycleIdle
  BY DEF Pooling!RecycleIdle, PoolP!RecycleIdle, Pooling!Scan, PoolP!Scan, Pooling!Off,
         PoolP!Off
<1>12. Pooling!Probed <=> PoolP!Probed
  BY DEF Pooling!Probed, PoolP!Probed, Pooling!Scan, PoolP!Scan, Pooling!Off, PoolP!Off
<1>13. Pooling!Refilled <=> PoolP!Refilled
  BY DEF Pooling!Refilled, PoolP!Refilled, Pooling!Fresh, PoolP!Fresh, Pooling!Spare,
         PoolP!Spare, Pooling!InUse, PoolP!InUse, Pooling!ToSet, PoolP!ToSet, Pooling!Off,
         PoolP!Off
<1>14. Pooling!Close <=> PoolP!Close
  BY DEF Pooling!Close, PoolP!Close, Pooling!Finished, PoolP!Finished, Pooling!ToSet,
         PoolP!ToSet
<1>15. Pooling!Waited <=> PoolP!Waited
  BY DEF Pooling!Waited, PoolP!Waited, Pooling!Finished, PoolP!Finished, Pooling!ToSet,
         PoolP!ToSet
<1>16. Pooling!CloseOutside <=> PoolP!CloseOutside
  BY DEF Pooling!CloseOutside, PoolP!CloseOutside
<1>17. Pooling!RedisPoolNext <=> PoolP!RedisPoolNext
  BY <1>5, <1>6, <1>7, <1>8, <1>9, <1>10, <1>11, <1>12, <1>13, <1>14, <1>15, <1>16
     DEF Pooling!RedisPoolNext, PoolP!RedisPoolNext
<1> QED
  BY <1>1, <1>2, <1>4, <1>17

-----------------------------------------------------------------------------
(* Every slot of the pool of Redis connections is accounted for, and no    *)
(* connection lent twice, for every number of coroutines and connections   *)
(* and every configuration (src/cache/redis_pool.c: get, put, remove,      *)
(* recycleIdle and close).                                                 *)
THEOREM PoolPartCorrect == Spec => []RedisPoolExact
<1> DEFINE Inv == part = "redisPool" => PoolP!RedisPoolInv /\ PoolP!Draining
<1>1. PoolP!RedisPoolAssumption
  BY Assumptions, SamePool
<1>2. Init => Inv
  BY <1>1, SamePool, PoolP!RedisPoolInitInv DEF Init
<1>3. ASSUME Inv, [Next]_vars PROVE Inv'
  <2>1. CASE part # "redisPool"
    BY <1>3, <2>1 DEF Next, vars
  <2>2. CASE part = "redisPool"
    <3>1. part' = part /\ (PoolP!RedisPoolNext \/ UNCHANGED PoolP!poolVars)
      BY <1>3, <2>2, SamePool DEF Next, vars, poolVars, PoolP!poolVars
    <3> QED
      BY <1>1, <1>3, <2>2, <3>1, PoolP!RedisPoolStep
  <2> QED
    BY <2>1, <2>2
<1>4. Inv => RedisPoolExact
  BY <1>1, SamePool, PoolP!RedisPoolInvExact DEF RedisPoolExact
<1> QED
  BY <1>2, <1>3, <1>4, PTL DEF Spec

-----------------------------------------------------------------------------
(* The throttle.  ThrottleInv ties the attempts that were allowed to the   *)
(* counter that the store has, so that a counter which is gone means that  *)
(* the period in which they were counted is over.                          *)

ThrottleSteps == {"idle", "attempt", "work", "failed", "expire"}

(* The types that the arithmetic needs.                                    *)
ThrottleTyped ==
    /\ counter \in Nat /\ ends \in Nat /\ time \in Nat \ {0}
    /\ step \in [Callers -> ThrottleSteps]
    /\ window \in [opened: Nat, passed: Nat]

(* While the period lasts the counter is there, and expires no earlier.    *)
CounterLasts ==
    /\ window.opened <= time
    /\ Throttling!Open => Throttling!Value # 0 /\ (ends = 0 \/ ends >= window.opened + Period)

(* The counter counts at least the attempts that were allowed; a store     *)
(* that only creates counters has none.                                    *)
AllCounted ==
    /\ Throttling!Value # 0 => window.passed <= Throttling!Value
    /\ store = "add" => window.passed = 0

ThrottleInv ==
    /\ ThrottleTyped /\ CounterLasts /\ AllCounted
    /\ Throttling!LockoutEnds /\ Throttling!AttemptsBounded

LEMMA CounterValue ==
  ASSUME ThrottleTyped
  PROVE  /\ Throttling!Value \in Nat
         /\ Throttling!Value # 0 => Throttling!Value = counter /\ (ends = 0 \/ ends > time)
  BY DEF ThrottleTyped, Throttling!Value

LEMMA CallerMoves ==
  ASSUME ThrottleTyped, NEW c \in Callers, NEW p \in ThrottleSteps, Throttling!Goto(c, p)
  PROVE  /\ step' \in [Callers -> ThrottleSteps]
         /\ \A d \in Callers : step'[d] = IF d = c THEN p ELSE step[d]
  BY DEF ThrottleTyped, Throttling!Goto

(* A caller that leaves the counter and the window alone.                  *)
LEMMA WindowUntouched ==
  ASSUME Throttling!ThrottleAssumption, ThrottleInv, NEW c \in Callers, NEW p \in ThrottleSteps,
         Throttling!Goto(c, p),
         step[c] # "expire",
         UNCHANGED <<store, counter, ends, time, window, torn>>
  PROVE  ThrottleInv'
<1>1. ThrottleTyped'
  BY CallerMoves DEF ThrottleInv, ThrottleTyped
<1>2. Throttling!Value' = Throttling!Value /\ Throttling!Open' = Throttling!Open
  BY DEF Throttling!Value, Throttling!Open
<1>3. \A d \in Callers : step[d] = "expire" => step'[d] = "expire"
  BY CallerMoves DEF ThrottleInv
<1>4. Throttling!LockoutEnds'
  BY <1>2, <1>3 DEF ThrottleInv, Throttling!LockoutEnds
<1>5. Throttling!AttemptsBounded' /\ CounterLasts' /\ AllCounted'
  BY <1>2 DEF ThrottleInv, Throttling!AttemptsBounded, CounterLasts, AllCounted
<1> QED
  BY <1>1, <1>4, <1>5 DEF ThrottleInv

(* What a counted attempt does to the window.                              *)
LEMMA AllowedOne ==
  ASSUME Throttling!ThrottleAssumption, ThrottleInv, NEW c \in Callers, Throttling!Allow(c,
         Throttling!Value + 1), time' = time
  PROVE  /\ window' \in [opened: Nat, passed: Nat]
         /\ window'.passed <= Limit /\ window'.passed <= Throttling!Value + 1
         /\ window'.opened <= time
         /\ Throttling!Value # 0 => window'.opened = window.opened
         /\ Throttling!Value = 0 => window'.opened = time
<1> DEFINE w == IF Throttling!Value + 1 = 1 /\ ~Throttling!Open
                 THEN [opened |-> time, passed |-> 0] ELSE window
<1>0. ThrottleTyped /\ Throttling!Value \in Nat /\ Limit \in Nat \ {0}
  BY CounterValue DEF ThrottleInv, Throttling!ThrottleAssumption
<1>1. Throttling!Value = 0 => ~Throttling!Open
  BY DEF ThrottleInv, CounterLasts
<1>2. w = IF Throttling!Value = 0 THEN [opened |-> time, passed |-> 0] ELSE window
  BY <1>0, <1>1
<1>3. /\ w \in [opened: Nat, passed: Nat]
      /\ w.passed <= Limit /\ w.passed <= Throttling!Value
      /\ w.opened <= time
      /\ Throttling!Value # 0 => w.opened = window.opened
      /\ Throttling!Value = 0 => w.opened = time
  BY <1>0, <1>2 DEF ThrottleInv, ThrottleTyped, Throttling!AttemptsBounded, CounterLasts, AllCounted
<1>4. window' = IF step[c] = "attempt" /\ Throttling!Value + 1 <= Limit
                  THEN [w EXCEPT !.passed = @ + 1] ELSE w
  BY DEF Throttling!Allow
<1> HIDE DEF w
<1>5. CASE step[c] = "attempt" /\ Throttling!Value + 1 <= Limit
  <2>1. window' = [w EXCEPT !.passed = w.passed + 1]
    BY <1>4, <1>5
  <2>2. /\ window' \in [opened: Nat, passed: Nat]
        /\ window'.passed = w.passed + 1 /\ window'.opened = w.opened
    BY <1>3, <2>1
  <2> QED
    BY <1>0, <1>3, <1>5, <2>2
<1>6. CASE ~(step[c] = "attempt" /\ Throttling!Value + 1 <= Limit)
  <2>1. window' = w
    BY <1>4, <1>6
  <2> QED
    BY <1>0, <1>3, <2>1
<1> QED
  BY <1>5, <1>6

(* The counter goes up by one: a new one begins a period now, and ends one *)
(* period later or has no end yet.                                         *)
LEMMA AttemptCounted ==
  ASSUME Throttling!ThrottleAssumption, ThrottleInv, NEW c \in Callers, NEW p \in ThrottleSteps,
         Throttling!Goto(c, p),
         step[c] # "expire", store # "add", counter' = Throttling!Value + 1,
         Throttling!Allow(c, Throttling!Value + 1), time' = time,
         \/ ends' = time + Period
         \/ Throttling!Value # 0 /\ ends' = ends
         \/ Throttling!Value = 0 /\ ends' = 0,
         ends' = 0 => \/ p = "expire"
                      \/ Throttling!Value # 0 /\ ends = 0,
         p = "expire" => store = "incr", store' = store, torn' = torn
  PROVE  ThrottleInv'
<1>0. ThrottleTyped /\ Throttling!Value \in Nat /\ Period \in Nat \ {0} /\ time \in Nat \ {0}
  BY CounterValue DEF ThrottleInv, Throttling!ThrottleAssumption, ThrottleTyped
<1>1. /\ window' \in [opened: Nat, passed: Nat]
      /\ window'.passed <= Limit /\ window'.passed <= Throttling!Value + 1
      /\ window'.opened <= time
      /\ Throttling!Value # 0 => window'.opened = window.opened
      /\ Throttling!Value = 0 => window'.opened = time
  BY AllowedOne
<1>2. ends' \in Nat
  BY <1>0 DEF ThrottleTyped
<1>3. ThrottleTyped'
  BY <1>0, <1>1, <1>2, CallerMoves DEF ThrottleTyped
<1>4. ends' = 0 \/ ends' > time
  BY <1>0, CounterValue
<1>5. Throttling!Value' = Throttling!Value + 1
  BY <1>0, <1>2, <1>4 DEF Throttling!Value
<1>6. Throttling!AttemptsBounded' /\ AllCounted'
  BY <1>1, <1>5 DEF Throttling!AttemptsBounded, AllCounted
<1>7. CounterLasts'
  <2>1. window'.opened \in Nat
    BY <1>1
  <2>2. ASSUME Throttling!Open' PROVE ends' = 0 \/ ends' >= window'.opened + Period
    <3>1. CASE ends' = time + Period
      BY <1>0, <1>1, <2>1, <3>1
    <3>2. CASE Throttling!Value # 0 /\ ends' = ends
      <4>1. Throttling!Open
        BY <1>1, <2>2, <3>2 DEF Throttling!Open
      <4> QED
        BY <1>1, <3>2, <4>1 DEF ThrottleInv, CounterLasts
    <3>3. CASE ends' = 0
      BY <3>3
    <3> QED
      BY <3>1, <3>2, <3>3
  <2> QED
    BY <1>0, <1>1, <1>5, <2>2 DEF CounterLasts
<1>8. Throttling!LockoutEnds'
  <2>0. \A d \in Callers : step[d] = "expire" => step'[d] = "expire"
    BY <1>0, CallerMoves
  <2>1. CASE ends' # 0
    <3>1. CASE ends' = time + Period
      <4>1. ends' <= time' + Period
        BY <1>0, <3>1
      <4> QED
        BY <2>1, <4>1 DEF Throttling!LockoutEnds
    <3>2. CASE Throttling!Value # 0 /\ ends' = ends
      <4>1. CASE ends <= time + Period
        BY <2>1, <3>2, <4>1 DEF Throttling!LockoutEnds
      <4>2. CASE store = "incr" /\ (torn \/ \E d \in Callers : step[d] = "expire")
        BY <2>0, <4>2 DEF Throttling!LockoutEnds
      <4> QED
        BY <3>2, <4>1, <4>2 DEF ThrottleInv, Throttling!LockoutEnds
    <3>3. CASE Throttling!Value = 0 /\ ends' = 0
      BY <2>1, <3>3
    <3> QED
      BY <3>1, <3>2, <3>3
  <2>2. CASE ends' = 0
    <3>1. CASE p = "expire"
      <4>1. step'[c] = "expire"
        BY <1>0, <3>1, CallerMoves
      <4> QED
        BY <3>1, <4>1 DEF Throttling!LockoutEnds
    <3>2. CASE Throttling!Value # 0 /\ ends = 0
      <4>1. store = "incr" /\ (torn \/ \E d \in Callers : step[d] = "expire")
        BY <3>2 DEF ThrottleInv, Throttling!LockoutEnds
      <4>2. \A d \in Callers : step[d] = "expire" => step'[d] = "expire"
        BY <1>0, CallerMoves
      <4> QED
        BY <4>1, <4>2 DEF Throttling!LockoutEnds
    <3> QED
      BY <2>2, <3>1, <3>2
  <2> QED
    BY <2>1, <2>2
<1> QED
  BY <1>3, <1>6, <1>7, <1>8 DEF ThrottleInv

LEMMA ThrottleStarts ==
  ASSUME Throttling!ThrottleAssumption, Throttling!ThrottleInit
  PROVE  ThrottleInv
  BY DEF Throttling!ThrottleInit, ThrottleInv, Throttling!ThrottleAssumption, ThrottleTyped,
     ThrottleSteps, Throttling!LockoutEnds, Throttling!AttemptsBounded,
         CounterLasts, AllCounted, Throttling!Value, Throttling!Open

LEMMA ThrottleStep ==
  ASSUME Throttling!ThrottleAssumption, ThrottleInv,
         [Throttling!ThrottleNext]_Throttling!throttleVars
  PROVE  ThrottleInv'
<1>0. ThrottleTyped /\ Throttling!Value \in Nat /\ Period \in Nat \ {0} /\ time \in Nat \ {0} /\ Limit \in Nat
  BY CounterValue DEF ThrottleInv, Throttling!ThrottleAssumption, ThrottleTyped
<1>1. ASSUME NEW c \in Callers, Throttling!Attempt(c) PROVE ThrottleInv'
  BY <1>1, WindowUntouched DEF Throttling!Attempt, ThrottleSteps
<1>2. ASSUME NEW c \in Callers, Throttling!TooMany(c) PROVE ThrottleInv'
  BY <1>2, WindowUntouched DEF Throttling!TooMany, ThrottleSteps
<1>3. ASSUME NEW c \in Callers, Throttling!Fails(c) PROVE ThrottleInv'
  BY <1>3, WindowUntouched DEF Throttling!Fails, ThrottleSteps
<1>4. ASSUME NEW c \in Callers, Throttling!Clear(c) PROVE ThrottleInv'
  <2>1. /\ Throttling!Goto(c, "idle") /\ counter' = 0 /\ ends' = 0
        /\ window' = [opened |-> 0, passed |-> 0] /\ time' = time
    BY <1>4 DEF Throttling!Clear
  <2>2. step' \in [Callers -> ThrottleSteps]
    BY <1>0, <2>1, CallerMoves DEF ThrottleSteps
  <2>3. ThrottleTyped'
    BY <1>0, <2>1, <2>2 DEF ThrottleTyped
  <2>4. Throttling!Value' = 0 /\ ~Throttling!Open'
    BY <2>1 DEF Throttling!Value, Throttling!Open
  <2>5. Throttling!LockoutEnds' /\ AllCounted'
    BY <2>1, <2>4 DEF Throttling!LockoutEnds, AllCounted
  <2>6. Throttling!AttemptsBounded' /\ CounterLasts'
    BY <1>0, <2>1, <2>4 DEF Throttling!AttemptsBounded, CounterLasts
  <2> QED
    BY <2>3, <2>5, <2>6 DEF ThrottleInv
<1>5. ASSUME NEW c \in Callers, Throttling!HitAtomic(c) PROVE ThrottleInv'
  <2>1. /\ Throttling!Goto(c, "idle") /\ step[c] # "expire"
        /\ counter' = Throttling!Value + 1 /\ Throttling!Allow(c, Throttling!Value + 1)
        /\ time' = time /\ store' = store /\ torn' = torn
        /\ store # "incr" /\ store # "add"
    BY <1>5 DEF Throttling!HitAtomic, Throttling!Hitting
  <2>2. ends' = time + Period \/ (Throttling!Value # 0 /\ ends' = ends)
    BY <1>5 DEF Throttling!HitAtomic
  <2>3. ends' # 0
    <3>1. Throttling!Value # 0 => ends # 0
      BY <2>1 DEF ThrottleInv, Throttling!LockoutEnds
    <3> QED
      BY <1>0, <2>2, <3>1
  <2> QED
    BY <2>1, <2>2, <2>3, AttemptCounted DEF ThrottleSteps
<1>6. ASSUME NEW c \in Callers, Throttling!HitIncr(c) PROVE ThrottleInv'
  <2>1. /\ step[c] # "expire"
        /\ counter' = Throttling!Value + 1 /\ Throttling!Allow(c, Throttling!Value + 1)
        /\ time' = time /\ store' = store /\ torn' = torn /\ store = "incr"
    BY <1>6 DEF Throttling!HitIncr, Throttling!Hitting
  <2>2. CASE Throttling!Value = 0
    <3>1. Throttling!Goto(c, "expire") /\ ends' = 0
      BY <1>6, <2>2 DEF Throttling!HitIncr
    <3> QED
      BY <2>1, <2>2, <3>1, AttemptCounted DEF ThrottleSteps
  <2>3. CASE Throttling!Value # 0
    <3>1. Throttling!Goto(c, "idle") /\ ends' = ends
      BY <1>6, <2>3 DEF Throttling!HitIncr
    <3> QED
      BY <2>1, <2>3, <3>1, AttemptCounted DEF ThrottleSteps
  <2> QED
    BY <2>2, <2>3
<1>7. ASSUME NEW c \in Callers, Throttling!HitExpire(c) PROVE ThrottleInv'
  <2>1. /\ Throttling!Goto(c, "idle") /\ store' = store /\ counter' = counter /\ time' = time
        /\ window' = window /\ torn' = torn
    BY <1>7 DEF Throttling!HitExpire
  <2>2. step' \in [Callers -> ThrottleSteps]
    BY <1>0, <2>1, CallerMoves DEF ThrottleSteps
  <2>3. CASE Throttling!Value = 0
    <3>1. ends' = ends
      BY <1>7, <2>3 DEF Throttling!HitExpire
    <3>2. Throttling!Value' = 0 /\ Throttling!Open' = Throttling!Open
      BY <2>1, <2>3, <3>1 DEF Throttling!Value, Throttling!Open
    <3>3. ThrottleTyped'
      BY <2>1, <2>2, <3>1, <1>0 DEF ThrottleTyped
    <3>4. ~Throttling!Open
      BY <2>3 DEF ThrottleInv, CounterLasts
    <3> QED
      BY <2>1, <3>2, <3>3, <3>4 DEF ThrottleInv, Throttling!LockoutEnds,
         Throttling!AttemptsBounded, CounterLasts, AllCounted
  <2>4. CASE Throttling!Value # 0
    <3>1. ends' = time + Period
      BY <1>7, <2>4 DEF Throttling!HitExpire
    <3>2. Throttling!Value' = Throttling!Value /\ Throttling!Open' = Throttling!Open
      BY <1>0, <2>1, <2>4, <3>1, CounterValue DEF Throttling!Value, Throttling!Open
    <3>3. ThrottleTyped'
      BY <1>0, <2>1, <2>2, <3>1 DEF ThrottleTyped
    <3>4. Throttling!LockoutEnds'
      BY <1>0, <2>1, <3>1 DEF Throttling!LockoutEnds
    <3>5. CounterLasts'
      BY <1>0, <2>1, <3>1, <3>2 DEF ThrottleInv, CounterLasts, ThrottleTyped
    <3> QED
      BY <2>1, <3>2, <3>3, <3>4, <3>5 DEF ThrottleInv, Throttling!AttemptsBounded, AllCounted
  <2> QED
    BY <2>3, <2>4
<1>8. ASSUME NEW c \in Callers, Throttling!Dies(c) PROVE ThrottleInv'
  <2>1. /\ Throttling!Goto(c, "idle") /\ torn' = TRUE /\ UNCHANGED <<store, counter, ends, time, window>>
    BY <1>8 DEF Throttling!Dies
  <2>2. step' \in [Callers -> ThrottleSteps]
    BY <1>0, <2>1, CallerMoves DEF ThrottleSteps
  <2>3. Throttling!Value' = Throttling!Value /\ Throttling!Open' = Throttling!Open
    BY <2>1 DEF Throttling!Value, Throttling!Open
  <2>4. ThrottleTyped'
    BY <2>1, <2>2, <1>0 DEF ThrottleTyped
  <2>5. Throttling!LockoutEnds'
    BY <2>1, <2>3 DEF ThrottleInv, Throttling!LockoutEnds
  <2> QED
    BY <2>1, <2>3, <2>4, <2>5 DEF ThrottleInv, Throttling!AttemptsBounded, CounterLasts, AllCounted
<1>9. ASSUME NEW c \in Callers, Throttling!HitAdd(c) PROVE ThrottleInv'
  <2>1. /\ Throttling!Goto(c, "idle") /\ store' = store /\ time' = time /\ window' = window /\ torn' = torn
        /\ step[c] # "expire"
    BY <1>9 DEF Throttling!HitAdd, Throttling!Hitting
  <2>2. step' \in [Callers -> ThrottleSteps]
    BY <1>0, <2>1, CallerMoves DEF ThrottleSteps
  <2>3. CASE Throttling!Value # 0
    BY <1>9, <2>1, <2>3, WindowUntouched DEF Throttling!HitAdd, ThrottleSteps
  <2>4. CASE Throttling!Value = 0
    <3>1. counter' = 1 /\ ends' = time + Period
      BY <1>9, <2>4 DEF Throttling!HitAdd
    <3>2. Throttling!Value' = 1 /\ Throttling!Open' = Throttling!Open /\ ~Throttling!Open
      BY <1>0, <2>1, <2>4, <3>1 DEF Throttling!Value, Throttling!Open, ThrottleInv, CounterLasts
    <3>3. ThrottleTyped'
      BY <1>0, <2>1, <2>2, <3>1 DEF ThrottleTyped
    <3>4. Throttling!LockoutEnds'
      <4>1. ends' # 0 /\ ends' <= time' + Period
        BY <1>0, <2>1, <3>1 DEF ThrottleTyped
      <4> QED
        BY <4>1 DEF Throttling!LockoutEnds
    <3>5. Throttling!AttemptsBounded' /\ AllCounted'
      <4>1. store = "add" /\ window.passed = 0
        BY <1>9 DEF Throttling!HitAdd, ThrottleInv, AllCounted
      <4> QED
        BY <1>0, <2>1, <3>2, <4>1 DEF ThrottleInv, Throttling!AttemptsBounded, AllCounted
    <3>6. CounterLasts'
      BY <2>1, <3>2 DEF ThrottleInv, CounterLasts
    <3> QED
      BY <3>3, <3>4, <3>5, <3>6 DEF ThrottleInv
  <2> QED
    BY <2>3, <2>4
<1>10. CASE Throttling!ThrottleTick
  <2>1. time' = time + 1 /\ UNCHANGED <<store, counter, ends, step, window, torn>>
    BY <1>10 DEF Throttling!ThrottleTick
  <2>2. ThrottleTyped'
    BY <1>0, <2>1 DEF ThrottleTyped
  <2>3. Throttling!Value' # 0 => Throttling!Value' = Throttling!Value
    BY <1>0, <2>1 DEF Throttling!Value, ThrottleTyped
  <2>4. Throttling!LockoutEnds' /\ Throttling!AttemptsBounded' /\ AllCounted'
    BY <1>0, <2>1, <2>3 DEF ThrottleInv, ThrottleTyped, Throttling!LockoutEnds,
       Throttling!AttemptsBounded, AllCounted
  <2>5. CounterLasts'
    <3>1. window.opened \in Nat /\ window'.opened = window.opened /\ window.opened <= time
      BY <2>1 DEF ThrottleInv, ThrottleTyped, CounterLasts
    <3>2. ASSUME Throttling!Open' PROVE Throttling!Value' # 0 /\ (ends' = 0 \/ ends' >= window'.opened + Period)
      <4>1. Throttling!Open
        BY <1>0, <2>1, <3>1, <3>2 DEF Throttling!Open
      <4>2. Throttling!Value # 0 /\ (ends = 0 \/ ends >= window.opened + Period)
        BY <4>1 DEF ThrottleInv, CounterLasts
      <4>3. time + 1 < window.opened + Period
        BY <2>1, <3>2 DEF Throttling!Open
      <4>4. ends = 0 \/ ends > time + 1
        BY <1>0, <3>1, <4>2, <4>3 DEF ThrottleTyped
      <4>5. Throttling!Value = counter
        BY <4>2 DEF Throttling!Value
      <4>6. Throttling!Value' = counter
        BY <1>0, <2>1, <4>4 DEF Throttling!Value, ThrottleTyped
      <4> QED
        BY <2>1, <4>2, <4>5, <4>6
    <3>3. window'.opened <= time'
      BY <1>0, <2>1, <3>1 DEF ThrottleTyped
    <3> QED
      BY <3>2, <3>3 DEF CounterLasts
  <2> QED
    BY <2>2, <2>4, <2>5 DEF ThrottleInv
<1>11. CASE UNCHANGED Throttling!throttleVars
  BY <1>11 DEF Throttling!throttleVars, ThrottleInv, ThrottleTyped, Throttling!LockoutEnds,
     Throttling!AttemptsBounded, CounterLasts, AllCounted, Throttling!Value, Throttling!Open
<1> QED
  BY <1>1, <1>2, <1>3, <1>4, <1>5, <1>6, <1>7, <1>8, <1>9, <1>10, <1>11 DEF Throttling!ThrottleNext

(* The throttle locks nobody out for longer than a period, except by a     *)
(* client that died between its two calls, and lets no more than the limit *)
(* pass in the period of a counter, for every number of callers, every     *)
(* limit and period and every kind of store (src/tool/throttle.c).         *)
THEOREM ThrottlePartCorrect == Spec => []Throttled
<1> DEFINE Inv == part = "throttle" => ThrottleInv
<1>1. Throttling!ThrottleAssumption
  BY Assumptions
<1>2. Init => Inv
  BY <1>1, ThrottleStarts DEF Init
<1>3. ASSUME Inv, [Next]_vars PROVE Inv'
  <2>1. CASE part # "throttle"
    BY <1>3, <2>1 DEF Next, vars
  <2>2. CASE part = "throttle"
    <3>1. part' = part /\ (Throttling!ThrottleNext \/ UNCHANGED Throttling!throttleVars)
      BY <1>3, <2>2 DEF Next, vars, throttleVars, Throttling!throttleVars
    <3> QED
      BY <1>1, <1>3, <2>2, <3>1, ThrottleStep
  <2> QED
    BY <2>1, <2>2
<1>4. Inv => Throttled
  BY DEF Throttled, ThrottleInv, Throttling!Throttled
<1> QED
  BY <1>2, <1>3, <1>4, PTL DEF Spec

-----------------------------------------------------------------------------
(* The Redis client: locks, the rate limit, and how often a command is run. *)

(* A command on its way or answered, of one of the first n calls; and what *)
(* a caller has that waits for nothing.                                    *)
Messages(n, steps) ==
    [op : Redis!Ops, token : 1..n, via : {"sha", "source", "none"}, attempt : 1..2,
     step : steps, reply : {"none", "true", "false", "noscript"}]
Returned ==
    [op : Redis!Ops \cup {"none"}, token : {0}, via : {"none"}, attempt : {0},
     step : {"idle"}, reply : {"none", "true", "false", "failed"}]

ClientTypes ==
    /\ use \in [ops : SUBSET Redis!Ops, calls : Nat] /\ calls \in 0..use.calls
    /\ lock \in [token : Nat, ends : Nat] /\ rate \in [n : Nat, ends : Nat]
    /\ server \in Nat /\ allowed \in Nat
    /\ leases \in [1..use.calls -> Nat]
    /\ call \in [RedisCallers -> Messages(calls, {"sent", "served"}) \cup Returned]
    /\ strays \subseteq Messages(calls, {"sent"})
    /\ holds \in [RedisCallers -> 1..calls \cup {Absent}]
    /\ runs \in [RedisCallers -> Nat]

(* A token belongs to the caller who was given it, or still asks for it;   *)
(* and nobody's token is in an unlock that may still be run.               *)
Owned(c, t) == holds[c] = t \/ (call[c].op = "lock" /\ call[c].step # "idle" /\ call[c].token = t)
Undoes(m, t) == m.op = "unlock" /\ m.token = t
TokensApart ==
    /\ \A c \in RedisCallers : call[c].op = "lock" /\ call[c].step # "idle" => holds[c] = Absent
    /\ \A c \in RedisCallers, t \in 1..calls : Owned(c, t) =>
          /\ \A d \in RedisCallers : Owned(d, t) => c = d
          /\ \A m \in strays : ~Undoes(m, t)
          /\ \A d \in RedisCallers : call[d].step # "idle" => ~Undoes(call[d], t)

(* The lock is one that somebody asked for, and the one of the owner whose *)
(* lease is not over.                                                      *)
LockKept ==
    /\ \A t \in 1..use.calls : t > calls => leases[t] = 0
    /\ Redis!Live(lock) => lock.token \in 1..calls /\ lock.ends = leases[lock.token]
    /\ \A c \in RedisCallers, t \in 1..calls :
          Owned(c, t) /\ server < leases[t] => Redis!Live(lock) /\ lock.token = t

(* What was let through was counted.                                       *)
RateKept == allowed <= ServerMax /\ (Redis!Live(rate) => allowed <= rate.n)

(* How often a command was run, by where its call is.                      *)
RunsKept ==
    \A c \in RedisCallers :
        /\ call[c].step = "sent" \/ call[c].reply = "noscript" => runs[c] < call[c].attempt
        /\ call[c].step = "served" => call[c].reply # "none" /\ runs[c] <= call[c].attempt
        /\ call[c].step \in {"served", "idle"} /\ call[c].reply = "true" => runs[c] \in 1..2

ClientInv == ClientTypes /\ TokensApart /\ LockKept /\ RateKept /\ RunsKept

LEMMA ClientAssumed ==
  /\ Ttl \in Nat \ {0} /\ ServerMax \in Nat \ {0} /\ ServerWindow \in Nat \ {0}
  /\ Uses \subseteq [ops : SUBSET Redis!Ops, calls : Nat] /\ Absent \notin Nat
BY Assumptions DEF Redis!RedisClientAssumption

LEMMA ClientStarts ==
  ASSUME Redis!RedisClientInit
  PROVE  ClientInv
<1> USE ClientAssumed DEF Redis!RedisClientInit
<1>1. \A c \in RedisCallers :
        /\ call[c].op = "none" /\ call[c].step = "idle" /\ call[c].reply = "none" /\ call[c] \in Returned
        /\ holds[c] = Absent /\ runs[c] = 0
  BY DEF Redis!Idle, Returned
<1>2. ClientTypes
  BY <1>1 DEF ClientTypes
<1>3. TokensApart /\ LockKept /\ RateKept /\ RunsKept
  BY <1>1 DEF TokensApart, LockKept, RateKept, RunsKept, Redis!Live, Owned
<1> QED
  BY <1>2, <1>3 DEF ClientInv

(* A message that the server runs: the lock stays with its owner, and what *)
(* is let through is counted.                                              *)
LEMMA RunStep ==
  ASSUME ClientInv, NEW m \in Messages(calls, {"sent", "served"}), Redis!Run(m),
         \A c \in RedisCallers : m.op = "unlock" => ~Owned(c, m.token),
         UNCHANGED <<use, calls, server>>, \A c \in RedisCallers, t \in 1..calls : Owned(c, t)' => Owned(c, t)
  PROVE  /\ LockKept' /\ RateKept'
         /\ lock' \in [token : Nat, ends : Nat] /\ rate' \in [n : Nat, ends : Nat]
         /\ leases' \in [1..use.calls -> Nat] /\ allowed' \in Nat
<1> USE ClientAssumed
<1>0. /\ lock \in [token : Nat, ends : Nat] /\ rate \in [n : Nat, ends : Nat]
      /\ leases \in [1..use.calls -> Nat] /\ allowed \in Nat /\ server \in Nat
      /\ calls \in Nat /\ use.calls \in Nat /\ calls <= use.calls /\ m.token \in 1..calls
      /\ LockKept /\ RateKept
  BY DEF ClientInv, ClientTypes, Messages
<1>1. UNCHANGED <<lock, leases>> =>
        /\ LockKept' /\ lock' \in [token : Nat, ends : Nat] /\ leases' \in [1..use.calls -> Nat]
  BY <1>0 DEF LockKept, Redis!Live
<1>2. UNCHANGED <<rate, allowed>> => RateKept' /\ rate' \in [n : Nat, ends : Nat] /\ allowed' \in Nat
  BY <1>0 DEF RateKept, Redis!Live
<1>3. CASE m.op = "lock"
  <2>1. Redis!RunLock(m.token) \/ UNCHANGED <<lock, rate, leases, allowed>>
    BY <1>3 DEF Redis!Run, Redis!Scripted
  <2>2. UNCHANGED <<rate, allowed>>
    BY <2>1 DEF Redis!RunLock
  <2>3. CASE UNCHANGED <<lock, leases>>
    BY <1>0, <1>1, <1>2, <2>2, <2>3
  <2>4. CASE ~UNCHANGED <<lock, leases>>
    <3>0. Redis!RunLock(m.token) /\ ~Redis!Live(lock)
      BY <2>1, <2>4 DEF Redis!RunLock
    <3>1. /\ lock' = [token |-> m.token, ends |-> server + Ttl]
          /\ leases' = [leases EXCEPT ![m.token] = server + Ttl]
      BY <3>0 DEF Redis!RunLock
    <3>2. /\ lock' \in [token : Nat, ends : Nat] /\ leases' \in [1..use.calls -> Nat]
          /\ lock'.token = m.token /\ lock'.ends = server + Ttl /\ leases'[m.token] = server + Ttl
          /\ \A t \in 1..use.calls : t # m.token => leases'[t] = leases[t]
      BY <1>0, <3>1
    <3>3. Redis!Live(lock)'
      BY <1>0, <3>2 DEF Redis!Live
    <3>4. LockKept'
      BY <1>0, <3>0, <3>2, <3>3 DEF LockKept
    <3> QED
      BY <1>0, <1>2, <2>2, <3>2, <3>4
  <2> QED
    BY <2>3, <2>4
<1>4. CASE m.op = "unlock"
  <2>1. Redis!RunUnlock(m.token) \/ UNCHANGED <<lock, rate, leases, allowed>>
    BY <1>4 DEF Redis!Run, Redis!Scripted
  <2>2. UNCHANGED <<rate, leases, allowed>>
    BY <2>1 DEF Redis!RunUnlock
  <2>3. CASE lock' = lock
    BY <1>0, <1>1, <1>2, <2>2, <2>3
  <2>4. CASE lock' # lock
    <3>1. Redis!Live(lock) /\ lock.token = m.token /\ lock' = [lock EXCEPT !.ends = 0]
      BY <2>1, <2>4 DEF Redis!RunUnlock
    <3>2. lock' \in [token : Nat, ends : Nat] /\ ~Redis!Live(lock)'
      BY <1>0, <3>1 DEF Redis!Live
    <3>3. \A c \in RedisCallers, t \in 1..calls : Owned(c, t)' => ~(server < leases[t])
      BY <1>0, <1>4, <3>1 DEF LockKept
    <3>4. LockKept'
      BY <1>0, <2>2, <3>2, <3>3 DEF LockKept
    <3> QED
      BY <1>0, <1>2, <2>2, <3>2, <3>4
  <2> QED
    BY <2>3, <2>4
<1>5. CASE m.op = "rate"
  <2>1. Redis!RunRate \/ UNCHANGED <<lock, rate, leases, allowed>>
    BY <1>5 DEF Redis!Run, Redis!Scripted
  <2>2. UNCHANGED <<lock, leases>>
    BY <2>1 DEF Redis!RunRate
  <2>3. CASE Redis!RunRate
    <3>1. CASE Redis!Live(rate)
      <4>1. /\ rate' = [rate EXCEPT !.n = @ + 1]
            /\ allowed' = allowed + (IF rate.n + 1 <= ServerMax THEN 1 ELSE 0)
        BY <2>3, <3>1 DEF Redis!RunRate, Redis!Counted
      <4>2. rate' \in [n : Nat, ends : Nat] /\ rate'.n = rate.n + 1
        BY <1>0, <4>1
      <4>3. allowed' \in Nat /\ allowed' <= ServerMax /\ allowed' <= rate'.n
        BY <1>0, <3>1, <4>1, <4>2 DEF RateKept
      <4> QED
        BY <1>0, <1>1, <2>2, <4>2, <4>3 DEF RateKept
    <3>2. CASE ~Redis!Live(rate)
      <4>1. rate' = [n |-> 1, ends |-> server + ServerWindow] /\ allowed' = 0 + (IF 1 <= ServerMax THEN 1 ELSE 0)
        BY <2>3, <3>2 DEF Redis!RunRate, Redis!Counted
      <4>2. allowed' = 1 /\ rate' \in [n : Nat, ends : Nat] /\ rate'.n = 1
        BY <1>0, <4>1
      <4> QED
        BY <1>0, <1>1, <2>2, <4>2 DEF RateKept
    <3> QED
      BY <3>1, <3>2
  <2> QED
    BY <1>0, <1>1, <1>2, <2>1, <2>3
<1>6. CASE m.op \notin {"lock", "unlock", "rate"}
  <2>1. UNCHANGED <<lock, rate, leases, allowed>>
    BY <1>6 DEF Redis!Run, Redis!Scripted
  <2> QED
    BY <1>0, <1>1, <1>2, <2>1
<1> QED
  BY <1>3, <1>4, <1>5, <1>6

(* A caller that waits has a message; one that does not has an answer.     *)
LEMMA CallForms ==
  ASSUME ClientTypes, NEW c \in RedisCallers
  PROVE  /\ call[c].step \in {"sent", "served", "idle"}
         /\ call[c].step # "idle" => call[c] \in Messages(calls, {"sent", "served"})
         /\ call[c].step = "idle" => call[c] \in Returned
BY DEF ClientTypes, Messages, Returned

LEMMA ServeStep ==
  ASSUME ClientInv, NEW c \in RedisCallers, Redis!Serve(c)
  PROVE  ClientInv'
<1> DEFINE m == call[c]
<1>1. /\ m.step = "sent" /\ m \in Messages(calls, {"sent", "served"})
      /\ Redis!Run(m)
      /\ call' = [call EXCEPT ![c] = [m EXCEPT !.step = "served", !.reply = Redis!Reply(m)]]
      /\ runs' = [runs EXCEPT ![c] = @ + (IF Redis!Reply(m) # "noscript" THEN 1 ELSE 0)]
      /\ UNCHANGED <<use, server, strays, holds, calls>>
  BY CallForms DEF Redis!Serve, ClientInv, ClientTypes
<1>2. /\ call \in [RedisCallers -> Messages(calls, {"sent", "served"}) \cup Returned]
      /\ runs \in [RedisCallers -> Nat] /\ calls \in Nat /\ TokensApart
  BY DEF ClientInv, ClientTypes
<1>3. Redis!Reply(m) \in {"true", "false", "noscript"}
  BY <1>1 DEF Redis!Reply
<1>4. /\ call'[c] = [m EXCEPT !.step = "served", !.reply = Redis!Reply(m)]
      /\ call'[c] \in Messages(calls, {"sent", "served"})
      /\ call'[c].op = m.op /\ call'[c].token = m.token /\ call'[c].attempt = m.attempt
      /\ call'[c].step = "served" /\ call'[c].reply = Redis!Reply(m)
      /\ \A d \in RedisCallers \ {c} : call'[d] = call[d] /\ runs'[d] = runs[d]
  BY <1>1, <1>2, <1>3 DEF Messages
<1>5. \A d \in RedisCallers, t \in 1..calls : Owned(d, t)' <=> Owned(d, t)
  BY <1>1, <1>4 DEF Owned
<1>6. \A d \in RedisCallers, t \in 1..calls : call'[d].step # "idle" /\ Undoes(call'[d], t) =>
        call[d].step # "idle" /\ Undoes(call[d], t)
  BY <1>1, <1>4 DEF Undoes
<1>7. TokensApart'
  BY <1>1, <1>2, <1>4, <1>5, <1>6 DEF TokensApart, Undoes
<1>8. \A d \in RedisCallers : m.op = "unlock" => ~Owned(d, m.token)
  BY <1>1, <1>2 DEF TokensApart, Undoes, Messages
<1>9. /\ LockKept' /\ RateKept'
      /\ lock' \in [token : Nat, ends : Nat] /\ rate' \in [n : Nat, ends : Nat]
      /\ leases' \in [1..use.calls -> Nat] /\ allowed' \in Nat
  BY <1>1, <1>5, <1>8, RunStep
<1>10. ClientTypes'
  <2>1. call' \in [RedisCallers -> Messages(calls, {"sent", "served"}) \cup Returned]
    BY <1>1, <1>2, <1>4
  <2>2. runs' \in [RedisCallers -> Nat]
    BY <1>1, <1>2
  <2> QED
    BY <1>1, <1>9, <2>1, <2>2 DEF ClientInv, ClientTypes
<1>11. RunsKept'
  <2>1. runs[c] \in Nat /\ runs[c] < m.attempt /\ m.attempt \in 1..2
    BY <1>1, <1>2 DEF ClientInv, RunsKept, Messages
  <2>2. runs'[c] = runs[c] + (IF Redis!Reply(m) # "noscript" THEN 1 ELSE 0)
    BY <1>1, <1>2
  <2>3. /\ Redis!Reply(m) = "noscript" => runs'[c] < m.attempt
        /\ Redis!Reply(m) # "noscript" => runs'[c] \in 1..2
        /\ runs'[c] <= m.attempt
    BY <2>1, <2>2
  <2> HIDE DEF m
  <2>4. ASSUME NEW d \in RedisCallers
        PROVE  /\ call'[d].step = "sent" \/ call'[d].reply = "noscript" => runs'[d] < call'[d].attempt
               /\ call'[d].step = "served" => call'[d].reply # "none" /\ runs'[d] <= call'[d].attempt
               /\ call'[d].step \in {"served", "idle"} /\ call'[d].reply = "true" => runs'[d] \in 1..2
    <3>1. CASE d = c
      BY <1>3, <1>4, <2>3, <3>1
    <3>2. CASE d # c
      BY <1>4, <3>2 DEF ClientInv, RunsKept
    <3> QED
      BY <3>1, <3>2
  <2> QED
    BY <2>4 DEF RunsKept
<1> QED
  BY <1>7, <1>9, <1>10, <1>11 DEF ClientInv

LEMMA ServeStrayStep ==
  ASSUME ClientInv, NEW m \in strays, Redis!ServeStray(m)
  PROVE  ClientInv'
<1>1. /\ m \in Messages(calls, {"sent", "served"}) /\ Redis!Run(m) /\ strays' = strays \ {m}
      /\ UNCHANGED <<use, server, call, holds, runs, calls>>
  BY DEF Redis!ServeStray, ClientInv, ClientTypes, Messages
<1>2. \A d \in RedisCallers, t \in 1..calls : Owned(d, t)' <=> Owned(d, t)
  BY <1>1 DEF Owned
<1>3. \A d \in RedisCallers : m.op = "unlock" => ~Owned(d, m.token)
  BY <1>1 DEF ClientInv, TokensApart, Undoes, Messages
<1>4. /\ LockKept' /\ RateKept'
      /\ lock' \in [token : Nat, ends : Nat] /\ rate' \in [n : Nat, ends : Nat]
      /\ leases' \in [1..use.calls -> Nat] /\ allowed' \in Nat
  BY <1>1, <1>2, <1>3, RunStep
<1>5. ClientTypes'
  BY <1>1, <1>4 DEF ClientInv, ClientTypes
<1>6. TokensApart'
  BY <1>1, <1>2 DEF ClientInv, TokensApart, Undoes
<1>7. RunsKept'
  BY <1>1 DEF ClientInv, RunsKept
<1> QED
  BY <1>4, <1>5, <1>6, <1>7 DEF ClientInv

LEMMA ServerStep ==
  ASSUME ClientInv, Redis!Restart \/ Redis!Tick \/ UNCHANGED clientVars
  PROVE  ClientInv'
<1>1. /\ UNCHANGED <<use, lock, rate, call, strays, holds, leases, allowed, runs, calls>>
      /\ server' \in {server, server + 1}
  BY DEF Redis!Restart, Redis!Tick, clientVars
<1>2. /\ server \in Nat /\ lock \in [token : Nat, ends : Nat] /\ rate \in [n : Nat, ends : Nat]
      /\ leases \in [1..use.calls -> Nat] /\ calls \in Nat /\ use.calls \in Nat /\ calls <= use.calls
  BY DEF ClientInv, ClientTypes
<1>3. ClientTypes' /\ TokensApart' /\ RunsKept'
  BY <1>1, <1>2 DEF ClientInv, ClientTypes, TokensApart, RunsKept, Owned
<1>4. LockKept'
  <2>1. \A d \in RedisCallers, t \in 1..calls : Owned(d, t)' <=> Owned(d, t)
    BY <1>1 DEF Owned
  <2>2. \A t \in 1..calls : leases[t] \in Nat
    BY <1>2
  <2>3. Redis!Live(lock)' => Redis!Live(lock)
    BY <1>1, <1>2 DEF Redis!Live
  <2>4. ASSUME NEW d \in RedisCallers, NEW t \in 1..calls, Owned(d, t), server' < leases[t]
        PROVE  Redis!Live(lock)' /\ lock.token = t
    <3>1. Redis!Live(lock) /\ lock.token = t
      BY <1>1, <1>2, <2>2, <2>4 DEF ClientInv, LockKept
    <3>2. lock.ends = leases[t]
      BY <3>1 DEF ClientInv, LockKept
    <3> QED
      BY <1>1, <1>2, <2>2, <2>4, <3>1, <3>2 DEF Redis!Live
  <2> QED
    BY <1>1, <1>2, <2>1, <2>3, <2>4 DEF ClientInv, LockKept
<1>5. RateKept'
  BY <1>1, <1>2 DEF ClientInv, RateKept, Redis!Live
<1> QED
  BY <1>3, <1>4, <1>5 DEF ClientInv

LEMMA ClientSide ==
  ASSUME ClientInv, UNCHANGED <<use, lock, rate, server, leases, allowed, calls>>,
         \A d \in RedisCallers, t \in 1..calls : Owned(d, t)' => Owned(d, t)
  PROVE  LockKept' /\ RateKept'
BY DEF ClientInv, LockKept, RateKept, Redis!Live

LEMMA CallStep ==
  ASSUME ClientInv, NEW c \in RedisCallers, NEW op \in use.ops, Redis!Call(c, op)
  PROVE  ClientInv'
<1> USE ClientAssumed
<1> DEFINE token == IF op = "unlock" THEN holds[c] ELSE calls + 1
<1>1. /\ call[c].step = "idle" /\ calls < use.calls /\ calls' = calls + 1
      /\ op = "lock" => holds[c] = Absent
      /\ op = "unlock" => holds[c] # Absent
      /\ call' = [call EXCEPT ![c] = Redis!Message(op, token, 1)]
      /\ holds' = IF op = "unlock" THEN [holds EXCEPT ![c] = Absent] ELSE holds
      /\ runs' = [runs EXCEPT ![c] = 0]
      /\ UNCHANGED <<use, lock, rate, server, strays, leases, allowed>>
  BY DEF Redis!Call
<1>2. /\ use.calls \in Nat /\ calls \in Nat /\ op \in Redis!Ops
      /\ call \in [RedisCallers -> Messages(calls, {"sent", "served"}) \cup Returned]
      /\ holds \in [RedisCallers -> 1..calls \cup {Absent}]
      /\ runs \in [RedisCallers -> Nat] /\ strays \subseteq Messages(calls, {"sent"})
  BY DEF ClientInv, ClientTypes
<1>3. token \in 1..(calls + 1) /\ (op = "unlock" => token = holds[c]) /\ (op # "unlock" => token = calls + 1)
  BY <1>1, <1>2
<1> HIDE DEF token
<1>4. /\ call'[c].op = op /\ call'[c].token = token /\ call'[c].step = "sent" /\ call'[c].attempt = 1
      /\ call'[c].reply = "none" /\ call'[c] \in Messages(calls + 1, {"sent", "served"})
      /\ \A d \in RedisCallers \ {c} : call'[d] = call[d] /\ runs'[d] = runs[d] /\ holds'[d] = holds[d]
      /\ runs'[c] = 0 /\ holds'[c] = IF op = "unlock" THEN Absent ELSE holds[c]
  BY <1>1, <1>2, <1>3 DEF Redis!Message, Messages
<1>5. \A S : Messages(calls, S) \subseteq Messages(calls + 1, S)
  BY <1>2 DEF Messages
<1>6. ClientTypes'
  <2>1. call' \in [RedisCallers -> Messages(calls', {"sent", "served"}) \cup Returned]
    BY <1>1, <1>2, <1>4, <1>5
  <2>2. holds' \in [RedisCallers -> 1..calls' \cup {Absent}] /\ runs' \in [RedisCallers -> Nat]
    BY <1>1, <1>2
  <2>3. strays' \subseteq Messages(calls', {"sent"})
    BY <1>1, <1>2, <1>5
  <2> QED
    BY <1>1, <1>2, <2>1, <2>2, <2>3 DEF ClientInv, ClientTypes
<1>7. /\ \A d \in RedisCallers, t \in 1..(calls + 1) : Owned(d, t) => t # calls + 1
      /\ \A d \in RedisCallers : call[d].step # "idle" => call[d].token # calls + 1
      /\ \A m \in strays : m.token # calls + 1
  <2>1. ASSUME NEW d \in RedisCallers, call[d].step # "idle" PROVE call[d].token \in 1..calls
    BY <1>2, <2>1 DEF Messages, Returned
  <2>2. \A d \in RedisCallers : holds[d] # calls + 1
    BY <1>2
  <2>3. \A m \in strays : m.token \in 1..calls
    BY <1>2 DEF Messages
  <2> QED
    BY <1>2, <2>1, <2>2, <2>3 DEF Owned
<1>8. ASSUME NEW d \in RedisCallers, NEW t \in 1..(calls + 1), Owned(d, t)'
      PROVE  \/ Owned(d, t) /\ t \in 1..calls /\ (op = "unlock" => d # c)
             \/ d = c /\ t = calls + 1 /\ op = "lock"
  <2>1. Owned(d, t) \/ (d = c /\ t = calls + 1 /\ op = "lock")
    BY <1>1, <1>2, <1>3, <1>4, <1>8 DEF Owned
  <2>2. op = "unlock" => d # c
    BY <1>2, <1>4, <1>8 DEF Owned
  <2> QED
    BY <1>2, <1>7, <2>1, <2>2
<1>9. TokensApart'
  <2>1. \A d \in RedisCallers : call'[d].op = "lock" /\ call'[d].step # "idle" => holds'[d] = Absent
    BY <1>1, <1>4 DEF ClientInv, TokensApart
  <2>2. ASSUME NEW d \in RedisCallers, NEW t \in 1..(calls + 1), Owned(d, t)'
        PROVE  /\ \A e \in RedisCallers : Owned(e, t)' => d = e
               /\ \A m \in strays : ~Undoes(m, t)
               /\ \A e \in RedisCallers : call'[e].step # "idle" => ~Undoes(call'[e], t)
    <3>1. CASE t = calls + 1
      <4>1. op = "lock" /\ \A e \in RedisCallers : Owned(e, t)' => e = c
        BY <1>2, <1>8, <2>2, <3>1
      <4> QED
        BY <1>4, <1>7, <2>2, <3>1, <4>1 DEF Undoes
    <3>2. CASE t # calls + 1
      <4>1. t \in 1..calls /\ Owned(d, t) /\ \A e \in RedisCallers : Owned(e, t)' => Owned(e, t)
        BY <1>8, <2>2, <3>2
      <4>2. ~Undoes(call'[c], t)
        <5> SUFFICES ASSUME Undoes(call'[c], t) PROVE FALSE
          OBVIOUS
        <5>1. op = "unlock" /\ t = holds[c]
          BY <1>3, <1>4 DEF Undoes
        <5>2. Owned(c, t)
          BY <5>1 DEF Owned
        <5> QED
          BY <1>8, <2>2, <3>2, <4>1, <5>1, <5>2 DEF ClientInv, TokensApart
      <4> QED
        BY <1>4, <4>1, <4>2 DEF ClientInv, TokensApart
    <3> QED
      BY <3>1, <3>2
  <2> QED
    BY <1>1, <2>1, <2>2 DEF TokensApart
<1>10. LockKept' /\ RateKept'
  <2>1. LockKept /\ RateKept /\ leases \in [1..use.calls -> Nat] /\ server \in Nat
    BY DEF ClientInv, ClientTypes
  <2>2. leases[calls + 1] = 0
    BY <1>1, <1>2, <2>1 DEF LockKept
  <2>3. ASSUME NEW d \in RedisCallers, NEW t \in 1..(calls + 1), Owned(d, t)', server < leases[t]
        PROVE  Redis!Live(lock) /\ lock.token = t
    BY <1>8, <2>1, <2>2, <2>3 DEF LockKept
  <2> QED
    BY <1>1, <1>2, <2>1, <2>3 DEF LockKept, RateKept, Redis!Live
<1>11. RunsKept'
  BY <1>4 DEF ClientInv, RunsKept
<1> QED
  BY <1>6, <1>9, <1>10, <1>11 DEF ClientInv

LEMMA AnswerStep ==
  ASSUME ClientInv, NEW c \in RedisCallers, Redis!Answer(c)
  PROVE  ClientInv'
<1> DEFINE m == call[c]
<1>1. /\ m.step = "served" /\ m \in Messages(calls, {"sent", "served"})
      /\ UNCHANGED <<use, lock, rate, server, strays, leases, allowed, runs, calls>>
  BY CallForms DEF Redis!Answer, ClientInv
<1>2. /\ call \in [RedisCallers -> Messages(calls, {"sent", "served"}) \cup Returned]
      /\ holds \in [RedisCallers -> 1..calls \cup {Absent}] /\ calls \in Nat
      /\ TokensApart /\ RunsKept
  BY DEF ClientInv, ClientTypes
<1>3. CASE m.reply = "noscript"
  <2>1. call' = [call EXCEPT ![c] = [m EXCEPT !.via = "source", !.step = "sent", !.reply = "none"]] /\ holds' = holds
    BY <1>2, <1>3 DEF Redis!Answer
  <2>2. /\ call'[c].op = m.op /\ call'[c].token = m.token /\ call'[c].step = "sent" /\ call'[c].reply = "none"
        /\ call'[c].attempt = m.attempt /\ call'[c] \in Messages(calls, {"sent", "served"})
        /\ \A d \in RedisCallers \ {c} : call'[d] = call[d]
    BY <1>1, <1>2, <2>1 DEF Messages
  <2>3. \A d \in RedisCallers, t \in 1..calls : Owned(d, t)' <=> Owned(d, t)
    BY <1>1, <2>1, <2>2 DEF Owned
  <2>4. TokensApart'
    BY <1>1, <1>2, <2>1, <2>2, <2>3 DEF TokensApart, Undoes
  <2>5. ClientTypes'
    <3>1. call' \in [RedisCallers -> Messages(calls, {"sent", "served"}) \cup Returned]
      BY <1>2, <2>1, <2>2
    <3> QED
      BY <1>1, <2>1, <3>1 DEF ClientInv, ClientTypes
  <2>6. RunsKept'
    BY <1>1, <1>2, <1>3, <2>2 DEF RunsKept
  <2> QED
    BY <1>1, <2>3, <2>4, <2>5, <2>6, ClientSide DEF ClientInv
<1>4. CASE m.reply # "noscript"
  <2>1. /\ call' = [call EXCEPT ![c] = [Redis!Idle EXCEPT !.op = m.op, !.reply = m.reply]]
        /\ holds' = IF m.op = "lock" /\ m.reply = "true" THEN [holds EXCEPT ![c] = m.token] ELSE holds
    BY <1>4 DEF Redis!Answer
  <2>2. m.reply \in {"true", "false"} /\ m.token \in 1..calls /\ m.op \in Redis!Ops
    BY <1>1, <1>2, <1>4 DEF Messages, RunsKept
  <2>3. /\ call'[c].step = "idle" /\ call'[c].reply = m.reply /\ call'[c] \in Returned
        /\ \A d \in RedisCallers \ {c} : call'[d] = call[d] /\ holds'[d] = holds[d]
        /\ holds'[c] = IF m.op = "lock" /\ m.reply = "true" THEN m.token ELSE holds[c]
    BY <1>2, <2>1, <2>2 DEF Redis!Idle, Returned
  <2>4. \A d \in RedisCallers, t \in 1..calls : Owned(d, t)' => Owned(d, t)
    BY <1>1, <2>3 DEF Owned
  <2>5. TokensApart'
    BY <1>1, <1>2, <2>3, <2>4 DEF TokensApart, Undoes
  <2>6. ClientTypes'
    <3>1. call' \in [RedisCallers -> Messages(calls, {"sent", "served"}) \cup Returned]
      BY <1>2, <2>1, <2>3
    <3>2. holds' \in [RedisCallers -> 1..calls \cup {Absent}]
      BY <1>2, <2>1, <2>2
    <3> QED
      BY <1>1, <3>1, <3>2 DEF ClientInv, ClientTypes
  <2>7. RunsKept'
    BY <1>1, <1>2, <1>4, <2>2, <2>3 DEF RunsKept
  <2> QED
    BY <1>1, <2>4, <2>5, <2>6, <2>7, ClientSide DEF ClientInv
<1> QED
  BY <1>3, <1>4

LEMMA BreakStep ==
  ASSUME ClientInv, NEW c \in RedisCallers, Redis!Break(c)
  PROVE  ClientInv'
<1> DEFINE m == call[c]
<1>1. /\ m.step \in {"sent", "served"} /\ m \in Messages(calls, {"sent", "served"})
      /\ UNCHANGED <<use, lock, rate, server, holds, leases, allowed, runs, calls>>
  BY CallForms DEF Redis!Break, ClientInv
<1>2. /\ call \in [RedisCallers -> Messages(calls, {"sent", "served"}) \cup Returned]
      /\ strays \subseteq Messages(calls, {"sent"}) /\ calls \in Nat
      /\ TokensApart /\ RunsKept
  BY DEF ClientInv, ClientTypes
<1>3. strays' = strays \/ (m.step = "sent" /\ strays' = strays \cup {m})
  BY DEF Redis!Break
<1>4. strays' \subseteq Messages(calls, {"sent"})
  BY <1>1, <1>2, <1>3 DEF Messages
<1>5. \/ m.attempt = 1 /\ call' = [call EXCEPT ![c] = Redis!Message(m.op, m.token, 2)]
      \/ call' = [call EXCEPT ![c] = [Redis!Idle EXCEPT !.op = m.op, !.reply = "failed"]]
  BY <1>2 DEF Redis!Break
<1>6. /\ call'[c] \in Messages(calls, {"sent", "served"}) \cup Returned
      /\ call'[c].op = m.op /\ call'[c].step \in {"sent", "idle"}
      /\ call'[c].step = "sent" => call'[c].token = m.token /\ m.attempt = 1 /\ call'[c].attempt = 2
      /\ call'[c].reply \in {"none", "failed"}
      /\ \A d \in RedisCallers \ {c} : call'[d] = call[d]
  <2>1. m.op \in Redis!Ops /\ m.token \in 1..calls
    BY <1>1 DEF Messages
  <2>2. CASE m.attempt = 1 /\ call' = [call EXCEPT ![c] = Redis!Message(m.op, m.token, 2)]
    <3>1. call'[c] = Redis!Message(m.op, m.token, 2) /\ \A d \in RedisCallers \ {c} : call'[d] = call[d]
      BY <1>2, <2>2
    <3> HIDE DEF m
    <3> QED
      BY <2>1, <2>2, <3>1 DEF Redis!Message, Messages
  <2>3. CASE call' = [call EXCEPT ![c] = [Redis!Idle EXCEPT !.op = m.op, !.reply = "failed"]]
    <3>1. /\ call'[c] = [Redis!Idle EXCEPT !.op = m.op, !.reply = "failed"]
          /\ \A d \in RedisCallers \ {c} : call'[d] = call[d]
      BY <1>2, <2>3
    <3> HIDE DEF m
    <3> QED
      BY <2>1, <3>1 DEF Redis!Idle, Returned
  <2> QED
    BY <1>5, <2>2, <2>3
<1>7. \A d \in RedisCallers, t \in 1..calls : Owned(d, t)' => Owned(d, t)
  BY <1>1, <1>6 DEF Owned
<1>8. TokensApart'
  <2>1. ASSUME NEW d \in RedisCallers, NEW t \in 1..calls, Owned(d, t)
        PROVE  /\ \A x \in strays' : ~Undoes(x, t)
               /\ \A e \in RedisCallers : call'[e].step # "idle" => ~Undoes(call'[e], t)
    BY <1>1, <1>2, <1>3, <1>6, <2>1 DEF TokensApart, Undoes
  <2> QED
    BY <1>1, <1>2, <1>6, <1>7, <2>1 DEF TokensApart
<1>9. ClientTypes'
  <2>1. call' \in [RedisCallers -> Messages(calls, {"sent", "served"}) \cup Returned]
    BY <1>2, <1>5, <1>6
  <2> QED
    BY <1>1, <1>4, <2>1 DEF ClientInv, ClientTypes
<1>10. RunsKept'
  <2>1. runs[c] \in Nat /\ m.attempt \in 1..2 /\ runs[c] <= m.attempt
    BY <1>1, <1>2 DEF RunsKept, ClientInv, ClientTypes, Messages
  <2> QED
    BY <1>1, <1>2, <1>6, <2>1 DEF RunsKept
<1> QED
  BY <1>1, <1>7, <1>8, <1>9, <1>10, ClientSide DEF ClientInv

LEMMA ClientStep ==
  ASSUME ClientInv, Redis!RedisClientNext \/ UNCHANGED clientVars
  PROVE  ClientInv'
BY ServeStep, ServeStrayStep, ServerStep, CallStep, AnswerStep, BreakStep DEF Redis!RedisClientNext

(* Whoever was told that it has the lock is the only one, until its time   *)
(* is up or it gives it back, the rate limit lets no more through than its *)
(* limit, and a command that was answered was run once or twice; for any   *)
(* number of callers and calls, whatever is lost, sent twice or run late,  *)
(* and whenever the server restarts (src/cache/redis.c).                   *)
THEOREM ClientPartCorrect == Spec => []AnswersTrue
<1> DEFINE Inv == part = "redisClient" => ClientInv
<1>1. Init => Inv
  BY ClientStarts DEF Init
<1>2. ASSUME Inv, [Next]_vars PROVE Inv'
  <2>1. CASE part # "redisClient"
    BY <1>2, <2>1 DEF Next, vars
  <2>2. CASE part = "redisClient"
    <3>1. part' = part /\ (Redis!RedisClientNext \/ UNCHANGED clientVars)
      BY <1>2, <2>2 DEF Next, vars
    <3> QED
      BY <1>2, <2>2, <3>1, ClientStep
  <2> QED
    BY <2>1, <2>2
<1>3. ASSUME Inv PROVE AnswersTrue
  <2> SUFFICES ASSUME ClientInv PROVE Redis!AnswersTrue
    BY <1>3 DEF AnswersTrue
  <2>1. ASSUME NEW c \in RedisCallers, holds[c] # Absent, server < leases[holds[c]]
        PROVE  Redis!Live(lock) /\ lock.token = holds[c]
    <3>1. holds[c] \in 1..calls /\ Owned(c, holds[c])
      BY <2>1 DEF ClientInv, ClientTypes, Owned
    <3> QED
      BY <2>1, <3>1 DEF ClientInv, LockKept
  <2> QED
    BY <2>1 DEF Redis!AnswersTrue, ClientInv, RateKept, RunsKept
<1> QED
  BY <1>1, <1>2, <1>3, PTL DEF Spec

-----------------------------------------------------------------------------
(* The registry of named pools.                                            *)

Kinds == {"db", "redis"}
Fors == {"none", "startPools", "closePools"}
Flows ==
    [in : {"none", "startPools"}, for : Fors, now : {Absent}, closes : {{}}, left : SUBSET Names]
        \cup [in : {"create"}, for : Fors, now : Names, closes : SUBSET PoolObjects, left : SUBSET Names]
        \cup [in : {"close"}, for : Fors, now : Kinds \cup {Absent}, closes : SUBSET PoolObjects, left : SUBSET Kinds]

RegistryTypes ==
    /\ driver \in [Names -> Kinds]
    /\ decl \in [Names -> {"none", "declared", "started"}]
    /\ instances \in [Names -> PoolObjects \cup {Absent}]
    /\ made \in [PoolObjects -> {"free", "open", "closing", "closed"}]
    /\ timer \in [PoolObjects -> BOOLEAN]
    /\ flow \in [Workflows -> Flows]

(* No two coroutines create the same name, or close the same driver, or    *)
(* create what another is closing.                                         *)
Creates(c, n) == flow[c].in = "create" /\ flow[c].now = n
ClosesAll(c, d) == flow[c].in = "close" /\ d \in flow[c].left \cup {flow[c].now}
Excluded ==
    /\ \A c, e \in Workflows, n \in Names : Creates(c, n) /\ Creates(e, n) => c = e
    /\ \A c, e \in Workflows, d \in Kinds : ClosesAll(c, d) /\ ClosesAll(e, d) => c = e
    /\ \A c, e \in Workflows, n \in Names : Creates(c, n) => ~ClosesAll(e, driver[n])

(* A pool that is open or being closed is registered, under one name.      *)
Registers ==
    /\ cache = instances
    /\ \A m, n \in Names : instances[m] = instances[n] /\ instances[m] # Absent => m = n
    /\ \A n \in Names : instances[n] # Absent => made[instances[n]] # "free"
    /\ \A q \in PoolObjects : made[q] \in {"open", "closing"} => \E n \in Names : instances[n] = q
    /\ \A q \in PoolObjects : timer[q] => made[q] = "open"

(* It is being closed by the coroutine that deals with its name, which     *)
(* finds every pool it deals with closed in the end.                       *)
Deals(c, n) == Creates(c, n) \/ (flow[c].in = "close" /\ flow[c].now = driver[n])
Closers ==
    /\ \A q \in PoolObjects : made[q] = "closing" => \E c \in Workflows : q \in flow[c].closes
    /\ \A c \in Workflows : \A q \in flow[c].closes :
          made[q] = "closing" /\ \E n \in Names : Deals(c, n) /\ instances[n] = q
    /\ \A c \in Workflows, n \in Names : Deals(c, n) /\ instances[n] # Absent =>
          made[instances[n]] = "closed" \/ instances[n] \in flow[c].closes

(* A pool that was started is open, unless it is being created again or    *)
(* all are being closed; what is closed by hand was not started.           *)
Serving ==
    /\ \A n \in Names : decl[n] = "started" =>
          \/ \E c \in Workflows : Creates(c, n)
          \/ \E c \in Workflows : flow[c].in = "close" /\ flow[c].for = "closePools"
          \/ instances[n] # Absent /\ made[instances[n]] = "open"
    /\ \A c \in Workflows, n \in Names :
          ClosesAll(c, driver[n]) /\ flow[c].for # "closePools" => decl[n] # "started"

RegistryInv == RegistryTypes /\ Excluded /\ Registers /\ Closers /\ Serving

LEMMA RegistryAssumed ==
  /\ Drivers \subseteq [Names -> Kinds]
  /\ Absent \notin Names \cup PoolObjects \cup Kinds
BY Assumptions DEF Registry!RegistryAssumption, Kinds

LEMMA RegistryStarts ==
  ASSUME Registry!RegistryInit
  PROVE  RegistryInv
<1> USE RegistryAssumed DEF Registry!RegistryInit
<1>1. \A c \in Workflows : flow[c].in = "none" /\ flow[c].closes = {} /\ flow[c] \in Flows
  BY DEF Registry!Out, Flows, Fors
<1>2. RegistryTypes
  BY <1>1 DEF RegistryTypes
<1>3. Excluded /\ Registers /\ Closers /\ Serving
  BY <1>1 DEF Excluded, Registers, Closers, Serving, Creates, ClosesAll, Deals
<1> QED
  BY <1>2, <1>3 DEF RegistryInv

(* A name is dealt with by one coroutine, a pool closed by one, and by     *)
(* none that waits for nothing.                                            *)
LEMMA DealsOnce ==
  ASSUME RegistryInv
  PROVE  /\ \A n \in Names : driver[n] \in Kinds /\ driver[n] # Absent
         /\ \A c, e \in Workflows, n \in Names : Deals(c, n) /\ Deals(e, n) => c = e
         /\ \A c, e \in Workflows : \A q \in flow[c].closes : q \in flow[e].closes => c = e
         /\ \A c \in Workflows : (\A n \in Names : ~Deals(c, n)) => flow[c].closes = {}
         /\ \A c \in Workflows : flow[c].in \in {"none", "startPools"} => \A n \in Names : ~Deals(c, n)
         /\ \A c \in Workflows : flow[c].in = "close" /\ flow[c].now = Absent =>
               \A n \in Names : ~Deals(c, n)
<1>1. \A n \in Names : driver[n] \in Kinds /\ driver[n] # Absent
  BY RegistryAssumed DEF RegistryInv, RegistryTypes
<1>2. ASSUME NEW c \in Workflows, NEW e \in Workflows, NEW n \in Names, Deals(c, n), Deals(e, n)
      PROVE  c = e
  BY <1>1, <1>2 DEF RegistryInv, Excluded, Deals, ClosesAll, Creates
<1>3. ASSUME NEW c \in Workflows, NEW e \in Workflows, NEW q \in flow[c].closes, q \in flow[e].closes
      PROVE  c = e
  <2>1. PICK n \in Names : Deals(c, n) /\ instances[n] = q
    BY <1>3 DEF RegistryInv, Closers
  <2>2. PICK m \in Names : Deals(e, m) /\ instances[m] = q
    BY <1>3 DEF RegistryInv, Closers
  <2>3. q # Absent
    <3>1. q \in PoolObjects
      BY DEF RegistryInv, RegistryTypes, Flows
    <3> QED
      BY <3>1, RegistryAssumed
  <2> QED
    BY <1>2, <2>1, <2>2, <2>3 DEF RegistryInv, Registers
<1>4. \A c \in Workflows : (\A n \in Names : ~Deals(c, n)) => flow[c].closes = {}
  BY DEF RegistryInv, Closers
<1>5. \A c \in Workflows, n \in Names : flow[c].in \in {"none", "startPools"} => ~Deals(c, n)
  BY DEF Deals, Creates
<1>6. \A c \in Workflows, n \in Names : flow[c].in = "close" /\ flow[c].now = Absent => ~Deals(c, n)
  BY <1>1 DEF Deals, Creates
<1> QED
  BY <1>1, <1>2, <1>3, <1>4, <1>5, <1>6

(* The pool of a name that nobody deals with is not being closed.          *)
LEMMA NotClosing ==
  ASSUME RegistryInv, NEW n \in Names, instances[n] # Absent,
         \A c \in Workflows : ~Deals(c, n)
  PROVE  /\ instances[n] \in PoolObjects /\ made[instances[n]] \in {"open", "closed"}
         /\ \A c \in Workflows : instances[n] \notin flow[c].closes
<1>1. instances[n] \in PoolObjects /\ made[instances[n]] \in {"open", "closing", "closed"}
  BY DEF RegistryInv, RegistryTypes, Registers
<1>2. \A c \in Workflows : instances[n] \notin flow[c].closes
  BY DEF RegistryInv, Closers, Registers
<1> QED
  BY <1>1, <1>2 DEF RegistryInv, Closers

(* A coroutine moves on, and the others stay where they are.               *)
LEMMA Moves ==
  ASSUME RegistryInv, NEW c \in Workflows, NEW f \in Flows, Registry!Flow(c, f)
  PROVE  /\ flow' \in [Workflows -> Flows] /\ flow'[c] = f
         /\ \A e \in Workflows : e # c => flow'[e] = flow[e]
<1>1. flow' = [flow EXCEPT ![c] = f] /\ flow \in [Workflows -> Flows]
  BY DEF Registry!Flow, RegistryInv, RegistryTypes
<1> QED
  BY <1>1

LEMMA DeclareStep ==
  ASSUME RegistryInv, NEW n \in Names, Registry!Declare(n)
  PROVE  RegistryInv'
<1> USE DEF Registry!Declare, RegistryInv
<1>1. RegistryTypes'
  BY DEF RegistryTypes
<1>2. \A m \in Names : decl'[m] = "started" => decl[m] = "started"
  BY DEF RegistryTypes
<1>3. Excluded' /\ Registers' /\ Closers'
  BY DEF Excluded, Registers, Closers, Creates, ClosesAll, Deals
<1>4. Serving'
  BY <1>2 DEF Serving, Creates, ClosesAll
<1> QED
  BY <1>1, <1>3, <1>4

LEMMA StopTimersStep ==
  ASSUME RegistryInv, Registry!StopTimers
  PROVE  RegistryInv'
<1> USE DEF RegistryInv
<1>1. /\ UNCHANGED <<driver, decl, instances, cache, made, flow>>
      /\ \E S : timer' = [q \in PoolObjects |-> timer[q] /\ q \notin S]
  BY DEF Registry!StopTimers, Registry!Silenced
<1>2. timer' \in [PoolObjects -> BOOLEAN] /\ \A q \in PoolObjects : timer'[q] => timer[q]
  BY <1>1 DEF RegistryTypes
<1>3. RegistryTypes' /\ Registers'
  BY <1>1, <1>2 DEF RegistryTypes, Registers
<1>4. Excluded' /\ Closers' /\ Serving'
  BY <1>1 DEF Excluded, Closers, Serving, Creates, ClosesAll, Deals
<1> QED
  BY <1>3, <1>4

(* A name that nobody deals with gets a pool that its driver's closers do  *)
(* not know, so that the old one is closed, by this coroutine, or was.     *)
LEMMA CreateStep ==
  ASSUME RegistryInv, "overlap" \in RegistryCareful,
         NEW c \in Workflows, NEW n \in Names, NEW for \in Fors, NEW left \in SUBSET Names,
         flow[c].in \in {"none", "startPools"}, Registry!MayCreate(n),
         Registry!Create(c, n, for, left), UNCHANGED <<driver, decl, instances, cache>>
  PROVE  RegistryInv'
<1> USE DEF RegistryInv
<1>1. \A e \in Workflows : ~Creates(e, n) /\ ~ClosesAll(e, driver[n])
  BY DEF Registry!MayCreate, Registry!Creating, Registry!Closing, Registry!Is, Creates, ClosesAll
<1>2. \A e \in Workflows : ~Deals(e, n)
  BY <1>1 DEF Deals, ClosesAll
<1>3. /\ flow[c].closes = {} /\ \A m \in Names : ~Deals(c, m) /\ ~Creates(c, m)
      /\ \A d \in Kinds : ~ClosesAll(c, d)
  BY DealsOnce DEF Creates, ClosesAll
<1>4. PICK S \in SUBSET PoolObjects :
        /\ Registry!Flow(c, [in |-> "create", for |-> for, now |-> n, closes |-> S, left |-> left])
        /\ \A q \in S : q = instances[n] /\ made[q] = "open"
        /\ instances[n] # Absent => made[instances[n]] = "closed" \/ instances[n] \in S
        /\ made' \in [PoolObjects -> {"free", "open", "closing", "closed"}]
        /\ timer' \in [PoolObjects -> BOOLEAN]
        /\ \A q \in PoolObjects : /\ made'[q] = IF q \in S THEN "closing" ELSE made[q]
                                  /\ timer'[q] => timer[q] /\ q \notin S
  <2>1. CASE Registry!Closes(n)
    <3>1. instances[n] \in PoolObjects /\ made[instances[n]] = "open"
      BY <1>2, <2>1, NotClosing DEF Registry!Closes
    <3>2. /\ Registry!Marked({instances[n]}) /\ Registry!Silenced({instances[n]})
          /\ Registry!Flow(c, [in |-> "create", for |-> for, now |-> n, closes |-> {instances[n]},
                               left |-> left])
      BY <2>1 DEF Registry!Create
    <3>3. /\ made' \in [PoolObjects -> {"free", "open", "closing", "closed"}]
          /\ timer' \in [PoolObjects -> BOOLEAN]
          /\ \A q \in PoolObjects : /\ made'[q] = IF q = instances[n] THEN "closing" ELSE made[q]
                                    /\ timer'[q] => timer[q] /\ q # instances[n]
      BY <3>1, <3>2 DEF Registry!Marked, Registry!Silenced, RegistryTypes
    <3> QED
      BY <3>1, <3>2, <3>3
  <2>2. CASE ~Registry!Closes(n)
    <3>1. Registry!Flow(c, [in |-> "create", for |-> for, now |-> n, closes |-> {}, left |-> left])
      BY <2>2 DEF Registry!Create
    <3>2. UNCHANGED <<made, timer>>
      BY <2>2 DEF Registry!Create
    <3>3. instances[n] # Absent => made[instances[n]] = "closed"
      BY <1>2, <2>2, NotClosing DEF Registry!Closes
    <3>4. /\ made \in [PoolObjects -> {"free", "open", "closing", "closed"}]
          /\ timer \in [PoolObjects -> BOOLEAN]
          /\ \A q \in PoolObjects : timer[q] \in BOOLEAN
      BY DEF RegistryTypes
    <3> QED
      BY <3>1, <3>2, <3>3, <3>4
  <2> QED
    BY <2>1, <2>2
<1>5. /\ flow' \in [Workflows -> Flows] /\ \A e \in Workflows : e # c => flow'[e] = flow[e]
      /\ flow'[c] = [in |-> "create", for |-> for, now |-> n, closes |-> S, left |-> left]
  <2>1. [in |-> "create", for |-> for, now |-> n, closes |-> S, left |-> left] \in Flows
    BY DEF Flows
  <2> QED
    BY <1>4, <2>1, Moves
<1>6. /\ \A m \in Names : (Creates(c, m)' <=> m = n) /\ (Deals(c, m)' <=> m = n)
      /\ \A d \in Kinds : ~ClosesAll(c, d)'
      /\ \A e \in Workflows : e # c =>
            /\ \A m \in Names : (Creates(e, m)' <=> Creates(e, m)) /\ (Deals(e, m)' <=> Deals(e, m))
            /\ \A d \in Kinds : ClosesAll(e, d)' <=> ClosesAll(e, d)
  BY <1>5 DEF Creates, Deals, ClosesAll
<1>7. \A q \in S : \A e \in Workflows : q \notin flow[e].closes
  BY <1>4 DEF Closers
<1>8. RegistryTypes'
  BY <1>4, <1>5 DEF RegistryTypes
<1>9. Excluded'
  BY <1>1, <1>3, <1>6, DealsOnce DEF Excluded
<1>10. Registers'
  <2>1. \A m \in Names : instances[m] # Absent => made'[instances[m]] # "free"
    BY <1>4 DEF Registers, RegistryTypes
  <2>2. \A q \in PoolObjects : made'[q] \in {"open", "closing"} => \E m \in Names : instances[m] = q
    BY <1>4 DEF Registers
  <2>3. \A q \in PoolObjects : timer'[q] => made'[q] = "open"
    BY <1>4 DEF Registers
  <2> QED
    BY <2>1, <2>2, <2>3 DEF Registers
<1>11. Closers'
  <2>1. \A q \in PoolObjects : made'[q] = "closing" => \E e \in Workflows : q \in flow'[e].closes
    BY <1>3, <1>4, <1>5 DEF Closers
  <2>2. ASSUME NEW e \in Workflows, NEW q \in flow'[e].closes
        PROVE  made'[q] = "closing" /\ \E m \in Names : Deals(e, m)' /\ instances[m] = q
    <3>1. CASE e = c
      BY <1>4, <1>5, <1>6, <2>2, <3>1
    <3>2. CASE e # c
      <4>1. q \in flow[e].closes /\ q \in PoolObjects /\ made[q] = "closing"
        BY <1>5, <2>2, <3>2 DEF Closers, RegistryTypes, Flows
      <4> QED
        BY <1>4, <1>6, <1>7, <3>2, <4>1 DEF Closers
    <3> QED
      BY <3>1, <3>2
  <2>3. ASSUME NEW e \in Workflows, NEW m \in Names, Deals(e, m)', instances[m] # Absent
        PROVE  made'[instances[m]] = "closed" \/ instances[m] \in flow'[e].closes
    <3>1. instances[m] \in PoolObjects
      BY <2>3 DEF RegistryTypes
    <3>2. CASE e = c
      BY <1>4, <1>5, <1>6, <2>3, <3>1, <3>2
    <3>3. CASE e # c
      <4>1. Deals(e, m) /\ flow'[e].closes = flow[e].closes
        BY <1>5, <1>6, <2>3, <3>3
      <4> QED
        BY <1>4, <2>3, <3>1, <4>1 DEF Closers
    <3> QED
      BY <3>2, <3>3
  <2> QED
    BY <2>1, <2>2, <2>3 DEF Closers
<1>12. Serving'
  <2>1. ASSUME NEW m \in Names, decl[m] = "started"
        PROVE  \/ \E e \in Workflows : Creates(e, m)'
               \/ \E e \in Workflows : flow'[e].in = "close" /\ flow'[e].for = "closePools"
               \/ instances[m] # Absent /\ made'[instances[m]] = "open"
    <3>1. CASE m = n
      BY <1>6, <3>1
    <3>2. CASE \E e \in Workflows : Creates(e, m)
      BY <1>3, <1>6, <3>2
    <3>3. CASE \E e \in Workflows : flow[e].in = "close" /\ flow[e].for = "closePools"
      BY <1>5, <3>3
    <3>4. CASE m # n /\ instances[m] # Absent /\ made[instances[m]] = "open"
      <4>1. instances[m] # instances[n] /\ instances[m] \in PoolObjects
        BY <3>4 DEF Registers, RegistryTypes
      <4> QED
        BY <1>4, <3>4, <4>1
    <3> QED
      BY <2>1, <3>1, <3>2, <3>3, <3>4 DEF Serving
  <2>2. \A e \in Workflows, m \in Names :
          ClosesAll(e, driver[m])' /\ flow'[e].for # "closePools" => decl[m] # "started"
    BY <1>5, <1>6, DealsOnce DEF Serving
  <2> QED
    BY <2>1, <2>2 DEF Serving
<1> QED
  BY <1>8, <1>9, <1>10, <1>11, <1>12

LEMMA ClosedStep ==
  ASSUME RegistryInv, NEW c \in Workflows, Registry!Closed(c)
  PROVE  RegistryInv'
<1> USE DEF RegistryInv
<1>1. PICK q \in flow[c].closes :
        /\ made' = [made EXCEPT ![q] = "closed"]
        /\ Registry!Flow(c, [flow[c] EXCEPT !.closes = @ \ {q}])
        /\ UNCHANGED <<driver, decl, instances, cache, timer>>
  BY DEF Registry!Closed
<1>2. q \in PoolObjects /\ made[q] = "closing" /\ flow[c] \in Flows
  BY DEF Closers, RegistryTypes, Flows
<1>3. /\ made' \in [PoolObjects -> {"free", "open", "closing", "closed"}]
      /\ \A p \in PoolObjects : made'[p] = IF p = q THEN "closed" ELSE made[p]
  BY <1>1, <1>2 DEF RegistryTypes
<1>4. /\ flow' \in [Workflows -> Flows]
      /\ \A e \in Workflows : /\ flow'[e].in = flow[e].in /\ flow'[e].now = flow[e].now
                              /\ flow'[e].for = flow[e].for /\ flow'[e].left = flow[e].left
                              /\ flow'[e].closes = flow[e].closes \ {q}
  <2>1. [flow[c] EXCEPT !.closes = @ \ {q}] \in Flows
    BY <1>2 DEF Flows
  <2>2. /\ flow' \in [Workflows -> Flows] /\ flow'[c] = [flow[c] EXCEPT !.closes = @ \ {q}]
        /\ \A e \in Workflows : e # c => flow'[e] = flow[e]
    BY <1>1, <2>1, Moves
  <2>3. \A e \in Workflows : e # c => q \notin flow[e].closes
    BY DealsOnce
  <2>4. \A e \in Workflows : e # c => flow[e].closes = flow[e].closes \ {q}
    BY <2>3
  <2>5. /\ flow'[c].in = flow[c].in /\ flow'[c].now = flow[c].now
        /\ flow'[c].for = flow[c].for /\ flow'[c].left = flow[c].left
        /\ flow'[c].closes = flow[c].closes \ {q}
    BY <1>2, <2>2 DEF Flows
  <2> QED
    BY <2>2, <2>4, <2>5
<1>5. \A e \in Workflows :
        /\ \A m \in Names : (Creates(e, m)' <=> Creates(e, m)) /\ (Deals(e, m)' <=> Deals(e, m))
        /\ \A d : ClosesAll(e, d)' <=> ClosesAll(e, d)
  BY <1>1, <1>4 DEF Creates, Deals, ClosesAll
<1>6. RegistryTypes'
  BY <1>1, <1>3, <1>4 DEF RegistryTypes
<1>7. Excluded'
  BY <1>1, <1>5 DEF Excluded
<1>8. Registers'
  BY <1>1, <1>2, <1>3 DEF Registers, RegistryTypes
<1>9. Closers'
  <2>1. \A p \in PoolObjects : made'[p] = "closing" => \E e \in Workflows : p \in flow'[e].closes
    BY <1>3, <1>4 DEF Closers
  <2>2. ASSUME NEW e \in Workflows, NEW p \in flow'[e].closes
        PROVE  made'[p] = "closing" /\ \E m \in Names : Deals(e, m)' /\ instances'[m] = p
    <3>1. p \in flow[e].closes /\ p # q /\ p \in PoolObjects
      BY <1>4, <2>2 DEF RegistryTypes, Flows
    <3> QED
      BY <1>1, <1>3, <1>5, <3>1 DEF Closers
  <2>3. ASSUME NEW e \in Workflows, NEW m \in Names, Deals(e, m)', instances'[m] # Absent
        PROVE  made'[instances'[m]] = "closed" \/ instances'[m] \in flow'[e].closes
    <3>1. instances[m] \in PoolObjects /\ Deals(e, m)
      BY <1>1, <1>5, <2>3 DEF RegistryTypes
    <3> QED
      BY <1>1, <1>3, <1>4, <2>3, <3>1 DEF Closers
  <2> QED
    BY <2>1, <2>2, <2>3 DEF Closers
<1>10. Serving'
  <2>1. ASSUME NEW m \in Names, decl'[m] = "started"
        PROVE  \/ \E e \in Workflows : Creates(e, m)'
               \/ \E e \in Workflows : flow'[e].in = "close" /\ flow'[e].for = "closePools"
               \/ instances'[m] # Absent /\ made'[instances'[m]] = "open"
    <3>1. instances[m] # Absent /\ made[instances[m]] = "open" => instances[m] \in PoolObjects \ {q}
      BY <1>2 DEF RegistryTypes
    <3> QED
      BY <1>1, <1>3, <1>4, <1>5, <2>1, <3>1 DEF Serving
  <2>2. \A e \in Workflows, m \in Names :
          ClosesAll(e, driver[m])' /\ flow'[e].for # "closePools" => decl[m] # "started"
    BY <1>1, <1>4, <1>5 DEF Serving
  <2> QED
    BY <1>1, <2>1, <2>2 DEF Serving
<1> QED
  BY <1>6, <1>7, <1>8, <1>9, <1>10

(* A coroutine that deals with no name moves on to where it deals with     *)
(* none yet, and to close only what nobody else closes or creates.         *)
LEMMA FlowStep ==
  ASSUME RegistryInv, NEW c \in Workflows, NEW f \in Flows, Registry!Flow(c, f),
         flow[c].in \in {"none", "startPools"},
         UNCHANGED <<driver, decl, instances, cache, made, timer>>,
         f.closes = {}, f.in \in {"none", "startPools"} \/ (f.in = "close" /\ f.now = Absent),
         f.in = "close" =>
            /\ \A e \in Workflows, d \in Kinds : d \in f.left => ~ClosesAll(e, d)
            /\ \A e \in Workflows, n \in Names : driver[n] \in f.left => ~Creates(e, n)
            /\ \A n \in Names : driver[n] \in f.left /\ f.for # "closePools" => decl[n] # "started"
  PROVE  RegistryInv'
<1> USE DEF RegistryInv
<1>1. /\ flow' \in [Workflows -> Flows] /\ flow'[c] = f
      /\ \A e \in Workflows : e # c => flow'[e] = flow[e]
  BY Moves
<1>2. /\ \A m \in Names : ~Creates(c, m)' /\ ~Deals(c, m)'
      /\ \A m \in Names : ~Creates(c, m) /\ ~Deals(c, m)
      /\ \A d \in Kinds : ClosesAll(c, d)' <=> f.in = "close" /\ d \in f.left
      /\ \A d \in Kinds : ~ClosesAll(c, d)
  BY <1>1, DealsOnce, RegistryAssumed DEF Creates, Deals, ClosesAll
<1>3. \A e \in Workflows : e # c =>
        /\ \A m \in Names : (Creates(e, m)' <=> Creates(e, m)) /\ (Deals(e, m)' <=> Deals(e, m))
        /\ \A d \in Kinds : ClosesAll(e, d)' <=> ClosesAll(e, d)
  BY <1>1 DEF Creates, Deals, ClosesAll
<1>4. \A e \in Workflows : flow'[e].closes = flow[e].closes
  BY <1>1, <1>2, DealsOnce
<1>5. RegistryTypes' /\ Registers'
  BY <1>1 DEF RegistryTypes, Registers
<1>6. Excluded'
  BY <1>2, <1>3, DealsOnce DEF Excluded
<1>7. Closers'
  <2>1. \A e \in Workflows, m \in Names : Deals(e, m)' <=> Deals(e, m)
    BY <1>2, <1>3
  <2> QED
    BY <1>4, <2>1 DEF Closers
<1>8. Serving'
  BY <1>1, <1>2, <1>3, DealsOnce DEF Serving
<1> QED
  BY <1>5, <1>6, <1>7, <1>8

LEMMA StartStep ==
  ASSUME RegistryInv, NEW c \in Workflows, Registry!StartPools(c) \/ Registry!StartEnds(c)
  PROVE  RegistryInv'
<1> DEFINE f(in, left) ==
      [in |-> in, for |-> "none", now |-> Absent, closes |-> {}, left |-> left]
<1>1. f("startPools", Names) \in Flows /\ f("none", {}) \in Flows
  BY DEF Flows, Fors
<1>2. /\ Registry!Flow(c, f("startPools", Names)) \/ Registry!Flow(c, f("none", {}))
      /\ flow[c].in \in {"none", "startPools"}
      /\ UNCHANGED <<driver, decl, instances, cache, made, timer>>
  BY DEF Registry!StartPools, Registry!StartEnds, Registry!Out, Registry!Flow, Registry!Is
<1>3. ASSUME NEW in \in {"none", "startPools"}, NEW left, f(in, left) \in Flows,
             Registry!Flow(c, f(in, left))
      PROVE  RegistryInv'
  <2>1. f(in, left).closes = {} /\ f(in, left).in \in {"none", "startPools"}
    OBVIOUS
  <2> HIDE DEF f
  <2> QED
    BY <1>2, <1>3, <2>1, FlowStep
<1> QED
  BY <1>1, <1>2, <1>3

LEMMA CloseStartsStep ==
  ASSUME RegistryInv, RegistryCareful = {"overlap", "by_hand"}, NEW c \in Workflows,
         Registry!ClosePools(c) \/ \E d \in Kinds : Registry!CloseAllByHand(c, d)
  PROVE  RegistryInv'
<1>1. ASSUME NEW f \in Flows, Registry!Flow(c, f), flow[c].in = "none",
             UNCHANGED <<driver, decl, instances, cache, made, timer>>,
             f.closes = {}, f.in = "close", f.now = Absent, Registry!MayClose(f.left),
             f.for = "closePools" \/ f.left \cap Registry!Started = {}
      PROVE  RegistryInv'
  <2>1. f.left \subseteq Kinds
    BY <1>1 DEF Flows
  <2>2. \A e \in Workflows, d \in f.left : ~ClosesAll(e, d)
    BY <1>1 DEF Registry!MayClose, Registry!Closing, Registry!Is, ClosesAll
  <2>3. \A e \in Workflows, n \in Names : driver[n] \in f.left => ~Creates(e, n)
    BY <1>1 DEF Registry!MayClose, Registry!Creating, Registry!Is, Creates
  <2>4. \A n \in Names : driver[n] \in f.left /\ f.for # "closePools" => decl[n] # "started"
    BY <1>1 DEF Registry!Started
  <2> QED
    BY <1>1, <2>2, <2>3, <2>4, FlowStep
<1>2. CASE Registry!ClosePools(c)
  <2> DEFINE f == [Registry!Out EXCEPT !.in = "close", !.for = "closePools", !.left = Registry!Started]
  <2>1. Registry!Started \in SUBSET Kinds
    BY DEF Registry!Started, RegistryInv, RegistryTypes
  <2>2. f \in Flows
    BY <2>1 DEF Flows, Fors, Registry!Out
  <2>3. /\ f.closes = {} /\ f.in = "close" /\ f.now = Absent /\ f.for = "closePools"
        /\ f.left = Registry!Started
    BY DEF Registry!Out
  <2>4. /\ Registry!Flow(c, f) /\ flow[c].in = "none" /\ Registry!MayClose(Registry!Started)
        /\ UNCHANGED <<driver, decl, instances, cache, made, timer>>
    BY <1>2 DEF Registry!ClosePools, Registry!Is
  <2> HIDE DEF f
  <2> QED
    BY <1>1, <2>2, <2>3, <2>4
<1>3. ASSUME NEW d \in Kinds, Registry!CloseAllByHand(c, d) PROVE RegistryInv'
  <2> DEFINE f == [Registry!Out EXCEPT !.in = "close", !.left = {d}]
  <2>1. f \in Flows
    BY DEF Flows, Fors, Registry!Out
  <2>2. f.closes = {} /\ f.in = "close" /\ f.now = Absent /\ f.left = {d}
    BY DEF Registry!Out
  <2>3. /\ Registry!Flow(c, f) /\ flow[c].in = "none" /\ Registry!MayClose({d})
        /\ UNCHANGED <<driver, decl, instances, cache, made, timer>>
        /\ d \notin Registry!Started
    BY <1>3 DEF Registry!CloseAllByHand, Registry!Is
  <2> HIDE DEF f
  <2> QED
    BY <1>1, <2>1, <2>2, <2>3
<1> QED
  BY <1>2, <1>3

(* The old pool of the name is closed, and goes; the new one is open.      *)
LEMMA RegisterStep ==
  ASSUME RegistryInv, NEW c \in Workflows, Registry!Register(c)
  PROVE  RegistryInv'
<1> USE DEF RegistryInv
<1> DEFINE n == flow[c].now
<1>1. flow[c].in = "create" /\ flow[c].closes = {} /\ n \in Names /\ Creates(c, n) /\ Deals(c, n)
  BY DEF Registry!Register, Registry!Is, RegistryTypes, Flows, Creates, Deals
<1>2. PICK q \in PoolObjects :
        /\ made[q] = "free" /\ instances' = [instances EXCEPT ![n] = q]
        /\ cache' = [cache EXCEPT ![n] = q]
        /\ made' = [p \in PoolObjects |->
                      IF p = q THEN "open"
                      ELSE IF p = instances[n] /\ made[p] # "closing" /\ ~Registry!Referred(p, instances')
                      THEN "free" ELSE made[p]]
        /\ timer' = [timer EXCEPT ![q] = TRUE]
  BY DEF Registry!Register
<1>3. driver' = driver
  BY DEF Registry!Register
<1>4. instances[n] # Absent => instances[n] \in PoolObjects /\ made[instances[n]] = "closed"
  BY <1>1 DEF Closers, RegistryTypes
<1>5. /\ made' \in [PoolObjects -> {"free", "open", "closing", "closed"}] /\ made'[q] = "open"
      /\ \A p \in PoolObjects : p # q /\ p # instances[n] => made'[p] = made[p]
      /\ instances[n] # Absent => made'[instances[n]] \in {"free", "closed"}
  <2>1. \A p \in PoolObjects : made'[p] =
          IF p = q THEN "open"
          ELSE IF p = instances[n] /\ made[p] # "closing" /\ ~Registry!Referred(p, instances')
          THEN "free" ELSE made[p]
    BY <1>2
  <2>2. made' \in [PoolObjects -> {"free", "open", "closing", "closed"}]
    BY <1>2 DEF RegistryTypes
  <2>3. instances[n] # Absent => instances[n] # q
    BY <1>2, <1>4
  <2> HIDE DEF n
  <2> QED
    BY <1>4, <2>1, <2>2, <2>3
<1>6. /\ instances' \in [Names -> PoolObjects \cup {Absent}] /\ instances'[n] = q
      /\ \A m \in Names : m # n => instances'[m] = instances[m]
      /\ cache' = instances'
  BY <1>1, <1>2 DEF RegistryTypes, Registers
<1>7. /\ timer' \in [PoolObjects -> BOOLEAN] /\ \A p \in PoolObjects : p # q /\ timer'[p] => timer[p]
  BY <1>2 DEF RegistryTypes
<1>8. \A m \in Names : m # n /\ instances[m] # Absent =>
        /\ instances[m] # q /\ instances[m] # instances[n] /\ instances[m] \in PoolObjects
        /\ made'[instances[m]] = made[instances[m]]
  BY <1>1, <1>2, <1>5 DEF Registers, RegistryTypes
<1>9. /\ decl' \in [Names -> {"none", "declared", "started"}]
      /\ \A m \in Names : decl'[m] = "started" => m = n \/ decl[m] = "started"
      /\ flow' \in [Workflows -> Flows] /\ \A e \in Workflows : e # c => flow'[e] = flow[e]
      /\ flow'[c].in \in {"none", "startPools"} /\ flow'[c].closes = {}
  <2>1. CASE flow[c].for = "startPools"
    <3> DEFINE f == [Registry!Out EXCEPT !.in = "startPools", !.left = flow[c].left]
    <3>1. decl' = [decl EXCEPT ![n] = "started"] /\ Registry!Flow(c, f)
      BY <2>1 DEF Registry!Register
    <3>2. flow[c].left \in SUBSET Names
      BY <1>1 DEF RegistryTypes, Flows
    <3>3. f \in Flows /\ f.in = "startPools" /\ f.closes = {}
      BY <3>2 DEF Flows, Fors, Registry!Out
    <3> HIDE DEF f, n
    <3> QED
      BY <1>1, <3>1, <3>3, Moves DEF RegistryTypes
  <2>2. CASE flow[c].for # "startPools"
    <3>1. decl' = decl /\ Registry!Flow(c, Registry!Out)
      BY <2>2 DEF Registry!Register
    <3>2. Registry!Out \in Flows /\ Registry!Out.in = "none" /\ Registry!Out.closes = {}
      BY DEF Flows, Fors, Registry!Out
    <3> HIDE DEF n
    <3> QED
      BY <1>1, <3>1, <3>2, Moves DEF RegistryTypes
  <2> QED
    BY <2>1, <2>2
<1> HIDE DEF n
<1>10. /\ \A m \in Names : ~Creates(c, m)' /\ ~Deals(c, m)'
       /\ \A d : ~ClosesAll(c, d)' /\ ~ClosesAll(c, d)
       /\ \A m \in Names : Creates(c, m) => m = n
       /\ \A e \in Workflows : e # c =>
            /\ \A m \in Names : (Creates(e, m)' <=> Creates(e, m)) /\ (Deals(e, m)' <=> Deals(e, m))
            /\ \A d : ClosesAll(e, d)' <=> ClosesAll(e, d)
  BY <1>1, <1>3, <1>9 DEF Creates, Deals, ClosesAll, n
<1>11. \A e \in Workflows : flow'[e].closes = flow[e].closes
  BY <1>1, <1>9
<1>12. RegistryTypes'
  BY <1>3, <1>5, <1>6, <1>7, <1>9 DEF RegistryTypes
<1>13. Excluded'
  BY <1>3, <1>10 DEF Excluded
<1>14. Registers'
  <2>1. ASSUME NEW m \in Names, NEW k \in Names, instances'[m] = instances'[k], instances'[m] # Absent
        PROVE  m = k
    <3>1. \A a, b \in Names : instances[a] = instances[b] /\ instances[a] # Absent => a = b
      BY DEF Registers
    <3> QED
      BY <1>6, <1>8, <2>1, <3>1
  <2>2. ASSUME NEW m \in Names, instances'[m] # Absent
        PROVE  made'[instances'[m]] # "free"
    <3>1. CASE m = n
      BY <1>5, <1>6, <3>1
    <3>2. CASE m # n
      <4>1. instances[m] # Absent /\ made[instances[m]] # "free"
        BY <1>6, <2>2, <3>2 DEF Registers
      <4> QED
        BY <1>6, <1>8, <3>2, <4>1
    <3> QED
      BY <3>1, <3>2
  <2>3. ASSUME NEW p \in PoolObjects, made'[p] \in {"open", "closing"}
        PROVE  \E m \in Names : instances'[m] = p
    <3>1. CASE p = q
      BY <1>1, <1>6, <3>1
    <3>2. CASE p # q
      <4>1. p # instances[n]
        <5>1. p # Absent
          BY RegistryAssumed
        <5> QED
          BY <1>5, <2>3, <5>1
      <4>2. made[p] \in {"open", "closing"}
        BY <1>5, <2>3, <3>2, <4>1
      <4>3. PICK m \in Names : instances[m] = p
        BY <4>2 DEF Registers
      <4> QED
        BY <1>6, <4>1, <4>3
    <3> QED
      BY <3>1, <3>2
  <2>4. ASSUME NEW p \in PoolObjects, timer'[p] PROVE made'[p] = "open"
    BY <1>4, <1>5, <1>7, <2>4, RegistryAssumed DEF Registers
  <2> QED
    BY <1>6, <2>1, <2>2, <2>3, <2>4 DEF Registers
<1>15. Closers'
  <2>1. \A p \in PoolObjects : made'[p] = "closing" => made[p] = "closing"
    BY <1>4, <1>5, RegistryAssumed
  <2>2. ASSUME NEW e \in Workflows, NEW p \in flow'[e].closes
        PROVE  made'[p] = "closing" /\ \E m \in Names : Deals(e, m)' /\ instances'[m] = p
    <3>1. p \in flow[e].closes /\ e # c /\ p \in PoolObjects /\ made[p] = "closing"
      BY <1>1, <1>11, <2>2 DEF Closers, RegistryTypes, Flows
    <3>2. PICK m \in Names : Deals(e, m) /\ instances[m] = p
      BY <3>1 DEF Closers
    <3>3. m # n /\ p # Absent
      BY <1>1, <3>1, <3>2, DealsOnce, RegistryAssumed
    <3> QED
      BY <1>6, <1>8, <1>10, <3>1, <3>2, <3>3
  <2>3. ASSUME NEW e \in Workflows, NEW m \in Names, Deals(e, m)', instances'[m] # Absent
        PROVE  made'[instances'[m]] = "closed" \/ instances'[m] \in flow'[e].closes
    <3>1. e # c /\ Deals(e, m)
      BY <1>10, <2>3
    <3>2. m # n
      BY <1>1, <3>1, DealsOnce
    <3> QED
      BY <1>6, <1>8, <1>11, <2>3, <3>1, <3>2 DEF Closers
  <2> QED
    BY <1>11, <2>1, <2>2, <2>3 DEF Closers
<1>16. Serving'
  <2>1. ASSUME NEW m \in Names, decl'[m] = "started"
        PROVE  \/ \E e \in Workflows : Creates(e, m)'
               \/ \E e \in Workflows : flow'[e].in = "close" /\ flow'[e].for = "closePools"
               \/ instances'[m] # Absent /\ made'[instances'[m]] = "open"
    <3>1. CASE m = n
      <4>1. q # Absent
        BY RegistryAssumed
      <4> QED
        BY <1>5, <1>6, <3>1, <4>1
    <3>2. CASE m # n
      <4>1. decl[m] = "started"
        BY <1>9, <2>1, <3>2
      <4>2. CASE \E e \in Workflows : Creates(e, m)
        BY <1>10, <3>2, <4>2
      <4>3. CASE \E e \in Workflows : flow[e].in = "close" /\ flow[e].for = "closePools"
        BY <1>1, <1>9, <4>3
      <4>4. CASE instances[m] # Absent /\ made[instances[m]] = "open"
        BY <1>6, <1>8, <3>2, <4>4
      <4> QED
        BY <4>1, <4>2, <4>3, <4>4 DEF Serving
    <3> QED
      BY <3>1, <3>2
  <2>2. ASSUME NEW e \in Workflows, NEW m \in Names, ClosesAll(e, driver[m])',
               flow'[e].for # "closePools", decl'[m] = "started"
        PROVE  FALSE
    <3>1. e # c /\ ClosesAll(e, driver[m]) /\ flow[e].for # "closePools"
      BY <1>3, <1>9, <1>10, <2>2 DEF ClosesAll
    <3>2. m # n
      <4>1. ~ClosesAll(e, driver[n])
        BY <1>1 DEF Excluded
      <4> QED
        BY <3>1, <4>1
    <3>3. decl[m] = "started"
      BY <1>9, <2>2, <3>2
    <3> QED
      BY <3>1, <3>3 DEF Serving
  <2> QED
    BY <1>3, <2>1, <2>2 DEF Serving
<1> QED
  BY <1>12, <1>13, <1>14, <1>15, <1>16

(* All pools of the driver that are not closed are to be closed now.       *)
LEMMA CloseAllStep ==
  ASSUME RegistryInv, NEW c \in Workflows, Registry!CloseAll(c)
  PROVE  RegistryInv'
<1> USE DEF RegistryInv
<1>1. /\ flow[c].in = "close" /\ flow[c].now = Absent /\ flow[c] \in Flows
      /\ UNCHANGED <<driver, decl, instances, cache>>
  BY DEF Registry!CloseAll, Registry!Is, RegistryTypes
<1>2. PICK d \in flow[c].left :
        /\ Registry!Marked(Registry!Registered(d)) /\ Registry!Silenced(Registry!Registered(d))
        /\ Registry!Flow(c, [flow[c] EXCEPT !.now = d, !.left = @ \ {d},
                               !.closes = {q \in Registry!Registered(d) : made[q] # "closed"}])
  BY DEF Registry!CloseAll
<1> DEFINE R == Registry!Registered(d)
           C == {q \in R : made[q] # "closed"}
<1>3. /\ flow[c].closes = {} /\ \A m \in Names : ~Deals(c, m) /\ ~Creates(c, m)
      /\ flow[c].left \subseteq Kinds /\ flow[c].for \in Fors /\ d \in Kinds /\ d # Absent
      /\ ClosesAll(c, d)
  BY <1>1, DealsOnce, RegistryAssumed DEF Flows, Creates, ClosesAll
<1>4. /\ R \subseteq PoolObjects
      /\ \A m \in Names : instances[m] # Absent => (instances[m] \in R <=> driver[m] = d)
      /\ \A q \in R : \E m \in Names : instances[m] = q /\ driver[m] = d
  BY RegistryAssumed DEF Registry!Registered, Registers, RegistryTypes
<1>5. \A e \in Workflows, m \in Names : driver[m] = d => ~Deals(e, m)
  BY <1>1, <1>3, DealsOnce DEF Deals, ClosesAll, Excluded
<1>6. \A q \in R : made[q] \in {"open", "closed"} /\ \A e \in Workflows : q \notin flow[e].closes
  BY <1>4, <1>5, NotClosing, RegistryAssumed
<1>7. /\ made' \in [PoolObjects -> {"free", "open", "closing", "closed"}]
      /\ timer' \in [PoolObjects -> BOOLEAN]
      /\ \A q \in PoolObjects : /\ made'[q] = IF q \in C THEN "closing" ELSE made[q]
                                /\ timer'[q] => timer[q] /\ q \notin R
  <2>1. /\ made' = [q \in PoolObjects |-> IF q \in R /\ made[q] = "open" THEN "closing" ELSE made[q]]
        /\ timer' = [q \in PoolObjects |-> timer[q] /\ q \notin R]
    BY <1>2 DEF Registry!Marked, Registry!Silenced
  <2>2. \A q \in R : made[q] = "open" <=> q \in C
    BY <1>6
  <2>3. C \subseteq R
    OBVIOUS
  <2> HIDE DEF R, C
  <2>4. /\ made' \in [PoolObjects -> {"free", "open", "closing", "closed"}]
        /\ \A q \in PoolObjects : made'[q] = IF q \in C THEN "closing" ELSE made[q]
    BY <2>1, <2>2, <2>3 DEF RegistryTypes
  <2>5. timer' \in [PoolObjects -> BOOLEAN] /\ \A q \in PoolObjects : timer'[q] => timer[q] /\ q \notin R
    BY <2>1 DEF RegistryTypes
  <2> QED
    BY <2>4, <2>5
<1>8. /\ flow' \in [Workflows -> Flows] /\ \A e \in Workflows : e # c => flow'[e] = flow[e]
      /\ flow'[c].in = "close" /\ flow'[c].now = d /\ flow'[c].closes = C
      /\ flow'[c].left = flow[c].left \ {d} /\ flow'[c].for = flow[c].for
  <2> DEFINE f == [flow[c] EXCEPT !.now = d, !.left = @ \ {d}, !.closes = C]
  <2>1. /\ f \in Flows /\ f.in = "close" /\ f.now = d /\ f.closes = C
        /\ f.left = flow[c].left \ {d} /\ f.for = flow[c].for
    <3>1. C \in SUBSET PoolObjects /\ flow[c].left \ {d} \in SUBSET Kinds
      BY <1>3, <1>4
    <3> HIDE DEF C
    <3> QED
      BY <1>1, <1>3, <3>1 DEF Flows
  <2>2. Registry!Flow(c, f)
    BY <1>2
  <2> HIDE DEF f, C
  <2> QED
    BY <2>1, <2>2, Moves
<1>9. C \subseteq R /\ \A q \in R : q \in C \/ made[q] = "closed"
  OBVIOUS
<1> HIDE DEF R, C
<1>10. /\ \A e \in Workflows, m \in Names : Creates(e, m)' <=> Creates(e, m)
       /\ \A e \in Workflows, k \in Kinds : ClosesAll(e, k)' <=> ClosesAll(e, k)
       /\ \A m \in Names : Deals(c, m)' <=> driver[m] = d
       /\ \A e \in Workflows, m \in Names : e # c => (Deals(e, m)' <=> Deals(e, m))
  BY <1>1, <1>3, <1>8, RegistryAssumed DEF Creates, ClosesAll, Deals
<1>11. RegistryTypes'
  BY <1>1, <1>7, <1>8 DEF RegistryTypes
<1>12. Excluded'
  <2>1. \A e \in Workflows, m \in Names : ClosesAll(e, driver[m])' <=> ClosesAll(e, driver[m])
    BY <1>1, <1>10, DealsOnce DEF ClosesAll
  <2> QED
    BY <1>1, <1>10, <2>1 DEF Excluded
<1>13. Registers'
  <2>1. \A m \in Names : instances[m] # Absent => made'[instances[m]] # "free"
    BY <1>7 DEF Registers, RegistryTypes
  <2>2. \A q \in PoolObjects : made'[q] \in {"open", "closing"} => \E m \in Names : instances[m] = q
    BY <1>4, <1>7, <1>9 DEF Registers
  <2>3. \A q \in PoolObjects : timer'[q] => made'[q] = "open"
    BY <1>7, <1>9 DEF Registers
  <2> QED
    BY <1>1, <2>1, <2>2, <2>3 DEF Registers
<1>14. Closers'
  <2>1. ASSUME NEW q \in PoolObjects, made'[q] = "closing" PROVE \E e \in Workflows : q \in flow'[e].closes
    <3>1. CASE q \in C
      BY <1>8, <3>1
    <3>2. CASE q \notin C
      BY <1>3, <1>7, <1>8, <2>1, <3>2 DEF Closers
    <3> QED
      BY <3>1, <3>2
  <2>2. ASSUME NEW e \in Workflows, NEW q \in flow'[e].closes
        PROVE  made'[q] = "closing" /\ \E m \in Names : Deals(e, m)' /\ instances[m] = q
    <3>1. CASE e = c
      BY <1>4, <1>7, <1>8, <1>9, <1>10, <2>2, <3>1
    <3>2. CASE e # c
      <4>1. q \in flow[e].closes /\ q \in PoolObjects /\ made[q] = "closing"
        BY <1>8, <2>2, <3>2 DEF Closers, RegistryTypes, Flows
      <4> QED
        BY <1>6, <1>7, <1>9, <1>10, <3>2, <4>1 DEF Closers
    <3> QED
      BY <3>1, <3>2
  <2>3. ASSUME NEW e \in Workflows, NEW m \in Names, Deals(e, m)', instances[m] # Absent
        PROVE  made'[instances[m]] = "closed" \/ instances[m] \in flow'[e].closes
    <3>1. instances[m] \in PoolObjects
      BY <2>3 DEF RegistryTypes
    <3>2. CASE e = c
      BY <1>4, <1>7, <1>8, <1>9, <1>10, <2>3, <3>1, <3>2
    <3>3. CASE e # c
      <4>1. Deals(e, m) /\ flow'[e].closes = flow[e].closes
        BY <1>8, <1>10, <2>3, <3>3
      <4>2. made[instances[m]] = "closed" \/ instances[m] \in flow[e].closes
        BY <2>3, <4>1 DEF Closers
      <4>3. driver[m] # d
        BY <1>5, <4>1
      <4> QED
        BY <1>4, <1>7, <1>9, <2>3, <3>1, <4>1, <4>2, <4>3
    <3> QED
      BY <3>2, <3>3
  <2> QED
    BY <1>1, <2>1, <2>2, <2>3 DEF Closers
<1>15. Serving'
  <2>1. ASSUME NEW m \in Names, decl[m] = "started"
        PROVE  \/ \E e \in Workflows : Creates(e, m)'
               \/ \E e \in Workflows : flow'[e].in = "close" /\ flow'[e].for = "closePools"
               \/ instances[m] # Absent /\ made'[instances[m]] = "open"
    <3>1. CASE driver[m] = d
      BY <1>1, <1>3, <1>8, <2>1, <3>1 DEF Serving
    <3>2. CASE driver[m] # d
      <4>1. CASE \E e \in Workflows : Creates(e, m)
        BY <1>10, <4>1
      <4>2. CASE \E e \in Workflows : flow[e].in = "close" /\ flow[e].for = "closePools"
        BY <1>1, <1>8, <4>2
      <4>3. CASE instances[m] # Absent /\ made[instances[m]] = "open"
        <5>1. instances[m] \in PoolObjects /\ instances[m] \notin R
          BY <1>4, <3>2, <4>3 DEF RegistryTypes
        <5> QED
          BY <1>7, <1>9, <4>3, <5>1
      <4> QED
        BY <2>1, <4>1, <4>2, <4>3 DEF Serving
    <3> QED
      BY <3>1, <3>2
  <2>2. ASSUME NEW e \in Workflows, NEW m \in Names, ClosesAll(e, driver[m])',
               flow'[e].for # "closePools"
        PROVE  decl[m] # "started"
    <3>1. ClosesAll(e, driver[m])
      BY <1>1, <1>10, <2>2, DealsOnce DEF ClosesAll
    <3>2. flow[e].for # "closePools"
      BY <1>8, <2>2
    <3> QED
      BY <3>1, <3>2 DEF Serving
  <2> QED
    BY <1>1, <2>1, <2>2 DEF Serving
<1> QED
  BY <1>11, <1>12, <1>13, <1>14, <1>15

(* The pools of the driver are all closed, and no name has them any more.  *)
LEMMA CloseAllEndsStep ==
  ASSUME RegistryInv, NEW c \in Workflows, Registry!CloseAllEnds(c)
  PROVE  RegistryInv'
<1> USE DEF RegistryInv
<1> DEFINE d == flow[c].now
           R == Registry!Registered(d)
<1>1. /\ flow[c].in = "close" /\ d # Absent /\ flow[c].closes = {} /\ flow[c] \in Flows
      /\ instances' = Registry!Emptied(d, instances) /\ cache' = Registry!Emptied(d, cache)
      /\ made' = [q \in PoolObjects |->
                    IF q \in R /\ made[q] # "closing" /\ ~Registry!Referred(q, instances')
                    THEN "free" ELSE made[q]]
      /\ Registry!Flow(c, [flow[c] EXCEPT !.now = Absent])
      /\ UNCHANGED <<driver, decl, timer>>
  BY DEF Registry!CloseAllEnds, Registry!Is, RegistryTypes
<1>2. \A m \in Names : driver[m] = d => Deals(c, m) /\ ClosesAll(c, driver[m])
  BY <1>1 DEF Deals, ClosesAll
<1>3. \A m \in Names : driver[m] = d /\ instances[m] # Absent => made[instances[m]] = "closed"
  BY <1>1, <1>2 DEF Closers
<1>4. \A q \in R : made[q] = "closed"
  BY <1>3 DEF Registry!Registered
<1>5. /\ flow' \in [Workflows -> Flows] /\ \A e \in Workflows : e # c => flow'[e] = flow[e]
      /\ flow'[c].in = "close" /\ flow'[c].now = Absent /\ flow'[c].closes = {}
      /\ flow'[c].left = flow[c].left /\ flow'[c].for = flow[c].for
  <2> DEFINE f == [flow[c] EXCEPT !.now = Absent]
  <2>1. /\ f \in Flows /\ f.in = "close" /\ f.now = Absent /\ f.closes = {}
        /\ f.left = flow[c].left /\ f.for = flow[c].for
    BY <1>1 DEF Flows
  <2>2. Registry!Flow(c, f)
    BY <1>1
  <2> HIDE DEF f, d, R
  <2> QED
    BY <2>1, <2>2, Moves
<1>6. /\ instances' \in [Names -> PoolObjects \cup {Absent}] /\ cache' = instances'
      /\ \A m \in Names : instances'[m] = IF driver[m] = d THEN Absent ELSE instances[m]
  BY <1>1 DEF Registry!Emptied, RegistryTypes, Registers
<1>7. /\ made' \in [PoolObjects -> {"free", "open", "closing", "closed"}]
      /\ \A q \in PoolObjects : made[q] # "closed" => made'[q] = made[q]
      /\ \A q \in PoolObjects : made[q] = "closed" => made'[q] \in {"closed", "free"}
      /\ \A m \in Names : instances'[m] # Absent => made'[instances'[m]] = made[instances'[m]]
  <2>1. \A q \in PoolObjects : made'[q] =
          IF q \in R /\ made[q] # "closing" /\ ~Registry!Referred(q, instances') THEN "free" ELSE made[q]
    BY <1>1
  <2>2. made' \in [PoolObjects -> {"free", "open", "closing", "closed"}]
    BY <1>1 DEF RegistryTypes
  <2>3. \A m \in Names : instances'[m] # Absent =>
          instances'[m] \in PoolObjects /\ Registry!Referred(instances'[m], instances')
    BY <1>6 DEF Registry!Referred
  <2> HIDE DEF R, d
  <2> QED
    BY <1>4, <2>1, <2>2, <2>3
<1> HIDE DEF d, R
<1>8. /\ \A e \in Workflows, m \in Names : Creates(e, m)' <=> Creates(e, m)
      /\ \A e \in Workflows, m \in Names : ClosesAll(e, driver[m])' => ClosesAll(e, driver[m])
      /\ \A e \in Workflows, k \in Kinds : ClosesAll(e, k)' => ClosesAll(e, k)
      /\ \A m \in Names : ~Deals(c, m)'
      /\ \A e \in Workflows, m \in Names : e # c => (Deals(e, m)' <=> Deals(e, m))
  BY <1>1, <1>5, DealsOnce, RegistryAssumed DEF Creates, ClosesAll, Deals
<1>9. \A e \in Workflows : flow'[e].closes = flow[e].closes
  BY <1>1, <1>5
<1>10. RegistryTypes'
  BY <1>1, <1>5, <1>6, <1>7 DEF RegistryTypes
<1>11. Excluded'
  BY <1>1, <1>8 DEF Excluded
<1>12. Registers'
  <2>1. \A m, n \in Names : instances'[m] = instances'[n] /\ instances'[m] # Absent => m = n
    BY <1>6 DEF Registers
  <2>2. \A m \in Names : instances'[m] # Absent => made'[instances'[m]] # "free"
    BY <1>6, <1>7 DEF Registers
  <2>3. ASSUME NEW q \in PoolObjects, made'[q] \in {"open", "closing"}
        PROVE  \E m \in Names : instances'[m] = q
    <3>1. made[q] \in {"open", "closing"}
      BY <1>7, <2>3
    <3>2. PICK m \in Names : instances[m] = q
      BY <3>1 DEF Registers
    <3>3. driver[m] # d
      BY <1>3, <3>1, <3>2, RegistryAssumed
    <3> QED
      BY <1>6, <3>2, <3>3
  <2>4. \A q \in PoolObjects : timer'[q] => made'[q] = "open"
    BY <1>1, <1>7 DEF Registers
  <2> QED
    BY <1>6, <2>1, <2>2, <2>3, <2>4 DEF Registers
<1>13. Closers'
  <2>1. \A q \in PoolObjects : made'[q] = "closing" => \E e \in Workflows : q \in flow'[e].closes
    BY <1>7, <1>9 DEF Closers, RegistryTypes
  <2>2. ASSUME NEW e \in Workflows, NEW q \in flow'[e].closes
        PROVE  made'[q] = "closing" /\ \E m \in Names : Deals(e, m)' /\ instances'[m] = q
    <3>1. q \in flow[e].closes /\ e # c /\ q \in PoolObjects /\ made[q] = "closing"
      BY <1>1, <1>9, <2>2 DEF Closers, RegistryTypes, Flows
    <3>2. PICK m \in Names : Deals(e, m) /\ instances[m] = q
      BY <3>1 DEF Closers
    <3>3. driver[m] # d
      BY <1>2, <3>1, <3>2, DealsOnce
    <3> QED
      BY <1>6, <1>7, <1>8, <3>1, <3>2, <3>3
  <2>3. ASSUME NEW e \in Workflows, NEW m \in Names, Deals(e, m)', instances'[m] # Absent
        PROVE  made'[instances'[m]] = "closed" \/ instances'[m] \in flow'[e].closes
    <3>1. Deals(e, m)
      BY <1>8, <2>3
    <3>2. instances'[m] = instances[m] /\ made'[instances'[m]] = made[instances[m]]
      BY <1>6, <1>7, <2>3
    <3>3. made[instances[m]] = "closed" \/ instances[m] \in flow[e].closes
      BY <2>3, <3>1, <3>2 DEF Closers
    <3> QED
      BY <1>9, <3>2, <3>3
  <2> QED
    BY <2>1, <2>2, <2>3 DEF Closers
<1>14. Serving'
  <2>1. ASSUME NEW m \in Names, decl[m] = "started"
        PROVE  \/ \E e \in Workflows : Creates(e, m)'
               \/ \E e \in Workflows : flow'[e].in = "close" /\ flow'[e].for = "closePools"
               \/ instances'[m] # Absent /\ made'[instances'[m]] = "open"
    <3>1. CASE driver[m] = d
      BY <1>1, <1>2, <1>5, <2>1, <3>1 DEF Serving
    <3>2. CASE driver[m] # d
      <4>1. CASE \E e \in Workflows : Creates(e, m)
        BY <1>8, <4>1
      <4>2. CASE \E e \in Workflows : flow[e].in = "close" /\ flow[e].for = "closePools"
        BY <1>1, <1>5, <4>2
      <4>3. CASE instances[m] # Absent /\ made[instances[m]] = "open"
        BY <1>6, <1>7, <3>2, <4>3
      <4> QED
        BY <2>1, <4>1, <4>2, <4>3 DEF Serving
    <3> QED
      BY <3>1, <3>2
  <2>2. ASSUME NEW e \in Workflows, NEW m \in Names, ClosesAll(e, driver[m])',
               flow'[e].for # "closePools"
        PROVE  decl[m] # "started"
    <3>1. ClosesAll(e, driver[m])
      BY <1>8, <2>2
    <3>2. flow[e].for # "closePools"
      BY <1>5, <2>2
    <3> QED
      BY <3>1, <3>2 DEF Serving
  <2> QED
    BY <1>1, <2>1, <2>2 DEF Serving
<1> QED
  BY <1>10, <1>11, <1>12, <1>13, <1>14

LEMMA CloseEndsStep ==
  ASSUME RegistryInv, NEW c \in Workflows, Registry!CloseEnds(c)
  PROVE  RegistryInv'
<1> USE DEF RegistryInv
<1>1. /\ flow[c].in = "close" /\ flow[c].now = Absent
      /\ Registry!Flow(c, Registry!Out) /\ UNCHANGED <<driver, instances, cache, made, timer>>
      /\ decl' = IF flow[c].for # "closePools" THEN decl
                 ELSE [n \in Names |-> IF decl[n] = "started" THEN "declared" ELSE decl[n]]
  BY DEF Registry!CloseEnds, Registry!Is
<1>2. flow[c].closes = {} /\ \A m \in Names : ~Deals(c, m) /\ ~Creates(c, m)
  BY <1>1, DealsOnce DEF Creates
<1>3. /\ flow' \in [Workflows -> Flows] /\ \A e \in Workflows : e # c => flow'[e] = flow[e]
      /\ flow'[c].in = "none" /\ flow'[c].closes = {}
  <2>1. Registry!Out \in Flows /\ Registry!Out.in = "none" /\ Registry!Out.closes = {}
    BY DEF Flows, Fors, Registry!Out
  <2> QED
    BY <1>1, <2>1, Moves
<1>4. /\ \A e \in Workflows, m \in Names : (Creates(e, m)' <=> Creates(e, m)) /\ (Deals(e, m)' <=> Deals(e, m))
      /\ \A e \in Workflows, m \in Names : ClosesAll(e, driver[m])' => e # c /\ ClosesAll(e, driver[m])
      /\ \A e \in Workflows, k \in Kinds : ClosesAll(e, k)' => ClosesAll(e, k)
  BY <1>1, <1>2, <1>3 DEF Creates, ClosesAll, Deals
<1>5. \A e \in Workflows : flow'[e].closes = flow[e].closes
  BY <1>2, <1>3
<1>6. /\ decl' \in [Names -> {"none", "declared", "started"}]
      /\ \A m \in Names : decl'[m] = "started" => decl[m] = "started" /\ flow[c].for # "closePools"
  BY <1>1 DEF RegistryTypes
<1>7. RegistryTypes' /\ Excluded' /\ Registers' /\ Closers'
  BY <1>1, <1>3, <1>4, <1>5, <1>6 DEF RegistryTypes, Excluded, Registers, Closers
<1>8. Serving'
  <2>1. ASSUME NEW m \in Names, decl'[m] = "started"
        PROVE  \/ \E e \in Workflows : Creates(e, m)'
               \/ \E e \in Workflows : flow'[e].in = "close" /\ flow'[e].for = "closePools"
               \/ instances[m] # Absent /\ made[instances[m]] = "open"
    BY <1>3, <1>4, <1>6, <2>1 DEF Serving
  <2>2. ASSUME NEW e \in Workflows, NEW m \in Names, ClosesAll(e, driver[m])',
               flow'[e].for # "closePools"
        PROVE  decl'[m] # "started"
    <3>1. e # c /\ ClosesAll(e, driver[m])
      BY <1>4, <2>2
    <3> QED
      BY <1>3, <1>6, <2>2, <3>1 DEF Serving
  <2> QED
    BY <1>1, <2>1, <2>2 DEF Serving
<1> QED
  BY <1>7, <1>8

LEMMA RegistryStep ==
  ASSUME RegistryInv, RegistryCareful = {"overlap", "by_hand"},
         Registry!RegistryNext \/ UNCHANGED registryVars
  PROVE  RegistryInv'
<1>1. "overlap" \in RegistryCareful
  OBVIOUS
<1>2. ASSUME NEW c \in Workflows, NEW n \in Names, Registry!CreateByHand(c, n) PROVE RegistryInv'
  BY <1>1, <1>2, CreateStep DEF Registry!CreateByHand, Registry!Is, Fors
<1>3. ASSUME NEW c \in Workflows, Registry!StartNext(c) PROVE RegistryInv'
  <2>1. PICK n \in Registry!Startable(c) :
          Registry!MayCreate(n) /\ Registry!Create(c, n, "startPools", flow[c].left \ {n})
    BY <1>3 DEF Registry!StartNext
  <2>2. /\ flow[c].in = "startPools" /\ UNCHANGED <<driver, decl, instances, cache>>
        /\ flow[c].left \in SUBSET Names /\ n \in Names /\ flow[c].left \ {n} \in SUBSET Names
    BY <1>3 DEF Registry!StartNext, Registry!Is, Registry!Startable, RegistryInv, RegistryTypes, Flows
  <2> QED
    BY <1>1, <2>1, <2>2, CreateStep DEF Fors
<1>4. CASE UNCHANGED registryVars
  BY <1>4 DEF registryVars, RegistryInv, RegistryTypes, Excluded, Registers, Closers, Serving,
              Creates, ClosesAll, Deals
<1>5. CASE Registry!RegistryNext
  BY <1>2, <1>3, <1>5, DeclareStep, ClosedStep, RegisterStep, StartStep, CloseStartsStep,
     CloseAllStep, CloseAllEndsStep, CloseEndsStep, StopTimersStep
     DEF Registry!RegistryNext, Kinds
<1> QED
  BY <1>4, <1>5

(* No pool is lost, and what was started serves, in a worker that does not *)
(* create and close the same pools at once, and does not close by hand     *)
(* what the application object started; for any number of names, of pools  *)
(* and of coroutines, and every assignment of drivers (src/db/pool.c and   *)
(* src/cache/redis_pool.c: create, closeAll; src/app/application.c:        *)
(* startPools, closePools).                                                *)
THEOREM RegistryPartCorrect ==
  ASSUME RegistryCareful = {"overlap", "by_hand"}
  PROVE  Spec => []RegistryKept
<1> DEFINE Inv == part = "registry" => RegistryInv
<1>1. Init => Inv
  BY RegistryStarts DEF Init
<1>2. ASSUME Inv, [Next]_vars PROVE Inv'
  <2>1. CASE part # "registry"
    BY <1>2, <2>1 DEF Next, vars
  <2>2. CASE part = "registry"
    <3>1. part' = part /\ (Registry!RegistryNext \/ UNCHANGED registryVars)
      BY <1>2, <2>2 DEF Next, vars
    <3> QED
      BY <1>2, <2>2, <3>1, RegistryStep
  <2> QED
    BY <2>1, <2>2
<1>3. ASSUME Inv PROVE RegistryKept
  <2> SUFFICES ASSUME RegistryInv PROVE Registry!RegistryKept
    BY <1>3 DEF RegistryKept
  <2>1. ASSUME NEW q \in PoolObjects, made[q] \in {"open", "closing"} \/ timer[q]
        PROVE  Registry!Cardinality({n \in Names : instances[n] = q}) = 1
    <3>1. PICK n \in Names : instances[n] = q
      BY <2>1 DEF RegistryInv, Registers
    <3>2. {m \in Names : instances[m] = q} = {n}
      BY <3>1, RegistryAssumed DEF RegistryInv, Registers
    <3>3. Registry!Cardinality({n}) = Cardinality({n})
      BY DEF Registry!Cardinality, Cardinality
    <3> QED
      BY <3>2, <3>3, FS_Singleton
  <2>2. Registry!NoneLost
    BY <2>1 DEF Registry!NoneLost, RegistryInv, Registers
  <2>3. \A n \in Names : (\E c \in Workflows : Creates(c, n)) => n \in Registry!Creating(driver[n])
    BY DEF Creates, Registry!Creating, Registry!Is
  <2>4. Registry!StartedServe
    BY <2>3 DEF Registry!StartedServe, Registry!Is, RegistryInv, Serving
  <2> QED
    BY <2>2, <2>4 DEF Registry!RegistryKept
<1> QED
  BY <1>1, <1>2, <1>3, PTL DEF Spec

-----------------------------------------------------------------------------
(* The process-local store.                                                *)

(* A key has a value of its kind.                                          *)
Fits(k, v) ==
    v # Absent => /\ k \in ValueKeys => v \in Ptrs
                  /\ k \in CountKeys \cup RateKeys => v \in Int
                  /\ k \in LockKeys => v \in Tokens
Shaped(m) == m \in Memory!MemType /\ \A k \in Memory!Keys : Fits(k, m.table[k])

(* The recency order is one: of any keys in it, one is the oldest.         *)
Ordered(m) ==
    /\ \A k \in Memory!Keys : m.lru[k] # {} => k \in m.lru[k]
    /\ \A k \in Memory!Keys : \A j \in m.lru[k] : m.lru[j] # {}
    /\ \A T \in SUBSET Memory!Tracked(m) : T # {} => \E o \in T : T \subseteq m.lru[o]

(* The tables agree, but for the keys X that an operation has not yet done *)
(* with; and what was handed out is still there.                           *)
Dated(m, X) == \A k \in Memory!Keys \ X : m.expiry[k] # 0 => m.table[k] # Absent
Listed(m, X) ==
    IF Memory!cap = 0 THEN Memory!Tracked(m) = {}
    ELSE /\ \A k \in Memory!Keys \ X : m.lru[k] # {} <=> m.table[k] # Absent
         /\ IsFiniteSet(Memory!Tracked(m)) /\ Cardinality(Memory!Tracked(m)) <= Memory!cap
Guarded(m) ==
    Memory!mode = "fpm" =>
        held \subseteq Memory!Live(m) \cup m.retired /\ (held = {} \/ m.borrowed)
Whole(m) == site \in Sites /\ Shaped(m) /\ Ordered(m) /\ Guarded(m)
Sound(m, X) == Whole(m) /\ Dated(m, X) /\ Listed(m, X)

(* Under Swoole only the values of the frozen framework table are lent.    *)
Lending == Memory!mode = "swoole" => held \subseteq {fw} /\ (held # {} => ready)

(* A lock that is held is in the store; no two clients have one token.     *)
Leased(m) ==
    /\ \A c, d \in Clients : lease[c] # Memory!NoLease /\ lease[c].token = lease[d].token => c = d
    /\ Memory!cap = 0 => \A c \in Clients : lease[c].until > now =>
          m.table[lease[c].key] = lease[c].token /\ m.expiry[lease[c].key] = lease[c].until

(* The counter of a limit is that of its window.                           *)
Limited(m) ==
    Memory!cap = 0 => \A k \in RateKeys :
        /\ granted[k].n <= Max
        /\ granted[k].end > now => m.table[k] # Absent
        /\ m.table[k] # Absent => /\ m.table[k] = granted[k].n
                                  /\ m.expiry[k] = granted[k].end /\ granted[k].end > 0

MemoryInv == Memory!TypeOK /\ Sound(mem, {}) /\ Lending /\ Leased(mem) /\ Limited(mem)

LEMMA MemoryAssumed ==
  /\ ValueKeys \cap (CountKeys \cup RateKeys \cup LockKeys) = {}
  /\ CountKeys \cap (RateKeys \cup LockKeys) = {} /\ RateKeys \cap LockKeys = {}
  /\ Max \in Nat \ {0} /\ Window \in Nat \ {0} /\ SweepInterval \in Nat \ {0}
  /\ MaxTime \in Nat \ {0} /\ Ttls \subseteq Nat
  /\ Sites \subseteq [cap: Nat, mode: {"fpm", "swoole"}, keys: SUBSET Memory!Keys]
  /\ Absent \notin Ptrs /\ Absent \notin Tokens /\ Absent \notin Int
  /\ Memory!Keys = ValueKeys \cup CountKeys \cup RateKeys \cup LockKeys
BY Assumptions DEF Memory!MemoryAssumption, Memory!Site, Memory!Keys

LEMMA MemFields ==
  ASSUME NEW m, Shaped(m)
  PROVE  /\ m.table \in [Memory!Keys -> Ptrs \cup Tokens \cup Int \cup {Absent}]
         /\ m.expiry \in [Memory!Keys -> Nat] /\ m.lru \in [Memory!Keys -> SUBSET Memory!Keys]
         /\ m.borrowed \in BOOLEAN /\ m.retired \in SUBSET Ptrs
         /\ \A k \in ValueKeys : k \in Memory!Keys /\ m.table[k] \in Ptrs \cup {Absent}
  BY DEF Shaped, Memory!MemType, Fits, Memory!Keys

LEMMA CapNatural ==
  ASSUME NEW m, Whole(m)
  PROVE  Memory!cap \in Nat /\ Memory!mode \in {"fpm", "swoole"}
BY MemoryAssumed DEF Whole, Memory!cap, Memory!mode

(* Keys are deleted: what somebody may use of them is retired.             *)
LEMMA DropWhole ==
  ASSUME NEW m, NEW K \in SUBSET Memory!Keys, Whole(m), NEW n, n = Memory!Drop(m, K)
  PROVE  /\ Whole(n) /\ n.lru = m.lru
         /\ \A k \in Memory!Keys \ K : n.table[k] = m.table[k] /\ n.expiry[k] = m.expiry[k]
         /\ \A k \in K : n.table[k] = Absent /\ n.expiry[k] = 0
<1> USE DEF Whole
<1> DEFINE S == {m.table[k] : k \in K \cap ValueKeys}
<1>1. S \subseteq Ptrs \cup {Absent}
  BY MemFields
<1>2. m \in Memory!MemType
  BY DEF Shaped
<1>3. /\ n.table = [k \in Memory!Keys |-> IF k \in K THEN Absent ELSE m.table[k]]
      /\ n.expiry = [k \in Memory!Keys |-> IF k \in K THEN 0 ELSE m.expiry[k]]
      /\ n.lru = m.lru /\ n.borrowed = m.borrowed
      /\ n.retired = Memory!Park(m, S)
  BY <1>2 DEF Memory!Drop, Memory!MemType
<1>4. /\ \A k \in Memory!Keys \ K : n.table[k] = m.table[k] /\ n.expiry[k] = m.expiry[k]
      /\ \A k \in K : n.table[k] = Absent /\ n.expiry[k] = 0
  BY <1>3
<1>5. n.retired = IF m.borrowed THEN m.retired \cup (S \ {Absent}) ELSE m.retired
  BY <1>3 DEF Memory!Park
<1>6. Shaped(n)
  <2>1. n.retired \in SUBSET Ptrs
    BY <1>1, <1>5, MemFields
  <2>2. /\ [k \in Memory!Keys |-> IF k \in K THEN Absent ELSE m.table[k]]
             \in [Memory!Keys -> Ptrs \cup Tokens \cup Int \cup {Absent}]
        /\ [k \in Memory!Keys |-> IF k \in K THEN 0 ELSE m.expiry[k]] \in [Memory!Keys -> Nat]
    BY MemFields
  <2>3. n = [m EXCEPT !.table = n.table, !.expiry = n.expiry, !.retired = n.retired]
    BY <1>3 DEF Memory!Drop
  <2>4. n \in Memory!MemType
    BY <1>2, <1>3, <2>1, <2>2, <2>3 DEF Memory!MemType
  <2>5. \A k \in Memory!Keys : Fits(k, n.table[k])
    BY <1>4 DEF Shaped, Fits
  <2> QED
    BY <2>4, <2>5 DEF Shaped
<1>7. Ordered(n)
  <2>1. Ordered(m) /\ n.lru = m.lru /\ Memory!Tracked(n) = Memory!Tracked(m)
    BY <1>3 DEF Memory!Tracked
  <2> QED
    BY ONLY <2>1 DEF Ordered
<1>10. Guarded(n)
  <2>1. ASSUME NEW p \in held, m.borrowed, p \in Memory!Live(m) \cup m.retired
        PROVE  p \in Memory!Live(n) \cup n.retired
    <3>1. CASE p \in m.retired
      BY <1>5, <2>1, <3>1
    <3>2. CASE p \in Memory!Live(m)
      <4>1. PICK k \in ValueKeys : p = m.table[k] /\ p # Absent
        BY <3>2 DEF Memory!Live
      <4>2. CASE k \in K
        BY <1>5, <2>1, <4>1, <4>2
      <4>3. CASE k \notin K
        <5>1. n.table[k] = p
          BY <1>4, <4>1, <4>3 DEF Memory!Keys
        <5> QED
          BY <4>1, <5>1 DEF Memory!Live
      <4> QED
        BY <4>2, <4>3
    <3> QED
      BY <2>1, <3>1, <3>2
  <2> QED
    BY <1>3, <2>1 DEF Guarded
<1> QED
  BY <1>3, <1>4, <1>6, <1>7, <1>10

(* What n is to m when the keys K were deleted.                            *)
Removed(n, m, K) ==
    /\ \A k \in Memory!Keys \ K : n.table[k] = m.table[k] /\ n.expiry[k] = m.expiry[k]
    /\ \A k \in K : n.table[k] = Absent /\ n.expiry[k] = 0

LEMMA DropKeeps ==
  ASSUME NEW m, NEW X \in SUBSET Memory!Keys, NEW K \in SUBSET Memory!Keys, Sound(m, X),
         NEW n, n = Memory!Drop(m, K)
  PROVE  Sound(n, X \cup K) /\ Removed(n, m, K)
<1>1. /\ Whole(n) /\ n.lru = m.lru
      /\ \A k \in Memory!Keys \ K : n.table[k] = m.table[k] /\ n.expiry[k] = m.expiry[k]
      /\ \A k \in K : n.table[k] = Absent /\ n.expiry[k] = 0
  BY DropWhole DEF Sound
<1>2. Dated(n, X \cup K)
  BY <1>1 DEF Sound, Dated
<1>3. Listed(n, X \cup K)
  BY <1>1 DEF Sound, Listed, Memory!Tracked
<1> QED
  BY <1>1, <1>2, <1>3 DEF Sound, Removed

(* Keys that have nothing leave the recency order.                         *)
LEMMA UntrackWhole ==
  ASSUME NEW m, NEW K \in SUBSET Memory!Keys, Whole(m), NEW n, n = Memory!Untrack(m, K)
  PROVE  /\ Whole(n) /\ n.table = m.table /\ n.expiry = m.expiry
         /\ Memory!Tracked(n) = Memory!Tracked(m) \ K
<1> USE DEF Whole
<1>1. m \in Memory!MemType
  BY DEF Shaped
<1>2. /\ n.lru = [k \in Memory!Keys |-> IF k \in K THEN {} ELSE m.lru[k] \ K]
      /\ n.table = m.table /\ n.expiry = m.expiry /\ n.borrowed = m.borrowed /\ n.retired = m.retired
  BY <1>1 DEF Memory!Untrack, Memory!MemType
<1>3. \A k \in Memory!Keys : n.lru[k] = IF k \in K THEN {} ELSE m.lru[k] \ K
  BY <1>2
<1>4. Shaped(n)
  <2>1. [k \in Memory!Keys |-> IF k \in K THEN {} ELSE m.lru[k] \ K] \in [Memory!Keys -> SUBSET Memory!Keys]
    BY MemFields
  <2>2. n = [m EXCEPT !.lru = n.lru]
    BY <1>2 DEF Memory!Untrack
  <2>3. n \in Memory!MemType
    BY <1>1, <1>2, <2>1, <2>2 DEF Memory!MemType
  <2> QED
    BY <1>2, <2>3 DEF Shaped
<1>5. /\ \A k \in Memory!Keys : m.lru[k] # {} => k \in m.lru[k]
      /\ \A k \in Memory!Keys : n.lru[k] # {} <=> m.lru[k] # {} /\ k \notin K
  <2>1. \A k \in Memory!Keys : m.lru[k] # {} => k \in m.lru[k]
    BY DEF Ordered
  <2> QED
    BY <1>3, <2>1
<1>6. Memory!Tracked(n) = Memory!Tracked(m) \ K
  BY <1>5 DEF Memory!Tracked
<1>7. Ordered(n)
  <2>1. ASSUME NEW T \in SUBSET Memory!Tracked(n), T # {} PROVE \E o \in T : T \subseteq n.lru[o]
    <3>1. T \subseteq Memory!Tracked(m) /\ T \cap K = {}
      BY <1>6
    <3>2. PICK o \in T : T \subseteq m.lru[o]
      BY <2>1, <3>1 DEF Ordered
    <3>3. o \in Memory!Keys /\ o \notin K
      BY <3>1 DEF Memory!Tracked
    <3> QED
      BY <1>3, <3>1, <3>2, <3>3
  <2>2. \A k \in Memory!Keys : n.lru[k] # {} => k \in n.lru[k]
    BY <1>3, <1>5
  <2>3. ASSUME NEW k \in Memory!Keys, NEW j \in n.lru[k] PROVE n.lru[j] # {}
    <3>1. j \in m.lru[k] /\ j \notin K /\ j \in Memory!Keys
      <4>1. j \in m.lru[k] /\ j \notin K
        BY <1>3, <2>3
      <4>2. m.lru[k] \subseteq Memory!Keys
        BY MemFields
      <4> QED
        BY <4>1, <4>2
    <3> QED
      BY <1>5, <3>1 DEF Ordered
  <2> QED
    BY <2>1, <2>2, <2>3 DEF Ordered
<1>10. Guarded(n)
  BY <1>2 DEF Guarded, Memory!Live
<1> QED
  BY <1>2, <1>4, <1>6, <1>7, <1>10

LEMMA UntrackKeeps ==
  ASSUME NEW m, NEW X \in SUBSET Memory!Keys, NEW K \in SUBSET Memory!Keys, Sound(m, X),
         \A k \in K : m.table[k] = Absent /\ m.expiry[k] = 0,
         NEW n, n = Memory!Untrack(m, K)
  PROVE  Sound(n, X \ K) /\ n.table = m.table /\ n.expiry = m.expiry
<1>1. /\ Whole(n) /\ n.table = m.table /\ n.expiry = m.expiry
      /\ Memory!Tracked(n) = Memory!Tracked(m) \ K
  BY UntrackWhole DEF Sound
<1>2. Dated(n, X \ K)
  BY <1>1 DEF Sound, Dated
<1>3. Listed(n, X \ K)
  <2>1. CASE Memory!cap = 0
    BY <1>1, <2>1 DEF Sound, Listed
  <2>2. CASE Memory!cap # 0
    <3>1. Memory!Tracked(n) \subseteq Memory!Tracked(m)
      BY <1>1
    <3>2. IsFiniteSet(Memory!Tracked(n)) /\ Cardinality(Memory!Tracked(n)) <= Memory!cap
      <4>1. /\ IsFiniteSet(Memory!Tracked(m)) /\ Cardinality(Memory!Tracked(m)) <= Memory!cap
        BY <2>2 DEF Sound, Listed
      <4>2. /\ IsFiniteSet(Memory!Tracked(n)) /\ Cardinality(Memory!Tracked(n)) <= Cardinality(Memory!Tracked(m))
        BY <3>1, <4>1, FS_Subset
      <4>3. Cardinality(Memory!Tracked(n)) \in Nat /\ Cardinality(Memory!Tracked(m)) \in Nat
        BY <4>1, <4>2, FS_CardinalityType
      <4> QED
        BY <4>1, <4>2, <4>3, CapNatural DEF Sound
    <3>3. \A k \in Memory!Keys \ (X \ K) : n.lru[k] # {} <=> n.table[k] # Absent
      BY <1>1, <2>2 DEF Sound, Listed, Memory!Tracked
    <3> QED
      BY <2>2, <3>2, <3>3 DEF Listed
  <2> QED
    BY <2>1, <2>2
<1> QED
  BY <1>1, <1>2, <1>3 DEF Sound

LEMMA SoundBut ==
  ASSUME NEW m, NEW X, NEW Y, Sound(m, X), X \subseteq Y
  PROVE  Sound(m, Y)
<1>1. Dated(m, Y)
  BY DEF Sound, Dated
<1>2. Listed(m, Y)
  BY DEF Sound, Listed
<1> QED
  BY <1>1, <1>2 DEF Sound

(* What n is to m when the value, or the expiry, of k was written.         *)
Valued(n, m, k, v) ==
    /\ n.expiry = m.expiry /\ n.table[k] = v
    /\ \A j \in Memory!Keys : j # k => n.table[j] = m.table[j]
Redated(n, m, k, e) ==
    /\ n.table = m.table /\ n.expiry[k] = e
    /\ \A j \in Memory!Keys : j # k => n.expiry[j] = m.expiry[j]

(* The value that is there is retired.                                     *)
LEMMA StoreKeeps ==
  ASSUME NEW m, NEW k \in Memory!Keys, Sound(m, {k}), NEW v, Fits(k, v),
         v \in Ptrs \cup Tokens \cup Int, NEW n, n = Memory!Store(m, k, v)
  PROVE  Sound(n, {k}) /\ Valued(n, m, k, v)
<1> USE DEF Sound, Whole
<1> DEFINE S == IF k \in ValueKeys THEN {m.table[k]} ELSE {}
<1>1. S \subseteq Ptrs \cup {Absent}
  BY MemFields
<1>2. m \in Memory!MemType
  BY DEF Shaped
<1>3. /\ n.table = [m.table EXCEPT ![k] = v]
      /\ n.expiry = m.expiry /\ n.lru = m.lru /\ n.borrowed = m.borrowed
      /\ n.retired = Memory!Park(m, S)
  BY <1>2 DEF Memory!Store, Memory!MemType
<1>4. n.table[k] = v /\ \A j \in Memory!Keys : j # k => n.table[j] = m.table[j]
  BY <1>3, MemFields
<1>5. n.retired = IF m.borrowed THEN m.retired \cup (S \ {Absent}) ELSE m.retired
  BY <1>3 DEF Memory!Park
<1>6. Shaped(n)
  <2>1. n.retired \in SUBSET Ptrs
    BY <1>1, <1>5, MemFields
  <2>2. n.table \in [Memory!Keys -> Ptrs \cup Tokens \cup Int \cup {Absent}]
    BY <1>3, MemFields
  <2>3. n = [m EXCEPT !.table = n.table, !.retired = n.retired]
    BY <1>3 DEF Memory!Store
  <2>4. n \in Memory!MemType
    BY <1>2, <2>1, <2>2, <2>3 DEF Memory!MemType
  <2>5. \A j \in Memory!Keys : Fits(j, n.table[j])
    BY <1>4 DEF Shaped
  <2> QED
    BY <2>4, <2>5 DEF Shaped
<1>7. Ordered(n)
  <2>1. Ordered(m) /\ n.lru = m.lru /\ Memory!Tracked(n) = Memory!Tracked(m)
    BY <1>3 DEF Memory!Tracked
  <2> QED
    BY ONLY <2>1 DEF Ordered
<1>8. Dated(n, {k})
  BY <1>3, <1>4 DEF Dated
<1>9. Listed(n, {k})
  BY <1>3, <1>4 DEF Listed, Memory!Tracked
<1>10. Guarded(n)
  <2>1. ASSUME NEW p \in held, m.borrowed, p \in Memory!Live(m) \cup m.retired
        PROVE  p \in Memory!Live(n) \cup n.retired
    <3>1. CASE p \in m.retired
      BY <1>5, <2>1, <3>1
    <3>2. CASE p \in Memory!Live(m)
      <4>1. PICK j \in ValueKeys : p = m.table[j] /\ p # Absent
        BY <3>2 DEF Memory!Live
      <4>2. CASE j = k
        BY <1>5, <2>1, <4>1, <4>2
      <4>3. CASE j # k
        <5>1. n.table[j] = p
          BY <1>4, <4>1, <4>3, MemFields
        <5> QED
          BY <4>1, <5>1 DEF Memory!Live
      <4> QED
        BY <4>2, <4>3
    <3> QED
      BY <2>1, <3>1, <3>2
  <2> QED
    BY <1>3, <2>1 DEF Guarded
<1> QED
  BY <1>3, <1>4, <1>6, <1>7, <1>8, <1>9, <1>10 DEF Valued

LEMMA ExpiryKeeps ==
  ASSUME NEW m, NEW k \in Memory!Keys, Sound(m, {k}), NEW ttl \in Nat, now \in Nat,
         NEW n, n = Memory!SetExpiry(m, k, ttl)
  PROVE  Sound(n, {k}) /\ Redated(n, m, k, IF ttl > 0 THEN now + ttl ELSE 0)
<1> USE DEF Sound, Whole
<1>1. m \in Memory!MemType
  BY DEF Shaped
<1> DEFINE e == IF ttl > 0 THEN now + ttl ELSE 0
<1>2. e \in Nat
  OBVIOUS
<1>3. n = [m EXCEPT !.expiry[k] = e]
  BY DEF Memory!SetExpiry
<1> HIDE DEF e
<1>4. /\ n.expiry = [m.expiry EXCEPT ![k] = e]
      /\ n.table = m.table /\ n.lru = m.lru /\ n.borrowed = m.borrowed /\ n.retired = m.retired
  BY <1>1, <1>3 DEF Memory!MemType
<1>5. n.expiry[k] = e /\ \A j \in Memory!Keys : j # k => n.expiry[j] = m.expiry[j]
  BY <1>4, MemFields
<1>6. Shaped(n)
  <2>1. n.expiry \in [Memory!Keys -> Nat]
    BY <1>2, <1>4, MemFields
  <2>2. n = [m EXCEPT !.expiry = n.expiry]
    BY <1>1, <1>3, <1>4 DEF Memory!MemType
  <2>3. n \in Memory!MemType
    BY <1>1, <2>1, <2>2 DEF Memory!MemType
  <2> QED
    BY <1>4, <2>3 DEF Shaped
<1>7. Ordered(n)
  <2>1. Ordered(m) /\ n.lru = m.lru /\ Memory!Tracked(n) = Memory!Tracked(m)
    BY <1>4 DEF Memory!Tracked
  <2> QED
    BY ONLY <2>1 DEF Ordered
<1>8. Dated(n, {k})
  BY <1>4, <1>5 DEF Dated
<1>9. Listed(n, {k})
  BY <1>4 DEF Listed, Memory!Tracked
<1>10. Guarded(n)
  BY <1>4 DEF Guarded, Memory!Live
<1> QED
  BY <1>4, <1>5, <1>6, <1>7, <1>8, <1>9, <1>10 DEF e, Redated

(* A key that was written becomes the newest.                              *)
LEMMA TouchWhole ==
  ASSUME NEW m, NEW k \in Memory!Keys, Whole(m), NEW n, n = Memory!Touch(m, k)
  PROVE  /\ Whole(n) /\ n.table = m.table /\ n.expiry = m.expiry
         /\ Memory!Tracked(n) = Memory!Tracked(m) \cup {k}
<1> USE DEF Whole
<1>1. m \in Memory!MemType
  BY DEF Shaped
<1> DEFINE f == [j \in Memory!Keys |-> IF j = k THEN {k} ELSE IF m.lru[j] = {} THEN {} ELSE m.lru[j] \cup {k}]
<1>2. /\ n.lru = f /\ n = [m EXCEPT !.lru = f]
      /\ n.table = m.table /\ n.expiry = m.expiry /\ n.borrowed = m.borrowed /\ n.retired = m.retired
  BY <1>1 DEF Memory!Touch, Memory!MemType
<1>3. \A j \in Memory!Keys :
        n.lru[j] = IF j = k THEN {k} ELSE IF m.lru[j] = {} THEN {} ELSE m.lru[j] \cup {k}
  BY <1>2
<1>4. Shaped(n)
  <2>1. f \in [Memory!Keys -> SUBSET Memory!Keys]
    BY MemFields
  <2> HIDE DEF f
  <2>2. n \in Memory!MemType
    BY <1>1, <1>2, <2>1 DEF Memory!MemType
  <2> QED
    BY <1>2, <2>2 DEF Shaped
<1> HIDE DEF f
<1>5. Memory!Tracked(n) = Memory!Tracked(m) \cup {k}
  BY <1>3 DEF Memory!Tracked
<1>6. /\ \A j \in Memory!Keys : m.lru[j] # {} => j \in m.lru[j]
      /\ \A j \in Memory!Keys : \A i \in m.lru[j] : m.lru[i] # {}
      /\ \A T \in SUBSET Memory!Tracked(m) : T # {} => \E o \in T : T \subseteq m.lru[o]
  BY DEF Ordered
<1>7. Ordered(n)
  <2>1. ASSUME NEW T \in SUBSET Memory!Tracked(n), T # {} PROVE \E o \in T : T \subseteq n.lru[o]
    <3>1. CASE T \ {k} = {}
      <4>1. T = {k} /\ n.lru[k] = {k}
        BY <1>3, <2>1, <3>1
      <4> QED
        BY ONLY <4>1
    <3>2. CASE T \ {k} # {}
      <4>1. T \ {k} \in SUBSET Memory!Tracked(m)
        BY <1>5
      <4>2. PICK o \in T \ {k} : T \ {k} \subseteq m.lru[o]
        BY <1>6, <3>2, <4>1
      <4>3. o \in Memory!Keys /\ m.lru[o] # {}
        BY <4>1 DEF Memory!Tracked
      <4> QED
        BY <1>3, <4>2, <4>3
    <3> QED
      BY <3>1, <3>2
  <2>2. \A j \in Memory!Keys : n.lru[j] # {} => j \in n.lru[j]
    BY <1>3, <1>6
  <2>3. ASSUME NEW j \in Memory!Keys, NEW i \in n.lru[j] PROVE n.lru[i] # {}
    <3>1. CASE i = k
      BY <1>3, <3>1
    <3>2. CASE i # k
      <4>1. i \in m.lru[j] /\ i \in Memory!Keys
        <5>1. i \in m.lru[j]
          BY <1>3, <2>3, <3>2
        <5>2. m.lru[j] \subseteq Memory!Keys
          BY MemFields
        <5> QED
          BY <5>1, <5>2
      <4>2. m.lru[i] # {}
        BY <1>6, <4>1
      <4> QED
        BY <1>3, <3>2, <4>1, <4>2
    <3> QED
      BY <3>1, <3>2
  <2> QED
    BY <2>1, <2>2, <2>3 DEF Ordered
<1>8. Guarded(n)
  BY <1>2 DEF Guarded, Memory!Live
<1> QED
  BY <1>2, <1>4, <1>5, <1>7, <1>8

(* Eviction brings a store that is over its cap by one key back to it.     *)
LEMMA EvictKeeps ==
  ASSUME NEW m, Whole(m), Dated(m, {}), Memory!cap # 0,
         \A k \in Memory!Keys : m.lru[k] # {} <=> m.table[k] # Absent,
         IsFiniteSet(Memory!Tracked(m)), Cardinality(Memory!Tracked(m)) <= Memory!cap + 1,
         NEW n, n = Memory!Evict(m)
  PROVE  Sound(n, {})
<1> DEFINE V == {k \in Memory!Keys : Memory!Cardinality(m.lru[k]) > Memory!cap}
           d == Memory!Drop(m, V)
           R == Memory!Tracked(m)
<1>1. n = Memory!Untrack(d, V)
  BY DEF Memory!Evict
<1>2. V \in SUBSET Memory!Keys
  OBVIOUS
<1>3. \A k \in Memory!Keys : k \in V <=> Cardinality(m.lru[k]) > Memory!cap
  BY DEF Memory!Cardinality, Cardinality
<1> HIDE DEF V
<1>4. /\ Whole(d) /\ d.lru = m.lru
      /\ \A k \in Memory!Keys \ V : d.table[k] = m.table[k] /\ d.expiry[k] = m.expiry[k]
      /\ \A k \in V : d.table[k] = Absent /\ d.expiry[k] = 0
  BY <1>2, DropWhole
<1> HIDE DEF d
<1>5. /\ Whole(n) /\ n.table = d.table /\ n.expiry = d.expiry
      /\ Memory!Tracked(n) = Memory!Tracked(d) \ V
  BY <1>1, <1>2, <1>4, UntrackWhole
<1>6. Memory!Tracked(n) = R \ V
  BY <1>4, <1>5 DEF Memory!Tracked
<1>7. Dated(n, {})
  BY <1>2, <1>4, <1>5 DEF Dated
<1>8. \A k \in Memory!Keys : n.lru[k] # {} <=> n.table[k] # Absent
  BY <1>2, <1>4, <1>5, <1>6 DEF Memory!Tracked
<1>9. IsFiniteSet(R \ V) /\ Cardinality(R \ V) \in Nat
  <2>1. IsFiniteSet(R \ V)
    BY FS_Subset
  <2> QED
    BY <2>1, FS_CardinalityType
<1>10. Memory!cap \in Nat /\ Cardinality(R) \in Nat
  BY CapNatural, FS_CardinalityType
<1>11. Cardinality(R \ V) <= Memory!cap
  <2>1. CASE Cardinality(R) <= Memory!cap
    <3>1. Cardinality(R \ V) <= Cardinality(R)
      BY FS_Subset
    <3> QED
      BY <1>9, <1>10, <2>1, <3>1
  <2>2. CASE Cardinality(R) > Memory!cap
    <3>1. R # {}
      BY <1>10, <2>2, FS_EmptySet
    <3>2. /\ \A j \in Memory!Keys : \A i \in m.lru[j] : m.lru[i] # {}
          /\ \A T \in SUBSET R : T # {} => \E o \in T : T \subseteq m.lru[o]
      BY DEF Whole, Ordered
    <3>3. PICK o \in R : R \subseteq m.lru[o]
      BY <3>1, <3>2
    <3>4. o \in Memory!Keys /\ m.lru[o] \subseteq Memory!Keys
      BY MemFields DEF Memory!Tracked, Whole
    <3>5. m.lru[o] = R
      BY <3>2, <3>3, <3>4 DEF Memory!Tracked
    <3>6. o \in V
      BY <1>3, <2>2, <3>4, <3>5
    <3>7. IsFiniteSet(R \ {o}) /\ Cardinality(R \ {o}) = Cardinality(R) - 1
      BY FS_RemoveElement
    <3>8. R \ V \subseteq R \ {o}
      BY <3>6
    <3>9. Cardinality(R \ V) <= Cardinality(R \ {o})
      BY <3>7, <3>8, FS_Subset
    <3> QED
      BY <1>9, <1>10, <3>7, <3>9
  <2> QED
    BY <1>10, <2>1, <2>2
<1>12. Listed(n, {})
  BY <1>6, <1>8, <1>9, <1>11 DEF Listed
<1> QED
  BY <1>5, <1>7, <1>12 DEF Sound

(* A key that was written enters the recency order, if there is one.       *)
LEMMA TrackKeeps ==
  ASSUME NEW m, NEW k \in Memory!Keys, Sound(m, {k}), m.table[k] # Absent,
         NEW n, n = Memory!Track(m, k)
  PROVE  Sound(n, {}) /\ (Memory!cap = 0 => n = m)
<1>1. Dated(m, {})
  BY DEF Sound, Dated
<1>2. CASE Memory!cap = 0
  <2>1. n = m
    BY <1>2 DEF Memory!Track
  <2>2. Listed(m, {})
    BY <1>2 DEF Sound, Listed
  <2> QED
    BY <1>1, <2>1, <2>2 DEF Sound
<1>3. CASE Memory!cap # 0
  <2> DEFINE t == Memory!Touch(m, k)
  <2>1. n = Memory!Evict(t)
    BY <1>3 DEF Memory!Track
  <2>2. /\ Whole(t) /\ t.table = m.table /\ t.expiry = m.expiry
        /\ Memory!Tracked(t) = Memory!Tracked(m) \cup {k}
    BY TouchWhole DEF Sound
  <2> HIDE DEF t
  <2>3. /\ \A j \in Memory!Keys \ {k} : m.lru[j] # {} <=> m.table[j] # Absent
        /\ IsFiniteSet(Memory!Tracked(m)) /\ Cardinality(Memory!Tracked(m)) <= Memory!cap
    BY <1>3 DEF Sound, Listed
  <2>4. \A j \in Memory!Keys : t.lru[j] # {} <=> t.table[j] # Absent
    BY <2>2, <2>3 DEF Memory!Tracked
  <2>5. IsFiniteSet(Memory!Tracked(t)) /\ Cardinality(Memory!Tracked(t)) <= Memory!cap + 1
    <3>1. /\ IsFiniteSet(Memory!Tracked(t))
          /\ Cardinality(Memory!Tracked(t)) = IF k \in Memory!Tracked(m) THEN Cardinality(Memory!Tracked(m))
                                              ELSE Cardinality(Memory!Tracked(m)) + 1
      BY <2>2, <2>3, FS_AddElement
    <3>2. Cardinality(Memory!Tracked(m)) \in Nat /\ Memory!cap \in Nat
      BY <2>3, FS_CardinalityType, CapNatural DEF Sound
    <3> QED
      BY <2>3, <3>1, <3>2
  <2>6. Dated(t, {})
    BY <1>1, <2>2 DEF Dated
  <2> QED
    BY <1>3, <2>1, <2>2, <2>4, <2>5, <2>6, EvictKeeps
<1> QED
  BY <1>2, <1>3

(* Keys leave the store: deleted and out of the recency order.             *)
LEMMA RemoveKeeps ==
  ASSUME NEW m, NEW X \in SUBSET Memory!Keys, NEW K \in SUBSET Memory!Keys, Sound(m, X),
         NEW n, n = Memory!Untrack(Memory!Drop(m, K), K)
  PROVE  Sound(n, X \ K) /\ Removed(n, m, K)
<1> DEFINE d == Memory!Drop(m, K)
<1>2. d = Memory!Drop(m, K) /\ n = Memory!Untrack(d, K)
  OBVIOUS
<1> HIDE DEF d
<1>1. Sound(d, X \cup K) /\ Removed(d, m, K)
  BY ONLY <1>2, Sound(m, X), X \in SUBSET Memory!Keys, K \in SUBSET Memory!Keys, DropKeeps
<1>3. Sound(n, (X \cup K) \ K) /\ n.table = d.table /\ n.expiry = d.expiry
  <2>1. X \cup K \in SUBSET Memory!Keys
    OBVIOUS
  <2> QED
    BY <1>1, <1>2, <2>1, UntrackKeeps DEF Removed
<1>4. (X \cup K) \ K = X \ K
  OBVIOUS
<1> QED
  BY <1>1, <1>3, <1>4 DEF Removed

LEMMA SweepKeeps ==
  ASSUME NEW m, NEW k \in Memory!Keys, Sound(m, {k}), NEW n, n = Memory!Sweep(m)
  PROVE  /\ Sound(n, {k})
         /\ \A j \in Memory!Keys :
              IF Memory!Expired(m, j) THEN n.table[j] = Absent /\ n.expiry[j] = 0
              ELSE n.table[j] = m.table[j] /\ n.expiry[j] = m.expiry[j]
<1> DEFINE G == {j \in Memory!Keys : Memory!Expired(m, j)}
<1>1. n = Memory!Untrack(Memory!Drop(m, G), G)
  BY DEF Memory!Sweep
<1>2. G \in SUBSET Memory!Keys /\ {k} \in SUBSET Memory!Keys
  OBVIOUS
<1>3. \A j \in Memory!Keys : j \in G <=> Memory!Expired(m, j)
  OBVIOUS
<1> HIDE DEF G
<1> DEFINE X == {k}
<1>6. Sound(m, X) /\ X \in SUBSET Memory!Keys
  OBVIOUS
<1> HIDE DEF X
<1>4. Sound(n, X \ G) /\ Removed(n, m, G)
  BY ONLY <1>1, <1>2, <1>6, RemoveKeeps
<1>5. Sound(n, {k})
  <2>1. X \ G \subseteq X
    OBVIOUS
  <2> QED
    BY <1>4, <2>1, SoundBut DEF X
<1> QED
  BY <1>3, <1>4, <1>5 DEF Removed

LEMMA FreshKeeps ==
  ASSUME NEW m, NEW k \in Memory!Keys, Sound(m, {}), NEW n, n = Memory!Fresh(m, k)
  PROVE  /\ Sound(n, {k})
         /\ \A j \in Memory!Keys : j # k => n.table[j] = m.table[j] /\ n.expiry[j] = m.expiry[j]
         /\ IF Memory!Expired(m, k) THEN n.table[k] = Absent /\ n.expiry[k] = 0 ELSE n = m
<1>1. CASE Memory!Expired(m, k)
  <2>1. n = Memory!Drop(m, {k})
    BY <1>1 DEF Memory!Fresh
  <2> DEFINE X == {}
             K == {k}
  <2>4. X \in SUBSET Memory!Keys /\ K \in SUBSET Memory!Keys /\ Sound(m, X) /\ n = Memory!Drop(m, K)
    BY <2>1
  <2> HIDE DEF X, K
  <2>5. Sound(n, X \cup K) /\ Removed(n, m, K)
    BY ONLY <2>4, DropKeeps
  <2>2. /\ Sound(n, {} \cup {k}) /\ n.table[k] = Absent /\ n.expiry[k] = 0
        /\ \A j \in Memory!Keys \ {k} : n.table[j] = m.table[j] /\ n.expiry[j] = m.expiry[j]
    BY <2>5 DEF X, K, Removed
  <2>3. {} \cup {k} = {k}
    OBVIOUS
  <2> QED
    BY <1>1, <2>2, <2>3
<1>2. CASE ~Memory!Expired(m, k)
  BY <1>2, SoundBut DEF Memory!Fresh
<1> QED
  BY <1>1, <1>2

-----------------------------------------------------------------------------
(* What a step does to the key of a lock or a limit that it is not about:  *)
(* nothing, or it removes an expired one.                                  *)
Unmoved(n, j) ==
    \/ n.table[j] = mem.table[j] /\ n.expiry[j] = mem.expiry[j]
    \/ Memory!Expired(mem, j) /\ n.table[j] = Absent /\ n.expiry[j] = 0

LEMMA LeaseFields ==
  ASSUME Memory!TypeOK, NEW c \in Clients
  PROVE  /\ lease[c].until \in Nat /\ now \in Nat /\ now > 0
         /\ lease[c] # Memory!NoLease => lease[c].key \in LockKeys /\ lease[c].token \in Tokens
         /\ lease[c].until > 0 => lease[c] # Memory!NoLease
         /\ lease[c] = Memory!NoLease => lease[c].until = 0 /\ lease[c].token = Absent
<1>1. lease[c] \in [key: LockKeys, token: Tokens, until: Nat] \cup {Memory!NoLease}
  BY DEF Memory!TypeOK
<1>2. now \in Nat /\ now > 0
  BY MemoryAssumed DEF Memory!TypeOK
<1> QED
  BY <1>1, <1>2 DEF Memory!NoLease

LEMMA LeasesHold ==
  ASSUME MemoryInv, NEW n, Memory!cap = 0 => \A j \in LockKeys : Unmoved(n, j)
  PROVE  Leased(n)
<1>1. ASSUME Memory!cap = 0, NEW c \in Clients, lease[c].until > now
      PROVE  n.table[lease[c].key] = lease[c].token /\ n.expiry[lease[c].key] = lease[c].until
  <2>1. lease[c].until \in Nat /\ now \in Nat /\ lease[c].key \in LockKeys
    BY <1>1, LeaseFields DEF MemoryInv
  <2>2. mem.table[lease[c].key] = lease[c].token /\ mem.expiry[lease[c].key] = lease[c].until
    BY <1>1 DEF MemoryInv, Leased
  <2>3. ~Memory!Expired(mem, lease[c].key)
    BY <1>1, <2>1, <2>2 DEF Memory!Expired
  <2> QED
    BY <1>1, <2>1, <2>2, <2>3 DEF Unmoved
<1> QED
  BY <1>1 DEF MemoryInv, Leased

LEMMA GrantFields ==
  ASSUME Memory!TypeOK, NEW k \in RateKeys
  PROVE  granted[k].end \in Nat /\ granted[k].n \in Nat /\ now \in Nat /\ now > 0
BY MemoryAssumed DEF Memory!TypeOK

LEMMA LimitsHold ==
  ASSUME MemoryInv, NEW n, Memory!cap = 0 => \A j \in RateKeys : Unmoved(n, j)
  PROVE  Limited(n)
<1>1. ASSUME Memory!cap = 0, NEW k \in RateKeys
      PROVE  /\ granted[k].end > now => n.table[k] # Absent
             /\ n.table[k] # Absent => /\ n.table[k] = granted[k].n
                                       /\ n.expiry[k] = granted[k].end /\ granted[k].end > 0
  <2>1. granted[k].end \in Nat /\ now \in Nat
    BY GrantFields DEF MemoryInv
  <2>2. /\ granted[k].end > now => mem.table[k] # Absent
        /\ mem.table[k] # Absent => /\ mem.table[k] = granted[k].n
                                    /\ mem.expiry[k] = granted[k].end /\ granted[k].end > 0
    BY <1>1 DEF MemoryInv, Limited
  <2>3. granted[k].end > now => ~Memory!Expired(mem, k)
    BY <2>1, <2>2 DEF Memory!Expired
  <2> QED
    BY <1>1, <2>2, <2>3 DEF Unmoved
<1>2. Memory!cap = 0 => \A k \in RateKeys : granted[k].n <= Max
  BY DEF MemoryInv, Limited
<1> QED
  BY <1>1, <1>2 DEF Limited

LEMMA SoundNext ==
  ASSUME NEW n, Sound(n, {}), mem' = n, UNCHANGED <<site, held>>
  PROVE  Sound(mem, {})' /\ mem' \in Memory!MemType
<1>1. /\ site \in Sites /\ Shaped(n) /\ Ordered(n) /\ Guarded(n) /\ Dated(n, {}) /\ Listed(n, {})
  BY DEF Sound, Whole
<1>2. Shaped(mem)' /\ mem' \in Memory!MemType
  BY <1>1 DEF Shaped, Fits, Memory!MemType, Memory!Keys
<1>3. Ordered(mem)'
  BY ONLY <1>1, mem' = n DEF Ordered, Memory!Tracked, Memory!Keys
<1>4. Guarded(mem)' /\ Dated(mem, {})' /\ Listed(mem, {})'
  BY <1>1 DEF Guarded, Dated, Listed, Memory!Tracked, Memory!Keys, Memory!cap, Memory!mode, Memory!Live
<1> QED
  BY <1>1, <1>2, <1>3, <1>4 DEF Sound, Whole

(* A write of the store that touches nothing else.                         *)
LEMMA WriteStep ==
  ASSUME MemoryInv, NEW n, Sound(n, {}), Leased(n), Limited(n), mem' = n,
         sweeps' \in 0..(SweepInterval - 1),
         UNCHANGED <<fw, site, ready, dirty, now, held, lease, granted>>
  PROVE  MemoryInv'
<1>1. Sound(mem, {})' /\ mem' \in Memory!MemType
  BY SoundNext
<1>2. Memory!TypeOK'
  BY <1>1 DEF MemoryInv, Memory!TypeOK, Memory!MemType, Memory!Keys, Memory!NoLease
<1>3. Lending'
  BY DEF MemoryInv, Lending, Memory!mode
<1>4. Leased(mem)' /\ Limited(mem)'
  BY DEF Leased, Limited, Memory!cap, Memory!NoLease
<1> QED
  BY <1>1, <1>2, <1>3, <1>4 DEF MemoryInv

-----------------------------------------------------------------------------
LEMMA SetStep ==
  ASSUME MemoryInv, NEW k \in ValueKeys, NEW ttl \in Ttls, Memory!Set(k, ttl)
  PROVE  MemoryInv'
<1> DEFINE due == ttl > 0 /\ (sweeps + 1) % SweepInterval = 0
           m1  == Memory!SetExpiry(mem, k, ttl)
           m2  == IF due THEN Memory!Sweep(m1) ELSE m1
<1>1. /\ \E p \in Ptrs : mem' = Memory!Track(Memory!Store(m2, k, p), k)
      /\ sweeps' = IF ttl > 0 THEN (sweeps + 1) % SweepInterval ELSE sweeps
      /\ UNCHANGED <<fw, site, ready, dirty, now, held, lease, granted>>
  BY DEF Memory!Set, Memory!SetVal
<1>2. PICK p \in Ptrs : mem' = Memory!Track(Memory!Store(m2, k, p), k)
  BY <1>1
<1>3. sweeps' \in 0..(SweepInterval - 1)
  BY <1>1, MemoryAssumed DEF MemoryInv, Memory!TypeOK
<1>4. k \in Memory!Keys /\ ttl \in Nat /\ now \in Nat /\ p # Absent
  BY MemoryAssumed DEF MemoryInv, Memory!TypeOK
<1>5. /\ Sound(m1, {k}) /\ m1.table = mem.table
      /\ \A j \in Memory!Keys : j # k => m1.expiry[j] = mem.expiry[j]
  <2>1. Sound(mem, {k})
    BY SoundBut DEF MemoryInv
  <2>2. m1 = Memory!SetExpiry(mem, k, ttl)
    OBVIOUS
  <2> HIDE DEF m1
  <2>3. Sound(m1, {k}) /\ Redated(m1, mem, k, IF ttl > 0 THEN now + ttl ELSE 0)
    BY ONLY <1>4, <2>1, <2>2, ExpiryKeeps
  <2> QED
    BY <2>3 DEF Redated
<1> HIDE DEF m1
<1>6. /\ Sound(m2, {k})
      /\ \A j \in Memory!Keys : j # k => Unmoved(m2, j)
  <2>1. CASE due
    <3>1. m2 = Memory!Sweep(m1)
      BY <2>1
    <3>2. /\ Sound(m2, {k})
          /\ \A j \in Memory!Keys :
               IF Memory!Expired(m1, j) THEN m2.table[j] = Absent /\ m2.expiry[j] = 0
               ELSE m2.table[j] = m1.table[j] /\ m2.expiry[j] = m1.expiry[j]
      BY <1>4, <1>5, <3>1, SweepKeeps
    <3> QED
      BY <1>5, <3>2 DEF Unmoved, Memory!Expired
  <2>2. CASE ~due
    BY <1>5, <2>2 DEF Unmoved
  <2> QED
    BY <2>1, <2>2
<1> HIDE DEF m2
<1> DEFINE m3 == Memory!Store(m2, k, p)
<1>7. /\ Sound(m3, {k}) /\ m3.expiry = m2.expiry /\ m3.table[k] = p
      /\ \A j \in Memory!Keys : j # k => m3.table[j] = m2.table[j]
  <2>1. Fits(k, p) /\ p \in Ptrs \cup Tokens \cup Int
    BY MemoryAssumed DEF Fits
  <2>2. m3 = Memory!Store(m2, k, p)
    OBVIOUS
  <2> HIDE DEF m3
  <2>3. Sound(m3, {k}) /\ Valued(m3, m2, k, p)
    BY ONLY <1>4, <1>6, <2>1, <2>2, StoreKeeps
  <2> QED
    BY <2>3 DEF Valued
<1> HIDE DEF m3
<1> DEFINE n == Memory!Track(m3, k)
<1>8. mem' = n
  BY <1>2 DEF m3
<1>9. Sound(n, {}) /\ (Memory!cap = 0 => n = m3)
  BY <1>4, <1>7, TrackKeeps
<1> HIDE DEF n
<1>10. Memory!cap = 0 => \A j \in LockKeys \cup RateKeys : Unmoved(n, j)
  <2>1. \A j \in LockKeys \cup RateKeys : j \in Memory!Keys /\ j # k
    BY MemoryAssumed
  <2> QED
    BY <1>6, <1>7, <1>9, <2>1 DEF Unmoved
<1> QED
  BY <1>1, <1>3, <1>8, <1>9, <1>10, LeasesHold, LimitsHold, WriteStep

(* The end of a window or of a lock, a counter or a value: keys go.        *)
LEMMA DelStep ==
  ASSUME MemoryInv, NEW k \in ValueKeys, Memory!Del(k)
  PROVE  MemoryInv'
<1> DEFINE n == Memory!Untrack(Memory!Drop(mem, {k}), {k})
<1>1. mem' = n /\ UNCHANGED <<fw, site, ready, dirty, sweeps, now, held, lease, granted>>
  BY DEF Memory!Del, Memory!DelEntry
<1>2. Sound(n, {} \ {k}) /\ Removed(n, mem, {k})
  BY RemoveKeeps, MemoryAssumed DEF MemoryInv
<1> HIDE DEF n
<1>3. {} \ {k} = {}
  OBVIOUS
<1>4. \A j \in LockKeys \cup RateKeys : Unmoved(n, j)
  <2>1. \A j \in LockKeys \cup RateKeys : j \in Memory!Keys /\ j # k
    BY MemoryAssumed
  <2> QED
    BY <1>2, <2>1 DEF Unmoved, Removed
<1>5. sweeps' \in 0..(SweepInterval - 1)
  BY <1>1 DEF MemoryInv, Memory!TypeOK
<1> QED
  BY <1>1, <1>2, <1>3, <1>4, <1>5, LeasesHold, LimitsHold, WriteStep

LEMMA IncrStep ==
  ASSUME MemoryInv, NEW k \in CountKeys, NEW ttl \in Nat, Memory!Incr(k, ttl)
  PROVE  MemoryInv'
<1> DEFINE m == Memory!Fresh(mem, k)
           created == m.table[k] = Absent
           m1 == IF created THEN Memory!Store(m, k, 1) ELSE m
           m2 == IF created /\ ttl > 0 THEN Memory!SetExpiry(m1, k, ttl) ELSE m1
           n == Memory!Track(m2, k)
<1>1. mem' = n /\ UNCHANGED <<fw, site, ready, dirty, sweeps, now, held, lease, granted>>
  BY DEF Memory!Incr, Memory!Adjusted
<1>2. k \in Memory!Keys /\ now \in Nat /\ Absent # 1 /\ Fits(k, 1)
  BY MemoryAssumed DEF MemoryInv, Memory!TypeOK, Fits
<1>3. /\ Sound(m, {k})
      /\ \A j \in Memory!Keys : j # k => m.table[j] = mem.table[j] /\ m.expiry[j] = mem.expiry[j]
  BY <1>2, FreshKeeps DEF MemoryInv
<1> HIDE DEF m
<1>4. /\ Sound(m1, {k}) /\ m1.expiry = m.expiry /\ m1.table[k] # Absent
      /\ \A j \in Memory!Keys : j # k => m1.table[j] = m.table[j]
  <2>1. CASE created
    <3>1. m1 = Memory!Store(m, k, 1)
      BY <2>1
    <3>2. 1 \in Ptrs \cup Tokens \cup Int
      OBVIOUS
    <3> HIDE DEF m1
    <3>3. Sound(m1, {k}) /\ Valued(m1, m, k, 1)
      BY ONLY <1>2, <1>3, <3>1, <3>2, StoreKeeps
    <3> QED
      BY <1>2, <3>3 DEF Valued
  <2>2. CASE ~created
    BY <1>3, <2>2
  <2> QED
    BY <2>1, <2>2
<1> HIDE DEF m1
<1>5. /\ Sound(m2, {k}) /\ m2.table = m1.table
      /\ \A j \in Memory!Keys : j # k => m2.expiry[j] = m1.expiry[j]
  <2>1. CASE created /\ ttl > 0
    <3>1. m2 = Memory!SetExpiry(m1, k, ttl)
      BY <2>1
    <3> HIDE DEF m2
    <3>2. Sound(m2, {k}) /\ Redated(m2, m1, k, IF ttl > 0 THEN now + ttl ELSE 0)
      BY ONLY <1>2, <1>4, <3>1, ttl \in Nat, ExpiryKeeps
    <3> QED
      BY <3>2 DEF Redated
  <2>2. CASE ~(created /\ ttl > 0)
    BY <1>4, <2>2
  <2> QED
    BY <2>1, <2>2
<1> HIDE DEF m2
<1>6. Sound(n, {}) /\ (Memory!cap = 0 => n = m2)
  BY <1>2, <1>4, <1>5, TrackKeeps
<1> HIDE DEF n
<1>7. Memory!cap = 0 => \A j \in LockKeys \cup RateKeys : Unmoved(n, j)
  <2>1. \A j \in LockKeys \cup RateKeys : j \in Memory!Keys /\ j # k
    BY MemoryAssumed
  <2> QED
    BY <1>3, <1>4, <1>5, <1>6, <2>1 DEF Unmoved
<1>8. sweeps' \in 0..(SweepInterval - 1)
  BY <1>1 DEF MemoryInv, Memory!TypeOK
<1> QED
  BY <1>1, <1>6, <1>7, <1>8, LeasesHold, LimitsHold, WriteStep

(* What a request may hold changes, and with it what is kept for it.       *)
LEMMA BorrowKeeps ==
  ASSUME MemoryInv, NEW b \in BOOLEAN, NEW R \in SUBSET Ptrs, site' = site,
         mem' = [mem EXCEPT !.borrowed = b, !.retired = R], Guarded(mem)',
         UNCHANGED <<now, lease, granted>>
  PROVE  /\ Sound(mem, {})' /\ mem' \in Memory!MemType
         /\ Leased(mem)' /\ Limited(mem)'
<1>1. mem \in Memory!MemType /\ Whole(mem)
  BY DEF MemoryInv, Sound, Whole, Shaped
<1>2. /\ mem'.table = mem.table /\ mem'.expiry = mem.expiry /\ mem'.lru = mem.lru
      /\ mem' \in Memory!MemType
  BY <1>1 DEF Memory!MemType
<1>3. Shaped(mem)'
  BY <1>1, <1>2 DEF Whole, Shaped, Fits, Memory!MemType, Memory!Keys
<1>4. Ordered(mem)'
  <2>1. Ordered(mem) /\ mem'.lru = mem.lru
    BY <1>1, <1>2 DEF Whole
  <2> QED
    BY ONLY <2>1 DEF Ordered, Memory!Tracked, Memory!Keys
<1>5. Dated(mem, {})' /\ Listed(mem, {})'
  BY <1>2 DEF MemoryInv, Sound, Dated, Listed, Memory!Tracked, Memory!Keys, Memory!cap
<1>6. Leased(mem)' /\ Limited(mem)'
  BY <1>2 DEF MemoryInv, Leased, Limited, Memory!cap, Memory!NoLease
<1> QED
  BY <1>1, <1>2, <1>3, <1>4, <1>5, <1>6 DEF Sound, Whole

LEMMA GetStep ==
  ASSUME MemoryInv, NEW k \in ValueKeys, Memory!Get(k)
  PROVE  MemoryInv'
<1>1. /\ mem.table[k] # Absent /\ Memory!mode = "fpm" /\ held' = held \cup {mem.table[k]}
      /\ mem' = [mem EXCEPT !.borrowed = TRUE]
      /\ UNCHANGED <<fw, site, ready, dirty, sweeps, now, lease, granted>>
  BY DEF Memory!Get, Memory!Present, Memory!Borrow
<1>2. Shaped(mem) /\ Guarded(mem) /\ mem \in Memory!MemType
  BY DEF MemoryInv, Sound, Whole, Shaped
<1>3. mem.table[k] \in Ptrs /\ mem.retired \in SUBSET Ptrs
  BY <1>1, <1>2, MemFields
<1>4. mem' = [mem EXCEPT !.borrowed = TRUE, !.retired = mem.retired]
  BY <1>1, <1>2 DEF Memory!MemType
<1>5. mem'.table = mem.table /\ mem'.retired = mem.retired /\ mem'.borrowed = TRUE
  BY <1>1, <1>2 DEF Memory!MemType
<1>6. Guarded(mem)'
  <2>1. mem.table[k] \in Memory!Live(mem)
    BY <1>1 DEF Memory!Live
  <2> QED
    BY <1>1, <1>2, <1>5, <2>1 DEF Guarded, Memory!Live, Memory!mode
<1>7. /\ Sound(mem, {})' /\ mem' \in Memory!MemType
      /\ Leased(mem)' /\ Limited(mem)'
  BY <1>1, <1>3, <1>4, <1>6, BorrowKeeps
<1>8. Lending'
  BY <1>1 DEF Lending, Memory!mode
<1>9. Memory!TypeOK'
  BY <1>1, <1>3, <1>7 DEF MemoryInv, Memory!TypeOK, Memory!NoLease
<1> QED
  BY <1>7, <1>8, <1>9 DEF MemoryInv

LEMMA RequestStartStep ==
  ASSUME MemoryInv, Memory!RequestStart
  PROVE  MemoryInv'
<1>1. /\ Memory!mode = "fpm" /\ held' = {} /\ mem' = [mem EXCEPT !.borrowed = FALSE, !.retired = {}]
      /\ UNCHANGED <<fw, site, ready, dirty, sweeps, now, lease, granted>>
  BY DEF Memory!RequestStart
<1>2. Guarded(mem)'
  BY <1>1 DEF Guarded
<1>3. /\ Sound(mem, {})' /\ mem' \in Memory!MemType
      /\ Leased(mem)' /\ Limited(mem)'
  <2> DEFINE R == {}
             b == FALSE
  <2>1. b \in BOOLEAN /\ R \in SUBSET Ptrs /\ mem' = [mem EXCEPT !.borrowed = b, !.retired = R]
    BY <1>1
  <2> HIDE DEF R, b
  <2> QED
    BY ONLY MemoryInv, <1>1, <1>2, <2>1, BorrowKeeps
<1>4. Lending'
  BY <1>1 DEF Lending
<1>5. Memory!TypeOK'
  BY <1>1, <1>3 DEF MemoryInv, Memory!TypeOK, Memory!NoLease
<1> QED
  BY <1>3, <1>4, <1>5 DEF MemoryInv

(* The business table is left alone.                                       *)
LEMMA TableKept ==
  ASSUME MemoryInv, UNCHANGED <<mem, site>>, held' = held \/ Memory!mode = "swoole"
  PROVE  Sound(mem, {})' /\ mem' \in Memory!MemType
<1>1. Shaped(mem) /\ Ordered(mem) /\ Guarded(mem) /\ Dated(mem, {}) /\ Listed(mem, {}) /\ site \in Sites
  BY DEF MemoryInv, Sound, Whole
<1>2. Shaped(mem)' /\ Dated(mem, {})' /\ Listed(mem, {})'
  BY <1>1 DEF Shaped, Fits, Memory!MemType, Memory!Keys, Dated, Listed, Memory!Tracked, Memory!cap
<1>3. Ordered(mem)'
  BY ONLY <1>1, mem' = mem DEF Ordered, Memory!Tracked, Memory!Keys
<1>4. Guarded(mem)'
  BY <1>1 DEF Guarded, Memory!Live, Memory!mode
<1> QED
  BY <1>1, <1>2, <1>3, <1>4 DEF Sound, Whole, Shaped

LEMMA FrameworkStep ==
  ASSUME MemoryInv,
         \/ Memory!SetByRouter \/ Memory!DelFramework \/ Memory!GetByConfig
         \/ Memory!WorkerReady \/ Memory!Tick
  PROVE  MemoryInv'
<1>1. /\ UNCHANGED <<mem, site, sweeps, lease, granted>>
      /\ now' = now \/ (now' = now + 1 /\ now < MaxTime)
      /\ held' = held \/ (held' = held \cup {fw} /\ Memory!mode = "swoole" /\ ready)
      /\ fw' = fw \/ ~(Memory!mode = "swoole" /\ ready)
      /\ held' = held \/ (fw' = fw /\ fw # Absent)
      /\ ready' = ready \/ ready' = TRUE
  <2>1. CASE Memory!SetByRouter
    BY <2>1 DEF Memory!SetByRouter, Memory!WriteAllowed
  <2>2. CASE Memory!DelFramework
    BY <2>2 DEF Memory!DelFramework, Memory!WriteAllowed
  <2>3. CASE Memory!GetByConfig
    BY <2>3 DEF Memory!GetByConfig, Memory!LendsFramework
  <2>4. CASE Memory!WorkerReady \/ Memory!Tick
    BY <2>4 DEF Memory!WorkerReady, Memory!Tick
  <2> QED
    BY <2>1, <2>2, <2>3, <2>4
<1>2. ready' \in BOOLEAN /\ dirty' \in BOOLEAN /\ fw' \in Ptrs \cup {Absent}
  BY DEF MemoryInv, Memory!TypeOK, Memory!SetByRouter, Memory!DelFramework, Memory!GetByConfig,
         Memory!WorkerReady, Memory!Tick
<1>3. now \in Nat /\ now' \in 1..MaxTime /\ now' >= now
  BY <1>1, MemoryAssumed DEF MemoryInv, Memory!TypeOK
<1>4. Sound(mem, {})' /\ mem' \in Memory!MemType
  BY <1>1, TableKept
<1>5. Memory!TypeOK'
  BY <1>1, <1>2, <1>3, <1>4 DEF MemoryInv, Memory!TypeOK, Memory!NoLease
<1>6. Lending'
  BY <1>1 DEF MemoryInv, Lending, Memory!mode
<1>7. Leased(mem)'
  <2>1. \A c \in Clients : lease[c].until \in Nat
    BY LeaseFields DEF MemoryInv
  <2>2. \A c \in Clients : lease[c].until > now' => lease[c].until > now
    BY <1>3, <2>1
  <2> QED
    BY <1>1, <2>2 DEF MemoryInv, Leased, Memory!cap, Memory!NoLease
<1>8. Limited(mem)'
  <2>1. \A k \in RateKeys : granted[k].end \in Nat
    BY GrantFields DEF MemoryInv
  <2>2. \A k \in RateKeys : granted[k].end > now' => granted[k].end > now
    BY <1>3, <2>1
  <2> QED
    BY <1>1, <2>2 DEF MemoryInv, Limited, Memory!cap
<1> QED
  BY <1>4, <1>5, <1>6, <1>7, <1>8 DEF MemoryInv

(* The call of rateLimit() is counted by the store as the window counts it.*)
LEMMA RateLimitStep ==
  ASSUME MemoryInv, NEW k \in RateKeys, Memory!RateLimit(k)
  PROVE  MemoryInv'
<1> DEFINE m == Memory!Fresh(mem, k)
           first == m.table[k] = Absent
           allows == first \/ m.table[k] < Max
           v == IF first THEN 1 ELSE m.table[k] + 1
           s == Memory!Store(m, k, v)
           m1 == IF first THEN Memory!SetExpiry(s, k, Window) ELSE s
           n == IF allows THEN Memory!Track(m1, k) ELSE m
           e == granted[k]
<1>1. /\ mem' = n
      /\ granted' = IF allows /\ Memory!cap = 0 THEN [granted EXCEPT ![k] = Memory!Granted(k)] ELSE granted
      /\ UNCHANGED <<fw, site, ready, dirty, sweeps, now, held, lease>>
  BY DEF Memory!RateLimit
<1>2. /\ k \in Memory!Keys /\ now \in Nat /\ Absent \notin Int
      /\ Window \in Nat /\ Window > 0 /\ Max \in Nat /\ Max > 0
  BY MemoryAssumed DEF MemoryInv, Memory!TypeOK
<1>3. /\ Sound(m, {k})
      /\ \A j \in Memory!Keys : j # k => m.table[j] = mem.table[j] /\ m.expiry[j] = mem.expiry[j]
      /\ IF Memory!Expired(mem, k) THEN m.table[k] = Absent /\ m.expiry[k] = 0 ELSE m = mem
  BY <1>2, FreshKeeps DEF MemoryInv
<1> HIDE DEF m
<1>4. m.table[k] # Absent => m.table[k] \in Int
  BY <1>2, <1>3 DEF Sound, Whole, Shaped, Fits
<1>5. v \in Int /\ Fits(k, v) /\ v \in Ptrs \cup Tokens \cup Int /\ v # Absent
  BY <1>2, <1>4, MemoryAssumed DEF Fits
<1> HIDE DEF v
<1>6. Sound(s, {k}) /\ Valued(s, m, k, v)
  BY ONLY <1>2, <1>3, <1>5, StoreKeeps
<1> HIDE DEF s
<1>7. /\ Sound(m1, {k}) /\ m1.table = s.table
      /\ m1.expiry[k] = (IF first THEN now + Window ELSE s.expiry[k])
      /\ \A j \in Memory!Keys : j # k => m1.expiry[j] = s.expiry[j]
  <2>1. CASE first
    <3>1. m1 = Memory!SetExpiry(s, k, Window)
      BY <2>1
    <3> HIDE DEF m1
    <3>2. Sound(m1, {k}) /\ Redated(m1, s, k, IF Window > 0 THEN now + Window ELSE 0)
      BY ONLY <1>2, <1>6, <3>1, ExpiryKeeps
    <3> QED
      BY <1>2, <2>1, <3>2 DEF Redated
  <2>2. CASE ~first
    BY <1>6, <2>2
  <2> QED
    BY <2>1, <2>2
<1> HIDE DEF m1
<1>8. /\ m1.table[k] = v /\ m1.expiry[k] = (IF first THEN now + Window ELSE m.expiry[k])
      /\ \A j \in Memory!Keys : j # k => m1.table[j] = mem.table[j] /\ m1.expiry[j] = mem.expiry[j]
  BY <1>3, <1>6, <1>7 DEF Valued
<1>9. Sound(n, {}) /\ (Memory!cap = 0 => n = IF allows THEN m1 ELSE mem)
  <2>1. CASE allows
    <3>1. n = Memory!Track(m1, k)
      BY <2>1
    <3> HIDE DEF n
    <3>2. m1.table[k] # Absent
      BY <1>5, <1>8
    <3>3. Sound(n, {}) /\ (Memory!cap = 0 => n = m1)
      BY ONLY <1>2, <1>7, <3>1, <3>2, TrackKeeps
    <3> QED
      BY <2>1, <3>3
  <2>2. CASE ~allows
    BY <1>3, <2>2 DEF MemoryInv
  <2> QED
    BY <2>1, <2>2
<1> HIDE DEF n
<1>10. Leased(n)
  <2>1. Memory!cap = 0 => \A j \in LockKeys : Unmoved(n, j)
    <3>1. \A j \in LockKeys : j \in Memory!Keys /\ j # k
      BY MemoryAssumed
    <3> QED
      BY <1>8, <1>9, <3>1 DEF Unmoved
  <2> QED
    BY <2>1, LeasesHold
<1>11. /\ e.end \in Nat /\ e.n \in Nat /\ granted \in [RateKeys -> [end: Nat, n: Nat]]
       /\ e = [end |-> e.end, n |-> e.n]
  BY GrantFields DEF MemoryInv, Memory!TypeOK
<1>12. Memory!Granted(k) = IF e.end <= now THEN [end |-> now + Window, n |-> 1]
                           ELSE [end |-> e.end, n |-> e.n + 1]
  BY <1>11 DEF Memory!Granted
<1>13. Memory!Granted(k) \in [end: Nat, n: Nat]
  BY <1>2, <1>11, <1>12
<1>14. granted' \in [RateKeys -> [end: Nat, n: Nat]]
  BY <1>1, <1>11, <1>13
<1>15. ASSUME Memory!cap = 0, allows
       PROVE  /\ Memory!Granted(k).n <= Max /\ m1.table[k] = Memory!Granted(k).n
              /\ m1.expiry[k] = Memory!Granted(k).end /\ Memory!Granted(k).end > 0
  <2>1. /\ e.n <= Max
        /\ e.end > now => mem.table[k] # Absent
        /\ mem.table[k] # Absent => /\ mem.table[k] = e.n
                                    /\ mem.expiry[k] = e.end /\ e.end > 0
    BY <1>15 DEF MemoryInv, Limited
  <2>2. CASE first
    <3>1. e.end <= now
      <4>1. CASE Memory!Expired(mem, k)
        <5>1. mem.table[k] # Absent
          BY <1>2, <4>1 DEF MemoryInv, Sound, Dated, Memory!Expired
        <5> QED
          BY <2>1, <4>1, <5>1 DEF Memory!Expired
      <4>2. CASE ~Memory!Expired(mem, k)
        BY <1>2, <1>3, <1>11, <2>1, <2>2, <4>2
      <4> QED
        BY <4>1, <4>2
    <3>2. v = 1
      BY <2>2 DEF v
    <3> QED
      BY <1>2, <1>8, <1>12, <2>2, <3>1, <3>2
  <2>3. CASE ~first
    <3>1. m = mem /\ ~Memory!Expired(mem, k)
      BY <1>3, <2>3
    <3>2. mem.table[k] = e.n /\ mem.expiry[k] = e.end /\ e.end > 0
      BY <2>1, <2>3, <3>1
    <3>3. ~(e.end <= now)
      BY <3>1, <3>2 DEF Memory!Expired
    <3>4. v = e.n + 1 /\ e.n < Max
      BY <1>15, <2>3, <3>1, <3>2 DEF v
    <3>5. Memory!Granted(k).n = e.n + 1 /\ Memory!Granted(k).end = e.end
      BY <1>12, <3>3
    <3> QED
      BY <1>2, <1>8, <1>11, <2>3, <3>1, <3>2, <3>4, <3>5
  <2> QED
    BY <2>2, <2>3
<1>16. Limited(mem)'
  <2>1. CASE Memory!cap = 0 /\ allows
    <3>1. /\ granted' = [granted EXCEPT ![k] = Memory!Granted(k)] /\ mem' = m1
      BY <1>1, <1>9, <2>1
    <3>2. ASSUME NEW j \in RateKeys
          PROVE  /\ granted'[j].n <= Max
                 /\ granted'[j].end > now => mem'.table[j] # Absent
                 /\ mem'.table[j] # Absent => /\ mem'.table[j] = granted'[j].n
                                              /\ mem'.expiry[j] = granted'[j].end /\ granted'[j].end > 0
      <4>1. CASE j = k
        <5>1. granted'[j] = Memory!Granted(k)
          BY <1>11, <3>1, <4>1
        <5>2. mem'.table[j] = v /\ v # Absent
          BY <1>5, <1>8, <3>1, <4>1
        <5> QED
          BY <1>15, <2>1, <3>1, <4>1, <5>1, <5>2
      <4>2. CASE j # k
        <5>1. granted'[j] = granted[j] /\ j \in Memory!Keys
          BY <1>11, <3>1, <4>2, MemoryAssumed
        <5>2. mem'.table[j] = mem.table[j] /\ mem'.expiry[j] = mem.expiry[j]
          BY <1>8, <3>1, <4>2, <5>1
        <5>3. /\ granted[j].n <= Max
              /\ granted[j].end > now => mem.table[j] # Absent
              /\ mem.table[j] # Absent => /\ mem.table[j] = granted[j].n
                                          /\ mem.expiry[j] = granted[j].end /\ granted[j].end > 0
          BY <2>1 DEF MemoryInv, Limited
        <5> QED
          BY <5>1, <5>2, <5>3
      <4> QED
        BY <4>1, <4>2
    <3> QED
      BY <1>1, <3>2 DEF Limited
  <2>2. CASE Memory!cap = 0 /\ ~allows
    <3>1. mem' = mem /\ granted' = granted
      BY <1>1, <1>9, <2>2
    <3> QED
      BY <1>1, <3>1 DEF MemoryInv, Limited, Memory!cap
  <2>3. CASE Memory!cap # 0
    BY <1>1, <2>3 DEF Limited, Memory!cap
  <2> QED
    BY <2>1, <2>2, <2>3
<1>17. Sound(mem, {})' /\ mem' \in Memory!MemType
  BY <1>1, <1>9, SoundNext
<1>18. Memory!TypeOK'
  BY <1>1, <1>14, <1>17 DEF MemoryInv, Memory!TypeOK, Memory!NoLease
<1>19. Lending' /\ Leased(mem)'
  BY <1>1, <1>10 DEF MemoryInv, Lending, Memory!mode, Leased, Memory!cap, Memory!NoLease
<1> QED
  BY <1>16, <1>17, <1>18, <1>19 DEF MemoryInv

(* A lock that is taken was free: nobody's lease of it still runs.         *)
LEMMA LockStep ==
  ASSUME MemoryInv, NEW c \in Clients, NEW k \in LockKeys, NEW ttl \in Ttls, Memory!LockKey(c, k, ttl)
  PROVE  MemoryInv'
<1> DEFINE m == Memory!Fresh(mem, k)
<1>1. PICK t \in Tokens \ Memory!UsedTokens :
        IF m.table[k] = Absent
        THEN /\ mem' = Memory!Track(Memory!SetExpiry(Memory!Store(m, k, t), k, ttl), k)
             /\ lease' = [lease EXCEPT ![c] = [key |-> k, token |-> t, until |-> now + ttl]]
        ELSE mem' = m /\ lease' = lease
  BY DEF Memory!LockKey
<1>2. /\ lease[c] = Memory!NoLease /\ ttl >= 1
      /\ UNCHANGED <<fw, site, ready, dirty, sweeps, now, held, granted>>
  BY DEF Memory!LockKey
<1>3. /\ k \in Memory!Keys /\ now \in Nat /\ ttl \in Nat /\ t # Absent
      /\ Fits(k, t) /\ t \in Ptrs \cup Tokens \cup Int
  BY MemoryAssumed DEF MemoryInv, Memory!TypeOK, Fits
<1>4. /\ Sound(m, {k})
      /\ \A j \in Memory!Keys : j # k => m.table[j] = mem.table[j] /\ m.expiry[j] = mem.expiry[j]
      /\ IF Memory!Expired(mem, k) THEN m.table[k] = Absent /\ m.expiry[k] = 0 ELSE m = mem
  BY <1>3, FreshKeeps DEF MemoryInv
<1> HIDE DEF m
<1>5. CASE m.table[k] # Absent
  <2>1. mem' = mem /\ lease' = lease
    BY <1>1, <1>4, <1>5
  <2> QED
    BY <1>2, <2>1, WriteStep DEF MemoryInv, Memory!TypeOK
<1>6. CASE m.table[k] = Absent
  <2> DEFINE s == Memory!Store(m, k, t)
             m1 == Memory!SetExpiry(s, k, ttl)
             n == Memory!Track(m1, k)
             new == [key |-> k, token |-> t, until |-> now + ttl]
  <2>1. mem' = n /\ lease' = [lease EXCEPT ![c] = new]
    BY <1>1, <1>6
  <2>2. s = Memory!Store(m, k, t) /\ m1 = Memory!SetExpiry(s, k, ttl) /\ n = Memory!Track(m1, k)
    OBVIOUS
  <2> HIDE DEF s, m1, n
  <2>3. Sound(s, {k}) /\ Valued(s, m, k, t)
    BY ONLY <1>3, <1>4, <2>2, StoreKeeps
  <2>4. Sound(m1, {k}) /\ Redated(m1, s, k, IF ttl > 0 THEN now + ttl ELSE 0)
    BY ONLY <1>3, <2>2, <2>3, ExpiryKeeps
  <2>5. /\ m1.table[k] = t /\ m1.expiry[k] = now + ttl
        /\ \A j \in Memory!Keys : j # k => m1.table[j] = mem.table[j] /\ m1.expiry[j] = mem.expiry[j]
    <3>1. /\ m1.table = s.table /\ m1.expiry[k] = now + ttl
          /\ \A j \in Memory!Keys : j # k => m1.expiry[j] = s.expiry[j]
      BY <1>2, <1>3, <2>4 DEF Redated
    <3>2. /\ s.expiry = m.expiry /\ s.table[k] = t
          /\ \A j \in Memory!Keys : j # k => s.table[j] = m.table[j]
      BY <2>3 DEF Valued
    <3> QED
      BY <1>4, <3>1, <3>2
  <2>6. Sound(n, {}) /\ (Memory!cap = 0 => n = m1)
    <3>1. m1.table[k] # Absent
      BY <1>3, <2>5
    <3> QED
      BY ONLY <1>3, <2>2, <2>4, <3>1, TrackKeeps
  <2>7. Limited(n)
    <3>1. Memory!cap = 0 => \A j \in RateKeys : Unmoved(n, j)
      <4>1. \A j \in RateKeys : j \in Memory!Keys /\ j # k
        BY MemoryAssumed
      <4> QED
        BY <2>5, <2>6, <4>1 DEF Unmoved
    <3> QED
      BY <3>1, LimitsHold
  <2>8. lease \in [Clients -> [key: LockKeys, token: Tokens, until: Nat] \cup {Memory!NoLease}]
    BY DEF MemoryInv, Memory!TypeOK
  <2>9. new \in [key: LockKeys, token: Tokens, until: Nat] /\ new.token = t /\ new.key = k /\ new.until = now + ttl
    BY <1>3
  <2> HIDE DEF new
  <2>10. lease' \in [Clients -> [key: LockKeys, token: Tokens, until: Nat] \cup {Memory!NoLease}]
    BY <2>1, <2>8, <2>9
  <2>11. lease'[c] = new /\ \A d \in Clients : d # c => lease'[d] = lease[d]
    BY <2>1, <2>8
  <2>12. Leased(mem)'
    <3>1. ASSUME NEW d \in Clients, NEW f \in Clients, lease'[d] # Memory!NoLease, lease'[d].token = lease'[f].token
          PROVE  d = f
      <4>1. \A g \in Clients : lease[g].token \in Memory!UsedTokens
        BY DEF Memory!UsedTokens
      <4>2. t \notin Memory!UsedTokens
        BY <1>1
      <4>3. CASE d = c \/ f = c
        BY <2>9, <2>11, <3>1, <4>1, <4>2, <4>3
      <4>4. CASE d # c /\ f # c
        BY <2>11, <3>1, <4>4 DEF MemoryInv, Leased
      <4> QED
        BY <4>3, <4>4
    <3>2. ASSUME Memory!cap = 0, NEW d \in Clients, lease'[d].until > now
          PROVE  mem'.table[lease'[d].key] = lease'[d].token /\ mem'.expiry[lease'[d].key] = lease'[d].until
      <4>1. mem' = m1
        BY <2>1, <2>6, <3>2
      <4>2. CASE d = c
        BY <2>5, <2>9, <2>11, <4>1, <4>2
      <4>3. CASE d # c
        <5>1. lease'[d] = lease[d]
          BY <2>11, <4>3
        <5>2. mem.table[lease[d].key] = lease[d].token /\ mem.expiry[lease[d].key] = lease[d].until
          BY <3>2, <5>1 DEF MemoryInv, Leased
        <5>3. /\ lease[d].key \in LockKeys /\ lease[d].token \in Tokens
              /\ lease[d].until \in Nat /\ lease[d].key \in Memory!Keys
          BY <3>2, <5>1, LeaseFields, MemoryAssumed DEF MemoryInv
        <5>4. lease[d].key # k
          <6>1. SUFFICES ASSUME lease[d].key = k PROVE FALSE
            OBVIOUS
          <6>2. ~Memory!Expired(mem, k)
            BY <1>3, <3>2, <5>1, <5>2, <5>3, <6>1 DEF Memory!Expired
          <6> QED
            BY <1>4, <1>6, <5>2, <5>3, <6>1, <6>2, MemoryAssumed
        <5> QED
          BY <2>5, <4>1, <5>1, <5>2, <5>3, <5>4
      <4> QED
        BY <4>2, <4>3
    <3> QED
      BY <1>2, <3>1, <3>2 DEF Leased, Memory!cap, Memory!NoLease
  <2>13. Sound(mem, {})' /\ mem' \in Memory!MemType
    BY <1>2, <2>1, <2>6, SoundNext
  <2>14. Memory!TypeOK'
    BY <1>2, <2>10, <2>13 DEF MemoryInv, Memory!TypeOK, Memory!NoLease
  <2>15. Lending' /\ Limited(mem)'
    BY <1>2, <2>1, <2>7 DEF MemoryInv, Lending, Memory!mode, Limited, Memory!cap
  <2> QED
    BY <2>12, <2>13, <2>14, <2>15 DEF MemoryInv
<1> QED
  BY <1>5, <1>6

(* Only the token that is stored, or the expiry of it, ends a lock.        *)
LEMMA UnlockStep ==
  ASSUME MemoryInv, NEW c \in Clients, Memory!Unlock(c)
  PROVE  MemoryInv'
<1> DEFINE k == lease[c].key
           gone == Memory!Expired(mem, k) \/ mem.table[k] = lease[c].token
           n == IF gone THEN Memory!Untrack(Memory!Drop(mem, {k}), {k}) ELSE mem
<1>1. /\ lease[c] # Memory!NoLease /\ mem' = n
      /\ lease' = [lease EXCEPT ![c] = Memory!NoLease]
      /\ UNCHANGED <<fw, site, ready, dirty, sweeps, now, held, granted>>
  BY DEF Memory!Unlock
<1>2. k \in LockKeys /\ k \in Memory!Keys
  BY <1>1, LeaseFields, MemoryAssumed DEF MemoryInv
<1> HIDE DEF k
<1>3. /\ Sound(n, {})
      /\ gone => Removed(n, mem, {k})
      /\ ~gone => n = mem
  <2>1. CASE gone
    <3> DEFINE X == {}
               K == {k}
    <3>1. X \in SUBSET Memory!Keys /\ K \in SUBSET Memory!Keys /\ Sound(mem, X)
      BY <1>2 DEF MemoryInv
    <3>2. n = Memory!Untrack(Memory!Drop(mem, K), K)
      BY <2>1
    <3> HIDE DEF X, K, n
    <3>3. Sound(n, X \ K) /\ Removed(n, mem, K)
      BY ONLY <3>1, <3>2, RemoveKeeps
    <3>4. X \ K = {}
      BY DEF X
    <3> QED
      BY <2>1, <3>3, <3>4 DEF K
  <2>2. CASE ~gone
    BY <2>2 DEF MemoryInv
  <2> QED
    BY <2>1, <2>2
<1> HIDE DEF n
<1>4. Limited(n)
  <2>1. \A j \in RateKeys : Unmoved(n, j)
    <3>1. \A j \in RateKeys : j \in Memory!Keys /\ j # k
      BY <1>2, MemoryAssumed
    <3> QED
      BY <1>3, <3>1 DEF Unmoved, Removed
  <2> QED
    BY <2>1, LimitsHold
<1>5. /\ lease' \in [Clients -> [key: LockKeys, token: Tokens, until: Nat] \cup {Memory!NoLease}]
      /\ lease'[c] = Memory!NoLease /\ \A d \in Clients : d # c => lease'[d] = lease[d]
  BY <1>1 DEF MemoryInv, Memory!TypeOK
<1>6. Leased(mem)'
  <2>1. ASSUME NEW d \in Clients, NEW f \in Clients, lease'[d] # Memory!NoLease, lease'[d].token = lease'[f].token
        PROVE  d = f
    <3>1. d # c /\ lease'[d] = lease[d] /\ lease[d].token \in Tokens
      BY <1>5, <2>1, LeaseFields DEF MemoryInv
    <3>2. f # c
      BY <1>5, <2>1, <3>1, MemoryAssumed DEF Memory!NoLease
    <3> QED
      BY <1>5, <2>1, <3>1, <3>2 DEF MemoryInv, Leased
  <2>2. ASSUME Memory!cap = 0, NEW d \in Clients, lease'[d].until > now
        PROVE  mem'.table[lease'[d].key] = lease'[d].token /\ mem'.expiry[lease'[d].key] = lease'[d].until
    <3>1. d # c
      <4>1. now \in Nat
        BY LeaseFields DEF MemoryInv
      <4> QED
        BY <1>5, <2>2, <4>1 DEF Memory!NoLease
    <3>2. lease'[d] = lease[d]
      BY <1>5, <3>1
    <3>3. mem.table[lease[d].key] = lease[d].token /\ mem.expiry[lease[d].key] = lease[d].until
      BY <2>2, <3>2 DEF MemoryInv, Leased
    <3>4. /\ lease[d].key \in LockKeys /\ lease[d].key \in Memory!Keys /\ lease[d] # Memory!NoLease
          /\ lease[d].until \in Nat /\ now \in Nat
      BY <2>2, <3>2, LeaseFields, MemoryAssumed DEF MemoryInv
    <3>5. ~(gone /\ lease[d].key = k)
      <4>1. SUFFICES ASSUME gone, lease[d].key = k PROVE FALSE
        OBVIOUS
      <4>2. ~Memory!Expired(mem, k)
        BY <2>2, <3>2, <3>3, <3>4, <4>1 DEF Memory!Expired
      <4>3. lease[d].token = lease[c].token
        BY <3>3, <4>1, <4>2
      <4> QED
        BY <3>1, <3>4, <4>3 DEF MemoryInv, Leased
    <3> QED
      BY <1>1, <1>3, <3>2, <3>3, <3>4, <3>5 DEF Removed
  <2> QED
    BY <1>1, <2>1, <2>2 DEF Leased, Memory!cap, Memory!NoLease
<1>7. Sound(mem, {})' /\ mem' \in Memory!MemType
  BY <1>1, <1>3, SoundNext
<1>8. Memory!TypeOK'
  BY <1>1, <1>5, <1>7 DEF MemoryInv, Memory!TypeOK, Memory!NoLease
<1>9. Lending' /\ Limited(mem)'
  BY <1>1, <1>4 DEF MemoryInv, Lending, Memory!mode, Limited, Memory!cap
<1> QED
  BY <1>6, <1>7, <1>8, <1>9 DEF MemoryInv

LEMMA CleanStep ==
  ASSUME MemoryInv, Memory!Clean
  PROVE  MemoryInv'
<1> DEFINE n == Memory!Untrack(Memory!Drop(mem, Memory!Keys), Memory!Keys)
           X == {}
<1>1. /\ mem' = n /\ lease' = [c \in Clients |-> Memory!NoLease]
      /\ granted' = [k \in RateKeys |-> [end |-> 0, n |-> 0]]
      /\ UNCHANGED <<fw, site, ready, dirty, sweeps, now, held>>
  BY DEF Memory!Clean
<1>2. Sound(mem, X) /\ X \in SUBSET Memory!Keys /\ n = Memory!Untrack(Memory!Drop(mem, Memory!Keys), Memory!Keys)
  BY DEF MemoryInv
<1> HIDE DEF X, n
<1>3. Sound(n, X \ Memory!Keys) /\ Removed(n, mem, Memory!Keys)
  BY ONLY <1>2, RemoveKeeps
<1>4. X \ Memory!Keys = {}
  BY DEF X
<1>5. Sound(mem, {})' /\ mem' \in Memory!MemType
  BY <1>1, <1>3, <1>4, SoundNext
<1>6. /\ lease' \in [Clients -> [key: LockKeys, token: Tokens, until: Nat] \cup {Memory!NoLease}]
      /\ granted' \in [RateKeys -> [end: Nat, n: Nat]]
  BY <1>1
<1>7. Memory!TypeOK'
  BY <1>1, <1>5, <1>6 DEF MemoryInv, Memory!TypeOK, Memory!NoLease
<1>8. now \in Nat /\ now > 0 /\ Max \in Nat
  BY MemoryAssumed DEF MemoryInv, Memory!TypeOK
<1>9. Leased(mem)'
  BY <1>1, <1>8 DEF Leased, Memory!NoLease
<1>10. Limited(mem)'
  <2>1. \A k \in RateKeys : granted'[k].n = 0 /\ granted'[k].end = 0 /\ mem'.table[k] = Absent
    BY <1>1, <1>3, MemoryAssumed DEF Removed
  <2> QED
    BY <1>1, <1>8, <2>1 DEF Limited
<1>11. Lending'
  BY <1>1 DEF MemoryInv, Lending, Memory!mode
<1> QED
  BY <1>5, <1>7, <1>9, <1>10, <1>11 DEF MemoryInv

LEMMA MemoryStarts ==
  ASSUME Memory!Init
  PROVE  MemoryInv
<1> DEFINE Zero == [k \in Memory!Keys |-> 0]
           None == [k \in Memory!Keys |-> Absent]
           Old == [k \in Memory!Keys |-> {}]
<1>1. /\ mem = [table |-> None, expiry |-> Zero, lru |-> Old, borrowed |-> FALSE, retired |-> {}]
      /\ site \in Sites /\ fw = Absent /\ ready = FALSE /\ dirty = FALSE /\ sweeps = 0 /\ now = 1
      /\ held = {} /\ lease = [c \in Clients |-> Memory!NoLease]
      /\ granted = [k \in RateKeys |-> [end |-> 0, n |-> 0]]
  BY DEF Memory!Init
<1>2. /\ None \in [Memory!Keys -> Ptrs \cup Tokens \cup Int \cup {Absent}]
      /\ Zero \in [Memory!Keys -> Nat] /\ Old \in [Memory!Keys -> SUBSET Memory!Keys]
      /\ \A k \in Memory!Keys : None[k] = Absent /\ Zero[k] = 0 /\ Old[k] = {}
  OBVIOUS
<1> HIDE DEF None, Zero, Old
<1>3. mem \in Memory!MemType /\ mem.table = None /\ mem.expiry = Zero /\ mem.lru = Old
  BY <1>1, <1>2 DEF Memory!MemType
<1>4. Memory!Tracked(mem) = {}
  BY <1>2, <1>3 DEF Memory!Tracked
<1>5. Whole(mem)
  <2>1. Shaped(mem)
    BY <1>2, <1>3 DEF Shaped, Fits
  <2>2. Ordered(mem)
    BY <1>2, <1>3, <1>4 DEF Ordered
  <2>3. Guarded(mem)
    BY <1>1 DEF Guarded
  <2> QED
    BY <1>1, <2>1, <2>2, <2>3 DEF Whole
<1>6. Dated(mem, {})
  BY <1>2, <1>3 DEF Dated
<1>7. Listed(mem, {})
  BY <1>2, <1>3, <1>4, <1>5, FS_EmptySet, CapNatural DEF Listed
<1>8. /\ lease \in [Clients -> [key: LockKeys, token: Tokens, until: Nat] \cup {Memory!NoLease}]
      /\ granted \in [RateKeys -> [end: Nat, n: Nat]]
      /\ sweeps \in 0..(SweepInterval - 1) /\ now \in 1..MaxTime
  BY <1>1, MemoryAssumed
<1>9. Memory!TypeOK
  BY <1>1, <1>3, <1>8 DEF Memory!TypeOK
<1>10. Lending
  BY <1>1 DEF Lending
<1>11. Leased(mem)
  BY <1>1 DEF Leased, Memory!NoLease
<1>12. Limited(mem)
  <2>1. \A k \in RateKeys : mem.table[k] = Absent
    BY <1>2, <1>3, MemoryAssumed
  <2>2. \A k \in RateKeys : granted[k].n = 0 /\ granted[k].end = 0
    BY <1>1
  <2> QED
    BY <1>1, <2>1, <2>2, MemoryAssumed DEF Limited
<1> QED
  BY <1>5, <1>6, <1>7, <1>9, <1>10, <1>11, <1>12 DEF MemoryInv, Sound

LEMMA MemoryStep ==
  ASSUME MemoryInv, Memory!Next \/ UNCHANGED memoryVars
  PROVE  MemoryInv'
<1>1. ASSUME NEW k \in ValueKeys, (\E ttl \in Ttls : Memory!Set(k, ttl)) \/ Memory!Get(k) \/ Memory!Del(k)
      PROVE  MemoryInv'
  BY <1>1, SetStep, GetStep, DelStep
<1>2. ASSUME NEW k \in CountKeys, (\E ttl \in Ttls : Memory!Incr(k, ttl)) \/ Memory!Decr(k)
      PROVE  MemoryInv'
  <2>1. 0 \in Nat /\ \A ttl \in Ttls : ttl \in Nat
    BY MemoryAssumed
  <2>2. \E ttl \in Nat : Memory!Incr(k, ttl)
    BY <1>2, <2>1 DEF Memory!Decr
  <2> QED
    BY <2>2, IncrStep
<1>3. ASSUME NEW k \in RateKeys, Memory!RateLimit(k)
      PROVE  MemoryInv'
  BY <1>3, RateLimitStep
<1>4. ASSUME NEW c \in Clients, NEW k \in LockKeys, NEW ttl \in Ttls, Memory!LockKey(c, k, ttl)
      PROVE  MemoryInv'
  BY <1>4, LockStep
<1>5. ASSUME NEW c \in Clients, Memory!Unlock(c)
      PROVE  MemoryInv'
  BY <1>5, UnlockStep
<1>6. CASE Memory!Clean
  BY <1>6, CleanStep
<1>7. CASE Memory!RequestStart
  BY <1>7, RequestStartStep
<1>8. CASE \/ Memory!SetByRouter \/ Memory!DelFramework \/ Memory!GetByConfig
           \/ Memory!WorkerReady \/ Memory!Tick
  BY <1>8, FrameworkStep
<1>9. CASE UNCHANGED memoryVars
  <2>1. Sound(mem, {})' /\ Leased(mem)' /\ Limited(mem)'
    <3>1. UNCHANGED <<mem, site, held, now, lease, granted>>
      BY <1>9 DEF memoryVars
    <3>2. Sound(mem, {})'
      BY <3>1, TableKept
    <3> QED
      BY <3>1, <3>2 DEF MemoryInv, Leased, Limited, Memory!cap, Memory!NoLease
  <2>2. Memory!TypeOK' /\ Lending'
    BY <1>9 DEF memoryVars, MemoryInv, Memory!TypeOK, Memory!MemType, Memory!Keys, Memory!NoLease,
                Lending, Memory!mode
  <2> QED
    BY <2>1, <2>2 DEF MemoryInv
<1> QED
  BY <1>1, <1>2, <1>3, <1>4, <1>5, <1>6, <1>7, <1>8, <1>9 DEF Memory!Next

LEMMA MemoryShows ==
  ASSUME MemoryInv
  PROVE  Memory!StoreSound /\ Memory!LockExclusive /\ Memory!RateExact
<1>1. Memory!TablesAgree
  <2>1. Dated(mem, {}) /\ Listed(mem, {})
    BY DEF MemoryInv, Sound
  <2>2. \A k \in Memory!Keys : mem.expiry[k] # 0 => mem.table[k] # Absent
    BY <2>1 DEF Dated
  <2>3. CASE Memory!cap = 0
    BY <2>1, <2>2, <2>3 DEF Memory!TablesAgree, Listed
  <2>4. CASE Memory!cap # 0
    <3>1. /\ \A k \in Memory!Keys : mem.lru[k] # {} <=> mem.table[k] # Absent
          /\ Cardinality(Memory!Tracked(mem)) <= Memory!cap
      BY <2>1, <2>4 DEF Listed
    <3>2. Memory!Tracked(mem) = {k \in Memory!Keys : mem.table[k] # Absent}
      BY <3>1 DEF Memory!Tracked
    <3>3. Memory!Cardinality(Memory!Tracked(mem)) = Cardinality(Memory!Tracked(mem))
      BY DEF Memory!Cardinality, Cardinality
    <3> QED
      BY <2>2, <2>4, <3>1, <3>2, <3>3 DEF Memory!TablesAgree
  <2> QED
    BY <2>3, <2>4
<1>2. Memory!NoDangling
  <2>1. Memory!mode \in {"fpm", "swoole"} /\ Guarded(mem)
    BY CapNatural DEF MemoryInv, Sound, Whole
  <2> QED
    BY <2>1 DEF Memory!NoDangling, Guarded, MemoryInv, Lending
<1>3. Memory!LockExclusive
  <2>1. ASSUME Memory!cap = 0, NEW c \in Clients, NEW d \in Clients, c # d,
               lease[c].key = lease[d].key, lease[c].until > now
        PROVE  lease[d].until <= now
    <3>1. lease[d].until \in Nat /\ now \in Nat /\ lease[c] # Memory!NoLease
      BY <2>1, LeaseFields DEF MemoryInv
    <3>2. lease[d].until > now => lease[d].token = lease[c].token
      BY <2>1 DEF MemoryInv, Leased
    <3> QED
      BY <2>1, <3>1, <3>2 DEF MemoryInv, Leased
  <2> QED
    BY <2>1 DEF Memory!LockExclusive
<1>4. Memory!RateExact
  BY DEF MemoryInv, Limited, Memory!RateExact
<1> QED
  BY <1>1, <1>2, <1>3, <1>4 DEF Memory!StoreSound

(* The invariant of the part, from which its properties follow.            *)
LEMMA MemoryAlways == Spec => [](part = "memory" => MemoryInv)
<1> DEFINE Inv == part = "memory" => MemoryInv
<1>1. Init => Inv
  BY MemoryStarts DEF Init
<1>2. Inv /\ [Next]_vars => Inv'
  <2> SUFFICES ASSUME Inv, [Next]_vars PROVE Inv'
    OBVIOUS
  <2>1. CASE part # "memory"
    BY <2>1 DEF Next, vars
  <2>2. CASE part = "memory"
    <3>1. Memory!Next \/ UNCHANGED memoryVars
      BY <2>2 DEF Next, vars
    <3> QED
      BY <2>2, <3>1, MemoryStep
  <2> QED
    BY <2>1, <2>2
<1> QED
  BY <1>1, <1>2, PTL DEF Spec

(* The process-local store is sound in every installation: its tables      *)
(* agree, the cap is kept, and a value that a caller still uses is not     *)
(* freed, whatever was overwritten, deleted, evicted, swept or wiped.      *)
THEOREM StorePartSound == Spec => []StoreSound
<1>1. (part = "memory" => MemoryInv) => StoreSound
  BY MemoryShows DEF StoreSound
<1> QED
  BY <1>1, MemoryAlways, PTL

(* Without a cap, locks exclude however late a holder unlocks, and a limit *)
(* lets Max calls through in a window, for every Max, Window and ttl.      *)
THEOREM ExpiringPartExact == Spec => []ExpiringExact
<1>1. (part = "memory" => MemoryInv) => ExpiringExact
  BY MemoryShows DEF ExpiringExact
<1> QED
  BY <1>1, MemoryAlways, PTL

-----------------------------------------------------------------------------
(* The session.                                                            *)

KeptType == [value: 0..conf.maxWrites, used: 0..conf.horizon, since: 0..conf.horizon, device: 0..2]
SessionTypes ==
    /\ Sessions!SessionTypeOK
    /\ kept \in KeptType /\ kept.used <= clock /\ kept.since <= clock

(* A record was saved at some time, and its session began at some time: it *)
(* has an age if ages are limited.                                         *)
WellSaved(x) ==
    x.data # Sessions!Null =>
        /\ x.data.stime > 0 /\ x.data.stime <= clock /\ x.until = x.data.stime + conf.ttl
        /\ x.data.born <= clock
        /\ conf.absolute > 0 => x.data.born # 0

(* No value is newer than the last one set, and none that was buried is in *)
(* the store or in an object under the id that it was buried with.         *)
Known(i, v) == v <= writes /\ <<i, v>> \notin dead
StoreWell ==
    \A i \in Sessions!Ids :
        /\ WellSaved(records[i]) /\ Known(i, records[i].data.v)
        /\ i = 0 \/ i > ids => records[i] = Sessions!NoRecord
ObjectWell(r) ==
    /\ req[r].at # "off" => req[r].id > 0 /\ req[r].id <= ids /\ Known(req[r].id, req[r].data.v)
    /\ req[r].at # "run" => req[r].data = Sessions!Null
    /\ req[r].data # Sessions!Null => req[r].data.born <= clock
    /\ req[r].out <= ids
DeadKnown == \A i \in Sessions!Ids : \A v \in Int : <<i, v>> \in dead => i <= ids /\ v <= writes /\ v > 0

(* With one request at a time: the cookie that it has sent, or will not    *)
(* send because there is nothing to keep;                                  *)
Alive(i) == records[i].data # Sessions!Null /\ records[i].until > clock
OneAtATime == \A q, r \in Requests : req[q].at # "off" /\ req[r].at # "off" => q = r
Sends(r) ==
    /\ req[r].device = kept.device
    /\ ~req[r].ended =>
        /\ req[r].out \in {0, req[r].id} /\ (req[r].sent => req[r].out = req[r].id)
        /\ req[r].out = 0 /\ req[r].id # jar =>
            /\ jar = 0 /\ req[r].new /\ records[req[r].id] = Sessions!NoRecord
            /\ req[r].data.v \in {0, -1}

(* the record of an id, if it is there, is what the application left;      *)
Recorded(i) ==
    IF Alive(i)
    THEN /\ records[i].data.v = kept.value
         /\ kept.used <= records[i].data.stime + Sessions!TouchInterval
         /\ conf.absolute > 0 => records[i].data.born >= kept.since
         /\ conf.bind => records[i].data.bind \in {0, kept.device}
    ELSE kept.value = 0 \/ Sessions!Lapsed

(* and the object has a copy of it, or what was set since.                 *)
Copies(r) ==
    Sessions!Loaded(r) =>
        /\ ~req[r].dirty => \/ req[r].data = records[req[r].id].data
                            \/ req[r].data = Sessions!Empty /\ ~Alive(req[r].id)
        /\ ~excused => /\ req[r].data.v = kept.value
                       /\ conf.absolute > 0 /\ req[r].data.born # 0 => req[r].data.born >= kept.since
Holds(r) ==
    ~excused => /\ req[r].at = "kick" => kept.value = 0
                /\ req[r].at = "run" => IF req[r].dirty THEN req[r].data # Sessions!Null
                                        ELSE Recorded(req[r].id)
Resting == ~excused /\ (\A r \in Requests : req[r].at = "off") => Recorded(jar)
Orderly ==
    /\ OneAtATime /\ Resting
    /\ \A r \in Requests : req[r].at # "off" => Sends(r) /\ Copies(r) /\ Holds(r)

Structured == SessionTypes /\ StoreWell /\ DeadKnown /\ \A r \in Requests : ObjectWell(r)
SessionInv == Structured /\ (~conf.overlap => Orderly)

LEMMA SessionAssumed ==
  ASSUME conf \in Installations
  PROVE  /\ conf.ttl \in Nat /\ conf.ttl > 0 /\ conf.uttl \in Nat /\ conf.idle \in Nat
         /\ conf.absolute \in Nat /\ conf.bind \in BOOLEAN /\ conf.overlap \in BOOLEAN
         /\ conf.devices \subseteq {1, 2} /\ conf.horizon \in Nat /\ conf.horizon > 0
         /\ conf.maxIds \in Nat /\ conf.maxWrites \in Nat
         /\ Sessions!Ids = 0..conf.maxIds
         /\ Sessions!TouchInterval \in Nat
<1>1. conf \in Sessions!Installation
  BY Assumptions DEF Sessions!SessionAssumption
<1>2. conf.idle \div 2 \in Nat
  BY <1>1 DEF Sessions!Installation
<1> QED
  BY <1>1, <1>2 DEF Sessions!Installation, Sessions!Ids, Sessions!TouchInterval

(* The Session object, field by field.                                     *)
LEMMA ObjectFields ==
  ASSUME NEW s \in Sessions!SessionType
  PROVE  /\ s.at \in {"off", "run", "kick"} /\ s.id \in Sessions!Ids /\ s.device \in 0..2
         /\ s.data \in Sessions!Payload \cup {Sessions!Null} /\ s.dirty \in BOOLEAN /\ s.new \in BOOLEAN
         /\ s.sent \in BOOLEAN /\ s.ended \in BOOLEAN /\ s.out \in Sessions!Ids
BY DEF Sessions!SessionType

LEMMA PayloadFields ==
  /\ \A d \in Sessions!Payload :
        /\ d.v \in 0..conf.maxWrites /\ d.stime \in 0..conf.horizon /\ d.born \in 0..conf.horizon
        /\ d.bind \in 0..2 /\ d # Sessions!Null
  /\ Sessions!Null.v = -1
  /\ Sessions!Empty.v = 0 /\ Sessions!Empty.stime = 0 /\ Sessions!Empty.born = 0 /\ Sessions!Empty.bind = 0
  /\ conf \in Installations => Sessions!Empty \in Sessions!Payload /\ Sessions!Empty # Sessions!Null
<1>1. ASSUME NEW d \in Sessions!Payload
      PROVE  /\ d.v \in 0..conf.maxWrites /\ d.stime \in 0..conf.horizon /\ d.born \in 0..conf.horizon
             /\ d.bind \in 0..2 /\ d.v # -1
  BY DEF Sessions!Payload
<1>2. Sessions!Null.v = -1
  BY DEF Sessions!Null
<1>3. /\ Sessions!Empty.v = 0 /\ Sessions!Empty.stime = 0 /\ Sessions!Empty.born = 0
      /\ Sessions!Empty.bind = 0
  BY DEF Sessions!Empty
<1>4. conf \in Installations => Sessions!Empty \in Sessions!Payload
  BY SessionAssumed DEF Sessions!Empty, Sessions!Payload
<1> QED
  BY <1>1, <1>2, <1>3, <1>4

(* What stays of an object when its cookie is sent.                        *)
Same(t, s) ==
    /\ t \in Sessions!SessionType
    /\ t.at = s.at /\ t.id = s.id /\ t.device = s.device /\ t.new = s.new /\ t.ended = s.ended
Told(t, s) ==
    /\ s.ended => t.out = s.out
    /\ ~s.ended => t.sent /\ t.out = s.id

LEMMA CookieFields ==
  ASSUME NEW s \in Sessions!SessionType, NEW t, t = Sessions!Cookie(s)
  PROVE  Same(t, s) /\ Told(t, s) /\ t.data = s.data /\ t.dirty = s.dirty
<1>1. CASE s.ended
  BY <1>1 DEF Sessions!Cookie, Same, Told
<1>2. CASE ~s.ended
  BY <1>2 DEF Sessions!Cookie, Same, Told, Sessions!SessionType
<1> QED
  BY <1>1, <1>2

LEMMA DirtyFields ==
  ASSUME NEW s \in Sessions!SessionType, NEW t, t = Sessions!AutoCookie(Sessions!MarkDirty(s))
  PROVE  Same(t, s) /\ Told(t, s) /\ t.data = s.data /\ t.dirty
<1> DEFINE u == [s EXCEPT !.dirty = TRUE, !.sent = FALSE]
<1>1. /\ u \in Sessions!SessionType /\ u.at = s.at /\ u.id = s.id /\ u.device = s.device
      /\ u.new = s.new /\ u.ended = s.ended /\ u.data = s.data /\ u.dirty /\ ~u.sent
      /\ u.out = s.out
  BY DEF Sessions!SessionType
<1>2. t = Sessions!Cookie(u)
  BY <1>1 DEF Sessions!AutoCookie, Sessions!MarkDirty
<1> HIDE DEF u
<1>3. Same(t, u) /\ Told(t, u) /\ t.data = u.data /\ t.dirty = u.dirty
  BY <1>1, <1>2, CookieFields
<1> QED
  BY <1>1, <1>3 DEF Same, Told

(* What is saved is the data, with the time, the age and the device.       *)
LEMMA StampFields ==
  ASSUME SessionTypes, NEW s \in Sessions!SessionType, NEW d, d = Sessions!Stamped(s)
  PROVE  /\ s.data = Sessions!Null => d = Sessions!Null
         /\ s.data # Sessions!Null =>
              /\ d \in Sessions!Payload /\ d.v = s.data.v /\ d.stime = clock
              /\ d.born = (IF conf.absolute > 0 /\ s.data.born = 0 THEN clock ELSE s.data.born)
              /\ conf.bind => d.bind = s.device
<1>1. CASE s.data = Sessions!Null
  BY <1>1 DEF Sessions!Stamped
<1>2. CASE s.data # Sessions!Null
  <2>1. s.data \in Sessions!Payload /\ s.device \in 0..2
    BY <1>2, ObjectFields
  <2>2. clock \in 0..conf.horizon
    BY SessionAssumed DEF SessionTypes, Sessions!SessionTypeOK
  <2> DEFINE born == IF conf.absolute > 0 /\ s.data.born = 0 THEN clock ELSE s.data.born
             bind == IF conf.bind THEN s.device ELSE s.data.bind
  <2>3. d = [s.data EXCEPT !.stime = clock, !.born = born, !.bind = bind]
    BY <1>2 DEF Sessions!Stamped, Sessions!Fingerprint
  <2>4. born \in 0..conf.horizon /\ bind \in 0..2
    BY <2>1, <2>2, PayloadFields
  <2>5. /\ d \in Sessions!Payload /\ d.v = s.data.v /\ d.stime = clock /\ d.born = born /\ d.bind = bind
    <3> HIDE DEF born, bind
    <3> QED
      BY <2>1, <2>2, <2>3, <2>4 DEF Sessions!Payload
  <2> QED
    BY <1>2, <2>5
<1> QED
  BY <1>1, <1>2

LEMMA SavedFields ==
  ASSUME SessionTypes, NEW s \in Sessions!SessionType, NEW t, t = Sessions!Saved(s, TRUE)
  PROVE  /\ Same(t, s) /\ t.data = Sessions!Stamped(s) /\ ~t.dirty
         /\ IF s.sent THEN t.sent /\ t.out = s.out ELSE Told(t, s)
<1> DEFINE d == Sessions!Stamped(s)
           u == [s EXCEPT !.data = d, !.dirty = FALSE]
<1>1. d \in Sessions!Payload \cup {Sessions!Null}
  BY StampFields
<1> HIDE DEF d
<1>2. /\ u \in Sessions!SessionType /\ u.at = s.at /\ u.id = s.id /\ u.device = s.device
      /\ u.new = s.new /\ u.ended = s.ended /\ u.data = d /\ ~u.dirty
      /\ u.out = s.out /\ u.sent = s.sent
  BY <1>1 DEF Sessions!SessionType
<1>3. t = IF ~u.sent THEN Sessions!Cookie(u) ELSE u
  BY DEF Sessions!Saved, d
<1> HIDE DEF u
<1>4. CASE s.sent
  BY <1>2, <1>3, <1>4 DEF Same, d
<1>5. CASE ~s.sent
  <2>1. t = Sessions!Cookie(u)
    BY <1>2, <1>3, <1>5
  <2>2. Same(t, u) /\ Told(t, u) /\ t.data = u.data /\ t.dirty = u.dirty
    BY <1>2, <2>1, CookieFields
  <2> QED
    BY <1>2, <1>5, <2>2 DEF Same, Told, d
<1> QED
  BY <1>4, <1>5

LEMMA ClearedFields ==
  ASSUME Structured, ids < conf.maxIds, NEW s \in Sessions!SessionType, NEW t, t = Sessions!Cleared(s)
  PROVE  /\ t \in Sessions!SessionType /\ t.at = s.at /\ t.id = ids + 1 /\ t.device = s.device
         /\ t.new /\ t.ended = s.ended /\ t.data = Sessions!Null /\ ~t.dirty
         /\ ~s.ended => t.sent /\ t.out = ids + 1
         /\ t.out \in {s.out, ids + 1}
<1> DEFINE u == [s EXCEPT !.data = Sessions!Null, !.id = ids + 1, !.new = TRUE, !.dirty = FALSE]
<1>1. ids + 1 \in Sessions!Ids
  BY SessionAssumed DEF Structured, SessionTypes, Sessions!SessionTypeOK
<1>2. /\ u \in Sessions!SessionType /\ u.at = s.at /\ u.id = ids + 1 /\ u.device = s.device
      /\ u.new /\ u.ended = s.ended /\ u.data = Sessions!Null /\ ~u.dirty /\ u.out = s.out
  BY <1>1 DEF Sessions!SessionType
<1>3. t = Sessions!Cookie(u)
  BY DEF Sessions!Cleared
<1> HIDE DEF u
<1>4. Same(t, u) /\ Told(t, u) /\ t.data = u.data /\ t.dirty = u.dirty
  BY <1>2, <1>3, CookieFields
<1> QED
  BY <1>2, <1>4 DEF Same, Told

LEMMA SessionFields ==
  ASSUME Structured
  PROVE  /\ conf \in Installations /\ ids \in Nat /\ ids <= conf.maxIds /\ writes \in Nat /\ writes <= conf.maxWrites
         /\ jar \in Nat /\ jar <= ids /\ jar \in Sessions!Ids
         /\ clock \in Nat /\ clock > 0 /\ clock <= conf.horizon /\ excused \in BOOLEAN
         /\ req \in [Requests -> Sessions!SessionType]
         /\ records \in [Sessions!Ids -> [data: Sessions!Payload \cup {Sessions!Null}, until: Nat]]
         /\ kept \in KeptType /\ kept.value \in 0..conf.maxWrites /\ kept.used \in Nat /\ kept.since \in Nat
         /\ kept.used <= clock /\ kept.since <= clock
         /\ \A i \in Sessions!Ids : /\ records[i].data \in Sessions!Payload \cup {Sessions!Null}
                                    /\ records[i].until \in Nat /\ records[i].data.v \in Int
<1>1. Sessions!SessionTypeOK /\ kept \in KeptType /\ kept.used <= clock /\ kept.since <= clock
  BY DEF Structured, SessionTypes
<1>2. conf \in Installations /\ conf.horizon \in Nat /\ Sessions!Ids = 0..conf.maxIds
      /\ conf.maxIds \in Nat /\ conf.maxWrites \in Nat
  BY <1>1, SessionAssumed DEF Sessions!SessionTypeOK
<1>3. kept.value \in 0..conf.maxWrites /\ kept.used \in Nat /\ kept.since \in Nat
  BY <1>1, <1>2 DEF KeptType
<1>4. \A i \in Sessions!Ids : /\ records[i].data \in Sessions!Payload \cup {Sessions!Null}
                              /\ records[i].until \in Nat
  BY <1>1 DEF Sessions!SessionTypeOK
<1>5. \A i \in Sessions!Ids : records[i].data.v \in Int
  <2>1. \A d \in Sessions!Payload \cup {Sessions!Null} : d.v \in Int
    BY <1>2, PayloadFields
  <2> QED
    BY <1>4, <2>1
<1> QED
  BY <1>1, <1>2, <1>3, <1>4, <1>5 DEF Sessions!SessionTypeOK

(* The record that a save writes.                                          *)
LEMMA WrittenFields ==
  ASSUME Structured, NEW r \in Requests, Sessions!Running(r), NEW n, n = Sessions!Written(req[r])
  PROVE  /\ n \in [Sessions!Ids -> [data: Sessions!Payload \cup {Sessions!Null}, until: Nat]]
         /\ n[req[r].id] = [data |-> Sessions!Stamped(req[r]), until |-> clock + conf.ttl]
         /\ \A i \in Sessions!Ids : i # req[r].id => n[i] = records[i]
         /\ req[r].id \in Sessions!Ids /\ req[r].id > 0 /\ req[r].id <= ids
         /\ WellSaved(n[req[r].id]) /\ Known(req[r].id, n[req[r].id].data.v)
<1> DEFINE s == req[r]
           d == Sessions!Stamped(s)
<1>1. s \in Sessions!SessionType /\ s.at = "run" /\ s.id \in Sessions!Ids
  BY SessionFields, ObjectFields DEF Sessions!Running
<1>2. /\ s.data = Sessions!Null => d = Sessions!Null
      /\ s.data # Sessions!Null =>
           /\ d \in Sessions!Payload /\ d.v = s.data.v /\ d.stime = clock
           /\ d.born = (IF conf.absolute > 0 /\ s.data.born = 0 THEN clock ELSE s.data.born)
  BY <1>1, StampFields DEF Structured
<1>3. /\ s.id > 0 /\ s.id <= ids /\ Known(s.id, s.data.v)
      /\ s.data # Sessions!Null => s.data.born <= clock
  BY <1>1 DEF Structured, ObjectWell
<1> HIDE DEF d
<1>4. n = [records EXCEPT ![s.id] = [data |-> d, until |-> clock + conf.ttl]]
  BY DEF Sessions!Written, d
<1>5. clock + conf.ttl \in Nat /\ d \in Sessions!Payload \cup {Sessions!Null}
  <2>1. clock \in Nat /\ conf \in Installations
    BY SessionFields
  <2>2. conf.ttl \in Nat
    BY <2>1, SessionAssumed
  <2> QED
    BY <1>2, <2>1, <2>2
<1>6. [data |-> d, until |-> clock + conf.ttl] \in [data: Sessions!Payload \cup {Sessions!Null}, until: Nat]
  BY <1>5
<1>7. /\ n \in [Sessions!Ids -> [data: Sessions!Payload \cup {Sessions!Null}, until: Nat]]
      /\ n[s.id] = [data |-> d, until |-> clock + conf.ttl]
      /\ \A i \in Sessions!Ids : i # s.id => n[i] = records[i]
  BY <1>1, <1>4, <1>6, SessionFields
<1>8. n[s.id].data = d /\ n[s.id].until = clock + conf.ttl
  BY <1>7
<1>9. WellSaved(n[s.id])
  <2>1. CASE d = Sessions!Null
    BY <1>8, <2>1 DEF WellSaved
  <2>2. CASE d # Sessions!Null
    <3>1. /\ s.data # Sessions!Null /\ d.stime = clock /\ (conf.absolute > 0 => d.born # 0)
          /\ d.born <= clock
      BY <1>2, <1>3, <2>2, SessionFields
    <3> QED
      BY <1>8, <3>1, SessionFields DEF WellSaved
  <2> QED
    BY <2>1, <2>2
<1>10. d.v = s.data.v
  BY <1>2
<1> QED
  BY <1>1, <1>3, <1>7, <1>8, <1>9, <1>10 DEF d

(* What a step of one request keeps of the structure.                      *)
LEMMA StructureStep ==
  ASSUME Structured, NEW r \in Requests, NEW t \in Sessions!SessionType, req' = [req EXCEPT ![r] = t],
         conf' = conf, clock' = clock, dead' = dead,
         ids' \in Nat, ids <= ids', ids' <= conf.maxIds,
         writes' \in Nat, writes <= writes', writes' <= conf.maxWrites,
         jar' \in Nat, jar' <= ids', excused' \in BOOLEAN,
         kept' \in KeptType, kept'.used <= clock, kept'.since <= clock,
         records' \in [Sessions!Ids -> [data: Sessions!Payload \cup {Sessions!Null}, until: Nat]],
         \A i \in Sessions!Ids : \/ records'[i] = records[i]
                                 \/ /\ i > 0 /\ i <= ids
                                    /\ WellSaved(records'[i]) /\ Known(i, records'[i].data.v),
         t.at # "off" => t.id > 0 /\ t.id <= ids' /\ t.data.v <= writes' /\ <<t.id, t.data.v>> \notin dead,
         t.data # Sessions!Null => t.data.born <= clock,
         t.out <= ids',
         t.at # "run" => t.data = Sessions!Null
  PROVE  Structured'
<1>1. /\ ids \in Nat /\ writes \in Nat /\ Sessions!Ids = 0..conf.maxIds /\ conf.maxIds \in Nat
      /\ conf.maxWrites \in Nat /\ conf \in Installations
  BY SessionFields, SessionAssumed
<1>2. req' \in [Requests -> Sessions!SessionType] /\ req'[r] = t /\ \A q \in Requests \ {r} : req'[q] = req[q]
  BY SessionFields
<1>4. Sessions!Ids' = Sessions!Ids /\ Sessions!Payload' = Sessions!Payload /\ KeptType' = KeptType
  BY DEF Sessions!Ids, Sessions!Payload, KeptType
<1>8. Sessions!SessionType' = Sessions!SessionType
  BY <1>4 DEF Sessions!SessionType, Sessions!Null
<1>3. SessionTypes'
  <2>1. /\ jar' \in 0..ids' /\ ids' \in 0..conf.maxIds /\ writes' \in 0..conf.maxWrites
        /\ clock \in 1..conf.horizon /\ dead \subseteq Sessions!Ids \X (1..conf.maxWrites)
    BY DEF Structured, SessionTypes, Sessions!SessionTypeOK
  <2>2. Sessions!SessionTypeOK'
    BY <1>1, <1>2, <1>4, <1>8, <2>1 DEF Sessions!SessionTypeOK, Sessions!Null
  <2> QED
    BY <1>4, <2>2 DEF SessionTypes
<1>5. StoreWell'
  <2>1. ASSUME NEW i \in Sessions!Ids
        PROVE  /\ WellSaved(records[i])' /\ records'[i].data.v <= writes' /\ <<i, records'[i].data.v>> \notin dead
               /\ i = 0 \/ i > ids' => records'[i] = Sessions!NoRecord
    <3>1. /\ WellSaved(records[i]) /\ Known(i, records[i].data.v)
          /\ i = 0 \/ i > ids => records[i] = Sessions!NoRecord
      BY DEF Structured, StoreWell
    <3>2. WellSaved(records'[i]) /\ Known(i, records'[i].data.v)
      BY <3>1
    <3>3. WellSaved(records[i])'
      BY <3>2 DEF WellSaved, Sessions!Null
    <3>4. records'[i].data.v \in Int
      <4>1. records'[i].data \in Sessions!Payload \cup {Sessions!Null}
        OBVIOUS
      <4> QED
        BY <1>1, <4>1, PayloadFields
    <3> QED
      BY <1>1, <3>1, <3>2, <3>3, <3>4 DEF Known
  <2> QED
    BY <1>4, <2>1 DEF StoreWell, Known, Sessions!NoRecord, Sessions!Null
<1>6. DeadKnown'
  BY <1>1, <1>4 DEF Structured, DeadKnown
<1>7. \A q \in Requests : ObjectWell(q)'
  <2>1. ObjectWell(r)'
    BY <1>2 DEF ObjectWell, Known, Sessions!Null
  <2>2. ASSUME NEW q \in Requests \ {r} PROVE ObjectWell(q)'
    <3>1. ObjectWell(q) /\ req'[q] = req[q] /\ req[q] \in Sessions!SessionType
      BY <1>2, SessionFields DEF Structured
    <3>2. req[q].id \in Nat /\ req[q].out \in Nat /\ req[q].data.v \in Int
      <4>1. req[q].id \in Sessions!Ids /\ req[q].out \in Sessions!Ids /\ req[q].data \in Sessions!Payload \cup {Sessions!Null}
        BY <3>1, ObjectFields
      <4> QED
        BY <1>1, <4>1, PayloadFields
    <3> QED
      BY <1>1, <3>1, <3>2 DEF ObjectWell, Known, Sessions!Null
  <2> QED
    BY <2>1, <2>2
<1> QED
  BY <1>3, <1>5, <1>6, <1>7 DEF Structured

LEMMA RunsAlone ==
  ASSUME SessionInv, ~conf.overlap, NEW r \in Requests, req[r].at # "off"
  PROVE  /\ \A q \in Requests \ {r} : req[q].at = "off"
         /\ Sends(r) /\ Copies(r) /\ Holds(r)
BY DEF SessionInv, Orderly, OneAtATime

LEMMA OrderStep ==
  ASSUME req \in [Requests -> Sessions!SessionType], NEW r \in Requests, NEW t, req' = [req EXCEPT ![r] = t],
         \A q \in Requests \ {r} : req[q].at = "off",
         t.at # "off" => Sends(r)' /\ Copies(r)' /\ Holds(r)',
         t.at = "off" /\ ~excused' => Recorded(jar)'
  PROVE  Orderly'
<1>1. req'[r] = t /\ \A q \in Requests \ {r} : req'[q].at = "off"
  OBVIOUS
<1>2. OneAtATime'
  BY <1>1 DEF OneAtATime
<1>3. Resting'
  BY <1>1 DEF Resting
<1>4. \A q \in Requests : (req[q].at # "off" => Sends(q) /\ Copies(q) /\ Holds(q))'
  BY <1>1
<1> QED
  BY <1>2, <1>3, <1>4 DEF Orderly

(* The object is changed and marked dirty, and sends its cookie.           *)
LEMMA ChangeStep ==
  ASSUME SessionInv, NEW r \in Requests, Sessions!Running(r), NEW u \in Sessions!SessionType,
         u.at = "run", u.device = req[r].device, u.ended = req[r].ended,
         req' = [req EXCEPT ![r] = Sessions!AutoCookie(Sessions!MarkDirty(u))],
         UNCHANGED <<jar, conf, clock, dead>>,
         ids' \in Nat, ids <= ids', ids' <= conf.maxIds,
         writes' \in Nat, writes <= writes', writes' <= conf.maxWrites, excused' \in BOOLEAN,
         kept' \in KeptType, kept'.used <= clock, kept'.since <= clock, kept'.device = kept.device,
         records' \in [Sessions!Ids -> [data: Sessions!Payload \cup {Sessions!Null}, until: Nat]],
         \A i \in Sessions!Ids : \/ records'[i] = records[i]
                                 \/ i > 0 /\ i <= ids /\ records'[i] = Sessions!NoRecord,
         u.id > 0, u.id <= ids', u.data.v <= writes', <<u.id, u.data.v>> \notin dead,
         u.data # Sessions!Null => u.data.born <= clock, u.out <= ids,
         ~conf.overlap /\ ~excused' =>
            /\ u.data # Sessions!Null /\ u.data.v = kept'.value
            /\ conf.absolute > 0 /\ u.data.born # 0 => u.data.born >= kept'.since
  PROVE  SessionInv'
<1> DEFINE t == Sessions!AutoCookie(Sessions!MarkDirty(u))
<1>1. Same(t, u) /\ Told(t, u) /\ t.data = u.data /\ t.dirty
  BY DirtyFields
<1>2. req' = [req EXCEPT ![r] = t]
  OBVIOUS
<1> HIDE DEF t
<1>3. Structured /\ req \in [Requests -> Sessions!SessionType] /\ jar \in Nat /\ jar <= ids /\ ids \in Nat /\ writes \in Nat
  BY SessionFields DEF SessionInv
<1>4. \A i \in Sessions!Ids : \/ records'[i] = records[i]
                              \/ /\ i > 0 /\ i <= ids
                                 /\ WellSaved(records'[i]) /\ Known(i, records'[i].data.v)
  <2>1. ASSUME NEW i \in Sessions!Ids, i > 0, i <= ids, records'[i] = Sessions!NoRecord
        PROVE  WellSaved(records'[i]) /\ Known(i, records'[i].data.v)
    <3>1. records'[i].data = Sessions!Null /\ records'[i].data.v = -1
      BY <2>1, PayloadFields DEF Sessions!NoRecord
    <3>2. <<i, -1>> \notin dead
      BY <1>3 DEF Structured, DeadKnown
    <3> QED
      BY <1>3, <3>1, <3>2 DEF WellSaved, Known
  <2> QED
    BY <2>1
<1>7. t \in Sessions!SessionType /\ t.at = "run" /\ t.id = u.id /\ t.data = u.data /\ t.out \in {u.id, u.out}
  BY <1>1 DEF Same, Told
<1>5. Structured'
  <2>1. /\ t.at # "off" => t.id > 0 /\ t.id <= ids' /\ t.data.v <= writes' /\ <<t.id, t.data.v>> \notin dead
        /\ t.at # "run" => t.data = Sessions!Null
        /\ t.data # Sessions!Null => t.data.born <= clock
        /\ t.out <= ids'
        /\ jar' \in Nat /\ jar' <= ids' /\ conf' = conf /\ clock' = clock /\ dead' = dead
    <3>1. u.out \in Nat
      BY <1>3, ObjectFields, SessionAssumed, SessionFields
    <3> QED
      BY <1>3, <1>7, <3>1
  <2> QED
    BY <1>2, <1>3, <1>4, <1>7, <2>1, StructureStep
<1>6. ASSUME ~conf.overlap PROVE Orderly'
  <2>1. /\ \A q \in Requests \ {r} : req[q].at = "off"
        /\ Sends(r)
    BY <1>6, RunsAlone DEF Sessions!Running
  <2>2. req'[r] = t
    BY <1>2, <1>3
  <2>3. Sends(r)'
    BY <1>1, <2>1, <2>2 DEF Sends, Same, Told
  <2>4. Copies(r)' /\ Holds(r)'
    BY <1>1, <1>6, <2>2 DEF Copies, Holds, Same, Sessions!Null
  <2> QED
    BY <1>2, <1>3, <1>7, <2>1, <2>3, <2>4, OrderStep
<1> QED
  BY <1>5, <1>6 DEF SessionInv

(* An object under way, and what the application left in it.               *)
LEMMA UnderWay ==
  ASSUME SessionInv, NEW r \in Requests, Sessions!Running(r)
  PROVE  /\ req[r] \in Sessions!SessionType /\ req[r].at = "run"
         /\ req[r].id \in Sessions!Ids /\ req[r].id > 0 /\ req[r].id <= ids /\ req[r].data.v <= writes
         /\ req[r].out \in Nat /\ req[r].out <= ids
         /\ req[r].data \in Sessions!Payload \cup {Sessions!Null}
         /\ req[r].data.v \in Int /\ <<req[r].id, req[r].data.v>> \notin dead
         /\ req[r].data # Sessions!Null => /\ req[r].data \in Sessions!Payload /\ req[r].data.v \in Nat
                                          /\ req[r].data.born <= clock
<1>1. Structured /\ conf \in Installations
  BY SessionFields DEF SessionInv
<1>2. req[r] \in Sessions!SessionType /\ req[r].at = "run"
  BY <1>1, SessionFields DEF Sessions!Running
<1>3. /\ req[r].id \in Sessions!Ids /\ req[r].id > 0 /\ req[r].id <= ids /\ req[r].data.v <= writes
      /\ req[r].data \in Sessions!Payload \cup {Sessions!Null} /\ <<req[r].id, req[r].data.v>> \notin dead
      /\ req[r].data # Sessions!Null => req[r].data.born <= clock
      /\ req[r].out \in Sessions!Ids /\ req[r].out <= ids
  BY <1>1, <1>2, ObjectFields DEF Structured, ObjectWell, Known
<1>4. conf.maxWrites \in Nat /\ req[r].out \in Nat
  BY <1>1, <1>3, SessionAssumed
<1> QED
  BY <1>2, <1>3, <1>4, PayloadFields

LEMMA LeftFields ==
  ASSUME SessionInv, NEW v \in 0..conf.maxWrites, NEW k, k = [kept EXCEPT !.value = v, !.used = clock]
  PROVE  /\ k \in KeptType /\ k.used <= clock /\ k.since <= clock
         /\ k.value = v /\ k.used = clock /\ k.since = kept.since /\ k.device = kept.device
<1>1. kept \in KeptType /\ kept.since <= clock /\ clock \in Nat /\ clock <= conf.horizon
  BY SessionFields DEF SessionInv
<1>2. clock \in 0..conf.horizon
  <2>1. conf.horizon \in Nat
    BY SessionFields, SessionAssumed DEF SessionInv
  <2> QED
    BY <1>1, <2>1
<1>3. k \in KeptType /\ k.value = v /\ k.used = clock /\ k.since = kept.since /\ k.device = kept.device
  BY ONLY <1>1, <1>2, v \in 0..conf.maxWrites, k = [kept EXCEPT !.value = v, !.used = clock] DEF KeptType
<1> QED
  BY <1>1, <1>3

LEMMA SessionSetStep ==
  ASSUME SessionInv, NEW r \in Requests, Sessions!Set(r)
  PROVE  SessionInv'
<1> DEFINE s == req[r]
           u == [s EXCEPT !.data.v = writes + 1]
<1>1. /\ Sessions!Running(r) /\ s.data # Sessions!Null /\ writes < conf.maxWrites
      /\ req' = [req EXCEPT ![r] = Sessions!AutoCookie(Sessions!MarkDirty(u))]
      /\ writes' = writes + 1 /\ kept' = [kept EXCEPT !.value = writes + 1, !.used = clock]
      /\ UNCHANGED <<records, jar, conf, clock, ids, dead, excused>>
  BY DEF Sessions!Set, Sessions!Loaded, Sessions!Put, Sessions!Leave
<1>2. /\ s \in Sessions!SessionType /\ s.at = "run" /\ s.id > 0 /\ s.id <= ids /\ s.id \in Sessions!Ids
      /\ s.data \in Sessions!Payload /\ s.data.born <= clock /\ s.out <= ids
  BY <1>1, UnderWay
<1>3. /\ ids \in Nat /\ ids <= conf.maxIds /\ writes \in Nat /\ conf.maxWrites \in Nat /\ excused \in BOOLEAN
      /\ records \in [Sessions!Ids -> [data: Sessions!Payload \cup {Sessions!Null}, until: Nat]]
  <2>1. Structured /\ conf \in Installations
    BY SessionFields DEF SessionInv
  <2> QED
    BY <2>1, SessionFields, SessionAssumed
<1>4. writes + 1 \in 0..conf.maxWrites
  BY <1>1, <1>3
<1>5. /\ u \in Sessions!SessionType /\ u.at = "run" /\ u.id = s.id /\ u.device = s.device /\ u.ended = s.ended /\ u.out = s.out
      /\ u.data.v = writes + 1 /\ u.data.born = s.data.born /\ u.data # Sessions!Null
  <2> DEFINE d == [s.data EXCEPT !.v = writes + 1]
  <2>1. d \in Sessions!Payload /\ d.v = writes + 1 /\ d.born = s.data.born
    BY <1>2, <1>4 DEF Sessions!Payload
  <2>2. u = [s EXCEPT !.data = d]
    OBVIOUS
  <2>3. d # Sessions!Null
    BY <2>1, PayloadFields
  <2> HIDE DEF d, u
  <2> QED
    BY <1>2, <2>1, <2>2, <2>3 DEF Sessions!SessionType
<1> HIDE DEF u
<1>6. <<u.id, u.data.v>> \notin dead
  BY <1>2, <1>3, <1>5 DEF SessionInv, Structured, DeadKnown
<1>7. /\ kept' \in KeptType /\ kept'.used <= clock /\ kept'.since <= clock /\ kept'.device = kept.device
      /\ kept'.value = writes + 1 /\ kept'.since = kept.since
  BY <1>1, <1>4, LeftFields
<1>8. ~conf.overlap /\ ~excused' =>
        /\ u.data # Sessions!Null /\ u.data.v = kept'.value
        /\ conf.absolute > 0 /\ u.data.born # 0 => u.data.born >= kept'.since
  <2>1. ASSUME ~conf.overlap PROVE Copies(r)
    BY <1>2, <2>1, RunsAlone
  <2> QED
    BY <1>1, <1>5, <1>7, <2>1 DEF Copies, Sessions!Loaded
<1> QED
  <2>1. /\ u.device = req[r].device /\ u.ended = req[r].ended /\ excused' \in BOOLEAN /\ u.out <= ids
        /\ ids' \in Nat /\ ids <= ids' /\ ids' <= conf.maxIds
        /\ writes' \in Nat /\ writes <= writes' /\ writes' <= conf.maxWrites
        /\ records' \in [Sessions!Ids -> [data: Sessions!Payload \cup {Sessions!Null}, until: Nat]]
        /\ \A i \in Sessions!Ids : \/ records'[i] = records[i]
                                   \/ i > 0 /\ i <= ids /\ records'[i] = Sessions!NoRecord
        /\ u.id > 0 /\ u.id <= ids' /\ u.data.v <= writes' /\ u.data.born <= clock
    BY <1>1, <1>2, <1>3, <1>5
  <2> QED
    BY <1>1, <1>5, <1>6, <1>7, <1>8, <2>1, ChangeStep

LEMMA SessionBasics ==
  ASSUME SessionInv
  PROVE  /\ Structured /\ conf \in Installations
         /\ ids \in Nat /\ ids <= conf.maxIds /\ conf.maxIds \in Nat /\ Sessions!Ids = 0..conf.maxIds
         /\ writes \in Nat /\ writes <= conf.maxWrites /\ conf.maxWrites \in Nat
         /\ excused \in BOOLEAN /\ jar \in Nat /\ jar <= ids /\ jar \in Sessions!Ids
         /\ clock \in Nat /\ clock > 0 /\ req \in [Requests -> Sessions!SessionType]
         /\ records \in [Sessions!Ids -> [data: Sessions!Payload \cup {Sessions!Null}, until: Nat]]
         /\ kept \in KeptType /\ kept.used <= clock /\ kept.since <= clock
<1>1. Structured
  BY DEF SessionInv
<1> QED
  BY <1>1, SessionFields, SessionAssumed

LEMMA SessionDelStep ==
  ASSUME SessionInv, NEW r \in Requests, Sessions!Del(r)
  PROVE  SessionInv'
<1> DEFINE s == req[r]
           d == [s.data EXCEPT !.v = 0]
           u == [s EXCEPT !.data.v = 0]
<1>1. /\ Sessions!Running(r) /\ s.data # Sessions!Null
      /\ req' = [req EXCEPT ![r] = Sessions!AutoCookie(Sessions!MarkDirty(u))]
      /\ kept' = [kept EXCEPT !.value = 0, !.used = clock]
      /\ UNCHANGED <<records, jar, conf, clock, ids, writes, dead, excused>>
  BY DEF Sessions!Del, Sessions!Loaded, Sessions!Unset, Sessions!Leave
<1>2. /\ s \in Sessions!SessionType /\ s.at = "run" /\ s.id > 0 /\ s.id <= ids /\ s.id \in Sessions!Ids
      /\ s.data \in Sessions!Payload /\ s.data.born <= clock /\ s.out <= ids
  BY <1>1, UnderWay
<1>3. 0 \in 0..conf.maxWrites
  BY SessionBasics
<1>4. d \in Sessions!Payload /\ d.v = 0 /\ d.born = s.data.born /\ d # Sessions!Null
  <2>1. d \in Sessions!Payload /\ d.v = 0 /\ d.born = s.data.born
    BY <1>2, <1>3 DEF Sessions!Payload
  <2> QED
    BY <2>1, PayloadFields
<1>5. /\ u \in Sessions!SessionType /\ u.at = "run" /\ u.id = s.id /\ u.device = s.device /\ u.ended = s.ended /\ u.out = s.out
      /\ u.data = d
  <2>1. u = [s EXCEPT !.data = d]
    OBVIOUS
  <2> HIDE DEF d, u
  <2> QED
    BY <1>2, <1>4, <2>1 DEF Sessions!SessionType
<1> HIDE DEF u, d
<1>6. <<u.id, u.data.v>> \notin dead
  BY <1>2, <1>4, <1>5 DEF SessionInv, Structured, DeadKnown
<1>7. /\ kept' \in KeptType /\ kept'.used <= clock /\ kept'.since <= clock /\ kept'.device = kept.device
      /\ kept'.value = 0 /\ kept'.since = kept.since
  BY <1>1, <1>3, LeftFields
<1>8. ~conf.overlap /\ ~excused' =>
        /\ u.data # Sessions!Null /\ u.data.v = kept'.value
        /\ conf.absolute > 0 /\ u.data.born # 0 => u.data.born >= kept'.since
  <2>1. ASSUME ~conf.overlap PROVE Copies(r)
    BY <1>2, <2>1, RunsAlone
  <2> QED
    BY <1>1, <1>4, <1>5, <1>7, <2>1 DEF Copies, Sessions!Loaded
<1> QED
  <2>1. /\ u.device = req[r].device /\ u.ended = req[r].ended /\ excused' \in BOOLEAN /\ u.out <= ids
        /\ ids' \in Nat /\ ids <= ids' /\ ids' <= conf.maxIds
        /\ writes' \in Nat /\ writes <= writes' /\ writes' <= conf.maxWrites
        /\ records' \in [Sessions!Ids -> [data: Sessions!Payload \cup {Sessions!Null}, until: Nat]]
        /\ \A i \in Sessions!Ids : \/ records'[i] = records[i]
                                   \/ i > 0 /\ i <= ids /\ records'[i] = Sessions!NoRecord
        /\ u.id > 0 /\ u.id <= ids' /\ u.data.v <= writes' /\ u.data.born <= clock
    BY <1>1, <1>2, <1>4, <1>5, SessionBasics
  <2> QED
    BY <1>1, <1>5, <1>6, <1>7, <1>8, <2>1, ChangeStep

LEMMA SessionClearStep ==
  ASSUME SessionInv, NEW r \in Requests, Sessions!Clear(r)
  PROVE  SessionInv'
<1> DEFINE s == req[r]
           u == [s EXCEPT !.data = Sessions!Empty]
<1>1. /\ Sessions!Running(r)
      /\ req' = [req EXCEPT ![r] = Sessions!AutoCookie(Sessions!MarkDirty(u))]
      /\ kept' = [kept EXCEPT !.value = 0, !.used = clock, !.since = clock]
      /\ UNCHANGED <<records, jar, conf, clock, ids, writes, dead, excused>>
  BY DEF Sessions!Clear
<1>2. s \in Sessions!SessionType /\ s.at = "run" /\ s.id > 0 /\ s.id <= ids /\ s.id \in Sessions!Ids /\ s.out <= ids
  BY <1>1, UnderWay
<1>3. /\ Sessions!Empty \in Sessions!Payload /\ Sessions!Empty # Sessions!Null
      /\ Sessions!Empty.v = 0 /\ Sessions!Empty.born = 0
  BY SessionBasics, PayloadFields
<1>4. /\ u \in Sessions!SessionType /\ u.at = "run" /\ u.id = s.id /\ u.device = s.device /\ u.ended = s.ended /\ u.out = s.out
      /\ u.data = Sessions!Empty
  BY <1>2, <1>3 DEF Sessions!SessionType
<1> HIDE DEF u
<1>5. <<u.id, u.data.v>> \notin dead
  BY <1>2, <1>3, <1>4 DEF SessionInv, Structured, DeadKnown
<1>6. /\ kept' \in KeptType /\ kept'.used <= clock /\ kept'.since <= clock /\ kept'.device = kept.device
      /\ kept'.value = 0
  <2>1. kept \in KeptType /\ clock \in 0..conf.horizon /\ 0 \in 0..conf.maxWrites
    BY SessionBasics DEF Structured, SessionTypes, Sessions!SessionTypeOK
  <2>2. kept' \in KeptType /\ kept'.value = 0 /\ kept'.used = clock /\ kept'.since = clock /\ kept'.device = kept.device
    BY ONLY <1>1, <2>1 DEF KeptType
  <2> QED
    BY <2>2, SessionBasics
<1> QED
  <2>1. /\ u.device = req[r].device /\ u.ended = req[r].ended /\ excused' \in BOOLEAN /\ u.out <= ids
        /\ ids' \in Nat /\ ids <= ids' /\ ids' <= conf.maxIds
        /\ writes' \in Nat /\ writes <= writes' /\ writes' <= conf.maxWrites
        /\ records' \in [Sessions!Ids -> [data: Sessions!Payload \cup {Sessions!Null}, until: Nat]]
        /\ \A i \in Sessions!Ids : \/ records'[i] = records[i]
                                   \/ i > 0 /\ i <= ids /\ records'[i] = Sessions!NoRecord
        /\ u.id > 0 /\ u.id <= ids' /\ u.data.v <= writes'
        /\ u.data # Sessions!Null /\ u.data.v = kept'.value /\ u.data.born = 0 /\ u.data.born <= clock
    BY <1>1, <1>2, <1>3, <1>4, <1>6, SessionBasics
  <2> QED
    BY <1>1, <1>4, <1>5, <1>6, <2>1, ChangeStep

LEMMA RegenerateStep ==
  ASSUME SessionInv, NEW r \in Requests, NEW deleteOld \in BOOLEAN, Sessions!RegenerateId(r, deleteOld)
  PROVE  SessionInv'
<1> DEFINE s == req[r]
           u == [s EXCEPT !.id = ids + 1, !.new = FALSE]
<1>1. /\ Sessions!Running(r) /\ ids < conf.maxIds
      /\ req' = [req EXCEPT ![r] = Sessions!AutoCookie(Sessions!MarkDirty(u))]
      /\ records' = IF deleteOld THEN [records EXCEPT ![s.id] = Sessions!NoRecord] ELSE records
      /\ ids' = ids + 1 /\ excused' = (excused \/ s.data = Sessions!Null)
      /\ UNCHANGED <<jar, conf, clock, writes, kept, dead>>
  BY DEF Sessions!RegenerateId
<1>2. /\ s \in Sessions!SessionType /\ s.at = "run" /\ s.id > 0 /\ s.id <= ids /\ s.id \in Sessions!Ids
      /\ s.data.v <= writes /\ s.data.v \in Int
      /\ s.data # Sessions!Null => s.data.born <= clock
      /\ s.out <= ids
  BY <1>1, UnderWay
<1>3. ids + 1 \in Sessions!Ids
  BY <1>1, SessionBasics
<1>4. /\ u \in Sessions!SessionType /\ u.at = "run" /\ u.id = ids + 1 /\ u.device = s.device /\ u.ended = s.ended /\ u.out = s.out
      /\ u.data = s.data
  BY <1>2, <1>3 DEF Sessions!SessionType
<1> HIDE DEF u
<1>5. <<u.id, u.data.v>> \notin dead
  BY <1>2, <1>3, <1>4, SessionBasics DEF SessionInv, Structured, DeadKnown
<1>6. /\ records' \in [Sessions!Ids -> [data: Sessions!Payload \cup {Sessions!Null}, until: Nat]]
      /\ \A i \in Sessions!Ids : \/ records'[i] = records[i]
                                 \/ i > 0 /\ i <= ids /\ records'[i] = Sessions!NoRecord
  <2>1. Sessions!NoRecord \in [data: Sessions!Payload \cup {Sessions!Null}, until: Nat]
    BY DEF Sessions!NoRecord
  <2> QED
    BY <1>1, <1>2, <2>1, SessionBasics
<1>7. ~conf.overlap /\ ~excused' =>
        /\ u.data # Sessions!Null /\ u.data.v = kept'.value
        /\ conf.absolute > 0 /\ u.data.born # 0 => u.data.born >= kept'.since
  <2>1. ASSUME ~conf.overlap PROVE Copies(r)
    BY <1>2, <2>1, RunsAlone
  <2> QED
    BY <1>1, <1>4, <2>1 DEF Copies, Sessions!Loaded
<1> QED
  <2>1. /\ u.device = req[r].device /\ u.ended = req[r].ended /\ excused' \in BOOLEAN /\ u.out <= ids
        /\ ids' \in Nat /\ ids <= ids' /\ ids' <= conf.maxIds
        /\ writes' \in Nat /\ writes <= writes' /\ writes' <= conf.maxWrites
        /\ u.id > 0 /\ u.id <= ids' /\ u.data.v <= writes'
        /\ u.data # Sessions!Null => u.data.born <= clock
        /\ kept' \in KeptType /\ kept'.used <= clock /\ kept'.since <= clock /\ kept'.device = kept.device
    BY <1>1, <1>2, <1>4, SessionBasics
  <2> QED
    BY <1>1, <1>4, <1>5, <1>6, <1>7, <2>1, ChangeStep

LEMMA SetSessionIdStep ==
  ASSUME SessionInv, NEW r \in Requests, Sessions!SetSessionId(r)
  PROVE  SessionInv'
<1> DEFINE s == req[r]
           u == [s EXCEPT !.new = FALSE]
<1>1. /\ Sessions!Running(r) /\ excused' = TRUE
      /\ req' = [req EXCEPT ![r] = Sessions!AutoCookie(Sessions!MarkDirty(u))]
      /\ UNCHANGED <<records, jar, conf, clock, ids, writes, kept, dead>>
  BY DEF Sessions!SetSessionId
<1>2. /\ s \in Sessions!SessionType /\ s.at = "run" /\ s.id > 0 /\ s.id <= ids /\ s.id \in Sessions!Ids
      /\ s.data.v <= writes /\ <<s.id, s.data.v>> \notin dead
      /\ s.data # Sessions!Null => s.data.born <= clock
      /\ s.out <= ids
  BY <1>1, UnderWay
<1>3. /\ u \in Sessions!SessionType /\ u.at = "run" /\ u.id = s.id /\ u.device = s.device /\ u.ended = s.ended /\ u.out = s.out
      /\ u.data = s.data
  BY <1>2 DEF Sessions!SessionType
<1> HIDE DEF u
<1>4. /\ u.device = req[r].device /\ u.ended = req[r].ended /\ excused' \in BOOLEAN /\ u.out <= ids
      /\ ids' \in Nat /\ ids <= ids' /\ ids' <= conf.maxIds
      /\ writes' \in Nat /\ writes <= writes' /\ writes' <= conf.maxWrites
      /\ u.id > 0 /\ u.id <= ids' /\ u.data.v <= writes' /\ <<u.id, u.data.v>> \notin dead
      /\ u.data # Sessions!Null => u.data.born <= clock
      /\ kept' \in KeptType /\ kept'.used <= clock /\ kept'.since <= clock /\ kept'.device = kept.device
      /\ records' \in [Sessions!Ids -> [data: Sessions!Payload \cup {Sessions!Null}, until: Nat]]
      /\ \A i \in Sessions!Ids : \/ records'[i] = records[i]
                                 \/ i > 0 /\ i <= ids /\ records'[i] = Sessions!NoRecord
  BY <1>1, <1>2, <1>3, SessionBasics
<1> QED
  BY <1>1, <1>3, <1>4, ChangeStep

(* A session is destroyed or has to go: its record goes, its values are    *)
(* buried with its id, and the object has a new one.                       *)
LEMMA BuryStep ==
  ASSUME SessionInv, NEW r \in Requests, req[r].at # "off", ids < conf.maxIds,
         records' = [records EXCEPT ![req[r].id] = Sessions!NoRecord], ids' = ids + 1, Sessions!Bury(r),
         NEW t \in Sessions!SessionType, req' = [req EXCEPT ![r] = t],
         UNCHANGED <<jar, conf, clock, writes, excused>>,
         t.at = "run", t.id = ids + 1, t.data \in {Sessions!Null, Sessions!Empty}, ~t.dirty,
         t.device = req[r].device, t.ended = req[r].ended, ~t.ended => t.sent /\ t.out = ids + 1,
         t.out \in {req[r].out, ids + 1},
         kept' \in KeptType, kept'.used <= clock, kept'.since <= clock, kept'.device = kept.device,
         ~conf.overlap /\ ~excused => kept'.value = 0
  PROVE  SessionInv'
<1> DEFINE id == req[r].id
           V == {records[id].data.v, req[r].data.v} \ {0, -1}
<1>1. /\ ids \in Nat /\ ids <= conf.maxIds /\ conf.maxIds \in Nat /\ Sessions!Ids = 0..conf.maxIds
      /\ writes \in Nat /\ writes <= conf.maxWrites /\ conf.maxWrites \in Nat /\ jar \in Nat /\ jar <= ids
      /\ req \in [Requests -> Sessions!SessionType] /\ conf \in Installations
      /\ records \in [Sessions!Ids -> [data: Sessions!Payload \cup {Sessions!Null}, until: Nat]]
  BY SessionBasics
<1>2. id \in Sessions!Ids /\ id > 0 /\ id <= ids /\ Known(id, req[r].data.v)
  BY <1>1, ObjectFields DEF SessionInv, Structured, ObjectWell
<1>3. req'[r] = t /\ \A q \in Requests \ {r} : req'[q] = req[q]
  BY <1>1
<1>4. /\ records'[id] = Sessions!NoRecord /\ \A i \in Sessions!Ids : i # id => records'[i] = records[i]
      /\ records' \in [Sessions!Ids -> [data: Sessions!Payload \cup {Sessions!Null}, until: Nat]]
  <2>1. Sessions!NoRecord \in [data: Sessions!Payload \cup {Sessions!Null}, until: Nat]
    BY DEF Sessions!NoRecord
  <2> QED
    BY <1>1, <1>2, <2>1
<1>5. /\ Sessions!NoRecord.data = Sessions!Null /\ Sessions!Null.v = -1 /\ Sessions!Empty.v = 0
      /\ Sessions!Empty \in Sessions!Payload /\ Sessions!Empty # Sessions!Null
      /\ Sessions!Empty.born = 0
  BY <1>1, PayloadFields DEF Sessions!NoRecord
<1>6. \A v \in V : v \in Int /\ v > 0 /\ v <= writes
  <2>1. \A d \in Sessions!Payload \cup {Sessions!Null} : d.v \in Int /\ (d.v \notin {0, -1} => d.v > 0)
    BY <1>1, PayloadFields
  <2>2. /\ records[id].data \in Sessions!Payload \cup {Sessions!Null}
        /\ req[r].data \in Sessions!Payload \cup {Sessions!Null}
    BY <1>1, <1>2, ObjectFields
  <2>3. records[id].data.v <= writes /\ req[r].data.v <= writes
    BY <1>2 DEF SessionInv, Structured, StoreWell, Known
  <2> QED
    BY <2>1, <2>2, <2>3
<1>7. IF Sessions!Alone(r) THEN dead' = dead \cup ({id} \X V) ELSE dead' = dead
  BY DEF Sessions!Bury
<1> HIDE DEF V
<1>8. /\ \A i, v : <<i, v>> \in dead' => <<i, v>> \in dead \/ (i = id /\ v \in V /\ Sessions!Alone(r))
  BY <1>7
<1>9. dead \subseteq Sessions!Ids \X (1..conf.maxWrites)
  BY DEF SessionInv, Structured, SessionTypes, Sessions!SessionTypeOK
<1>10. DeadKnown /\ \A i \in Sessions!Ids : \A v \in Int : <<i, v>> \in dead => i <= ids /\ v <= writes /\ v > 0
  BY DEF SessionInv, Structured, DeadKnown
<1>11. Sessions!Ids' = Sessions!Ids /\ Sessions!Payload' = Sessions!Payload /\ KeptType' = KeptType
  BY DEF Sessions!Ids, Sessions!Payload, KeptType
<1>12. Sessions!SessionType' = Sessions!SessionType
  BY <1>11 DEF Sessions!SessionType, Sessions!Null
<1>13. SessionTypes'
  <2>1. dead' \subseteq Sessions!Ids \X (1..conf.maxWrites)
    <3>1. V \subseteq 1..conf.maxWrites
      BY <1>1, <1>6
    <3>2. {id} \X V \subseteq Sessions!Ids \X (1..conf.maxWrites)
      BY <1>2, <3>1
    <3> QED
      BY <1>7, <1>9, <3>2
  <2>2. /\ jar' \in 0..ids' /\ ids' \in 0..conf.maxIds /\ writes' \in 0..conf.maxWrites
        /\ clock \in 1..conf.horizon /\ excused \in BOOLEAN
    BY <1>1 DEF SessionInv, Structured, SessionTypes, Sessions!SessionTypeOK
  <2>3. req' \in [Requests -> Sessions!SessionType]
    BY <1>1
  <2>4. Sessions!SessionTypeOK'
    BY <1>1, <1>4, <1>11, <1>12, <2>1, <2>2, <2>3 DEF Sessions!SessionTypeOK, Sessions!Null
  <2> QED
    BY <1>11, <2>4 DEF SessionTypes
<1>14. StoreWell'
  <2>1. ASSUME NEW i \in Sessions!Ids
        PROVE  /\ WellSaved(records[i])' /\ records'[i].data.v <= writes /\ <<i, records'[i].data.v>> \notin dead'
               /\ i = 0 \/ i > ids' => records'[i] = Sessions!NoRecord
    <3>1. /\ WellSaved(records[i]) /\ Known(i, records[i].data.v)
          /\ i = 0 \/ i > ids => records[i] = Sessions!NoRecord
      BY DEF SessionInv, Structured, StoreWell
    <3>2. CASE i = id
      <4>1. <<i, -1>> \notin dead'
        BY <1>6, <1>8, <1>10
      <4>2. records'[i].data = Sessions!Null /\ records'[i].data.v = -1
        BY <1>4, <1>5, <3>2
      <4>3. WellSaved(records[i])'
        BY <4>2 DEF WellSaved, Sessions!Null
      <4>6. -1 <= writes
        BY <1>1
      <4>4. records'[i].data.v <= writes /\ <<i, records'[i].data.v>> \notin dead'
        BY ONLY <4>1, <4>2, <4>6
      <4>5. records'[i] = Sessions!NoRecord
        BY <1>4, <3>2
      <4> QED
        BY <4>3, <4>4, <4>5
    <3>3. CASE i # id
      BY <1>1, <1>4, <1>8, <3>1, <3>3 DEF WellSaved, Sessions!Null, Known
    <3> QED
      BY <3>2, <3>3
  <2> QED
    BY <1>11, <2>1 DEF StoreWell, Known, Sessions!NoRecord, Sessions!Null
<1>15. DeadKnown'
  BY <1>1, <1>2, <1>6, <1>8, <1>10, <1>11 DEF DeadKnown
<1>16. \A q \in Requests : ObjectWell(q)'
  <2>1. ObjectWell(r)'
    <3>1. t.data.v \in {0, -1}
      BY <1>5
    <3>2. <<ids + 1, t.data.v>> \notin dead'
      BY <1>1, <1>2, <1>6, <1>8, <1>10, <3>1
    <3>3. t.data # Sessions!Null => t.data.born <= clock
      BY <1>5, SessionBasics
    <3>6. req[r].out \in Nat /\ req[r].out <= ids
      <4>1. req[r].out \in Sessions!Ids
        BY <1>1, ObjectFields
      <4> QED
        BY <1>1, <4>1 DEF SessionInv, Structured, ObjectWell
    <3>4. t.data.v <= writes /\ ids + 1 > 0 /\ ids + 1 <= ids' /\ t.out <= ids'
      BY <1>1, <3>1, <3>6
    <3>5. /\ req'[r] = t /\ t.at = "run" /\ t.id = ids + 1 /\ writes' = writes /\ clock' = clock
      BY <1>3
    <3> QED
      BY ONLY <3>2, <3>3, <3>4, <3>5 DEF ObjectWell, Known, Sessions!Null
  <2>2. ASSUME NEW q \in Requests \ {r} PROVE ObjectWell(q)'
    <3>1. ObjectWell(q) /\ req'[q] = req[q] /\ req[q] \in Sessions!SessionType
      BY <1>1, <1>3 DEF SessionInv, Structured
    <3>2. req[q].id \in Nat /\ req[q].out \in Nat
      BY <1>1, <3>1, ObjectFields
    <3>3. req[q].at # "off" => dead' = dead
      BY <1>7 DEF Sessions!Alone
    <3> QED
      BY <1>1, <3>1, <3>2, <3>3 DEF ObjectWell, Known, Sessions!Null
  <2> QED
    BY <2>1, <2>2
<1>17. ASSUME ~conf.overlap PROVE Orderly'
  <2>1. /\ \A q \in Requests \ {r} : req[q].at = "off"
        /\ Sends(r)
    BY <1>17, RunsAlone
  <2>2. Sends(r)'
    BY <1>1, <1>3, <2>1 DEF Sends
  <2>3. ~Alive(ids)'
    <3>1. records'[ids + 1] = Sessions!NoRecord
      BY <1>1, <1>2, <1>4 DEF SessionInv, Structured, StoreWell
    <3> QED
      BY <1>5, <3>1 DEF Alive, Sessions!Null
  <2>4. Copies(r)'
    BY <1>3, <1>5, <1>17, <2>3 DEF Copies, Sessions!Loaded, Sessions!Running, Sessions!Null, Sessions!Empty, Alive
  <2>5. Holds(r)'
    BY <1>3, <1>17, <2>3 DEF Holds, Recorded, Alive, Sessions!Null
  <2> QED
    BY <1>1, <2>1, <2>2, <2>4, <2>5, OrderStep
<1> QED
  BY <1>13, <1>14, <1>15, <1>16, <1>17 DEF SessionInv, Structured

LEMMA KickStep ==
  ASSUME SessionInv, NEW r \in Requests, Sessions!Kick(r)
  PROVE  SessionInv'
<1> DEFINE c == Sessions!Cleared(req[r])
           t == [c EXCEPT !.at = "run", !.data = Sessions!Empty]
<1>1. /\ req[r].at = "kick" /\ ids < conf.maxIds
      /\ records' = [records EXCEPT ![req[r].id] = Sessions!NoRecord] /\ ids' = ids + 1 /\ Sessions!Bury(r)
      /\ req' = [req EXCEPT ![r] = t] /\ UNCHANGED <<jar, conf, clock, writes, kept, excused>>
  BY DEF Sessions!Kick
<1>2. Structured /\ req[r] \in Sessions!SessionType
  BY SessionBasics
<1>3. /\ c \in Sessions!SessionType /\ c.id = ids + 1 /\ c.device = req[r].device
      /\ c.new /\ c.ended = req[r].ended /\ ~c.dirty
      /\ ~req[r].ended => c.sent /\ c.out = ids + 1
      /\ c.out \in {req[r].out, ids + 1}
  BY <1>1, <1>2, ClearedFields
<1> HIDE DEF c
<1>4. Sessions!Empty \in Sessions!Payload
  BY SessionBasics, PayloadFields
<1>5. /\ t \in Sessions!SessionType /\ t.at = "run" /\ t.id = ids + 1 /\ t.data = Sessions!Empty /\ ~t.dirty
      /\ t.device = req[r].device /\ t.ended = req[r].ended /\ (~t.ended => t.sent /\ t.out = ids + 1)
      /\ t.out \in {req[r].out, ids + 1}
  BY <1>3, <1>4 DEF Sessions!SessionType
<1> HIDE DEF t
<1>6. ~conf.overlap /\ ~excused => kept'.value = 0
  BY <1>1, RunsAlone DEF Holds
<1>7. kept' \in KeptType /\ kept'.used <= clock /\ kept'.since <= clock /\ kept'.device = kept.device
  BY <1>1, SessionBasics
<1> QED
  BY <1>1, <1>5, <1>6, <1>7, BuryStep

LEMMA DestroyStep ==
  ASSUME SessionInv, NEW r \in Requests, Sessions!Destroy(r)
  PROVE  SessionInv'
<1> DEFINE t == Sessions!Cleared(req[r])
<1>1. /\ req[r].at = "run" /\ ids < conf.maxIds
      /\ records' = [records EXCEPT ![req[r].id] = Sessions!NoRecord] /\ ids' = ids + 1 /\ Sessions!Bury(r)
      /\ req' = [req EXCEPT ![r] = t] /\ UNCHANGED <<jar, conf, clock, writes, excused>>
      /\ kept' = [kept EXCEPT !.value = 0, !.used = clock]
  BY DEF Sessions!Destroy, Sessions!Running, Sessions!Leave
<1>2. Structured /\ req[r] \in Sessions!SessionType /\ 0 \in 0..conf.maxWrites
  BY SessionBasics
<1>3. /\ t \in Sessions!SessionType /\ t.at = "run" /\ t.id = ids + 1 /\ t.device = req[r].device
      /\ t.new /\ t.ended = req[r].ended /\ t.data = Sessions!Null /\ ~t.dirty
      /\ ~req[r].ended => t.sent /\ t.out = ids + 1
      /\ t.out \in {req[r].out, ids + 1}
  BY <1>1, <1>2, ClearedFields
<1> HIDE DEF t
<1>4. /\ kept' \in KeptType /\ kept'.used <= clock /\ kept'.since <= clock /\ kept'.device = kept.device
      /\ kept'.value = 0
  BY <1>1, <1>2, LeftFields
<1> QED
  BY <1>1, <1>3, <1>4, BuryStep

(* A step of one request that buries nothing, in the structure and, with   *)
(* one request at a time, in the order of things.                          *)
LEMMA RequestStep ==
  ASSUME SessionInv, NEW r \in Requests, NEW t \in Sessions!SessionType, req' = [req EXCEPT ![r] = t],
         UNCHANGED <<conf, clock, dead, writes>>,
         ids' \in Nat, ids <= ids', ids' <= conf.maxIds,
         jar' \in Nat, jar' <= ids', excused' \in BOOLEAN,
         kept' \in KeptType, kept'.used <= clock, kept'.since <= clock,
         records' = records \/ (Sessions!Running(r) /\ records' = Sessions!Written(req[r])),
         t.at # "off" => t.id > 0 /\ t.id <= ids' /\ t.data.v <= writes /\ <<t.id, t.data.v>> \notin dead,
         t.data # Sessions!Null => t.data.born <= clock,
         t.out <= ids',
         t.at # "run" => t.data = Sessions!Null,
         ~conf.overlap =>
            /\ \A q \in Requests \ {r} : req[q].at = "off"
            /\ t.at # "off" => Sends(r)' /\ Copies(r)' /\ Holds(r)'
            /\ t.at = "off" /\ ~excused' => Recorded(jar)'
  PROVE  SessionInv'
<1>1. /\ Structured /\ ids \in Nat /\ writes \in Nat /\ writes <= conf.maxWrites
      /\ req \in [Requests -> Sessions!SessionType]
      /\ records \in [Sessions!Ids -> [data: Sessions!Payload \cup {Sessions!Null}, until: Nat]]
  BY SessionBasics
<1>2. /\ records' \in [Sessions!Ids -> [data: Sessions!Payload \cup {Sessions!Null}, until: Nat]]
      /\ \A i \in Sessions!Ids : \/ records'[i] = records[i]
                                 \/ /\ i > 0 /\ i <= ids
                                    /\ WellSaved(records'[i]) /\ Known(i, records'[i].data.v)
  <2>1. CASE records' = records
    BY <1>1, <2>1
  <2>2. CASE Sessions!Running(r) /\ records' = Sessions!Written(req[r])
    <3>1. \A n : n = Sessions!Written(req[r]) =>
            /\ n \in [Sessions!Ids -> [data: Sessions!Payload \cup {Sessions!Null}, until: Nat]]
            /\ \A i \in Sessions!Ids : i # req[r].id => n[i] = records[i]
            /\ req[r].id > 0 /\ req[r].id <= ids
            /\ WellSaved(n[req[r].id]) /\ Known(req[r].id, n[req[r].id].data.v)
      BY <1>1, <2>2, WrittenFields
    <3>2. /\ records' \in [Sessions!Ids -> [data: Sessions!Payload \cup {Sessions!Null}, until: Nat]]
          /\ \A i \in Sessions!Ids : i # req[r].id => records'[i] = records[i]
          /\ req[r].id > 0 /\ req[r].id <= ids
          /\ WellSaved(records'[req[r].id]) /\ Known(req[r].id, records'[req[r].id].data.v)
      BY <2>2, <3>1
    <3> QED
      BY <3>2
  <2> QED
    BY <2>1, <2>2
<1>3. Structured'
  <2>1. writes' \in Nat /\ writes <= writes' /\ writes' <= conf.maxWrites /\ writes' = writes
    BY <1>1
  <2>2. t.at # "off" => t.id > 0 /\ t.id <= ids' /\ t.data.v <= writes' /\ <<t.id, t.data.v>> \notin dead
    BY <2>1
  <2> QED
    BY <1>1, <1>2, <2>1, <2>2, StructureStep
<1>4. ASSUME ~conf.overlap PROVE Orderly'
  BY <1>1, <1>4, OrderStep
<1> QED
  BY <1>3, <1>4 DEF SessionInv

(* What a load finds is what was saved under the id, unless it has expired.*)
LEMMA FindFields ==
  ASSUME Structured, NEW i \in Sessions!Ids, NEW d, d = Sessions!Found(i)
  PROVE  /\ d \in Sessions!Payload /\ d # Sessions!Null
         /\ d = IF Alive(i) THEN records[i].data ELSE Sessions!Empty
         /\ d.v <= writes /\ <<i, d.v>> \notin dead /\ d.v \in Nat /\ d.stime \in Nat /\ d.born \in Nat
         /\ d.stime <= clock /\ d.born <= clock
         /\ Alive(i) => /\ records[i].until = d.stime + conf.ttl /\ d.stime > 0
                        /\ conf.absolute > 0 => d.born # 0
<1>1. /\ conf \in Installations /\ writes \in Nat /\ clock \in Nat /\ conf.horizon \in Nat /\ conf.maxWrites \in Nat
      /\ records[i].data \in Sessions!Payload \cup {Sessions!Null}
  BY SessionFields, SessionAssumed
<1>2. /\ Sessions!Empty \in Sessions!Payload /\ Sessions!Empty.v = 0
      /\ Sessions!Empty.stime = 0 /\ Sessions!Empty.born = 0
  BY <1>1, PayloadFields
<1>3. d = IF Alive(i) THEN records[i].data ELSE Sessions!Empty
  BY DEF Sessions!Found, Alive
<1>4. d \in Sessions!Payload
  BY <1>1, <1>2, <1>3 DEF Alive
<1>5. d # Sessions!Null /\ d.v \in Nat /\ d.stime \in Nat /\ d.born \in Nat
  BY <1>1, <1>4, PayloadFields
<1>6. WellSaved(records[i]) /\ Known(i, records[i].data.v)
  BY DEF Structured, StoreWell
<1>7. CASE Alive(i)
  BY <1>3, <1>4, <1>5, <1>6, <1>7 DEF WellSaved, Known, Alive
<1>8. CASE ~Alive(i)
  <2>1. <<i, 0>> \notin dead
    BY DEF Structured, DeadKnown
  <2> QED
    BY <1>1, <1>2, <1>3, <1>4, <1>5, <1>8, <2>1
<1> QED
  BY <1>7, <1>8

(* A record that stays what the application left, under the same or        *)
(* another id.                                                             *)
LEMMA RecordedKept ==
  ASSUME NEW i, NEW j, Recorded(i), records'[j] = records[i], UNCHANGED <<conf, clock>>,
         kept'.value = kept.value, kept'.used = kept.used, kept'.since = kept.since,
         kept.device \in Int, conf.bind => kept.device \in {0, kept'.device}
  PROVE  Recorded(j)'
<1>1. Sessions!TouchInterval' = Sessions!TouchInterval /\ Sessions!Grace' = Sessions!Grace
  BY DEF Sessions!TouchInterval, Sessions!Grace
<1>2. Sessions!Lapsed' <=> Sessions!Lapsed
  BY <1>1 DEF Sessions!Lapsed
<1>3. Alive(j)' <=> Alive(i)
  BY DEF Alive, Sessions!Null
<1> QED
  BY <1>1, <1>2, <1>3 DEF Recorded

(* What a save writes is what the application left.                        *)
LEMMA WrittenRecorded ==
  ASSUME SessionInv, NEW r \in Requests, Sessions!Running(r), req[r].data # Sessions!Null,
         records' = Sessions!Written(req[r]), UNCHANGED <<conf, clock>>,
         NEW i, i = req[r].id,
         kept'.value = req[r].data.v, kept'.used \in Nat, kept'.used <= clock, kept'.device = req[r].device,
         kept'.since <= clock,
         conf.absolute > 0 /\ req[r].data.born # 0 => req[r].data.born >= kept'.since
  PROVE  /\ Recorded(i)' /\ records'[i].data = Sessions!Stamped(req[r])
<1> DEFINE d == Sessions!Stamped(req[r])
<1>1. /\ Structured /\ SessionTypes /\ conf \in Installations /\ clock \in Nat
      /\ req[r] \in Sessions!SessionType
  BY SessionBasics DEF Structured
<1>2. /\ d \in Sessions!Payload /\ d.v = req[r].data.v /\ d.stime = clock
      /\ d.born = (IF conf.absolute > 0 /\ req[r].data.born = 0 THEN clock ELSE req[r].data.born)
      /\ conf.bind => d.bind = req[r].device
  BY <1>1, StampFields
<1>3. \A n : n = Sessions!Written(req[r]) => n[req[r].id] = [data |-> d, until |-> clock + conf.ttl]
  BY <1>1, WrittenFields
<1>4. records'[i] = [data |-> d, until |-> clock + conf.ttl]
  BY <1>3
<1> HIDE DEF d
<1>5. records'[i].data = d /\ records'[i].until = clock + conf.ttl
  BY <1>4
<1>6. d # Sessions!Null /\ conf.ttl \in Nat /\ conf.ttl > 0 /\ Sessions!TouchInterval \in Nat
  BY <1>1, <1>2, PayloadFields, SessionAssumed
<1>7. Sessions!TouchInterval' = Sessions!TouchInterval
  BY DEF Sessions!TouchInterval
<1>8. Alive(i)'
  BY <1>1, <1>5, <1>6 DEF Alive, Sessions!Null
<1>9. Recorded(i)'
  BY <1>1, <1>2, <1>5, <1>6, <1>7, <1>8 DEF Recorded
<1> QED
  BY <1>5, <1>9 DEF d

LEMMA BeginStep ==
  ASSUME SessionInv, NEW r \in Requests, NEW d \in conf.devices, Sessions!Begin(r, d)
  PROVE  SessionInv'
<1> DEFINE s == [Sessions!Off EXCEPT !.at = "run", !.device = d]
<1>1. /\ Structured /\ conf \in Installations
      /\ ids \in Nat /\ ids <= conf.maxIds /\ conf.maxIds \in Nat /\ Sessions!Ids = 0..conf.maxIds
      /\ writes \in Nat /\ excused \in BOOLEAN /\ jar \in Nat /\ jar <= ids /\ jar \in Sessions!Ids
      /\ clock \in Nat /\ kept \in KeptType /\ kept.used <= clock /\ kept.since <= clock
  BY SessionBasics
<1>2. d \in {1, 2} /\ kept.device \in 0..2
  BY <1>1, SessionAssumed DEF KeptType
<1>3. PICK i : i = IF jar # 0 THEN jar ELSE ids + 1
  OBVIOUS
<1>12. i \in Sessions!Ids /\ i > 0 /\ 0 \in Sessions!Ids /\ d \in 0..2
  BY <1>1, <1>2, <1>3 DEF Sessions!Begin
<1>4. PICK t \in Sessions!SessionType :
        /\ req' = [req EXCEPT ![r] = t]
        /\ t.at = "run" /\ t.id = i /\ t.device = d /\ t.data = Sessions!Null
        /\ ~t.dirty /\ (jar = 0 => t.new) /\ ~t.sent /\ ~t.ended /\ t.out = 0
  <2> DEFINE t1 == [s EXCEPT !.id = i]
             t2 == [s EXCEPT !.id = i, !.new = TRUE]
  <2>1. CASE jar # 0
    <3>1. req' = [req EXCEPT ![r] = t1]
      BY <1>3, <2>1 DEF Sessions!Begin
    <3>2. /\ t1 \in Sessions!SessionType
          /\ t1.at = "run" /\ t1.id = i /\ t1.device = d /\ t1.data = Sessions!Null
          /\ ~t1.dirty /\ ~t1.sent /\ ~t1.ended /\ t1.out = 0
      BY <1>12 DEF Sessions!SessionType, Sessions!Off
    <3> HIDE DEF t1
    <3> QED
      BY <2>1, <3>1, <3>2
  <2>2. CASE jar = 0
    <3>1. req' = [req EXCEPT ![r] = t2]
      BY <1>3, <2>2 DEF Sessions!Begin
    <3>2. /\ t2 \in Sessions!SessionType
          /\ t2.at = "run" /\ t2.id = i /\ t2.device = d /\ t2.data = Sessions!Null
          /\ ~t2.dirty /\ t2.new /\ ~t2.sent /\ ~t2.ended /\ t2.out = 0
      BY <1>12 DEF Sessions!SessionType, Sessions!Off
    <3> HIDE DEF t2
    <3> QED
      BY <2>2, <3>1, <3>2
  <2> QED
    BY <2>1, <2>2
<1>5. ids' = (IF jar # 0 THEN ids ELSE ids + 1) /\ (jar = 0 => ids < conf.maxIds)
  BY DEF Sessions!Begin
<1>6. /\ req[r].at = "off" /\ kept' = [kept EXCEPT !.device = d]
      /\ excused' = (excused \/ (conf.bind /\ kept.device \notin {0, d}))
      /\ UNCHANGED <<records, jar, conf, clock, writes, dead>>
      /\ ~conf.overlap => \A q \in Requests \ {r} : req[q].at = "off"
  BY DEF Sessions!Begin, Sessions!Alone
<1>7. /\ kept' \in KeptType /\ kept'.value = kept.value /\ kept'.used = kept.used /\ kept'.since = kept.since
      /\ kept'.device = d
  BY <1>1, <1>2, <1>6 DEF KeptType
<1>8. ids' \in Nat /\ ids <= ids' /\ ids' <= conf.maxIds /\ t.id <= ids' /\ i <= ids'
  BY <1>1, <1>3, <1>4, <1>5
<1>9. Sessions!Null.v = -1 /\ <<i, -1>> \notin dead
  BY <1>1, <1>12, PayloadFields DEF Structured, DeadKnown
<1>10. jar = 0 => records[i] = Sessions!NoRecord /\ records[0] = Sessions!NoRecord
  BY <1>1, <1>3, <1>12 DEF Structured, StoreWell
<1>11. ASSUME ~conf.overlap
       PROVE  Sends(r)' /\ Copies(r)' /\ Holds(r)'
  <2>1. req'[r] = t
    BY <1>4, SessionBasics
  <2>2. t.id = jar \/ (jar = 0 /\ t.new /\ records[t.id] = Sessions!NoRecord)
    BY <1>3, <1>4, <1>10
  <2>3. Sends(r)'
    BY <1>4, <1>6, <1>7, <1>9, <2>1, <2>2 DEF Sends, Sessions!NoRecord, Sessions!Null
  <2>4. Copies(r)'
    BY <1>4, <2>1 DEF Copies, Sessions!Loaded, Sessions!Null
  <2>5. ASSUME ~excused' PROVE Recorded(i)'
    <3>1. PICK k : k = jar
      OBVIOUS
    <3>2. Recorded(k) /\ ~excused /\ (conf.bind => kept.device \in {0, d})
      <4>1. \A q \in Requests : req[q].at = "off"
        BY <1>6, <1>11
      <4> QED
        BY <1>1, <1>6, <1>11, <2>5, <3>1, <4>1 DEF SessionInv, Orderly, Resting
    <3>3. records'[i] = records[k]
      BY <1>3, <1>6, <1>10, <3>1
    <3>4. /\ UNCHANGED <<conf, clock>> /\ kept.device \in Int
          /\ kept'.value = kept.value /\ kept'.used = kept.used /\ kept'.since = kept.since
          /\ conf.bind => kept.device \in {0, kept'.device}
      BY <1>2, <1>6, <1>7, <3>2
    <3> QED
      BY <3>2, <3>3, <3>4, RecordedKept
  <2>6. Holds(r)'
    <3>1. ~excused' => Recorded(req[r].id)'
      BY <1>4, <2>1, <2>5 DEF Recorded, Alive
    <3> QED
      BY <1>4, <2>1, <3>1 DEF Holds
  <2> QED
    BY <2>3, <2>4, <2>6
<1> QED
  <2>1. /\ t.at # "off" => t.id > 0 /\ t.id <= ids' /\ t.data.v <= writes /\ <<t.id, t.data.v>> \notin dead
        /\ t.data # Sessions!Null => t.data.born <= clock
        /\ t.at # "run" => t.data = Sessions!Null
        /\ t.out <= ids'
        /\ jar' \in Nat /\ jar' <= ids' /\ excused' \in BOOLEAN
        /\ kept' \in KeptType /\ kept'.used <= clock /\ kept'.since <= clock
    BY <1>1, <1>4, <1>6, <1>7, <1>8, <1>9, <1>12
  <2> QED
    BY <1>4, <1>5, <1>6, <1>8, <1>11, <2>1, RequestStep

(* What a load makes of the value that the session is held to.             *)
LEMMA LoadedFields ==
  ASSUME SessionInv, NEW v \in 0..conf.maxWrites, NEW d \in Sessions!Payload, d.stime <= clock, d.born <= clock,
         Sessions!Loads(v, d)
  PROVE  /\ kept' \in KeptType /\ kept'.used <= clock /\ kept'.since <= clock /\ kept'.device = kept.device
         /\ IF excused \/ Sessions!Lapsed
            THEN /\ kept'.value = v /\ kept'.used = d.stime
                 /\ kept'.since = (IF d.born = 0 THEN clock ELSE d.born)
            ELSE /\ kept'.value = kept.value /\ kept'.used = kept.used
                 /\ kept'.since = (IF d.born = 0 THEN clock ELSE kept.since)
<1> DEFINE birth == IF d.born = 0 THEN clock ELSE d.born
           since == IF d.born = 0 THEN clock ELSE kept.since
<1>1. kept \in KeptType /\ kept.used <= clock /\ kept.since <= clock /\ kept.since \in 0..conf.horizon
  BY SessionBasics DEF KeptType
<1>2. clock \in 0..conf.horizon /\ d.stime \in 0..conf.horizon /\ d.born \in 0..conf.horizon /\ clock <= clock
  <2>1. clock \in 0..conf.horizon
    BY SessionBasics DEF Structured, SessionTypes, Sessions!SessionTypeOK
  <2> QED
    BY <2>1, PayloadFields
<1>3. birth \in 0..conf.horizon /\ birth <= clock /\ since \in 0..conf.horizon /\ since <= clock
  BY <1>1, <1>2
<1>4. kept' = IF excused \/ Sessions!Lapsed
              THEN [kept EXCEPT !.value = v, !.used = d.stime, !.since = birth]
              ELSE [kept EXCEPT !.since = since]
  BY DEF Sessions!Loads
<1>5. /\ birth = (IF d.born = 0 THEN clock ELSE d.born)
      /\ since = (IF d.born = 0 THEN clock ELSE kept.since)
  OBVIOUS
<1> HIDE DEF birth, since
<1>6. CASE excused \/ Sessions!Lapsed
  <2>1. kept' = [kept EXCEPT !.value = v, !.used = d.stime, !.since = birth]
    BY <1>4, <1>6
  <2>2. /\ kept' \in KeptType /\ kept'.value = v /\ kept'.used = d.stime /\ kept'.since = birth
        /\ kept'.device = kept.device
    BY ONLY <1>1, <1>2, <1>3, <2>1, v \in 0..conf.maxWrites DEF KeptType
  <2> QED
    BY <1>3, <1>5, <1>6, <2>2
<1>7. CASE ~(excused \/ Sessions!Lapsed)
  <2>1. kept' = [kept EXCEPT !.since = since]
    BY <1>4, <1>7
  <2>2. /\ kept' \in KeptType /\ kept'.value = kept.value /\ kept'.used = kept.used /\ kept'.since = since
        /\ kept'.device = kept.device
    BY ONLY <1>1, <1>3, <2>1 DEF KeptType
  <2> QED
    BY <1>1, <1>3, <1>5, <1>7, <2>2
<1> QED
  BY <1>6, <1>7

(* A record in time is within the limits of the session that left it.      *)
LEMMA RecordInTime ==
  ASSUME Structured, NEW i \in Sessions!Ids, NEW s \in Sessions!SessionType, s.device = kept.device,
         Recorded(i), ~Sessions!Lapsed, kept.value # 0 \/ Alive(i), NEW d, d = Sessions!Found(i)
  PROVE  Alive(i) /\ ~Sessions!Violates(s, d)
<1>1. Alive(i)
  BY DEF Recorded
<1>2. /\ d \in Sessions!Payload /\ d = records[i].data /\ d.stime \in Nat /\ d.born \in Nat
      /\ (conf.absolute > 0 => d.born # 0)
  BY <1>1, FindFields
<1>3. /\ conf \in Installations /\ clock \in Nat /\ kept.used \in Nat /\ kept.since \in Nat
  BY SessionFields
<1>10. conf.absolute \in Nat /\ conf.idle \in Nat /\ Sessions!TouchInterval \in Nat
  BY <1>3, SessionAssumed
<1>4. /\ kept.used <= d.stime + Sessions!TouchInterval
      /\ conf.absolute > 0 => d.born >= kept.since
      /\ conf.bind => d.bind \in {0, kept.device}
  BY <1>1, <1>2 DEF Recorded
<1>5. conf.absolute > 0 => clock - kept.since <= conf.absolute
  BY <1>3, SessionAssumed DEF Sessions!Lapsed
<1>6. conf.idle > 0 => clock - kept.used <= conf.idle - Sessions!TouchInterval
  <2>1. /\ conf.idle \in Nat /\ conf.ttl \in Nat /\ Sessions!TouchInterval \in Nat
        /\ clock - kept.used <= Sessions!Grace
    BY <1>3, SessionAssumed DEF Sessions!Lapsed, Sessions!Grace
  <2>2. conf.idle > 0 => Sessions!Grace <= conf.idle - Sessions!TouchInterval
    <3>1. CASE conf.idle > 0 /\ conf.idle < conf.ttl
      BY <2>1, <3>1 DEF Sessions!Grace
    <3>2. CASE conf.idle > 0 /\ conf.ttl <= conf.idle
      BY <2>1, <3>2 DEF Sessions!Grace
    <3> QED
      BY <2>1, <3>1, <3>2
  <2>3. Sessions!Grace \in Int
    BY <2>1 DEF Sessions!Grace
  <2> QED
    BY <1>3, <2>1, <2>2, <2>3
<1>7. conf.idle > 0 => clock - d.stime <= conf.idle
  BY <1>2, <1>3, <1>4, <1>6, <1>10
<1>8. conf.absolute > 0 => clock - d.born <= conf.absolute
  BY <1>2, <1>3, <1>4, <1>5, <1>10
<1>9. conf.bind => d.bind = 0 \/ d.bind = Sessions!Fingerprint(s)
  BY <1>4 DEF Sessions!Fingerprint
<1> HIDE DEF Sessions!Fingerprint
<1> QED
  BY <1>1, <1>2, <1>3, <1>7, <1>8, <1>9, <1>10 DEF Sessions!Violates

LEMMA AgedFields ==
  ASSUME Structured, NEW d \in Sessions!Payload, d.stime <= clock, NEW a, a = Sessions!Aged(d)
  PROVE  /\ a \in Sessions!Payload /\ a # Sessions!Null /\ a.v = d.v
         /\ IF conf.absolute > 0 /\ d.born = 0
            THEN a.born = (IF d.stime # 0 THEN d.stime ELSE clock) ELSE a = d
         /\ a # d => a.born <= clock
<1>1. clock \in 0..conf.horizon /\ d.stime \in 0..conf.horizon /\ clock \in Nat /\ d.stime \in Nat
  <2>1. clock \in 0..conf.horizon
    BY SessionFields DEF Structured, SessionTypes, Sessions!SessionTypeOK
  <2> QED
    BY <2>1, PayloadFields
<1> DEFINE b == IF d.stime # 0 THEN d.stime ELSE clock
<1>2. b \in 0..conf.horizon /\ b <= clock
  BY <1>1
<1>3. b = (IF d.stime # 0 THEN d.stime ELSE clock)
  OBVIOUS
<1>4. CASE conf.absolute > 0 /\ d.born = 0
  <2>1. a = [d EXCEPT !.born = b]
    BY <1>4 DEF Sessions!Aged
  <2> HIDE DEF b
  <2>2. a \in Sessions!Payload /\ a.v = d.v /\ a.born = b
    BY <1>2, <2>1 DEF Sessions!Payload
  <2> QED
    BY <1>2, <1>3, <1>4, <2>2, PayloadFields
<1>5. CASE ~(conf.absolute > 0 /\ d.born = 0)
  BY <1>5, PayloadFields DEF Sessions!Aged
<1> QED
  BY <1>4, <1>5

LEMMA SendsKept ==
  ASSUME NEW r \in Requests, Sends(r), NEW t, req'[r] = t, UNCHANGED <<records, jar>>, kept'.device = kept.device,
         t.id = req[r].id, t.device = req[r].device, t.ended = req[r].ended, t.out = req[r].out,
         t.new = req[r].new, t.sent => req[r].sent,
         records[req[r].id] = Sessions!NoRecord => t.data.v \in {0, -1}
  PROVE  Sends(r)'
BY DEF Sends, Sessions!NoRecord, Sessions!Null

(* Loaded anew, the session is what the application left, or what counts   *)
(* from now on where that may be gone.                                     *)
LEMMA LoadRecorded ==
  ASSUME SessionInv, NEW i \in Sessions!Ids, NEW d, d = Sessions!Found(i), Sessions!Loads(d.v, d),
         UNCHANGED <<records, conf, clock>>,
         excused \/ Sessions!Lapsed \/ Recorded(i),
         (excused \/ Sessions!Lapsed) /\ conf.bind => d.bind \in {0, kept.device}
  PROVE  /\ Recorded(i)' /\ kept'.value = d.v
         /\ conf.absolute > 0 => kept'.since <= (IF d.born = 0 THEN clock ELSE d.born)
<1>1. /\ Structured /\ conf \in Installations /\ clock \in Nat
      /\ kept.used \in Nat /\ kept.since \in Nat
  BY SessionBasics, SessionFields
<1>2. /\ d \in Sessions!Payload /\ d.stime \in Nat /\ d.born \in Nat /\ d.stime <= clock /\ d.born <= clock
      /\ d = (IF Alive(i) THEN records[i].data ELSE Sessions!Empty)
      /\ (Alive(i) /\ conf.absolute > 0 => d.born # 0)
  <2>1. /\ d \in Sessions!Payload /\ d.stime \in Nat /\ d.born \in Nat /\ d.stime <= clock /\ d.born <= clock
    BY <1>1, FindFields
  <2>3. d = (IF Alive(i) THEN records[i].data ELSE Sessions!Empty)
    BY DEF Sessions!Found, Alive
  <2>2. Alive(i) => (conf.absolute > 0 => d.born # 0)
    BY <1>1, FindFields
  <2> QED
    BY <2>1, <2>2, <2>3
<1>3. d.v \in 0..conf.maxWrites
  BY <1>2, PayloadFields
<1>4. /\ kept'.device = kept.device
      /\ IF excused \/ Sessions!Lapsed
         THEN /\ kept'.value = d.v /\ kept'.used = d.stime
              /\ kept'.since = (IF d.born = 0 THEN clock ELSE d.born)
         ELSE /\ kept'.value = kept.value /\ kept'.used = kept.used
              /\ kept'.since = (IF d.born = 0 THEN clock ELSE kept.since)
  BY <1>2, <1>3, LoadedFields
<1>5. Sessions!TouchInterval' = Sessions!TouchInterval /\ Sessions!TouchInterval \in Nat
  BY <1>1, SessionAssumed DEF Sessions!TouchInterval
<1>6. Alive(i)' <=> Alive(i)
  BY DEF Alive, Sessions!Null
<1>7. Sessions!Empty.v = 0 /\ Sessions!Empty.born = 0
  BY PayloadFields
<1>8. CASE excused \/ Sessions!Lapsed
  <2>1. CASE Alive(i)
    <3>1. records'[i].data = d
      BY <1>2, <2>1
    <3> QED
      BY <1>2, <1>4, <1>5, <1>6, <1>8, <2>1, <3>1 DEF Recorded
  <2>2. CASE ~Alive(i)
    BY <1>1, <1>2, <1>4, <1>6, <1>7, <1>8, <2>2 DEF Recorded
  <2> QED
    BY <2>1, <2>2
<1>9. CASE ~(excused \/ Sessions!Lapsed)
  <2>1. CASE Alive(i)
    <3>1. records'[i].data = d /\ records[i].data = d
      BY <1>2, <2>1
    <3>2. /\ d.v = kept.value /\ kept.used <= d.stime + Sessions!TouchInterval
          /\ conf.absolute > 0 => d.born >= kept.since
          /\ conf.bind => d.bind \in {0, kept.device}
      BY <1>9, <2>1, <3>1 DEF Recorded
    <3> QED
      BY <1>2, <1>4, <1>5, <1>6, <1>9, <2>1, <3>1, <3>2 DEF Recorded
  <2>2. CASE ~Alive(i)
    <3>1. kept.value = 0
      BY <1>9, <2>2 DEF Recorded
    <3> QED
      BY <1>1, <1>2, <1>4, <1>6, <1>7, <1>9, <2>2, <3>1 DEF Recorded
  <2> QED
    BY <2>1, <2>2
<1> QED
  BY <1>8, <1>9

LEMMA LazyLoadStep ==
  ASSUME SessionInv, NEW r \in Requests, Sessions!LazyLoad(r)
  PROVE  SessionInv'
<1>0. PICK i, d : i = req[r].id /\ d = Sessions!Found(i)
  OBVIOUS
<1> DEFINE s == req[r]
           V == Sessions!Violates(s, d)
           a == Sessions!Aged(d)
           u == [s EXCEPT !.data = a, !.dirty = FALSE]
           t == IF V THEN [s EXCEPT !.at = "kick"]
                ELSE IF a # d THEN [u EXCEPT !.dirty = TRUE, !.sent = FALSE] ELSE u
           v == IF V THEN 0 ELSE d.v
<1>1. /\ Sessions!Running(r) /\ s.data = Sessions!Null /\ req' = [req EXCEPT ![r] = t]
      /\ Sessions!Loads(v, d) /\ excused' = FALSE
      /\ UNCHANGED <<records, jar, conf, clock, ids, writes, dead>>
  BY <1>0 DEF Sessions!LazyLoad, Sessions!MarkDirty
<1>2. /\ s \in Sessions!SessionType /\ s.at = "run" /\ i \in Sessions!Ids /\ i > 0 /\ i <= ids /\ s.id = i
      /\ s.out <= ids
  BY <1>0, <1>1, UnderWay
<1>3. /\ Structured /\ conf \in Installations /\ ids \in Nat /\ ids <= conf.maxIds /\ writes \in Nat
      /\ jar \in Nat /\ jar <= ids /\ clock \in Nat /\ conf.maxWrites \in Nat
      /\ req \in [Requests -> Sessions!SessionType] /\ excused \in BOOLEAN
  BY SessionBasics
<1>4. /\ d \in Sessions!Payload /\ d = (IF Alive(i) THEN records[i].data ELSE Sessions!Empty)
      /\ d.v <= writes /\ <<i, d.v>> \notin dead /\ d.stime <= clock /\ d.born <= clock
      /\ d.born \in Nat /\ d.stime \in Nat
      /\ (Alive(i) /\ conf.absolute > 0 => d.born # 0)
  BY <1>0, <1>2, <1>3, FindFields
<1>5. /\ a \in Sessions!Payload /\ a # Sessions!Null /\ a.v = d.v
      /\ (IF conf.absolute > 0 /\ d.born = 0
          THEN a.born = (IF d.stime # 0 THEN d.stime ELSE clock) ELSE a = d)
      /\ a.born <= clock
  BY <1>3, <1>4, AgedFields
<1>6. d.v \in 0..conf.maxWrites /\ v \in 0..conf.maxWrites
  BY <1>3, <1>4, PayloadFields
<1> HIDE DEF a, V
<1>7. /\ u \in Sessions!SessionType /\ u.at = "run" /\ u.id = i /\ u.data = a /\ ~u.dirty
      /\ u.device = s.device /\ u.ended = s.ended /\ u.out = s.out /\ u.new = s.new /\ u.sent = s.sent
  BY <1>2, <1>5 DEF Sessions!SessionType
<1> HIDE DEF u
<1>8. /\ t \in Sessions!SessionType /\ t.id = i
      /\ t.device = s.device /\ t.ended = s.ended /\ t.out = s.out /\ t.new = s.new /\ (t.sent => s.sent)
      /\ V => t.at = "kick" /\ t.data = Sessions!Null
      /\ ~V => t.at = "run" /\ t.data = a /\ (t.dirty <=> a # d)
  <2>1. CASE V
    BY <1>1, <1>2, <2>1 DEF Sessions!SessionType
  <2>2. CASE ~V
    BY <1>7, <2>2 DEF Sessions!SessionType
  <2> QED
    BY <2>1, <2>2
<1> HIDE DEF t
<1>9. /\ kept' \in KeptType /\ kept'.used <= clock /\ kept'.since <= clock /\ kept'.device = kept.device
      /\ IF excused \/ Sessions!Lapsed THEN kept'.value = v ELSE kept'.value = kept.value
  BY <1>1, <1>4, <1>6, LoadedFields
<1>10. Sessions!Null.v = -1 /\ <<i, -1>> \notin dead /\ Sessions!Empty.v = 0
  BY <1>2, <1>3, PayloadFields DEF Structured, DeadKnown
<1>11. req'[r] = t
  BY <1>1, <1>3
<1>12. ASSUME ~conf.overlap
       PROVE  /\ \A q \in Requests \ {r} : req[q].at = "off"
              /\ Sends(r)' /\ Copies(r)' /\ Holds(r)'
  <2>1. /\ \A q \in Requests \ {r} : req[q].at = "off"
        /\ Sends(r) /\ Holds(r) /\ s.device = kept.device
    BY <1>2, <1>12, RunsAlone DEF Sends
  <2>2. Sends(r)'
    <3>1. records[i] = Sessions!NoRecord => d.v = 0
      BY <1>4, <1>10 DEF Alive, Sessions!NoRecord
    <3>2. records[i] = Sessions!NoRecord => t.data.v \in {0, -1}
      BY <1>5, <1>8, <1>10, <3>1
    <3> QED
      BY <1>1, <1>2, <1>8, <1>9, <1>11, <2>1, <3>2, SendsKept
  <2>3. ~excused => Recorded(i)
    BY <1>0, <1>1, <1>2, <2>1 DEF Holds, Recorded, Alive
  <2>4. ~excused /\ ~Sessions!Lapsed /\ (kept.value # 0 \/ Alive(i)) => ~V
    BY <1>0, <1>2, <1>3, <2>1, <2>3, RecordInTime DEF V
  <2>5. CASE V
    <3>1. kept'.value = 0
      <4>1. kept.value = 0 \/ excused \/ Sessions!Lapsed
        BY <1>3, <2>4, <2>5
      <4> QED
        BY <1>9, <2>5, <4>1
    <3> QED
      BY <1>8, <1>11, <2>1, <2>2, <2>5, <3>1 DEF Copies, Holds, Sessions!Loaded, Sessions!Running
  <2>6. CASE ~V
    <3>1. conf.bind => d.bind \in {0, kept.device}
      BY <2>1, <2>6 DEF V, Sessions!Violates, Sessions!Fingerprint
    <3>2. Sessions!Loads(d.v, d)
      BY <1>1, <2>6
    <3>3. /\ Recorded(i)' /\ kept'.value = d.v
          /\ conf.absolute > 0 => kept'.since <= (IF d.born = 0 THEN clock ELSE d.born)
      <4>1. excused \/ Sessions!Lapsed \/ Recorded(i)
        BY <2>3
      <4> QED
        BY <1>0, <1>1, <1>2, <3>1, <3>2, <4>1, LoadRecorded
    <3>4. Copies(r)'
      <4>1. a = d => a = records'[i].data \/ (a = Sessions!Empty /\ ~Alive(i)')
        BY <1>1, <1>4 DEF Alive, Sessions!Null
      <4>2. conf.absolute > 0 /\ a.born # 0 => a.born >= kept'.since
        <5>1. conf.absolute > 0 /\ d.born = 0 => a.born = clock
          BY <1>4, <1>5, PayloadFields
        <5> QED
          BY <1>3, <1>4, <1>5, <3>3, <5>1
      <4> QED
        BY <1>1, <1>5, <1>8, <1>11, <2>6, <3>3, <4>1, <4>2 DEF Copies, Alive, Sessions!Empty, Sessions!Null
    <3>5. Holds(r)'
      <4>1. Recorded(req[r].id)'
        BY <1>8, <1>11, <3>3 DEF Recorded, Alive
      <4> QED
        BY <1>5, <1>8, <1>11, <2>6, <4>1 DEF Holds, Sessions!Null
    <3> QED
      BY <2>1, <2>2, <3>4, <3>5
  <2> QED
    BY <2>5, <2>6
<1> QED
  <2>2. /\ t.at # "off" /\ t.data.v <= writes /\ <<t.id, t.data.v>> \notin dead
        /\ t.data # Sessions!Null => t.data.born <= clock
        /\ t.at # "run" => t.data = Sessions!Null
    <3>1. CASE V
      BY <1>3, <1>8, <1>10, <3>1
    <3>2. CASE ~V
      BY <1>4, <1>5, <1>8, <3>2
    <3> QED
      BY <3>1, <3>2
  <2>1. /\ t.at # "off" => t.id > 0 /\ t.id <= ids' /\ t.data.v <= writes /\ <<t.id, t.data.v>> \notin dead
        /\ t.out <= ids'
        /\ ids' \in Nat /\ ids <= ids' /\ ids' <= conf.maxIds
        /\ jar' \in Nat /\ jar' <= ids' /\ excused' \in BOOLEAN
    <3>1. t.id > 0 /\ t.id <= ids' /\ t.out <= ids'
      BY <1>1, <1>2, <1>8
    <3>2. /\ ids' \in Nat /\ ids <= ids' /\ ids' <= conf.maxIds
          /\ jar' \in Nat /\ jar' <= ids'
      BY <1>1, <1>3
    <3>3. excused' \in BOOLEAN
      BY <1>1
    <3> QED
      BY <2>2, <3>1, <3>2, <3>3
  <2> QED
    BY <1>1, <1>8, <1>9, <1>12, <2>1, <2>2, RequestStep

LEMMA LoadStep ==
  ASSUME SessionInv, NEW r \in Requests, Sessions!Load(r)
  PROVE  SessionInv'
<1>0. PICK i, d : i = req[r].id /\ d = Sessions!Found(i)
  OBVIOUS
<1> DEFINE s == req[r]
           t == [s EXCEPT !.data = d]
<1>1. /\ Sessions!Running(r) /\ ~s.dirty /\ req' = [req EXCEPT ![r] = t]
      /\ Sessions!Loads(d.v, d) /\ excused' = (excused \/ Sessions!Lapsed)
      /\ UNCHANGED <<records, jar, conf, clock, ids, writes, dead>>
  BY <1>0 DEF Sessions!Load
<1>2. /\ s \in Sessions!SessionType /\ s.at = "run" /\ i \in Sessions!Ids /\ i > 0 /\ i <= ids /\ s.id = i
      /\ s.out <= ids
  BY <1>0, <1>1, UnderWay
<1>3. /\ Structured /\ conf \in Installations /\ ids \in Nat /\ ids <= conf.maxIds /\ writes \in Nat
      /\ jar \in Nat /\ jar <= ids /\ clock \in Nat
      /\ req \in [Requests -> Sessions!SessionType]
  BY SessionBasics
<1>4. /\ d \in Sessions!Payload /\ d # Sessions!Null /\ d.v <= writes /\ <<i, d.v>> \notin dead
      /\ d.stime <= clock /\ d.born <= clock
  BY <1>0, <1>2, <1>3, FindFields
<1>5. d = (IF Alive(i) THEN records[i].data ELSE Sessions!Empty)
  BY <1>0 DEF Sessions!Found, Alive
<1>6. d.v \in 0..conf.maxWrites
  BY <1>4, PayloadFields
<1>7. /\ t \in Sessions!SessionType /\ t.at = "run" /\ t.id = i /\ t.data = d /\ ~t.dirty
      /\ t.device = s.device /\ t.ended = s.ended /\ t.out = s.out /\ t.new = s.new /\ t.sent = s.sent
  BY <1>1, <1>2, <1>4 DEF Sessions!SessionType
<1> HIDE DEF t
<1>8. kept' \in KeptType /\ kept'.used <= clock /\ kept'.since <= clock /\ kept'.device = kept.device
  BY <1>1, <1>4, <1>6, LoadedFields
<1>9. req'[r] = t
  BY <1>1, <1>3
<1>10. ASSUME ~conf.overlap
       PROVE  /\ \A q \in Requests \ {r} : req[q].at = "off"
              /\ Sends(r)' /\ Copies(r)' /\ Holds(r)'
  <2>1. /\ \A q \in Requests \ {r} : req[q].at = "off"
        /\ Sends(r) /\ Holds(r)
    BY <1>2, <1>10, RunsAlone
  <2>2. Sends(r)'
    <3>1. records[i] = Sessions!NoRecord => t.data.v \in {0, -1}
      BY <1>5, <1>7, PayloadFields DEF Alive, Sessions!NoRecord
    <3> QED
      BY <1>1, <1>2, <1>7, <1>8, <1>9, <2>1, <3>1, SendsKept
  <2>3. ~excused' =>
          /\ Recorded(i)' /\ kept'.value = d.v
          /\ conf.absolute > 0 => kept'.since <= (IF d.born = 0 THEN clock ELSE d.born)
    <3>1. ~excused' => Recorded(i) /\ ~(excused \/ Sessions!Lapsed)
      BY <1>0, <1>1, <1>2, <2>1 DEF Holds, Recorded, Alive
    <3> QED
      BY <1>0, <1>1, <1>2, <3>1, LoadRecorded
  <2>4. Copies(r)'
    <3>1. d = records'[i].data \/ (d = Sessions!Empty /\ ~Alive(i)')
      BY <1>1, <1>5 DEF Alive, Sessions!Null
    <3>2. ~excused' /\ conf.absolute > 0 /\ d.born # 0 => d.born >= kept'.since
      BY <1>3, <1>4, <2>3
    <3> QED
      BY <1>1, <1>7, <1>9, <2>3, <3>1, <3>2 DEF Copies, Alive, Sessions!Empty, Sessions!Null
  <2>5. Holds(r)'
    <3>1. ~excused' => Recorded(req[r].id)'
      BY <1>7, <1>9, <2>3 DEF Recorded, Alive
    <3> QED
      BY <1>7, <1>9, <3>1 DEF Holds
  <2> QED
    BY <2>1, <2>2, <2>4, <2>5
<1> QED
  <2>1. /\ t.at # "off" => t.id > 0 /\ t.id <= ids' /\ t.data.v <= writes /\ <<t.id, t.data.v>> \notin dead
        /\ t.data # Sessions!Null => t.data.born <= clock
        /\ t.at # "run" => t.data = Sessions!Null
        /\ t.out <= ids'
    BY <1>1, <1>2, <1>4, <1>7
  <2>2. /\ ids' \in Nat /\ ids <= ids' /\ ids' <= conf.maxIds /\ jar' \in Nat /\ jar' <= ids'
    BY <1>1, <1>3
  <2>3. excused' \in BOOLEAN /\ t.at # "off"
    BY <1>1, <1>7
  <2> QED
    BY <1>1, <1>7, <1>8, <1>10, <2>1, <2>2, <2>3, RequestStep

(* An object that its request saves, or that only sends its cookie.        *)
LEMMA SaveStep ==
  ASSUME SessionInv, NEW r \in Requests, Sessions!Save(r)
  PROVE  SessionInv'
<1>0. PICK i, t : /\ i = req[r].id
                  /\ t = IF req[r].dirty THEN Sessions!Saved(req[r], TRUE)
                         ELSE IF req[r].sent THEN req[r] ELSE Sessions!Cookie(req[r])
  OBVIOUS
<1> DEFINE s == req[r]
<1>1. /\ Sessions!Running(r) /\ req' = [req EXCEPT ![r] = t]
      /\ records' = IF s.dirty THEN Sessions!Written(s) ELSE records
      /\ UNCHANGED <<jar, conf, clock, ids, writes, kept, dead, excused>>
  BY <1>0 DEF Sessions!Save
<1>2. /\ s \in Sessions!SessionType /\ s.at = "run" /\ i \in Sessions!Ids /\ i > 0 /\ i <= ids /\ s.id = i
      /\ s.data.v <= writes /\ <<i, s.data.v>> \notin dead
      /\ s.data # Sessions!Null => s.data.born <= clock
      /\ s.out \in Nat /\ s.out <= ids
  BY <1>0, <1>1, UnderWay
<1>3. /\ Structured /\ SessionTypes /\ conf \in Installations /\ ids \in Nat /\ ids <= conf.maxIds /\ writes \in Nat
      /\ jar \in Nat /\ jar <= ids /\ clock \in Nat /\ excused \in BOOLEAN
      /\ req \in [Requests -> Sessions!SessionType]
      /\ kept \in KeptType /\ kept.used <= clock /\ kept.since <= clock /\ kept.used \in Nat
  BY SessionBasics, SessionFields DEF Structured
<1>4. Same(t, s) /\ ~t.dirty /\ t.data = (IF s.dirty THEN Sessions!Stamped(s) ELSE s.data)
      /\ IF s.sent THEN t.sent /\ t.out = s.out ELSE Told(t, s)
  <2>1. CASE s.dirty
    BY <1>0, <1>2, <1>3, <2>1, SavedFields
  <2>2. CASE ~s.dirty /\ s.sent
    BY <1>0, <1>2, <2>2 DEF Same
  <2>3. CASE ~s.dirty /\ ~s.sent
    BY <1>0, <1>2, <2>3, CookieFields
  <2> QED
    BY <2>1, <2>2, <2>3
<1>5. /\ t.data.v = s.data.v
      /\ t.data # Sessions!Null => t.data.born <= clock
  BY <1>2, <1>3, <1>4, StampFields
<1>6. /\ t \in Sessions!SessionType /\ t.at = "run" /\ t.id = i /\ t.device = s.device /\ t.new = s.new
      /\ t.ended = s.ended /\ t.out \in {s.out, i}
  BY <1>2, <1>4 DEF Same, Told
<1>7. req'[r] = t
  BY <1>1, <1>3
<1>8. ASSUME ~conf.overlap
      PROVE  /\ \A q \in Requests \ {r} : req[q].at = "off"
             /\ Sends(r)' /\ Copies(r)' /\ Holds(r)'
  <2>1. /\ \A q \in Requests \ {r} : req[q].at = "off"
        /\ Sends(r) /\ Copies(r) /\ Holds(r) /\ s.device = kept.device
    BY <1>2, <1>8, RunsAlone DEF Sends
  <2>2. Sends(r)'
    <3>1. ~t.ended => t.sent /\ t.out = t.id
      BY <1>2, <1>4, <1>6, <2>1 DEF Sends, Told
    <3> QED
      BY <1>1, <1>2, <1>6, <1>7, <2>1, <3>1 DEF Sends
  <2>3. CASE s.dirty
    <3>1. s.data # Sessions!Null \/ excused
      BY <1>2, <2>1, <2>3 DEF Holds
    <3>2. \A n : n = Sessions!Written(s) => n[s.id] = [data |-> Sessions!Stamped(s), until |-> clock + conf.ttl]
      BY <1>1, <1>3, WrittenFields
    <3>3. records'[i].data = t.data
      <4>1. records' = Sessions!Written(s) /\ t.data = Sessions!Stamped(s) /\ s.id = i
        BY <1>0, <1>1, <1>4, <2>3
      <4>2. records'[i] = [data |-> Sessions!Stamped(s), until |-> clock + conf.ttl]
        BY <3>2, <4>1
      <4> QED
        BY <4>1, <4>2
    <3>4. ~excused => Recorded(i)' /\ s.data.v = kept.value
      <4>1. ~excused =>
              /\ s.data # Sessions!Null /\ s.data.v = kept.value
              /\ conf.absolute > 0 /\ s.data.born # 0 => s.data.born >= kept.since
        BY <1>1, <2>1, <3>1 DEF Copies, Sessions!Loaded
      <4>2. records' = Sessions!Written(req[r]) /\ UNCHANGED <<conf, clock, kept>>
        BY <1>1, <2>3
      <4> QED
        BY <1>0, <1>1, <1>3, <2>1, <4>1, <4>2, WrittenRecorded
    <3>5. Copies(r)'
      <4>1. ~excused /\ t.data # Sessions!Null /\ conf.absolute > 0 /\ t.data.born # 0
              => t.data.born >= kept.since
        <5>1. t.data # Sessions!Null => s.data # Sessions!Null
          BY <1>2, <1>3, <1>4, <2>3, StampFields
        <5>2. s.data # Sessions!Null => /\ t.data.born = (IF conf.absolute > 0 /\ s.data.born = 0 THEN clock ELSE s.data.born)
          BY <1>2, <1>3, <1>4, <2>3, StampFields
        <5>3. ~excused /\ s.data # Sessions!Null /\ conf.absolute > 0 /\ s.data.born # 0
                => s.data.born >= kept.since
          BY <1>1, <2>1 DEF Copies, Sessions!Loaded
        <5>4. kept.since <= clock /\ clock \in Nat /\ kept.since \in Nat
          BY <1>3, SessionFields
        <5> QED
          BY <5>1, <5>2, <5>3, <5>4
      <4> QED
        BY <1>1, <1>5, <1>6, <1>7, <3>3, <3>4, <4>1 DEF Copies, Sessions!Loaded, Sessions!Running, Sessions!Null
    <3>6. Holds(r)'
      <4>1. ~excused' => Recorded(req[r].id)'
        BY <1>1, <1>6, <1>7, <3>4 DEF Recorded, Alive
      <4> QED
        BY <1>4, <1>6, <1>7, <4>1 DEF Holds
    <3> QED
      BY <2>1, <2>2, <3>5, <3>6
  <2>4. CASE ~s.dirty
    <3>1. records' = records /\ t.data = s.data
      BY <1>1, <1>4, <2>4
    <3>2. Copies(r)'
      BY <1>0, <1>1, <1>2, <1>6, <1>7, <2>1, <2>4, <3>1
         DEF Copies, Sessions!Loaded, Sessions!Running, Alive, Sessions!Null, Sessions!Empty
    <3>3. Holds(r)'
      <4>1. ~excused => Recorded(i)
        BY <1>0, <1>2, <2>1, <2>4 DEF Holds, Recorded, Alive
      <4>2. ~excused => Recorded(i)'
        <5>1. kept.device \in Int
          BY <1>3 DEF KeptType
        <5> QED
          BY <1>1, <3>1, <4>1, <5>1, RecordedKept
      <4>3. ~excused' => Recorded(req[r].id)'
        BY <1>1, <1>6, <1>7, <4>2 DEF Recorded, Alive
      <4> QED
        BY <1>4, <1>6, <1>7, <4>3 DEF Holds
    <3> QED
      BY <2>1, <2>2, <3>2, <3>3
  <2> QED
    BY <2>3, <2>4
<1> QED
  <2>1. /\ t.at # "off" => t.id > 0 /\ t.id <= ids' /\ t.data.v <= writes /\ <<t.id, t.data.v>> \notin dead
        /\ t.at # "run" => t.data = Sessions!Null
        /\ t.at # "off" /\ t.out <= ids'
    BY <1>1, <1>2, <1>5, <1>6
  <2>2. /\ ids' \in Nat /\ ids <= ids' /\ ids' <= conf.maxIds /\ jar' \in Nat /\ jar' <= ids'
        /\ kept' \in KeptType /\ kept'.used <= clock /\ kept'.since <= clock
    BY <1>1, <1>3
  <2>3. excused' \in BOOLEAN /\ (records' = records \/ (Sessions!Running(r) /\ records' = Sessions!Written(req[r])))
    BY <1>1, <1>3
  <2> QED
    BY <1>1, <1>5, <1>6, <1>8, <2>1, <2>2, <2>3, RequestStep

(* A copy that is too young to be saved again is either alive or lapsed.   *)
LEMMA TouchedInTime ==
  ASSUME Structured, NEW i \in Sessions!Ids, UNCHANGED <<records, conf, clock>>, kept'.used = clock,
         records[i].data # Sessions!Null, clock - records[i].data.stime <= Sessions!TouchInterval
  PROVE  Alive(i)' \/ Sessions!Lapsed'
<1>1. /\ WellSaved(records[i]) /\ conf \in Installations /\ clock \in Nat
      /\ records[i].data \in Sessions!Payload
  BY SessionFields DEF Structured, StoreWell
<1>2. /\ conf.idle \in Nat /\ conf.ttl \in Nat /\ Sessions!TouchInterval \in Nat
      /\ records[i].data.stime \in Int
  BY <1>1, SessionAssumed, PayloadFields
<1>3. ~Alive(i) => conf.ttl <= Sessions!TouchInterval
  BY <1>1, <1>2 DEF WellSaved, Alive
<1>4. Sessions!Grace <= conf.ttl - 1 - Sessions!TouchInterval /\ Sessions!Grace \in Int
  BY <1>2 DEF Sessions!Grace
<1>5. ~Alive(i) => Sessions!Grace < 0
  BY <1>2, <1>3, <1>4
<1>6. Sessions!Grace' = Sessions!Grace /\ (Alive(i)' <=> Alive(i))
  BY DEF Sessions!Grace, Sessions!TouchInterval, Alive, Sessions!Null
<1>7. ~Alive(i) => clock - clock > Sessions!Grace
  BY <1>1, <1>4, <1>5
<1> QED
  BY <1>6, <1>7 DEF Sessions!Lapsed

LEMMA ReadStep ==
  ASSUME SessionInv, NEW r \in Requests, Sessions!Get(r)
  PROVE  SessionInv'
<1> DEFINE s == req[r]
           touch == s.data.stime # 0 /\ clock - s.data.stime > Sessions!TouchInterval
<1>0. PICK i, t : i = req[r].id /\ t = IF touch THEN Sessions!Saved(req[r], TRUE) ELSE req[r]
  OBVIOUS
<1>1. /\ Sessions!Running(r) /\ s.data # Sessions!Null /\ s.data.v # 0
      /\ IF touch THEN records' = Sessions!Written(s) /\ req' = [req EXCEPT ![r] = t]
         ELSE UNCHANGED <<records, req>>
      /\ kept' = [kept EXCEPT !.used = clock]
      /\ UNCHANGED <<jar, conf, clock, ids, writes, dead, excused>>
  BY <1>0 DEF Sessions!Get, Sessions!Loaded
<1>2. /\ s \in Sessions!SessionType /\ s.at = "run" /\ i \in Sessions!Ids /\ i > 0 /\ i <= ids /\ s.id = i
      /\ s.data.v <= writes /\ <<i, s.data.v>> \notin dead
      /\ s.data \in Sessions!Payload /\ s.data.born <= clock
      /\ s.out \in Nat /\ s.out <= ids
  BY <1>0, <1>1, UnderWay
<1>3. /\ Structured /\ SessionTypes /\ conf \in Installations /\ ids \in Nat /\ ids <= conf.maxIds /\ writes \in Nat
      /\ jar \in Nat /\ jar <= ids /\ clock \in Nat /\ excused \in BOOLEAN
      /\ req \in [Requests -> Sessions!SessionType]
      /\ kept \in KeptType /\ kept.since <= clock
  BY SessionBasics DEF Structured
<1>4. req' = [req EXCEPT ![r] = t] /\ req'[r] = t
  <2>1. CASE touch
    BY <1>1, <1>3, <2>1
  <2>2. CASE ~touch
    BY <1>0, <1>1, <1>3, <2>2
  <2> QED
    BY <2>1, <2>2
<1>5. touch => /\ Same(t, s) /\ ~t.dirty /\ t.data = Sessions!Stamped(s)
               /\ IF s.sent THEN t.sent /\ t.out = s.out ELSE Told(t, s)
  BY <1>0, <1>2, <1>3, SavedFields
<1>6. ~touch => t = s
  BY <1>0
<1>7. touch => /\ t.data \in Sessions!Payload /\ t.data.v = s.data.v
               /\ t.data.born = (IF conf.absolute > 0 /\ s.data.born = 0 THEN clock ELSE s.data.born)
  BY <1>1, <1>2, <1>3, <1>5, StampFields
<1>8. s.data.stime \in Int /\ Sessions!TouchInterval \in Nat /\ kept.device \in Int /\ clock \in 0..conf.horizon
  <2>1. clock \in 0..conf.horizon
    BY <1>3, SessionFields DEF SessionTypes, Sessions!SessionTypeOK
  <2>2. s.data.stime \in Int /\ kept.device \in Int
    BY <1>2, <1>3, PayloadFields DEF KeptType
  <2> QED
    BY <1>3, <2>1, <2>2, SessionAssumed
<1>9. ~touch => s.data.stime = 0 \/ clock - s.data.stime <= Sessions!TouchInterval
  BY <1>3, <1>8
<1> HIDE DEF touch
<1>10. /\ t \in Sessions!SessionType /\ t.at = "run" /\ t.id = i /\ t.device = s.device /\ t.new = s.new
       /\ t.ended = s.ended /\ t.out \in {s.out, i} /\ t.data.v = s.data.v
       /\ t.data # Sessions!Null
       /\ t.data.born <= clock
  <2>1. CASE touch
    BY <1>2, <1>3, <1>5, <1>7, <2>1, PayloadFields DEF Same, Told
  <2>2. CASE ~touch
    BY <1>1, <1>2, <1>6, <2>2
  <2> QED
    BY <2>1, <2>2
<1>11. /\ kept' \in KeptType /\ kept'.used = clock /\ kept'.value = kept.value /\ kept'.since = kept.since
       /\ kept'.device = kept.device
  BY <1>1, <1>3, <1>8 DEF KeptType
<1>12. ASSUME ~conf.overlap
       PROVE  /\ \A q \in Requests \ {r} : req[q].at = "off"
              /\ Sends(r)' /\ Copies(r)' /\ Holds(r)'
  <2>1. /\ \A q \in Requests \ {r} : req[q].at = "off"
        /\ Sends(r) /\ Copies(r) /\ Holds(r) /\ s.device = kept.device
    BY <1>2, <1>12, RunsAlone DEF Sends
  <2>2. ~excused =>
          /\ s.data.v = kept.value
          /\ conf.absolute > 0 /\ s.data.born # 0 => s.data.born >= kept.since
    BY <1>1, <2>1 DEF Copies, Sessions!Loaded
  <2>3. CASE touch
    <3>1. Sends(r)'
      <4>1. ~t.ended => t.sent /\ t.out = t.id
        BY <1>2, <1>5, <1>10, <2>1, <2>3 DEF Sends, Told
      <4> QED
        BY <1>1, <1>2, <1>4, <1>10, <1>11, <2>1, <4>1 DEF Sends
    <3>2. records'[i].data = t.data
      <4>1. \A n : n = Sessions!Written(s) => n[s.id] = [data |-> Sessions!Stamped(s), until |-> clock + conf.ttl]
        BY <1>1, <1>3, WrittenFields
      <4>2. records' = Sessions!Written(s) /\ t.data = Sessions!Stamped(s) /\ s.id = i
        BY <1>0, <1>1, <1>5, <2>3
      <4>3. records'[i] = [data |-> Sessions!Stamped(s), until |-> clock + conf.ttl]
        BY <4>1, <4>2
      <4> QED
        BY <4>2, <4>3
    <3>3. ~excused => Recorded(i)'
      <4>1. records' = Sessions!Written(req[r])
        BY <1>1, <2>3
      <4>2. kept'.used \in Nat /\ kept'.used <= clock /\ kept'.since <= clock
        BY <1>3, <1>11
      <4>3. ASSUME ~excused
            PROVE  /\ kept'.value = req[r].data.v /\ kept'.device = req[r].device
                   /\ conf.absolute > 0 /\ req[r].data.born # 0 => req[r].data.born >= kept'.since
        BY <1>11, <2>1, <2>2, <4>3
      <4> QED
        BY <1>0, <1>1, <4>1, <4>2, <4>3, WrittenRecorded
    <3>4. Copies(r)'
      <4>1. ~excused /\ conf.absolute > 0 /\ t.data.born # 0 => t.data.born >= kept.since
        <5>1. kept.since <= clock /\ clock \in Nat /\ kept.since \in Nat
          BY <1>3, SessionFields
        <5> QED
          BY <1>7, <2>2, <2>3, <5>1
      <4> QED
        BY <1>1, <1>4, <1>10, <1>11, <2>2, <3>2, <4>1 DEF Copies, Sessions!Loaded, Sessions!Running, Sessions!Null
    <3>5. Holds(r)'
      <4>1. ~excused' => Recorded(req[r].id)'
        BY <1>1, <1>4, <1>10, <3>3 DEF Recorded, Alive
      <4> QED
        BY <1>4, <1>5, <1>10, <2>3, <4>1 DEF Holds
    <3> QED
      BY <2>1, <3>1, <3>4, <3>5
  <2>4. CASE ~touch
    <3>1. records' = records /\ req' = req /\ t = s
      BY <1>1, <1>6, <2>4
    <3>2. Sends(r)' /\ Copies(r)'
      BY <1>1, <1>11, <2>1, <3>1
         DEF Sends, Copies, Sessions!Loaded, Sessions!Running, Alive, Sessions!Null, Sessions!NoRecord, Sessions!Empty
    <3>3. ASSUME ~excused, ~s.dirty PROVE Recorded(i)'
      <4>1. Recorded(i) /\ s.data = records[i].data
        BY <1>0, <1>1, <1>2, <2>1, <3>3, PayloadFields DEF Holds, Copies, Sessions!Loaded, Recorded, Alive
      <4>2. clock - s.data.stime <= Sessions!TouchInterval
        <5>1. s.data.stime > 0
          BY <1>1, <1>2, <1>3, <4>1 DEF Structured, StoreWell, WellSaved
        <5> QED
          BY <1>8, <1>9, <2>4, <5>1
      <4>3. Alive(i)' \/ Sessions!Lapsed'
        BY <1>1, <1>2, <1>3, <1>11, <3>1, <4>1, <4>2, TouchedInTime
      <4>4. Alive(i)' <=> Alive(i)
        BY <1>1, <3>1 DEF Alive, Sessions!Null
      <4>5. Sessions!TouchInterval' = Sessions!TouchInterval
        BY <1>1 DEF Sessions!TouchInterval
      <4>6. CASE Alive(i)
        <5>1. clock <= s.data.stime + Sessions!TouchInterval
          BY <1>3, <1>8, <4>2
        <5> QED
          BY <1>1, <1>11, <3>1, <4>1, <4>4, <4>5, <4>6, <5>1 DEF Recorded
      <4>7. CASE ~Alive(i)
        BY <4>3, <4>4, <4>7 DEF Recorded
      <4> QED
        BY <4>6, <4>7
    <3>4. Holds(r)'
      <4>1. ~excused' /\ ~t.dirty => Recorded(req[r].id)'
        BY <1>1, <1>4, <1>10, <3>1, <3>3 DEF Recorded, Alive
      <4> QED
        BY <1>4, <1>10, <4>1 DEF Holds, Sessions!Null
    <3> QED
      BY <2>1, <3>2, <3>4
  <2> QED
    BY <2>3, <2>4
<1> QED
  <2>1. /\ t.at # "off" => t.id > 0 /\ t.id <= ids' /\ t.data.v <= writes /\ <<t.id, t.data.v>> \notin dead
        /\ t.at # "run" => t.data = Sessions!Null
        /\ t.at # "off" /\ t.out <= ids'
    BY <1>1, <1>2, <1>10
  <2>2. /\ ids' \in Nat /\ ids <= ids' /\ ids' <= conf.maxIds /\ jar' \in Nat /\ jar' <= ids'
        /\ kept' \in KeptType /\ kept'.used <= clock /\ kept'.since <= clock
    BY <1>1, <1>3, <1>11
  <2>3. excused' \in BOOLEAN /\ (records' = records \/ (Sessions!Running(r) /\ records' = Sessions!Written(req[r])))
    BY <1>1, <1>3
  <2> QED
    BY <1>1, <1>4, <1>10, <1>12, <2>1, <2>2, <2>3, RequestStep

LEMMA FlushStep ==
  ASSUME SessionInv, NEW r \in Requests, Sessions!Flush(r)
  PROVE  SessionInv'
<1> DEFINE s == req[r]
           t == [s EXCEPT !.ended = TRUE]
<1>1. /\ Sessions!Running(r) /\ req' = [req EXCEPT ![r] = t]
      /\ jar' = (IF s.out # 0 THEN s.out ELSE jar)
      /\ UNCHANGED <<records, conf, clock, ids, writes, kept, dead, excused>>
  BY DEF Sessions!Flush
<1>2. /\ s \in Sessions!SessionType /\ s.at = "run" /\ s.id > 0 /\ s.id <= ids
      /\ s.data.v <= writes /\ <<s.id, s.data.v>> \notin dead
      /\ s.data # Sessions!Null => s.data.born <= clock
      /\ s.out \in Nat /\ s.out <= ids
  BY <1>1, UnderWay
<1>3. /\ ids \in Nat /\ ids <= conf.maxIds /\ jar \in Nat /\ jar <= ids /\ excused \in BOOLEAN
      /\ req \in [Requests -> Sessions!SessionType]
      /\ kept \in KeptType /\ kept.used <= clock /\ kept.since <= clock
  BY SessionBasics
<1>4. /\ t \in Sessions!SessionType /\ t.at = "run" /\ t.id = s.id /\ t.data = s.data /\ t.dirty = s.dirty
      /\ t.device = s.device /\ t.ended /\ t.out = s.out
  BY <1>2 DEF Sessions!SessionType
<1> HIDE DEF t
<1>5. req'[r] = t
  BY <1>1, <1>3
<1>6. ASSUME ~conf.overlap
      PROVE  /\ \A q \in Requests \ {r} : req[q].at = "off"
             /\ Sends(r)' /\ Copies(r)' /\ Holds(r)'
  <2>1. /\ \A q \in Requests \ {r} : req[q].at = "off"
        /\ Sends(r) /\ Copies(r) /\ Holds(r)
    BY <1>2, <1>6, RunsAlone
  <2>2. Sends(r)'
    BY <1>1, <1>4, <1>5, <2>1 DEF Sends
  <2>3. Copies(r)'
    BY <1>1, <1>4, <1>5, <2>1
       DEF Copies, Sessions!Loaded, Sessions!Running, Alive, Sessions!Null, Sessions!Empty
  <2>4. Holds(r)'
    <3>1. PICK i : i = s.id
      OBVIOUS
    <3>2. Recorded(i) => Recorded(i)'
      <4>1. kept.device \in Int
        BY <1>3 DEF KeptType
      <4> QED
        BY <1>1, <4>1, RecordedKept
    <3>3. Recorded(req[r].id) => Recorded(i)
      BY <3>1 DEF Recorded, Alive
    <3>4. Recorded(i)' => Recorded(req[r].id)'
      BY <1>4, <1>5, <3>1 DEF Recorded, Alive
    <3> QED
      BY <1>1, <1>2, <1>4, <1>5, <2>1, <3>2, <3>3, <3>4 DEF Holds, Sessions!Null
  <2> QED
    BY <2>1, <2>2, <2>3, <2>4
<1> QED
  <2>1. /\ t.at # "off" => t.id > 0 /\ t.id <= ids' /\ t.data.v <= writes /\ <<t.id, t.data.v>> \notin dead
        /\ t.at # "run" => t.data = Sessions!Null
        /\ t.at # "off" /\ t.out <= ids'
    BY <1>1, <1>2, <1>4
  <2>2. /\ ids' \in Nat /\ ids <= ids' /\ ids' <= conf.maxIds /\ jar' \in Nat /\ jar' <= ids'
        /\ kept' \in KeptType /\ kept'.used <= clock /\ kept'.since <= clock
    BY <1>1, <1>2, <1>3
  <2>3. excused' \in BOOLEAN
    BY <1>1, <1>3
  <2> QED
    BY <1>1, <1>2, <1>4, <1>6, <2>1, <2>2, <2>3, RequestStep

(* What the application left is in the store under the id that the browser *)
(* has in the end.                                                         *)
LEMMA EndStep ==
  ASSUME SessionInv, NEW r \in Requests, Sessions!End(r)
  PROVE  SessionInv'
<1>0. PICK i : i = req[r].id
  OBVIOUS
<1> DEFINE s == req[r]
           j == IF ~s.ended /\ s.out # 0 THEN s.out ELSE jar
           t == Sessions!Off
<1>1. /\ Sessions!Running(r) /\ req' = [req EXCEPT ![r] = t] /\ jar' = j
      /\ records' = (IF s.dirty THEN Sessions!Written(s) ELSE records)
      /\ excused' = (excused \/ (s.ended /\ s.id # j))
      /\ UNCHANGED <<conf, clock, ids, writes, kept, dead>>
  BY DEF Sessions!End
<1>2. /\ s \in Sessions!SessionType /\ s.at = "run" /\ i \in Sessions!Ids /\ i > 0 /\ i <= ids /\ s.id = i
      /\ s.out \in Nat /\ s.out <= ids
  BY <1>0, <1>1, UnderWay
<1>3. /\ Structured /\ conf \in Installations
      /\ ids \in Nat /\ ids <= conf.maxIds /\ jar \in Nat /\ jar <= ids /\ excused \in BOOLEAN
      /\ clock \in Nat /\ Sessions!Ids = 0..conf.maxIds /\ conf.maxIds \in Nat
      /\ kept \in KeptType /\ kept.used <= clock /\ kept.since <= clock
      /\ kept.value \in Nat /\ kept.used \in Nat /\ kept.device \in Int
  <2>1. /\ Structured /\ conf \in Installations
        /\ ids \in Nat /\ ids <= conf.maxIds /\ jar \in Nat /\ jar <= ids /\ excused \in BOOLEAN
        /\ clock \in Nat /\ Sessions!Ids = 0..conf.maxIds /\ conf.maxIds \in Nat
        /\ kept \in KeptType /\ kept.used <= clock /\ kept.since <= clock
    BY SessionBasics
  <2>2. conf.maxWrites \in Nat /\ kept.value \in 0..conf.maxWrites /\ kept.used \in Nat
    BY <2>1, SessionFields, SessionAssumed
  <2>3. kept.device \in Int
    BY <2>1 DEF KeptType
  <2> QED
    BY <2>1, <2>2, <2>3
<1>4. /\ t \in Sessions!SessionType /\ t.at = "off" /\ t.data = Sessions!Null /\ t.out = 0
  <2>1. 0 \in Sessions!Ids
    BY <1>3
  <2> QED
    BY <2>1 DEF Sessions!Off, Sessions!SessionType
<1> HIDE DEF t
<1>5. ASSUME ~conf.overlap
      PROVE  /\ \A q \in Requests \ {r} : req[q].at = "off"
             /\ ~excused' => Recorded(jar)'
  <2>1. /\ \A q \in Requests \ {r} : req[q].at = "off"
        /\ Sends(r) /\ Copies(r) /\ Holds(r) /\ s.device = kept.device
    BY <1>2, <1>5, RunsAlone DEF Sends
  <2>2. ASSUME ~excused' PROVE Recorded(jar)'
    <3>1. ~excused
      BY <1>1, <2>2
    <3>2. ~s.dirty => Recorded(i)
      BY <1>0, <1>2, <2>1, <3>1 DEF Holds, Recorded, Alive
    <3>3. s.dirty => s.data # Sessions!Null /\ s.data.v = kept.value
      BY <1>1, <1>2, <2>1, <3>1 DEF Holds, Copies, Sessions!Loaded
    <3>4. Recorded(i)'
      <4>1. CASE s.dirty
        <5>1. conf.absolute > 0 /\ s.data.born # 0 => s.data.born >= kept.since
          BY <1>1, <2>1, <3>1, <3>3, <4>1 DEF Copies, Sessions!Loaded
        <5>2. records' = Sessions!Written(req[r]) /\ UNCHANGED <<conf, clock, kept>>
          BY <1>1, <4>1
        <5> QED
          BY <1>0, <1>1, <1>3, <2>1, <3>3, <4>1, <5>1, <5>2, WrittenRecorded
      <4>2. CASE ~s.dirty
        <5>1. records' = records
          BY <1>1, <4>2
        <5> QED
          BY <1>1, <1>3, <3>2, <4>2, <5>1, RecordedKept
      <4> QED
        BY <4>1, <4>2
    <3>5. CASE j = i
      <4>1. jar' = i
        BY <1>1, <3>5
      <4> QED
        BY <3>4, <4>1 DEF Recorded, Alive
    <3>6. CASE j # i
      <4>1. ~s.ended /\ s.out = 0 /\ j = jar
        BY <1>0, <1>1, <1>2, <2>1, <2>2, <3>6 DEF Sends
      <4>2. jar = 0 /\ records[i] = Sessions!NoRecord /\ s.data.v \in {0, -1}
        BY <1>0, <2>1, <3>6, <4>1 DEF Sends
      <4>3. jar' = 0
        BY <1>1, <4>1, <4>2
      <4>4. records[0] = Sessions!NoRecord /\ 0 \in Sessions!Ids
        BY <1>3 DEF Structured, StoreWell
      <4>5. records'[0] = records[0]
        <5>1. \A n : n = Sessions!Written(req[r]) => \A k \in Sessions!Ids : k # req[r].id => n[k] = records[k]
          BY <1>1, <1>3, WrittenFields
        <5>2. 0 # req[r].id
          BY <1>2
        <5> QED
          BY <1>1, <4>4, <5>1, <5>2
      <4>6. ~Alive(0)'
        BY <4>4, <4>5 DEF Alive, Sessions!Null, Sessions!NoRecord
      <4>7. kept.value = 0 \/ Sessions!Lapsed
        <5>1. CASE s.dirty
          BY <1>3, <3>3, <4>2, <5>1
        <5>2. CASE ~s.dirty
          BY <3>2, <4>2, <5>2 DEF Recorded, Alive, Sessions!NoRecord
        <5> QED
          BY <5>1, <5>2
      <4>8. kept'.value = 0 \/ Sessions!Lapsed'
        BY <1>1, <4>7 DEF Sessions!Lapsed, Sessions!Grace, Sessions!TouchInterval
      <4>9. Recorded(0)'
        BY <4>6, <4>8 DEF Recorded
      <4> QED
        BY <4>3, <4>9 DEF Recorded, Alive
    <3> QED
      BY <3>5, <3>6
  <2> QED
    BY <2>1, <2>2
<1> QED
  <2>1. /\ t.at # "off" => t.id > 0 /\ t.id <= ids' /\ t.data.v <= writes /\ <<t.id, t.data.v>> \notin dead
        /\ t.data # Sessions!Null => t.data.born <= clock
        /\ t.at # "run" => t.data = Sessions!Null
        /\ t.at = "off" /\ t.out <= ids'
    BY <1>1, <1>3, <1>4
  <2>2. /\ ids' \in Nat /\ ids <= ids' /\ ids' <= conf.maxIds /\ jar' \in Nat /\ jar' <= ids'
        /\ kept' \in KeptType /\ kept'.used <= clock /\ kept'.since <= clock
    BY <1>1, <1>2, <1>3
  <2>3. excused' \in BOOLEAN /\ (records' = records \/ (Sessions!Running(r) /\ records' = Sessions!Written(req[r])))
    BY <1>1, <1>3
  <2> QED
    BY <1>1, <1>4, <1>5, <2>1, <2>2, <2>3, RequestStep

(* With time a record expires no sooner than the session lapses.           *)
LEMMA RecordedLater ==
  ASSUME Structured, NEW i \in Sessions!Ids, Recorded(i), UNCHANGED <<records, conf, kept>>, clock' = clock + 1
  PROVE  Recorded(i)'
<1>1. /\ WellSaved(records[i]) /\ conf \in Installations /\ clock \in Nat
      /\ records[i].data \in Sessions!Payload \cup {Sessions!Null} /\ records[i].until \in Nat
      /\ kept.used \in Nat /\ kept.since \in Nat
  BY SessionFields DEF Structured, StoreWell
<1>2. /\ conf.idle \in Nat /\ conf.ttl \in Nat /\ Sessions!TouchInterval \in Nat /\ conf.absolute \in Nat
  BY <1>1, SessionAssumed
<1>3. Sessions!Grace <= conf.ttl - 1 - Sessions!TouchInterval /\ Sessions!Grace \in Int
  BY <1>2 DEF Sessions!Grace
<1>4. Sessions!Grace' = Sessions!Grace /\ Sessions!TouchInterval' = Sessions!TouchInterval
  BY DEF Sessions!Grace, Sessions!TouchInterval
<1>8. \/ clock + 1 - kept.used > Sessions!Grace
      \/ conf.absolute > 0 /\ clock + 1 - kept.since > conf.absolute
      => Sessions!Lapsed'
  <2>1. conf' = conf /\ kept' = kept /\ clock' = clock + 1
    OBVIOUS
  <2> QED
    BY ONLY <1>1, <1>2, <1>3, <1>4, <2>1 DEF Sessions!Lapsed
<1>5. CASE ~Alive(i)
  <2>1. ~Alive(i)'
    BY <1>1, <1>5 DEF Alive, Sessions!Null
  <2>2. kept.value = 0 \/ Sessions!Lapsed
    BY <1>5 DEF Recorded
  <2>3. Sessions!Lapsed => Sessions!Lapsed'
    <3>1. clock - kept.used > Sessions!Grace => clock + 1 - kept.used > Sessions!Grace
      BY <1>1, <1>3
    <3>2. clock - kept.since > conf.absolute => clock + 1 - kept.since > conf.absolute
      BY <1>1, <1>2
    <3> QED
      BY <1>8, <3>1, <3>2 DEF Sessions!Lapsed
  <2> QED
    BY <2>1, <2>2, <2>3 DEF Recorded
<1>6. CASE Alive(i) /\ Alive(i)'
  BY <1>4, <1>6 DEF Recorded
<1>7. CASE Alive(i) /\ ~Alive(i)'
  <2>1. /\ records[i].data # Sessions!Null /\ records[i].until = clock + 1
    BY <1>1, <1>7 DEF Alive, Sessions!Null
  <2>2. records[i].data.stime \in Int
    BY <1>1, <2>1, PayloadFields
  <2>3. /\ clock + 1 = records[i].data.stime + conf.ttl
        /\ kept.used <= records[i].data.stime + Sessions!TouchInterval
    BY <1>1, <1>7, <2>1 DEF WellSaved, Recorded
  <2>4. clock + 1 - kept.used >= conf.ttl - Sessions!TouchInterval
    BY <1>1, <1>2, <2>2, <2>3
  <2>5. clock + 1 - kept.used > Sessions!Grace
    BY <1>1, <1>2, <1>3, <2>4
  <2>6. Sessions!Lapsed'
    BY <1>8, <2>5
  <2> QED
    BY <1>7, <2>6 DEF Recorded
<1> QED
  BY <1>5, <1>6, <1>7

LEMMA TimeStep ==
  ASSUME SessionInv, Sessions!TimePasses
  PROVE  SessionInv'
<1>1. /\ clock < conf.horizon /\ clock' = clock + 1
      /\ UNCHANGED <<records, jar, req, conf, ids, writes, kept, dead, excused>>
  BY DEF Sessions!TimePasses
<1>2. /\ Structured /\ SessionTypes /\ StoreWell /\ clock \in Nat /\ clock > 0 /\ conf.horizon \in Nat
      /\ jar \in Sessions!Ids
      /\ req \in [Requests -> Sessions!SessionType] /\ kept \in KeptType
      /\ kept.used \in Nat /\ kept.since \in Nat /\ kept.used <= clock /\ kept.since <= clock
  BY SessionFields, SessionAssumed DEF SessionInv, Structured
<1>3. Sessions!Ids' = Sessions!Ids /\ Sessions!Payload' = Sessions!Payload /\ KeptType' = KeptType
  BY <1>1 DEF Sessions!Ids, Sessions!Payload, KeptType
<1>4. Sessions!SessionType' = Sessions!SessionType
  BY <1>3 DEF Sessions!SessionType, Sessions!Null
<1>5. SessionTypes'
  <2>1. clock' \in 1..conf.horizon
    BY <1>1, <1>2
  <2>2. Sessions!SessionTypeOK'
    BY <1>1, <1>2, <1>3, <1>4, <2>1 DEF SessionTypes, Sessions!SessionTypeOK, Sessions!Null
  <2> QED
    BY <1>1, <1>2, <1>3, <2>2 DEF SessionTypes
<1>6. StoreWell'
  <2>1. ASSUME NEW i \in Sessions!Ids PROVE WellSaved(records[i])'
    <3>1. WellSaved(records[i]) /\ records[i].data \in Sessions!Payload \cup {Sessions!Null}
      BY <1>2, SessionFields DEF StoreWell
    <3>2. records[i].data # Sessions!Null => records[i].data.stime \in Int /\ records[i].data.born \in Int
      BY <3>1, PayloadFields
    <3> QED
      BY <1>1, <1>2, <3>1, <3>2 DEF WellSaved, Sessions!Null
  <2> QED
    BY <1>1, <1>2, <1>3, <2>1 DEF StoreWell, Known, Sessions!NoRecord, Sessions!Null
<1>7. DeadKnown'
  BY <1>1, <1>2, <1>3 DEF Structured, DeadKnown
<1>8. ASSUME NEW r \in Requests PROVE ObjectWell(r)'
  <2>1. ObjectWell(r) /\ req[r].data \in Sessions!Payload \cup {Sessions!Null}
    BY <1>2, ObjectFields DEF Structured
  <2>2. req[r].data # Sessions!Null => req[r].data.born \in Int
    BY <2>1, PayloadFields
  <2> QED
    BY <1>1, <1>2, <2>1, <2>2 DEF ObjectWell, Known, Sessions!Null
<1>9. ASSUME ~conf.overlap PROVE Orderly'
  <2>1. Orderly
    BY <1>9 DEF SessionInv
  <2>2. OneAtATime'
    BY <1>1, <2>1 DEF Orderly, OneAtATime
  <2>3. Resting'
    <3>1. PICK j \in Sessions!Ids : j = jar
      BY <1>2
    <3>2. Resting /\ (Recorded(jar) => Recorded(j))
      BY <2>1, <3>1 DEF Orderly, Recorded, Alive
    <3>3. Recorded(j) => Recorded(j)'
      BY <1>1, <1>2, RecordedLater
    <3>4. Recorded(j)' => Recorded(jar)'
      BY <1>1, <3>1 DEF Recorded, Alive
    <3> QED
      BY <1>1, <3>2, <3>3, <3>4 DEF Resting
  <2>4. ASSUME NEW r \in Requests, req[r].at # "off"
        PROVE  (Sends(r) /\ Copies(r) /\ Holds(r))'
    <3>1. PICK i \in Sessions!Ids : i = req[r].id
      BY <1>2, ObjectFields
    <3>2. Sends(r) /\ Copies(r) /\ Holds(r)
      BY <2>1, <2>4 DEF Orderly
    <3>3. Sends(r)'
      BY <1>1, <3>2 DEF Sends, Sessions!NoRecord, Sessions!Null
    <3>4. ~Alive(req[r].id) => ~Alive(req[r].id)'
      <4>1. records[i].until \in Nat
        BY <1>2, SessionFields
      <4> QED
        BY <1>1, <1>2, <3>1, <4>1 DEF Alive, Sessions!Null
    <3>5. Copies(r)'
      BY <1>1, <3>2, <3>4 DEF Copies, Sessions!Loaded, Sessions!Running, Sessions!Null, Sessions!Empty
    <3>6. Recorded(i) => Recorded(i)'
      BY <1>1, <1>2, RecordedLater
    <3>7. Recorded(req[r].id) => Recorded(i)
      BY <3>1 DEF Recorded, Alive
    <3>8. Recorded(i)' => Recorded(req[r].id)'
      BY <1>1, <3>1 DEF Recorded, Alive
    <3>9. Holds(r)'
      BY <1>1, <3>2, <3>6, <3>7, <3>8 DEF Holds, Sessions!Null
    <3> QED
      BY <3>3, <3>5, <3>9
  <2> QED
    BY <1>1, <2>2, <2>3, <2>4 DEF Orderly
<1> QED
  BY <1>1, <1>5, <1>6, <1>7, <1>8, <1>9 DEF SessionInv, Structured

LEMMA SessionStarts ==
  ASSUME Sessions!SessionInit
  PROVE  SessionInv
<1>1. /\ conf \in Installations /\ records = [i \in Sessions!Ids |-> Sessions!NoRecord]
      /\ jar = 0 /\ req = [r \in Requests |-> Sessions!Off] /\ clock = 1 /\ ids = 0 /\ writes = 0
      /\ kept = [value |-> 0, used |-> 0, since |-> 0, device |-> 0] /\ dead = {} /\ excused = FALSE
  BY DEF Sessions!SessionInit
<1>2. /\ conf.horizon \in Nat /\ conf.horizon > 0 /\ conf.maxIds \in Nat /\ conf.maxWrites \in Nat
      /\ Sessions!Ids = 0..conf.maxIds
  BY <1>1, SessionAssumed
<1>3. /\ Sessions!NoRecord \in [data: Sessions!Payload \cup {Sessions!Null}, until: Nat]
      /\ Sessions!NoRecord.data = Sessions!Null /\ Sessions!Null.v = -1
  BY DEF Sessions!NoRecord, Sessions!Null
<1>4. /\ Sessions!Off \in Sessions!SessionType /\ Sessions!Off.at = "off" /\ Sessions!Off.data = Sessions!Null
      /\ Sessions!Off.out = 0
  <2>1. 0 \in Sessions!Ids
    BY <1>2
  <2> QED
    BY <2>1 DEF Sessions!Off, Sessions!SessionType
<1>5. /\ kept \in KeptType /\ kept.used = 0 /\ kept.since = 0 /\ kept.value = 0
  <2>1. 0 \in 0..conf.maxWrites /\ 0 \in 0..conf.horizon
    BY <1>2
  <2> QED
    BY <1>1, <2>1 DEF KeptType
<1>6. SessionTypes
  <2>1. /\ clock \in 1..conf.horizon /\ jar \in 0..ids /\ ids \in 0..conf.maxIds /\ writes \in 0..conf.maxWrites
        /\ dead \subseteq Sessions!Ids \X (1..conf.maxWrites)
    BY <1>1, <1>2
  <2>2. excused \in BOOLEAN
    BY <1>1
  <2> QED
    BY <1>1, <2>2, <1>3, <1>4, <1>5, <2>1 DEF SessionTypes, Sessions!SessionTypeOK
<1>7. StoreWell
  BY <1>1, <1>3 DEF StoreWell, WellSaved, Known
<1>8. DeadKnown
  BY <1>1 DEF DeadKnown
<1>9. \A r \in Requests : ObjectWell(r)
  BY <1>1, <1>4 DEF ObjectWell
<1>10. Orderly
  <2>1. 0 \in Sessions!Ids
    BY <1>2
  <2>2. ~Alive(jar)
    BY <1>1, <1>3, <2>1 DEF Alive
  <2>3. Recorded(jar)
    BY <1>5, <2>2 DEF Recorded
  <2> QED
    BY <1>1, <1>4, <2>3 DEF Orderly, OneAtATime, Resting
<1> QED
  BY <1>6, <1>7, <1>8, <1>9, <1>10 DEF SessionInv, Structured

LEMMA SessionStep ==
  ASSUME SessionInv, Sessions!SessionNext \/ UNCHANGED sessionVars
  PROVE  SessionInv'
<1>1. ASSUME NEW r \in Requests, NEW d \in conf.devices, Sessions!Begin(r, d)
      PROVE  SessionInv'
  BY <1>1, BeginStep
<1>2. ASSUME NEW r \in Requests, Sessions!LazyLoad(r) \/ Sessions!Load(r) \/ Sessions!Get(r)
      PROVE  SessionInv'
  BY <1>2, LazyLoadStep, LoadStep, ReadStep
<1>3. ASSUME NEW r \in Requests, Sessions!Set(r) \/ Sessions!Del(r) \/ Sessions!Clear(r)
      PROVE  SessionInv'
  BY <1>3, SessionSetStep, SessionDelStep, SessionClearStep
<1>4. ASSUME NEW r \in Requests, Sessions!Kick(r) \/ Sessions!Destroy(r)
      PROVE  SessionInv'
  BY <1>4, KickStep, DestroyStep
<1>5. ASSUME NEW r \in Requests, NEW b \in BOOLEAN, Sessions!RegenerateId(r, b)
      PROVE  SessionInv'
  BY <1>5, RegenerateStep
<1>6. ASSUME NEW r \in Requests, Sessions!SetSessionId(r) \/ Sessions!Save(r)
      PROVE  SessionInv'
  BY <1>6, SetSessionIdStep, SaveStep
<1>7. ASSUME NEW r \in Requests, Sessions!Flush(r) \/ Sessions!End(r)
      PROVE  SessionInv'
  BY <1>7, FlushStep, EndStep
<1>8. CASE Sessions!TimePasses
  BY <1>8, TimeStep
<1>9. CASE UNCHANGED sessionVars
  <2>1. UNCHANGED <<records, jar, req, conf, clock, ids, writes, kept, dead, excused>>
    BY <1>9 DEF sessionVars
  <2>2. Sessions!Ids' = Sessions!Ids /\ Sessions!Payload' = Sessions!Payload /\ KeptType' = KeptType
    BY <2>1 DEF Sessions!Ids, Sessions!Payload, KeptType
  <2>3. Sessions!SessionType' = Sessions!SessionType
    BY <2>2 DEF Sessions!SessionType, Sessions!Null
  <2>4. SessionTypes'
    BY <2>1, <2>2, <2>3 DEF SessionInv, Structured, SessionTypes, Sessions!SessionTypeOK, Sessions!Null
  <2>5. StoreWell' /\ DeadKnown'
    BY <2>1, <2>2
       DEF SessionInv, Structured, StoreWell, DeadKnown, WellSaved, Known, Sessions!NoRecord, Sessions!Null
  <2>6. \A r \in Requests : ObjectWell(r)'
    BY <2>1 DEF SessionInv, Structured, ObjectWell, Known, Sessions!Null
  <2>7. \A i : Recorded(i)' <=> Recorded(i)
    BY <2>1 DEF Recorded, Alive, Sessions!Lapsed, Sessions!Grace, Sessions!TouchInterval, Sessions!Null
  <2>8. ASSUME Orderly PROVE Orderly'
    <3>1. OneAtATime' /\ Resting'
      BY <2>1, <2>8 DEF Orderly, OneAtATime, Resting, Recorded, Alive, Sessions!Lapsed, Sessions!Grace,
                        Sessions!TouchInterval, Sessions!Null
    <3>2. ASSUME NEW r \in Requests, req[r].at # "off" PROVE (Sends(r) /\ Copies(r) /\ Holds(r))'
      <4>1. Sends(r) /\ Copies(r) /\ Holds(r)
        BY <2>8, <3>2 DEF Orderly
      <4>2. Sends(r)'
        BY <2>1, <4>1 DEF Sends, Sessions!NoRecord, Sessions!Null
      <4>3. Copies(r)'
        BY <2>1, <4>1 DEF Copies, Sessions!Loaded, Sessions!Running, Alive, Sessions!Null, Sessions!Empty
      <4>4. Holds(r)'
        BY <2>1, <4>1 DEF Holds, Recorded, Alive, Sessions!Lapsed, Sessions!Grace,
                          Sessions!TouchInterval, Sessions!Null
      <4> QED
        BY <4>2, <4>3, <4>4
    <3> QED
      BY <2>1, <3>1, <3>2 DEF Orderly
  <2> QED
    BY <2>1, <2>4, <2>5, <2>6, <2>8 DEF SessionInv, Structured
<1> QED
  BY <1>1, <1>2, <1>3, <1>4, <1>5, <1>6, <1>7, <1>8, <1>9 DEF Sessions!SessionNext

(* The invariant of the part, from which its properties follow.            *)
LEMMA SessionAlways == Spec => [](part = "session" => SessionInv)
<1> DEFINE Inv == part = "session" => SessionInv
<1>1. Init => Inv
  BY SessionStarts DEF Init
<1>2. Inv /\ [Next]_vars => Inv'
  <2> SUFFICES ASSUME Inv, [Next]_vars PROVE Inv'
    OBVIOUS
  <2>1. CASE part # "session"
    BY <2>1 DEF Next, vars
  <2>2. CASE part = "session"
    <3>1. Sessions!SessionNext \/ UNCHANGED sessionVars
      BY <2>2 DEF Next, vars
    <3> QED
      BY <2>2, <3>1, SessionStep
  <2> QED
    BY <2>1, <2>2
<1> QED
  BY <1>1, <1>2, PTL DEF Spec

(* With one request at a time, a session is what the application left in   *)
(* it, for every life time, touch interval, limit and binding, and however *)
(* often it was loaded, saved, regenerated and destroyed in between.       *)
THEOREM SessionPartKept == Spec => []SessionKept
<1>1. ASSUME part = "session" => SessionInv PROVE SessionKept
  <2>1. ASSUME part = "session", ~conf.overlap, ~excused, NEW r \in Requests, Sessions!Loaded(r)
        PROVE  req[r].data.v = kept.value
    <3>1. SessionInv /\ req[r].at # "off"
      BY <1>1, <2>1 DEF Sessions!Loaded, Sessions!Running
    <3>2. Copies(r)
      BY <2>1, <3>1, RunsAlone
    <3> QED
      BY <2>1, <3>2 DEF Copies
  <2> QED
    BY <2>1 DEF SessionKept, Sessions!SessionKept
<1> QED
  BY <1>1, SessionAlways, PTL

(* A value that was buried with its session does not come back under its   *)
(* id, whatever requests overlap.                                          *)
THEOREM SessionPartGone == Spec => []DestroyedGone
<1>1. ASSUME part = "session" => SessionInv PROVE DestroyedGone
  <2>1. ASSUME part = "session", NEW r \in Requests, Sessions!Loaded(r)
        PROVE  <<req[r].id, req[r].data.v>> \notin dead
    BY <1>1, <2>1 DEF SessionInv, Structured, ObjectWell, Known, Sessions!Loaded, Sessions!Running
  <2> QED
    BY <2>1 DEF DestroyedGone, Sessions!DestroyedGone
<1> QED
  BY <1>1, SessionAlways, PTL
===============================================================================
