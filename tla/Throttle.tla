------------------------------ MODULE Throttle ------------------------------
(***************************************************************************)
(* Gene\Throttle (src/tool/throttle.c): one counter in a shared store, and *)
(* clients of several processes that count attempts on it, or look before  *)
(* they work and count failures after.                                     *)
(*                                                                         *)
(* How hit() counts depends on the store: Gene\Memory and Gene\Cache\Redis *)
(* count and set the window in one step; a store with incr() (Gene\Cache\  *)
(* Memcached, phpredis) in two, and the client may die in between; a store *)
(* without incr() (\Memcached) can only create the counter.  Each call of  *)
(* the store is one step.                                                  *)
(***************************************************************************)
EXTENDS Integers, FiniteSets

CONSTANTS
    Callers,
    Limit,        \* $max
    Period,       \* $ttl, in seconds
    Stores,       \* of {"memory", "redis", "incr", "add"}: see above
    Horizon       \* bound on the clock

ThrottleAssumption ==
    /\ Limit \in Nat \ {0} /\ Period \in Nat \ {0} /\ Horizon \in Nat
    /\ Stores \subseteq {"memory", "redis", "incr", "add"}

VARIABLES
    store,     \* the kind of store
    counter,   \* its value, 0 = no such key
    ends,      \* when the key expires, 0 = never
    time,
    step,      \* where each caller is
    window,    \* ghost: when the counter was created, and the attempts allowed since
    torn       \* ghost: somebody died between incr and expire

throttleVars == <<store, counter, ends, time, step, window, torn>>

-----------------------------------------------------------------------------
Bound == Limit + Cardinality(Callers)
Value == IF ends # 0 /\ ends <= time THEN 0 ELSE counter

Goto(c, p) == step' = [step EXCEPT ![c] = p]

(* attempt() answers true up to the limit, and when the store refuses.     *)
Open == window.opened # 0 /\ time < window.opened + Period
Allow(c, n) ==
    window' = LET w == IF n = 1 /\ ~Open THEN [opened |-> time, passed |-> 0] ELSE window
              IN  IF step[c] = "attempt" /\ n <= Limit THEN [w EXCEPT !.passed = @ + 1] ELSE w

ThrottleInit ==
    /\ store \in Stores
    /\ counter = 0 /\ ends = 0 /\ time = 1
    /\ step = [c \in Callers |-> "idle"]
    /\ window = [opened |-> 0, passed |-> 0] /\ torn = FALSE

(* attempt() begins, or tooMany() lets its caller through to the work      *)
(* whose failure it will count; a caller that is turned away does nothing. *)
Attempt(c) ==
    /\ step[c] = "idle" /\ Goto(c, "attempt")
    /\ UNCHANGED <<store, counter, ends, time, window, torn>>

TooMany(c) ==
    /\ step[c] = "idle" /\ Value < Limit /\ Goto(c, "work")
    /\ UNCHANGED <<store, counter, ends, time, window, torn>>

(* The work is done: hit() for a failure, clear() for a success.           *)
Fails(c) ==
    /\ step[c] = "work" /\ Goto(c, "failed")
    /\ UNCHANGED <<store, counter, ends, time, window, torn>>

Clear(c) ==
    /\ step[c] = "work" /\ Goto(c, "idle")
    /\ counter' = 0 /\ ends' = 0
    /\ window' = [opened |-> 0, passed |-> 0]
    /\ UNCHANGED <<store, time, torn>>

Hitting(c) == step[c] \in {"attempt", "failed"} /\ Value < Bound

(* Mutant: the counter is created without its window.                      *)
HitAtomicBare(c) ==
    /\ Hitting(c) /\ store \in {"memory", "redis"}
    /\ counter' = Value + 1 /\ ends' = IF Value = 0 THEN 0 ELSE ends
    /\ Allow(c, Value + 1) /\ Goto(c, "idle")
    /\ UNCHANGED <<store, time, torn>>

(* gene_throttle_hit_raw() on Gene\Memory (gene_memory_incr_ttl) and on    *)
(* Gene\Cache\Redis (the script of gene_redis_hit).                        *)
HitAtomic(c) ==
    /\ Hitting(c) /\ store \in {"memory", "redis"}
    /\ counter' = Value + 1
    /\ ends' = IF Value = 0 \/ (store = "redis" /\ ends = 0) THEN time + Period ELSE ends
    /\ Allow(c, Value + 1) /\ Goto(c, "idle")
    /\ UNCHANGED <<store, time, torn>>

(* ... on a store with incr(): whoever created the counter sets the window *)
(* with a second call.                                                     *)
HitIncr(c) ==
    /\ Hitting(c) /\ store = "incr"
    /\ counter' = Value + 1 /\ ends' = IF Value = 0 THEN 0 ELSE ends
    /\ Allow(c, Value + 1)
    /\ Goto(c, IF Value = 0 THEN "expire" ELSE "idle")
    /\ UNCHANGED <<store, time, torn>>

HitExpire(c) ==
    /\ step[c] = "expire" /\ Goto(c, "idle")
    /\ ends' = IF Value = 0 THEN ends ELSE time + Period
    /\ UNCHANGED <<store, counter, time, window, torn>>

(* The client's process ends before the second call.                       *)
Dies(c) ==
    /\ step[c] = "expire" /\ Goto(c, "idle")
    /\ torn' = TRUE
    /\ UNCHANGED <<store, counter, ends, time, window>>

(* ... on a store with add() but no incr(): only the first hit counts, the *)
(* others are refused, and attempt() lets them pass.                       *)
HitAdd(c) ==
    /\ Hitting(c) /\ store = "add"
    /\ IF Value = 0 THEN counter' = 1 /\ ends' = time + Period ELSE UNCHANGED <<counter, ends>>
    /\ Goto(c, "idle")
    /\ UNCHANGED <<store, time, window, torn>>

ThrottleTick ==
    /\ time < Horizon
    /\ time' = time + 1
    /\ UNCHANGED <<store, counter, ends, step, window, torn>>

ThrottleNext ==
    \/ \E c \in Callers :
        \/ Attempt(c) \/ TooMany(c) \/ Fails(c) \/ Clear(c) \/ HitAtomic(c)
        \/ HitIncr(c) \/ HitExpire(c) \/ Dies(c) \/ HitAdd(c)
    \/ ThrottleTick

ThrottleSpec == ThrottleInit /\ [][ThrottleNext]_throttleVars

-----------------------------------------------------------------------------
(* The variables have their types.                                         *)
ThrottleTypeOK ==
    /\ store \in Stores /\ counter \in 0..Bound /\ ends \in 0..(Horizon + Period)
    /\ time \in 1..Horizon
    /\ step \in [Callers -> {"idle", "attempt", "work", "failed", "expire"}]
    /\ window \in [opened: 0..Horizon, passed: Nat] /\ torn \in BOOLEAN

(* No lock-out: a counter expires within one period, except between the    *)
(* two calls of a hit on a store with incr(), or when the client died      *)
(* there.                                                                  *)
LockoutEnds ==
    Value # 0 => \/ ends # 0 /\ ends <= time + Period
                 \/ store = "incr" /\ (torn \/ \E c \in Callers : step[c] = "expire")

(* In the period after a counter was created at most Limit attempts are    *)
(* allowed, leaving aside the answers of a store that refuses, however the *)
(* calls of the store interleave: the counter is not reset before the      *)
(* period is over, except by clear().                                      *)
AttemptsBounded == window.passed <= Limit

(* The throttle as its callers need it.                                    *)
Throttled == LockoutEnds /\ AttemptsBounded
=============================================================================
