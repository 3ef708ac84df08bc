------------------------------- MODULE GenePool -------------------------------
(***************************************************************************)
(* Gene\Pool, the database connection pool (src/db/pool.c), inside one     *)
(* Swoole worker.                                                          *)
(*                                                                         *)
(* Swoole coroutines are cooperative: a coroutine runs until it parks.     *)
(* The pool parks in exactly four places: while a PDO connection is being  *)
(* created, while one is probed for liveness, in Channel::pop() and in the *)
(* waits of close().  The variable cpu names the coroutine that is between *)
(* two parking points; nobody else moves until it parks or leaves the      *)
(* pool, so every loop of the code is as atomic here as it is there.       *)
(*                                                                         *)
(* A connection is an element of Conns from the moment its creation starts *)
(* until the pool or its holder drops the last reference; then the element *)
(* may be used again.  Time is not modelled: whether an idle connection is *)
(* older than idleTimeout, whether a probe answers, and when a timeout     *)
(* fires are free choices.                                                 *)
(*                                                                         *)
(* Swoole\Coroutine\Channel is external.  The pool pushes into it only     *)
(* while somebody is parked in pop() (see WaitersExact), and push() then   *)
(* resumes the first parked coroutine before it returns, so the channel    *)
(* itself never stores a connection and only its consumer queue is kept.   *)
(***************************************************************************)
EXTENDS Integers, Sequences, FiniteSets, SequencesExt

CONSTANTS
    Conns,          \* connection identities, a bound on the number open at once
    Borrowers,      \* coroutines that call get(), then put() or remove()
    Recyclers,      \* coroutines in which the timer runs recycleIdle()
    Checkers,       \* coroutines that call healthCheck()
    Closers,        \* callers of close()
    MinConns,       \* option "min"
    MaxConns,       \* option "max"
    DrainRounds,    \* number of 50 ms waits close() allows in its second phase
    AtomicMax,      \* largest value of the unsigned Swoole\Atomic
    CoroutineClose, \* whether close() is called inside a coroutine
    NoConn,         \* no connection
    NoProc          \* no coroutine

Procs == Borrowers \cup Recyclers \cup Checkers \cup Closers

ASSUME PoolAssumption ==
    /\ IsFiniteSet(Conns) /\ NoConn \notin Conns
    /\ NoProc \notin Procs
    /\ Borrowers \cap (Recyclers \cup Checkers \cup Closers) = {}
    /\ Recyclers \cap (Checkers \cup Closers) = {}
    /\ Checkers \cap Closers = {}
    /\ MinConns \in Nat /\ MaxConns \in Nat
    /\ DrainRounds \in Nat \ {0}
    /\ AtomicMax \in Nat /\ Cardinality(Conns) < AtomicMax
    /\ MinConns < AtomicMax /\ MaxConns < AtomicMax
    /\ CoroutineClose \in BOOLEAN

VARIABLES
    idle,     \* the C-level stack of idle connections, top at the end
    count,    \* currentCount, a Swoole\Atomic
    waiters,  \* the C-level count of coroutines blocked in Channel::pop()
    closed,   \* property "closed"
    channel,  \* whether property "channel" still holds the channel object
    parked,   \* the channel's queue of parked consumers, oldest first
    pc,       \* where each coroutine is
    conn,     \* the connection in each coroutine's local variable
    n,        \* the loop counter of each coroutine
    cached,   \* count_cached, of a recycler
    cpu       \* the coroutine between two parking points, or NoProc

vars == <<idle, count, waiters, closed, channel, parked, pc, conn, n, cached, cpu>>

-----------------------------------------------------------------------------
(* The unsigned atomic: add(1) and sub(1) wrap around.                     *)
Add(v) == IF v = AtomicMax THEN 0 ELSE v + 1
Sub(v) == IF v = 0 THEN AtomicMax ELSE v - 1

(* Mutant: the paired decrement forgets that close() has reset the count.  *)
UncheckedWaiterLess == waiters - 1

(* "if (po->waiters > 0) po->waiters--"                                    *)
OneWaiterLess == IF waiters > 0 THEN waiters - 1 ELSE waiters

(* get() gives up after this many failed attempts to create a connection.  *)
MaxRetries == MaxConns + 2

BorrowerPC == {"ready", "loop", "creating", "parked", "overflowing", "using"}
RecyclerPC == {"ready", "scan", "probing", "refill", "refilling"}
CheckerPC == {"ready", "check", "checking"}
CloserPC == {"ready", "drain", "draining", "wake"}

Idle == {idle[i] : i \in 1..Len(idle)}

(* The processes whose connection is paid for in count: a borrower counts  *)
(* before it creates, the recycler's refill counts only once it has it.    *)
Charging(p) == conn[p] # NoConn /\ pc[p] # "refilling"
Charged == Idle \cup {conn[p] : p \in {q \in Procs : Charging(q)}}

(* Identities no open connection has.                                      *)
Fresh == Conns \ (Idle \cup {conn[p] : p \in Procs})

(* p may move: it holds the cpu, or the cpu is free.                       *)
CanRun(p) == cpu \in {p, NoProc}

(* Programme counter of p, and who runs after the step.                    *)
Goto(p, l) == pc' = [pc EXCEPT ![p] = l]
Yield == cpu' = NoProc
Keep(p) == cpu' = p

(* p leaves the pool's code: its counters cease to exist.                  *)
Leave(p, l) ==
    /\ Goto(p, l) /\ Yield
    /\ n' = [n EXCEPT ![p] = 0]
    /\ cached' = [cached EXCEPT ![p] = 0]

(* p's local variable takes or loses a connection.                         *)
Hold(p, c) == conn' = [conn EXCEPT ![p] = c]
Drop(p) == Hold(p, NoConn)

(* Mutant: no look at the channel property, every late release counts.     *)
AlwaysReleaseSlot == count' = Sub(count)

(* An access to the pool after the channel property was nulled must leave  *)
(* the counter alone: close() has already reset it.                        *)
ReleaseSlotIfLive == count' = IF channel THEN Sub(count) ELSE count

-----------------------------------------------------------------------------
(* The constructor: the channel and the counter are created, then          *)
(* pool_fill() opens up to min connections and stops at the first failure. *)
(* Nobody else has a reference yet, so its waits interleave with nothing.  *)
Init ==
    /\ \E k \in 0..MinConns : \E s \in [1..k -> Conns] :
          /\ \A i, j \in 1..k : i # j => s[i] # s[j]
          /\ idle = s
          /\ count = k
    /\ waiters = 0
    /\ closed = FALSE
    /\ channel = TRUE
    /\ parked = <<>>
    /\ pc = [p \in Procs |-> "ready"]
    /\ conn = [p \in Procs |-> NoConn]
    /\ n = [p \in Procs |-> 0]
    /\ cached = [p \in Procs |-> 0]
    /\ cpu = NoProc

-----------------------------------------------------------------------------
(* Mutants: actions with a plausible mistake, to show that the properties  *)
(* below depend on the code.                                               *)

(* The idle stack is read without being popped.                            *)
GetIdlePeeks(p) ==
    /\ pc[p] = "loop" /\ n[p] < MaxRetries
    /\ idle # <<>>
    /\ Hold(p, Last(idle))
    /\ Leave(p, "using")
    /\ UNCHANGED <<idle, count, waiters, closed, channel, parked>>

(* No second look at closed after the creation.                            *)
CreatedUnchecked(p) ==
    /\ pc[p] = "creating"
    /\ Leave(p, "using")
    /\ UNCHANGED <<idle, count, waiters, closed, channel, parked, conn>>

(* The failed attempt is not counted as a retry.                           *)
CreateFailedForever(p) ==
    /\ pc[p] = "creating"
    /\ Drop(p)
    /\ IF closed
       THEN ReleaseSlotIfLive /\ Leave(p, "ready")
       ELSE /\ count' = Sub(count)
            /\ Goto(p, "loop") /\ Keep(p) /\ UNCHANGED <<n, cached>>
    /\ UNCHANGED <<idle, waiters, closed, channel, parked>>

(* A timed-out get() leaves its mark in waiters.                           *)
WaitTimeoutStillCounted(p) ==
    /\ pc[p] = "parked"
    /\ \E i \in 1..Len(parked) : parked[i] = p /\ parked' = RemoveAt(parked, i)
    /\ IF closed
       THEN Leave(p, "ready") /\ UNCHANGED <<count, conn>>
       ELSE /\ count' = Add(count)
            /\ \E c \in Fresh : Hold(p, c)
            /\ Goto(p, "overflowing") /\ Yield /\ UNCHANGED <<n, cached>>
    /\ UNCHANGED <<idle, waiters, closed, channel>>

(* The reservation of an overflow connection is not rolled back.           *)
OverflowFailedKeepsSlot(p) ==
    /\ pc[p] = "overflowing"
    /\ Drop(p) /\ Leave(p, "ready")
    /\ IF closed THEN ReleaseSlotIfLive ELSE UNCHANGED count
    /\ UNCHANGED <<idle, waiters, closed, channel, parked>>

(* After the hand-off put() falls through to the idle stack.               *)
PutHandOffAndIdle(p) ==
    /\ pc[p] = "using" /\ ~closed /\ count <= MaxConns /\ waiters > 0
    /\ LET q == Head(parked)
       IN  /\ conn' = [conn EXCEPT ![p] = NoConn, ![q] = conn[p]]
           /\ pc' = [pc EXCEPT ![p] = "ready", ![q] = "using"]
           /\ n' = [n EXCEPT ![q] = 0]
    /\ parked' = Tail(parked)
    /\ waiters' = OneWaiterLess
    /\ idle' = Append(idle, conn[p])
    /\ Yield
    /\ UNCHANGED <<count, closed, channel, cached>>

(* A round of close()'s second phase is not counted.                       *)
CloseRoundUncounted(p) ==
    /\ pc[p] = "draining"
    /\ \E i \in 1..Len(parked) :
          /\ parked[i] = p
          /\ IF count > 0
             THEN /\ parked' = Append(RemoveAt(parked, i), p)
                  /\ Yield /\ UNCHANGED pc
             ELSE /\ parked' = RemoveAt(parked, i)
                  /\ Goto(p, "wake") /\ Keep(p)
    /\ UNCHANGED <<idle, count, waiters, closed, channel, conn, n, cached>>

(* The channel is dropped without being closed.                            *)
CloseFinishWithoutWaking(p) ==
    /\ pc[p] = "wake"
    /\ count' = 0 /\ channel' = FALSE
    /\ Leave(p, "ready")
    /\ UNCHANGED <<idle, waiters, closed, parked, conn>>

-----------------------------------------------------------------------------
(* get().  On a closed pool it returns null at once and changes nothing.   *)
Get(p) ==
    /\ pc[p] = "ready" /\ ~closed /\ channel
    /\ Goto(p, "loop") /\ Keep(p)
    /\ UNCHANGED <<idle, count, waiters, closed, channel, parked, conn, n, cached>>

(* Step 1 of get()'s loop: the top of the idle stack.                      *)
GetIdle(p) ==
    /\ pc[p] = "loop" /\ n[p] < MaxRetries
    /\ idle # <<>>
    /\ Hold(p, Last(idle)) /\ idle' = Front(idle)
    /\ Leave(p, "using")
    /\ UNCHANGED <<count, waiters, closed, channel, parked>>

(* Step 2: below max, reserve a slot by counting first, then create.       *)
GetReserve(p) ==
    /\ pc[p] = "loop" /\ n[p] < MaxRetries
    /\ idle = <<>> /\ Add(count) <= MaxConns
    /\ count' = Add(count)
    /\ \E c \in Fresh : Hold(p, c)
    /\ Goto(p, "creating") /\ Yield
    /\ UNCHANGED <<idle, waiters, closed, channel, parked, n, cached>>

(* Step 3: at max the reservation is taken back and the coroutine parks    *)
(* behind the others in Channel::pop().                                    *)
GetPark(p) ==
    /\ pc[p] = "loop" /\ n[p] < MaxRetries
    /\ idle = <<>> /\ Add(count) > MaxConns
    /\ waiters' = waiters + 1
    /\ parked' = Append(parked, p)
    /\ Goto(p, "parked") /\ Yield
    /\ UNCHANGED <<idle, count, closed, channel, conn, n, cached>>

(* max + 2 attempts have failed: null.                                     *)
GetGiveUp(p) ==
    /\ pc[p] = "loop" /\ n[p] >= MaxRetries
    /\ Leave(p, "ready")
    /\ UNCHANGED <<idle, count, waiters, closed, channel, parked, conn>>

(* The connection of step 2 is there: it is lent, unless the pool was      *)
(* closed meanwhile; then it is dropped and its slot released if close()   *)
(* is still draining.                                                      *)
Created(p) ==
    /\ pc[p] = "creating"
    /\ IF closed
       THEN Drop(p) /\ ReleaseSlotIfLive /\ Leave(p, "ready")
       ELSE Leave(p, "using") /\ UNCHANGED <<conn, count>>
    /\ UNCHANGED <<idle, waiters, closed, channel, parked>>

(* Its creation failed: the slot is released and the loop goes on, at once *)
(* and without parking, with one retry less.                               *)
CreateFailed(p) ==
    /\ pc[p] = "creating"
    /\ Drop(p)
    /\ IF closed
       THEN ReleaseSlotIfLive /\ Leave(p, "ready")
       ELSE /\ count' = Sub(count)
            /\ n' = [n EXCEPT ![p] = @ + 1]
            /\ Goto(p, "loop") /\ Keep(p) /\ UNCHANGED cached
    /\ UNCHANGED <<idle, waiters, closed, channel, parked>>

(* The wait of step 3 times out: an open pool counts and creates an        *)
(* overflow connection, a closed one returns null.                         *)
WaitTimeout(p) ==
    /\ pc[p] = "parked"
    /\ \E i \in 1..Len(parked) : parked[i] = p /\ parked' = RemoveAt(parked, i)
    /\ waiters' = OneWaiterLess
    /\ IF closed
       THEN Leave(p, "ready") /\ UNCHANGED <<count, conn>>
       ELSE /\ count' = Add(count)
            /\ \E c \in Fresh : Hold(p, c)
            /\ Goto(p, "overflowing") /\ Yield /\ UNCHANGED <<n, cached>>
    /\ UNCHANGED <<idle, closed, channel>>

(* The overflow connection is created, or not.                             *)
OverflowCreated(p) ==
    /\ pc[p] = "overflowing"
    /\ IF closed
       THEN Drop(p) /\ ReleaseSlotIfLive /\ Leave(p, "ready")
       ELSE Leave(p, "using") /\ UNCHANGED <<conn, count>>
    /\ UNCHANGED <<idle, waiters, closed, channel, parked>>

OverflowFailed(p) ==
    /\ pc[p] = "overflowing"
    /\ Drop(p) /\ Leave(p, "ready")
    /\ IF closed THEN ReleaseSlotIfLive ELSE count' = Sub(count)
    /\ UNCHANGED <<idle, waiters, closed, channel, parked>>

-----------------------------------------------------------------------------
(* put() on a closed pool: the connection is dropped.                      *)
PutClosed(p) ==
    /\ pc[p] = "using" /\ closed
    /\ Drop(p) /\ ReleaseSlotIfLive
    /\ Leave(p, "ready")
    /\ UNCHANGED <<idle, waiters, closed, channel, parked>>

(* put() above max: the pool shrinks, whichever connection comes back.     *)
PutShrink(p) ==
    /\ pc[p] = "using" /\ ~closed /\ count > MaxConns
    /\ Drop(p) /\ count' = Sub(count)
    /\ Leave(p, "ready")
    /\ UNCHANGED <<idle, waiters, closed, channel, parked>>

(* put() with a blocked get(): Channel::push() resumes the oldest consumer, *)
(* which leaves get() with the connection before push() returns.           *)
PutHandOff(p) ==
    /\ pc[p] = "using" /\ ~closed /\ count <= MaxConns /\ waiters > 0
    /\ LET q == Head(parked)
       IN  /\ conn' = [conn EXCEPT ![p] = NoConn, ![q] = conn[p]]
           /\ pc' = [pc EXCEPT ![p] = "ready", ![q] = "using"]
           /\ n' = [n EXCEPT ![q] = 0]
    /\ parked' = Tail(parked)
    /\ waiters' = OneWaiterLess
    /\ Yield
    /\ UNCHANGED <<idle, count, closed, channel, cached>>

(* put() otherwise: back on the stack.                                     *)
PutIdle(p) ==
    /\ pc[p] = "using" /\ ~closed /\ count <= MaxConns /\ waiters = 0
    /\ idle' = Append(idle, conn[p]) /\ Drop(p)
    /\ Leave(p, "ready")
    /\ UNCHANGED <<count, waiters, closed, channel, parked>>

(* remove(): the borrower found its connection broken and discards it.     *)
RemoveLent(p) ==
    /\ pc[p] = "using"
    /\ Drop(p)
    /\ IF closed THEN ReleaseSlotIfLive ELSE count' = Sub(count)
    /\ Leave(p, "ready")
    /\ UNCHANGED <<idle, waiters, closed, channel, parked>>

-----------------------------------------------------------------------------
(* recycleIdle(): as many idle connections as there were at the start are  *)
(* popped one at a time.  On a closed pool only the timer is stopped.      *)
Recycle(p) ==
    /\ pc[p] = "ready" /\ ~closed
    /\ n' = [n EXCEPT ![p] = Len(idle)]
    /\ cached' = [cached EXCEPT ![p] = count]
    /\ Goto(p, "scan") /\ Keep(p)
    /\ UNCHANGED <<idle, count, waiters, closed, channel, parked, conn>>

(* Above min (by the cached count) and idle for too long: closed.          *)
RecycleEvict(p) ==
    /\ pc[p] = "scan" /\ n[p] > 0 /\ idle # <<>>
    /\ cached[p] > MinConns
    /\ idle' = Front(idle)
    /\ count' = Sub(count)
    /\ cached' = [cached EXCEPT ![p] = @ - 1]
    /\ n' = [n EXCEPT ![p] = @ - 1]
    /\ Keep(p)
    /\ UNCHANGED <<waiters, closed, channel, parked, pc, conn>>

(* Otherwise it is probed; the probe parks.                                *)
RecycleProbe(p) ==
    /\ pc[p] = "scan" /\ n[p] > 0 /\ idle # <<>>
    /\ Hold(p, Last(idle)) /\ idle' = Front(idle)
    /\ n' = [n EXCEPT ![p] = @ - 1]
    /\ Goto(p, "probing") /\ Yield
    /\ UNCHANGED <<count, waiters, closed, channel, parked, cached>>

(* The probe answers.  The count is read again; a pool closed meanwhile    *)
(* gets nothing back (and no slot is released).                            *)
RecycleAlive(p) ==
    /\ pc[p] = "probing"
    /\ Drop(p)
    /\ IF closed
       THEN Leave(p, "ready") /\ UNCHANGED idle
       ELSE /\ idle' = Append(idle, conn[p])
            /\ cached' = [cached EXCEPT ![p] = count]
            /\ Goto(p, "scan") /\ Keep(p) /\ UNCHANGED n
    /\ UNCHANGED <<count, waiters, closed, channel, parked>>

RecycleDead(p) ==
    /\ pc[p] = "probing"
    /\ Drop(p)
    /\ IF closed
       THEN Leave(p, "ready") /\ UNCHANGED count
       ELSE /\ count' = Sub(count)
            /\ cached' = [cached EXCEPT ![p] = count - 1]
            /\ Goto(p, "scan") /\ Keep(p) /\ UNCHANGED n
    /\ UNCHANGED <<idle, waiters, closed, channel, parked>>

(* The scan is over: refill up to min, again by the cached count.          *)
RecycleScanned(p) ==
    /\ pc[p] = "scan" /\ (n[p] = 0 \/ idle = <<>>)
    /\ Goto(p, "refill") /\ Keep(p)
    /\ UNCHANGED <<idle, count, waiters, closed, channel, parked, conn, n, cached>>

BelowMin(p) == cached[p] < MinConns /\ Len(idle) < MaxConns

Refill(p) ==
    /\ pc[p] = "refill" /\ BelowMin(p)
    /\ \E c \in Fresh : Hold(p, c)
    /\ Goto(p, "refilling") /\ Yield
    /\ UNCHANGED <<idle, count, waiters, closed, channel, parked, n, cached>>

RefillDone(p) ==
    /\ pc[p] = "refill" /\ ~BelowMin(p)
    /\ Leave(p, "ready")
    /\ UNCHANGED <<idle, count, waiters, closed, channel, parked, conn>>

Refilled(p) ==
    /\ pc[p] = "refilling"
    /\ Drop(p)
    /\ IF closed
       THEN Leave(p, "ready") /\ UNCHANGED <<idle, count>>
       ELSE /\ idle' = Append(idle, conn[p])
            /\ count' = Add(count)
            /\ cached' = [cached EXCEPT ![p] = @ + 1]
            /\ Goto(p, "refill") /\ Keep(p) /\ UNCHANGED n
    /\ UNCHANGED <<waiters, closed, channel, parked>>

RefillFailed(p) ==
    /\ pc[p] = "refilling"
    /\ Drop(p)
    /\ Leave(p, "ready")
    /\ UNCHANGED <<idle, count, waiters, closed, channel, parked>>

-----------------------------------------------------------------------------
(* healthCheck(): the same traversal without eviction or refill, and       *)
(* without a second look at closed when the probe answers.                 *)
HealthCheck(p) ==
    /\ pc[p] = "ready" /\ ~closed /\ channel
    /\ n' = [n EXCEPT ![p] = Len(idle)]
    /\ Goto(p, "check") /\ Keep(p)
    /\ UNCHANGED <<idle, count, waiters, closed, channel, parked, conn, cached>>

HealthProbe(p) ==
    /\ pc[p] = "check" /\ n[p] > 0 /\ idle # <<>>
    /\ Hold(p, Last(idle)) /\ idle' = Front(idle)
    /\ n' = [n EXCEPT ![p] = @ - 1]
    /\ Goto(p, "checking") /\ Yield
    /\ UNCHANGED <<count, waiters, closed, channel, parked, cached>>

HealthAlive(p) ==
    /\ pc[p] = "checking"
    /\ idle' = Append(idle, conn[p]) /\ Drop(p)
    /\ Goto(p, "check") /\ Keep(p)
    /\ UNCHANGED <<count, waiters, closed, channel, parked, n, cached>>

HealthDead(p) ==
    /\ pc[p] = "checking"
    /\ Drop(p) /\ count' = Sub(count)
    /\ Goto(p, "check") /\ Keep(p)
    /\ UNCHANGED <<idle, waiters, closed, channel, parked, n, cached>>

HealthDone(p) ==
    /\ pc[p] = "check" /\ (n[p] = 0 \/ idle = <<>>)
    /\ Leave(p, "ready")
    /\ UNCHANGED <<idle, count, waiters, closed, channel, parked, conn>>

-----------------------------------------------------------------------------
(* close().  The waiter count is reset and the pool marked closed.  Inside *)
(* a coroutine it goes on to drain; outside one it can only reset the      *)
(* count and drop the channel.  Once the channel is gone it is a no-op.    *)
Close(p) ==
    /\ pc[p] = "ready" /\ channel
    /\ waiters' = 0
    /\ closed' = TRUE
    /\ IF CoroutineClose
       THEN Goto(p, "drain") /\ Keep(p) /\ UNCHANGED <<count, channel>>
       ELSE count' = 0 /\ channel' = FALSE /\ UNCHANGED <<pc, cpu>>
    /\ UNCHANGED <<idle, parked, conn, n, cached>>

(* Phase 1: the idle stack is emptied.                                     *)
CloseDrain(p) ==
    /\ pc[p] = "drain" /\ idle # <<>>
    /\ idle' = Front(idle)
    /\ count' = Sub(count)
    /\ Keep(p)
    /\ UNCHANGED <<waiters, closed, channel, parked, pc, conn, n, cached>>

(* Phase 2: with connections still out, close() parks in Channel::pop().   *)
CloseDrained(p) ==
    /\ pc[p] = "drain" /\ idle = <<>>
    /\ IF count > 0
       THEN Goto(p, "draining") /\ parked' = Append(parked, p) /\ Yield
       ELSE Goto(p, "wake") /\ UNCHANGED parked /\ Keep(p)
    /\ UNCHANGED <<idle, count, waiters, closed, channel, conn, n, cached>>

(* One 50 ms wait is over (nobody pushes into a closed pool): once more,   *)
(* or give up on what is still out.                                        *)
CloseRound(p) ==
    /\ pc[p] = "draining"
    /\ n' = [n EXCEPT ![p] = @ + 1]
    /\ \E i \in 1..Len(parked) :
          /\ parked[i] = p
          /\ IF count > 0 /\ n[p] + 1 < DrainRounds
             THEN /\ parked' = Append(RemoveAt(parked, i), p)
                  /\ Yield /\ UNCHANGED pc
             ELSE /\ parked' = RemoveAt(parked, i)
                  /\ Goto(p, "wake") /\ Keep(p)
    /\ UNCHANGED <<idle, count, waiters, closed, channel, conn, cached>>

(* Channel::close() resumes the parked consumers, oldest first.  A get()   *)
(* sees the closed pool and returns null; another close() runs through its *)
(* remaining rounds without parking and finishes.                          *)
CloseWake(p) ==
    /\ pc[p] = "wake" /\ parked # <<>>
    /\ LET q == Head(parked)
       IN  /\ Goto(q, "ready")
           /\ n' = [n EXCEPT ![q] = 0]
           /\ IF q \in Closers
              THEN count' = 0 /\ channel' = FALSE /\ UNCHANGED waiters
              ELSE waiters' = OneWaiterLess /\ UNCHANGED <<count, channel>>
    /\ parked' = Tail(parked)
    /\ Keep(p)
    /\ UNCHANGED <<idle, closed, conn, cached>>

(* Everybody is awake: the count is reset and the channel dropped.         *)
CloseFinish(p) ==
    /\ pc[p] = "wake" /\ parked = <<>>
    /\ count' = 0 /\ channel' = FALSE
    /\ Leave(p, "ready")
    /\ UNCHANGED <<idle, waiters, closed, parked, conn>>

-----------------------------------------------------------------------------
(* What a coroutine does on its own once it has called into the pool...    *)
GetStep(p) ==
    \/ GetIdle(p) \/ GetReserve(p) \/ GetPark(p) \/ GetGiveUp(p)
    \/ Created(p) \/ CreateFailed(p)
    \/ WaitTimeout(p) \/ OverflowCreated(p) \/ OverflowFailed(p)
RecycleStep(p) ==
    \/ RecycleEvict(p) \/ RecycleProbe(p) \/ RecycleAlive(p) \/ RecycleDead(p)
    \/ RecycleScanned(p) \/ Refill(p) \/ RefillDone(p) \/ Refilled(p) \/ RefillFailed(p)
HealthStep(p) ==
    HealthProbe(p) \/ HealthAlive(p) \/ HealthDead(p) \/ HealthDone(p)
CloseStep(p) ==
    CloseDrain(p) \/ CloseDrained(p) \/ CloseRound(p) \/ CloseWake(p) \/ CloseFinish(p)

(* ... and what the application or the timer starts.                       *)
Return(p) == PutClosed(p) \/ PutShrink(p) \/ PutHandOff(p) \/ PutIdle(p) \/ RemoveLent(p)

Next ==
    \/ \E p \in Borrowers : CanRun(p) /\ (Get(p) \/ GetStep(p) \/ Return(p))
    \/ \E p \in Recyclers : CanRun(p) /\ (Recycle(p) \/ RecycleStep(p))
    \/ \E p \in Checkers : CanRun(p) /\ (HealthCheck(p) \/ HealthStep(p))
    \/ \E p \in Closers : CanRun(p) /\ (Close(p) \/ CloseStep(p))

(* A coroutine that holds the cpu runs on; one that is parked is resumed   *)
(* by the event loop when its I/O completes or its timer fires.  The loop  *)
(* serves due events in turn, so a coroutine that can move again and again *)
(* does move: strong fairness, because the cpu is taken in between.  Calls *)
(* into the pool are up to the application and are not fair.               *)
Fairness ==
    /\ \A p \in Borrowers : SF_vars(CanRun(p) /\ GetStep(p))
    /\ \A p \in Recyclers : SF_vars(CanRun(p) /\ RecycleStep(p))
    /\ \A p \in Checkers : SF_vars(CanRun(p) /\ HealthStep(p))
    /\ \A p \in Closers : SF_vars(CanRun(p) /\ CloseStep(p))

Spec == Init /\ [][Next]_vars
FairSpec == Spec /\ Fairness

-----------------------------------------------------------------------------
(* Each coroutine is where its part of the code can be.                    *)
PlacesOK ==
    /\ pc \in [Procs -> BorrowerPC \cup RecyclerPC \cup CheckerPC \cup CloserPC]
    /\ \A p \in Borrowers : pc[p] \in BorrowerPC
    /\ \A p \in Recyclers : pc[p] \in RecyclerPC
    /\ \A p \in Checkers : pc[p] \in CheckerPC
    /\ \A p \in Closers : pc[p] \in CloserPC

(* Type invariant.                                                         *)
TypeOK ==
    /\ idle \in Seq(Conns)
    /\ count \in 0..AtomicMax
    /\ waiters \in Nat
    /\ closed \in BOOLEAN
    /\ channel \in BOOLEAN
    /\ parked \in Seq(Borrowers \cup Closers)
    /\ PlacesOK
    /\ conn \in [Procs -> Conns \cup {NoConn}]
    /\ n \in [Procs -> Nat]
    /\ cached \in [Procs -> Int]
    /\ cpu \in Procs \cup {NoProc}

(* While the pool is open its counter is the number of connections it      *)
(* answers for: the idle ones, the lent ones, those being created by get() *)
(* and those taken out for a probe (pool.c:580-686, every add and sub of   *)
(* currentCount).  It can then never wrap around.                          *)
CountIsExact == ~closed => count = Cardinality(Charged)

(* A connection is in one place only: once on the idle stack, or in one    *)
(* coroutine's hands.  Two borrowers never talk over one connection, across *)
(* hand-offs, probes, refills and a close() (get() and put(), 793-1011).   *)
ExclusiveUse ==
    /\ \A i, j \in 1..Len(idle) : idle[i] = idle[j] => i = j
    /\ \A p \in Procs : conn[p] \notin Idle
    /\ \A p, q \in Procs : conn[p] = conn[q] /\ conn[p] # NoConn => p = q

(* put() decides by the C counter "waiters" whether to push into the       *)
(* channel (998-1006).  While the pool is open the counter is exactly the  *)
(* number of coroutines parked in pop(), each of them a get(): a push      *)
(* always finds a consumer and no connection is left behind in the channel.*)
WaitersExact ==
    ~closed => /\ waiters = Len(parked)
               /\ \A i \in 1..Len(parked) : parked[i] \in Borrowers

(* When close() is done nobody is left parked in the channel it dropped    *)
(* (1106-1129).                                                            *)
NobodyParkedAfterClose ==
    ~channel /\ (\A p \in Closers : pc[p] = "ready") => parked = <<>>

(* A closed pool lends nothing: no get() that was creating, parked or      *)
(* being handed a connection when the pool closed leaves with one          *)
(* (the closed checks after every parking point of get(), 856-930).        *)
NothingLentAfterClose ==
    [][closed => \A b \in Borrowers : pc'[b] = "using" => pc[b] = "using"]_vars

(* Once close() is done the pool owns no connection: none is left on, or   *)
(* pushed back to, the idle stack (1064-1075, 759-762, 1124-1127).         *)
ClosedHoldsNothing ==
    ~channel => idle = <<>>

(* The unsigned counter never wraps below zero: no late put(), remove() or *)
(* failed creation is subtracted after close() reset it (966-977).  It     *)
(* would then read as more connections than can be open at once.           *)
NeverWraps == count <= Cardinality(Conns)

(* After close() the pool owns nothing and counts nothing twice, whatever  *)
(* comes back late.                                                        *)
ClosedClean == ClosedHoldsNothing /\ NeverWraps

(* No get() stays parked while an idle connection could serve it: "This    *)
(* prevents starving concurrent get() callers" (pool.c:733-734).           *)
NoGetStarves ==
    ~closed /\ cpu = NoProc /\ parked # <<>> => idle = <<>>

(* Every get() returns, with a connection or with null.                    *)
GetReturns ==
    \A b \in Borrowers :
        pc[b] \in {"loop", "creating", "parked", "overflowing"}
            ~> pc[b] \in {"ready", "using"}

(* close() ends within its rounds whatever the borrowers do.               *)
CloseEnds == closed ~> ~channel
=============================================================================
