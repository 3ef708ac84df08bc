------------------------------ MODULE RedisPool ------------------------------
(***************************************************************************)
(* Gene\Cache\RedisPool in one Swoole worker (src/cache/redis_pool.c), and *)
(* the clients that borrow from it (src/cache/redis.c): coroutines that    *)
(* get, use, lose and give back connections, the timer that recycles idle  *)
(* ones, and the shutdown.  Coroutines yield only while they wait for the  *)
(* server or for the channel; every action is what runs between two yields.*)
(***************************************************************************)
EXTENDS Integers, SequencesExt

CONSTANTS
    Borrowers,  \* coroutines, one client object each
    Conns,      \* identities of connections
    Absent,
    Pools       \* configurations: [min, max, wait (rounds of close()), gets (bound)]

VARIABLES
    pool,     \* the configuration
    idle,     \* the stack of idle connections
    channel,  \* connections in the channel
    parked,   \* coroutines blocked in Channel::pop(), in order
    live,     \* the channel property is an object
    count,    \* currentCount, a Swoole\Atomic
    waiters,
    closed,
    pcs,      \* of the borrowers: "free" | "create" | "parked" | "overflow" | "held"
    lent,     \* the connection each borrower holds, or Absent
    tries,    \* rounds of get()'s loop
    recycler, \* the timer's coroutine: [pc, conn, left, cached]
    closer,   \* the rounds close() has left, or Absent
    gets      \* calls of get() so far

poolVars == <<pool, idle, channel, parked, live, count, waiters, closed, pcs, lent, tries,
              recycler, closer, gets>>

RedisPoolAssumption ==
    /\ IsFiniteSet(Borrowers) /\ Absent \notin Conns
    /\ \A p \in Pools :
          /\ p.min \in 0..p.max /\ p.max \in Nat \ {0} /\ p.wait \in Nat \ {0} /\ p.gets \in Nat
          /\ \A n \in 0..p.min : \E s \in [1..n -> Conns] : IsInjective(s)

InUse == ToSet(idle) \cup ToSet(channel) \cup {lent[b] : b \in Borrowers} \cup {recycler.conn}
Spare == Conns \ InUse
Fresh == CHOOSE c \in Spare : TRUE
Off == [pc |-> "off", conn |-> Absent, left |-> 0, cached |-> 0]

(* The constructor fills the stack up to min while the server answers.     *)
RedisPoolInit ==
    /\ pool \in Pools
    /\ \E n \in 0..pool.min :
          /\ idle = CHOOSE s \in [1..n -> Conns] : IsInjective(s)
          /\ count = n
    /\ channel = <<>> /\ parked = <<>> /\ live = TRUE /\ waiters = 0 /\ closed = FALSE
    /\ pcs = [b \in Borrowers |-> "free"]
    /\ lent = [b \in Borrowers |-> Absent]
    /\ tries = [b \in Borrowers |-> 0]
    /\ recycler = Off /\ closer = Absent /\ gets = 0

-----------------------------------------------------------------------------
(* get()                                                                   *)

(* One round of the loop, with n slots counted: an idle connection, a slot *)
(* below max, or the channel.                                              *)
Round(b, n, round) ==
    /\ tries' = [tries EXCEPT ![b] = round]
    /\ \/ /\ idle # <<>>
          /\ lent' = [lent EXCEPT ![b] = Last(idle)]
          /\ idle' = Front(idle)
          /\ pcs' = [pcs EXCEPT ![b] = "held"]
          /\ count' = n
          /\ UNCHANGED <<parked, waiters>>
       \/ /\ idle = <<>> /\ n < pool.max
          /\ count' = n + 1
          /\ pcs' = [pcs EXCEPT ![b] = "create"]
          /\ lent' = [lent EXCEPT ![b] = Absent]
          /\ UNCHANGED <<idle, parked, waiters>>
       \/ /\ idle = <<>> /\ n >= pool.max
          /\ count' = n
          /\ waiters' = waiters + 1
          /\ parked' = Append(parked, b)
          /\ pcs' = [pcs EXCEPT ![b] = "parked"]
          /\ lent' = [lent EXCEPT ![b] = Absent]
          /\ UNCHANGED idle

(* get() returns null, with n slots counted.                               *)
Refused(b, n) ==
    /\ pcs' = [pcs EXCEPT ![b] = "free"]
    /\ lent' = [lent EXCEPT ![b] = Absent]
    /\ tries' = [tries EXCEPT ![b] = 0]
    /\ count' = n
    /\ UNCHANGED <<idle, parked, waiters>>

Get(b) ==
    /\ pcs[b] = "free" /\ gets < pool.gets /\ ~closed /\ live
    /\ gets' = gets + 1
    /\ Round(b, count, 0)
    /\ UNCHANGED <<pool, channel, live, closed, recycler, closer>>

(* Mutant: a slot is given back although close() has reset the counter.    *)
ReleasedLate(n) == n - 1

Released(n) == IF live THEN n - 1 ELSE n

(* The server has answered, or refused.  A creation that close() overtook  *)
(* is thrown away.                                                         *)
Created(b) ==
    /\ pcs[b] \in {"create", "overflow"}
    /\ \/ /\ closed /\ Refused(b, Released(count))
       \/ /\ ~closed /\ Spare # {}
          /\ pcs' = [pcs EXCEPT ![b] = "held"]
          /\ lent' = [lent EXCEPT ![b] = Fresh]
          /\ UNCHANGED <<idle, parked, waiters, count, tries>>
       \/ /\ ~closed /\ pcs[b] = "create"
          /\ IF tries[b] + 1 < pool.max + 2 THEN Round(b, count - 1, tries[b] + 1)
                                            ELSE Refused(b, count - 1)
       \/ ~closed /\ pcs[b] = "overflow" /\ Refused(b, count - 1)
    /\ UNCHANGED <<pool, channel, live, closed, recycler, closer, gets>>

LeavesQueue(b) == \E i \in 1..Len(parked) : parked[i] = b /\ parked' = RemoveAt(parked, i)

(* Nobody handed a connection over in time: one more than max is created.  *)
TimedOut(b) ==
    /\ pcs[b] = "parked" /\ ~closed
    /\ LeavesQueue(b)
    /\ waiters' = IF waiters > 0 THEN waiters - 1 ELSE 0
    /\ count' = count + 1
    /\ pcs' = [pcs EXCEPT ![b] = "overflow"]
    /\ UNCHANGED <<pool, idle, channel, live, closed, lent, tries, recycler, closer, gets>>

(* The same, while close() drains: there is nothing to create for.         *)
TimedOutClosed(b) ==
    /\ pcs[b] = "parked" /\ closed
    /\ LeavesQueue(b)
    /\ waiters' = IF waiters > 0 THEN waiters - 1 ELSE 0
    /\ pcs' = [pcs EXCEPT ![b] = "free"]
    /\ UNCHANGED <<pool, idle, channel, live, count, closed, lent, tries, recycler, closer, gets>>

-----------------------------------------------------------------------------
(* put(), remove() and what a client calls them for                        *)

(* put(): an overflow is closed; a coroutine that waits is woken through   *)
(* the channel, and takes the connection before put() goes on.             *)
PutOpen(b, c) ==
    \/ /\ count > pool.max
       /\ count' = count - 1
       /\ pcs' = [pcs EXCEPT ![b] = "free"] /\ lent' = [lent EXCEPT ![b] = Absent]
       /\ UNCHANGED <<idle, channel, parked, waiters>>
    \/ /\ count <= pool.max /\ waiters > 0
       /\ IF parked = <<>>
            THEN /\ channel' = Append(channel, c)
                 /\ pcs' = [pcs EXCEPT ![b] = "free"] /\ lent' = [lent EXCEPT ![b] = Absent]
                 /\ UNCHANGED <<parked, waiters>>
            ELSE LET d == Head(parked) IN
                 /\ parked' = Tail(parked)
                 /\ waiters' = waiters - 1
                 /\ pcs' = [pcs EXCEPT ![b] = "free", ![d] = "held"]
                 /\ lent' = [lent EXCEPT ![b] = Absent, ![d] = c]
                 /\ UNCHANGED channel
       /\ UNCHANGED <<idle, count>>
    \/ /\ count <= pool.max /\ waiters = 0
       /\ idle' = Append(idle, c)
       /\ pcs' = [pcs EXCEPT ![b] = "free"] /\ lent' = [lent EXCEPT ![b] = Absent]
       /\ UNCHANGED <<channel, parked, waiters, count>>

(* release(), free() and __destruct() of the client.                       *)
Put(b) ==
    /\ pcs[b] = "held"
    /\ \/ ~closed /\ live /\ PutOpen(b, lent[b])
       \/ /\ closed
          /\ pcs' = [pcs EXCEPT ![b] = "free"] /\ lent' = [lent EXCEPT ![b] = Absent]
          /\ count' = Released(count)
          /\ UNCHANGED <<idle, channel, parked, waiters>>
    /\ UNCHANGED <<pool, live, closed, tries, recycler, closer, gets>>

(* A command found the connection dead: remove() it and get() another,     *)
(* with no yield in between.                                               *)
Reconnect(b) ==
    /\ pcs[b] = "held" /\ gets < pool.gets
    /\ gets' = gets + 1
    /\ \/ closed /\ Refused(b, Released(count))
       \/ ~closed /\ live /\ Round(b, count - 1, 0)
    /\ UNCHANGED <<pool, channel, live, closed, recycler, closer>>

-----------------------------------------------------------------------------
(* recycleIdle(), on a timer                                               *)

(* Discard over-age connections while more than min are counted, then ask  *)
(* the next one whether it is alive; with none left, refill up to min.     *)
Scan(stack, n, left, cached) ==
    \E gone \in 0..left :
        LET rest == left - gone
            deep == Len(stack) - gone
        IN /\ deep >= 0 /\ (gone > 0 => cached - gone >= pool.min)
           /\ count' = n - gone
           /\ \/ /\ rest > 0 /\ deep > 0
                 /\ idle' = SubSeq(stack, 1, deep - 1)
                 /\ recycler' = [pc |-> "probe", conn |-> stack[deep], left |-> rest - 1,
                                 cached |-> cached - gone]
              \/ /\ rest = 0 \/ deep = 0
                 /\ idle' = SubSeq(stack, 1, deep)
                 /\ recycler' = IF cached - gone < pool.min /\ deep < pool.max
                                  THEN [Off EXCEPT !.pc = "refill", !.cached = cached - gone]
                                  ELSE Off

RecycleIdle ==
    /\ recycler.pc = "off" /\ ~closed
    /\ Scan(idle, count, Len(idle), count)
    /\ UNCHANGED <<pool, channel, parked, live, waiters, closed, pcs, lent, tries, closer, gets>>

(* The ping has returned; the slot count is read again after it.           *)
Probed ==
    /\ recycler.pc = "probe"
    /\ \/ closed /\ recycler' = Off /\ UNCHANGED <<idle, count>>
       \/ ~closed /\ Scan(Append(idle, recycler.conn), count, recycler.left, count)
       \/ ~closed /\ Scan(idle, count - 1, recycler.left, count - 1)
    /\ UNCHANGED <<pool, channel, parked, live, waiters, closed, pcs, lent, tries, closer, gets>>

(* A connection for the minimum; the slot is counted once it exists.       *)
Refilled ==
    /\ recycler.pc = "refill"
    /\ \/ closed /\ recycler' = Off /\ UNCHANGED <<idle, count>>
       \/ /\ ~closed /\ Spare # {}
          /\ idle' = Append(idle, Fresh)
          /\ count' = count + 1
          /\ recycler' = IF recycler.cached + 1 < pool.min /\ Len(idle) + 1 < pool.max
                           THEN [recycler EXCEPT !.cached = @ + 1] ELSE Off
       \/ ~closed /\ recycler' = Off /\ UNCHANGED <<idle, count>>
    /\ UNCHANGED <<pool, channel, parked, live, waiters, closed, pcs, lent, tries, closer, gets>>

-----------------------------------------------------------------------------
(* close()                                                                 *)

(* The end of close(): who still waits is woken with nothing.              *)
Finished ==
    /\ parked' = <<>>
    /\ pcs' = [b \in Borrowers |-> IF b \in ToSet(parked) THEN "free" ELSE pcs[b]]
    /\ count' = 0 /\ live' = FALSE /\ channel' = <<>> /\ closer' = Absent

(* In a coroutine: the idle connections go, then it waits for the others.  *)
Close ==
    /\ ~closed /\ closed' = TRUE /\ waiters' = 0
    /\ idle' = <<>>
    /\ LET left == count - Len(idle) - Len(channel)
       IN \/ /\ left > 0 /\ count' = left /\ channel' = <<>> /\ closer' = pool.wait
             /\ UNCHANGED <<parked, pcs, live>>
          \/ left = 0 /\ Finished
    /\ UNCHANGED <<pool, lent, tries, recycler, gets>>

(* A round of the wait, which ends early when every slot was given back.   *)
Waited ==
    /\ closer # Absent
    /\ \/ /\ count > 0 /\ closer > 1 /\ closer' = closer - 1
          /\ UNCHANGED <<parked, pcs, count, live, channel>>
       \/ (count = 0 \/ closer = 1) /\ Finished
    /\ UNCHANGED <<pool, idle, waiters, closed, lent, tries, recycler, gets>>

(* Outside a coroutine, as the worker ends: nothing is drained, and who is *)
(* parked is left to its timeout.                                          *)
CloseOutside ==
    /\ ~closed /\ closed' = TRUE /\ waiters' = 0
    /\ count' = 0 /\ live' = FALSE /\ channel' = <<>>
    /\ UNCHANGED <<pool, idle, parked, pcs, lent, tries, recycler, closer, gets>>

RedisPoolNext ==
    \/ \E b \in Borrowers : Get(b) \/ Created(b) \/ TimedOut(b) \/ TimedOutClosed(b)
                              \/ Put(b) \/ Reconnect(b)
    \/ RecycleIdle \/ Probed \/ Refilled
    \/ Close \/ Waited \/ CloseOutside

RedisPoolSpec == RedisPoolInit /\ [][RedisPoolNext]_poolVars

-----------------------------------------------------------------------------
RedisPoolTypeOK ==
    /\ count \in Nat /\ waiters \in Nat /\ Len(idle) <= Cardinality(Conns)
    /\ \A b \in Borrowers : (pcs[b] = "held") <=> (lent[b] # Absent)

Of(states) == {b \in Borrowers : pcs[b] \in states}
Probing == IF recycler.pc = "probe" THEN 1 ELSE 0

(* While the pool is open every slot that currentCount counts is one that  *)
(* can come back - an idle connection, one lent, one being created or      *)
(* probed - and none waits in the channel where no coroutine takes it; a   *)
(* pool that was closed counts none, whatever is given back later.         *)
SlotsExact ==
    /\ ~closed => /\ count = Len(idle) + Cardinality(Of({"held", "create", "overflow"})) + Probing
                  /\ waiters = Len(parked)
    /\ ~live => count = 0

(* A connection is in one place: in the stack once, or with one borrower,  *)
(* or with the timer.                                                      *)
LendsOnce ==
    /\ IsInjective(idle)
    /\ \A b \in Of({"held"}) : /\ lent[b] \notin ToSet(idle) \cup {recycler.conn}
                               /\ \A d \in Of({"held"}) \ {b} : lent[d] # lent[b]
    /\ recycler.conn \notin ToSet(idle)

(* No slot of the pool is lost or invented, and no connection lent twice.  *)
RedisPoolExact == SlotsExact /\ LendsOnce
=============================================================================
