------------------------------ MODULE CacheFlight ------------------------------
(***************************************************************************)
(* Cache misses of one Swoole worker (gene_cache_fill, src/cache/cache.c). *)
(*                                                                         *)
(* The first coroutine that misses a key, the leader, opens a flight and   *)
(* runs the callback that loads the value.  Coroutines that miss the key   *)
(* meanwhile park on a channel of their own until the leader hands them    *)
(* the value; one that waited too long, or whose leader failed, loads the  *)
(* value itself.  Keys of the versioned caches are tracked in the same     *)
(* way, but nobody waits for them.                                         *)
(*                                                                         *)
(* The flight is a reference-counted block of memory that the table of     *)
(* flights, the leader and everybody who joined point to.                  *)
(*                                                                         *)
(* A coroutine is a stack of calls, because the callback of one key may    *)
(* ask the cache for another.  An action is what a coroutine does between  *)
(* two places where it can park.  The coroutine that a push() resumes runs *)
(* before the one that pushed goes on; here it may also run later.         *)
(***************************************************************************)
EXTENDS Integers, SequencesExt

CONSTANTS
    Coros,      \* coroutines
    Keys,       \* cache keys
    Versioned,  \* those of the versioned caches
    Loads,      \* the keys that the callback of a key may ask for
    Flights,    \* blocks of memory a flight can be allocated in
    MaxDepth,   \* bound on calls within calls
    MaxCalls,   \* bound on the calls made
    None

ASSUME FlightAssumption ==
    /\ Versioned \subseteq Keys
    /\ Loads \in [Keys -> SUBSET Keys]
    /\ None \notin Flights
    /\ IsFiniteSet(Coros) /\ IsFiniteSet(Keys)
    /\ MaxDepth \in Nat /\ MaxCalls \in Nat

VARIABLES
    stack,    \* each coroutine's calls, the innermost last
    cached,   \* the keys that have a value in the cache
    table,    \* GENE_G(cache_inflight): the flight of each key, or None
    refs,     \* reference count of a flight, 0 if the block is free
    fillers,  \* how many are running the callback for a flight
    waiters,  \* the channels of a flight somebody is parked on, oldest first:
              \* the coroutine and the depth of its call
    calls     \* number of calls made

vars == <<stack, cached, table, refs, fillers, waiters, calls>>

-----------------------------------------------------------------------------
(* A call: its key, where it is, the flight it holds a reference to,       *)
(* whether it leads that flight, and how the callback ended.               *)
Places == {"get", "hit", "miss", "wait", "load", "notify", "store"}
Outcomes == {"value", "object", "error"}
FrameType ==
    [key : Keys, at : Places, flight : Flights \cup {None}, lead : BOOLEAN, out : Outcomes]
Frame(k) == [key |-> k, at |-> "get", flight |-> None, lead |-> FALSE, out |-> "error"]

Frames == {i \in Coros \X (1..MaxDepth) : i[2] <= Len(stack[i[1]])}
FrameAt(i) == stack[i[1]][i[2]]

Top(c) == Last(stack[c])
At(c, p) == stack[c] # <<>> /\ Top(c).at = p
With(c, fr) == Append(Front(stack[c]), fr)

Become(c, fr) == stack' = [stack EXCEPT ![c] = With(c, fr)]
Return(c) == stack' = [stack EXCEPT ![c] = Front(@)]

(* gene_cache_flight_release().                                            *)
Release(f) ==
    /\ refs' = [refs EXCEPT ![f] = @ - 1]
    /\ waiters' = IF refs[f] = 1 THEN [waiters EXCEPT ![f] = <<>>] ELSE waiters

Init ==
    /\ stack = [c \in Coros |-> <<>>]
    /\ cached = {}
    /\ table = [k \in Keys |-> None]
    /\ refs = [f \in Flights |-> 0]
    /\ fillers = [f \in Flights |-> 0]
    /\ waiters = [f \in Flights |-> <<>>]
    /\ calls = 0

-----------------------------------------------------------------------------
(* cached() is called by the application, or by the callback of a key, and *)
(* asks the cache.  The answer is on its way while others run.             *)
Call(c) ==
    /\ calls < MaxCalls /\ Len(stack[c]) < MaxDepth
    /\ \E k \in Keys :
          /\ stack[c] # <<>> => At(c, "load") /\ k \in Loads[Top(c).key]
          /\ stack' = [stack EXCEPT ![c] = Append(@, Frame(k))]
    /\ calls' = calls + 1
    /\ UNCHANGED <<cached, table, refs, fillers, waiters>>

Get(c) ==
    /\ At(c, "get")
    /\ Become(c, [Top(c) EXCEPT !.at = IF Top(c).key \in cached THEN "hit" ELSE "miss"])
    /\ UNCHANGED <<cached, table, refs, fillers, waiters, calls>>

Hit(c) ==
    /\ At(c, "hit")
    /\ Return(c)
    /\ UNCHANGED <<cached, table, refs, fillers, waiters, calls>>

(* No flight for the key: c leads a new one.                               *)
Lead(c) ==
    /\ At(c, "miss") /\ table[Top(c).key] = None
    /\ \E g \in Flights : refs[g] = 0
    /\ LET f == CHOOSE g \in Flights : refs[g] = 0 IN
          /\ table' = [table EXCEPT ![Top(c).key] = f]
          /\ refs' = [refs EXCEPT ![f] = 2]
          /\ fillers' = [fillers EXCEPT ![f] = 1]
          /\ Become(c, [Top(c) EXCEPT !.at = "load", !.flight = f, !.lead = TRUE])
    /\ UNCHANGED <<cached, waiters, calls>>

(* Mutant: the one that waits does not count as a user of the flight.      *)
JoinUncounted(c) ==
    LET f == table[Top(c).key] IN
    /\ At(c, "miss") /\ f # None /\ Top(c).key \notin Versioned
    /\ waiters' = [waiters EXCEPT ![f] = Append(@, <<c, Len(stack[c])>>)]
    /\ Become(c, [Top(c) EXCEPT !.at = "wait", !.flight = f])
    /\ UNCHANGED <<cached, table, refs, fillers, calls>>

(* c parks on a channel of its own (gene_cache_flight_wait).               *)
Join(c) ==
    LET f == table[Top(c).key] IN
    /\ At(c, "miss") /\ f # None /\ Top(c).key \notin Versioned
    /\ refs' = [refs EXCEPT ![f] = @ + 1]
    /\ waiters' = [waiters EXCEPT ![f] = Append(@, <<c, Len(stack[c])>>)]
    /\ Become(c, [Top(c) EXCEPT !.at = "wait", !.flight = f])
    /\ UNCHANGED <<cached, table, fillers, calls>>

(* A versioned key is never waited for.                                    *)
JoinVersioned(c) ==
    LET f == table[Top(c).key] IN
    /\ At(c, "miss") /\ f # None /\ Top(c).key \in Versioned
    /\ refs' = [refs EXCEPT ![f] = @ + 1]
    /\ fillers' = [fillers EXCEPT ![f] = @ + 1]
    /\ Become(c, [Top(c) EXCEPT !.at = "load", !.flight = f])
    /\ UNCHANGED <<cached, table, waiters, calls>>

(* Mutant: the pop has no timeout.                                         *)
WaitForever(c) == At(c, "wait") /\ FALSE /\ UNCHANGED vars

(* cache_fill_wait_ms are over: c loads the value itself, and keeps its    *)
(* reference.  Its channel stays in the flight, where a push into it       *)
(* reaches nobody.                                                         *)
WaitTimeout(c) ==
    LET f == Top(c).flight IN
    /\ At(c, "wait")
    /\ \E i \in 1..Len(waiters[f]) :
          /\ waiters[f][i] = <<c, Len(stack[c])>>
          /\ waiters' = [waiters EXCEPT ![f] = RemoveAt(@, i)]
    /\ fillers' = [fillers EXCEPT ![f] = @ + 1]
    /\ Become(c, [Top(c) EXCEPT !.at = "load"])
    /\ UNCHANGED <<cached, table, refs, calls>>

(* The callback of one that does not lead ends: with something to store,   *)
(* or with an exception.                                                   *)
FillEnds(c) ==
    LET f == Top(c).flight IN
    /\ At(c, "load") /\ ~Top(c).lead
    /\ fillers' = [fillers EXCEPT ![f] = @ - 1]
    /\ Release(f)
    /\ \/ Become(c, [Top(c) EXCEPT !.at = "store", !.flight = None])
       \/ Return(c)
    /\ UNCHANGED <<cached, table, calls>>

(* Mutant: when the callback throws, the exception leaves at once.         *)
LoadEndsThrowing(c) ==
    LET f == Top(c).flight
        k == Top(c).key
    IN
    /\ At(c, "load") /\ Top(c).lead
    /\ fillers' = [fillers EXCEPT ![f] = @ - 1]
    /\ table' = [table EXCEPT ![k] = IF @ = f THEN None ELSE @]
    /\ \/ /\ \E o \in {"value", "object"} :
                Become(c, [Top(c) EXCEPT !.at = "notify", !.out = o])
          /\ refs' = [refs EXCEPT ![f] = IF table[k] = f THEN @ - 1 ELSE @]
       \/ /\ Return(c)
          /\ refs' = [refs EXCEPT ![f] = @ - 2]
    /\ UNCHANGED <<cached, waiters, calls>>

(* The leader's callback ends.  The flight leaves the table first, so that *)
(* nobody joins any more.  An exception takes the same way as a bailout.   *)
LoadEnds(c) ==
    LET f == Top(c).flight
        k == Top(c).key
    IN
    /\ At(c, "load") /\ Top(c).lead
    /\ fillers' = [fillers EXCEPT ![f] = @ - 1]
    /\ \E o \in Outcomes : Become(c, [Top(c) EXCEPT !.at = "notify", !.out = o])
    /\ table' = [table EXCEPT ![k] = IF @ = f THEN None ELSE @]
    /\ refs' = [refs EXCEPT ![f] = IF table[k] = f THEN @ - 1 ELSE @]
    /\ UNCHANGED <<cached, waiters, calls>>

(* gene_cache_flight_notify(): a push resumes the coroutine parked on the  *)
(* channel.  With a value that can be shared its call is over, and it      *)
(* stores nothing; otherwise it loads the value itself.                    *)
Notify(c) ==
    LET f == Top(c).flight
        w == Head(waiters[f])[1]
    IN
    /\ At(c, "notify") /\ waiters[f] # <<>>
    /\ waiters' = [waiters EXCEPT ![f] = Tail(@)]
    /\ IF Top(c).out = "value"
       THEN /\ Return(w)
            /\ refs' = [refs EXCEPT ![f] = @ - 1]
            /\ UNCHANGED fillers
       ELSE /\ Become(w, [Top(w) EXCEPT !.at = "load"])
            /\ fillers' = [fillers EXCEPT ![f] = @ + 1]
            /\ UNCHANGED refs
    /\ UNCHANGED <<cached, table, calls>>

(* Everybody has been told; the leader gives its reference back.           *)
Notified(c) ==
    LET f == Top(c).flight IN
    /\ At(c, "notify") /\ waiters[f] = <<>>
    /\ Release(f)
    /\ IF Top(c).out = "error" THEN Return(c)
       ELSE Become(c, [Top(c) EXCEPT !.at = "store", !.flight = None])
    /\ UNCHANGED <<cached, table, fillers, calls>>

(* What c loaded itself goes into the cache.                               *)
Store(c) ==
    /\ At(c, "store")
    /\ cached' = cached \cup {Top(c).key}
    /\ Return(c)
    /\ UNCHANGED <<table, refs, fillers, waiters, calls>>

(* unsetCached(), or the entry expires, as long as somebody may still ask. *)
UnsetCached(k) ==
    /\ k \in cached
    /\ calls < MaxCalls \/ \E i \in Frames : FrameAt(i).at = "get"
    /\ cached' = cached \ {k}
    /\ UNCHANGED <<stack, table, refs, fillers, waiters, calls>>

-----------------------------------------------------------------------------
Step(c) ==
    \/ Get(c) \/ Hit(c) \/ Lead(c) \/ Join(c) \/ JoinVersioned(c) \/ WaitTimeout(c)
    \/ FillEnds(c) \/ LoadEnds(c) \/ Notify(c) \/ Notified(c) \/ Store(c)

Next ==
    \/ \E c \in Coros : Call(c) \/ Step(c)
    \/ \E k \in Keys : UnsetCached(k)

(* The event loop runs what can run: replies arrive, callbacks end, timers *)
(* fire.  Nobody has to call.                                              *)
Spec == Init /\ [][Next]_vars /\ \A c \in Coros : WF_vars(Step(c))

-----------------------------------------------------------------------------
(* Type invariant.                                                         *)
TypeOK ==
    /\ stack \in [Coros -> Seq(FrameType)]
    /\ \A c \in Coros : Len(stack[c]) <= MaxDepth
    /\ table \in [Keys -> Flights \cup {None}]
    /\ refs \in [Flights -> Nat] /\ fillers \in [Flights -> Nat]
    /\ waiters \in [Flights -> Seq(Coros \X (1..MaxDepth))]

(* The reference count of a flight is the number of those who can still    *)
(* reach it: the table and the calls that hold it.  So no flight is freed  *)
(* while the leader is still walking along its waiters, or somebody who    *)
(* timed out is still filling, and none leaks; and its filler count is the *)
(* number of callbacks running for it.                                     *)
RefsExact ==
    \A f \in Flights :
        LET held == {i \in Frames : FrameAt(i).flight = f} IN
        /\ refs[f] = Cardinality(held) + Cardinality({k \in Keys : table[k] = f})
        /\ fillers[f] = Cardinality({i \in held : FrameAt(i).at = "load"})

(* Who is parked has a leader that will still come to its channel: one     *)
(* that is loading or telling, and the channel is in the flight's list.    *)
(* Nobody is left to its timeout by a leader that failed, was overtaken or *)
(* is done.                                                                *)
WaiterHasLeader ==
    \A i \in Frames : FrameAt(i).at = "wait" =>
        /\ i \in Range(waiters[FrameAt(i).flight])
        /\ \E j \in Frames :
              /\ FrameAt(j).lead /\ FrameAt(j).flight = FrameAt(i).flight
              /\ FrameAt(j).at \in {"load", "notify"}

(* A key is in the table exactly while one leader runs its callback:       *)
(* nobody joins a flight that has landed, no key is led twice, and with no *)
(* call under way none is left ("no in-flight entries left",               *)
(* tools/acceptance/swoole_v3_singleflight.php:125).                       *)
InflightExact ==
    \A k \in Keys :
        LET leading == {i \in Frames : FrameAt(i).key = k /\ FrameAt(i).lead /\ FrameAt(i).at = "load"}
        IN  IF table[k] = None THEN leading = {}
            ELSE \E i \in leading : leading = {i} /\ FrameAt(i).flight = table[k]

(* A flight is accounted for on both sides: by those who hold it and by    *)
(* the table that lets others find it (gene_cache_fill).                   *)
FlightsExact == RefsExact /\ InflightExact

(* Every call returns, also when callbacks that ask for each other's keys  *)
(* wait for each other in a circle: of the MaxCalls calls that can be made *)
(* none is left in the end.                                                *)
EveryCallReturns == <>[](\A c \in Coros : stack[c] = <<>>)
=============================================================================
