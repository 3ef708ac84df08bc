------------------------------- MODULE MCStores -------------------------------
(***************************************************************************)
(* Small instances of the stores and of what is built on them: Gene\Memory,*)
(* the session, the throttle, the pool of Redis connections, the registry  *)
(* of named pools and the Redis client.  They share no state here, so a    *)
(* behaviour has one of them, its part, and the variables of the others    *)
(* hold nothing.                                                           *)
(***************************************************************************)
EXTENDS Integers, Sequences, FiniteSets

CONSTANTS
    ValueKeys, CountKeys, RateKeys, LockKeys, Clients, Ptrs, Tokens, Max, Window, Ttls,
    SweepInterval, Sites, MaxTime, Absent,
    Requests, Installations,
    Callers, Limit, Period, Stores, Horizon,
    Borrowers, Conns, Pools,
    Names, Drivers, PoolObjects, Workflows, RegistryCareful,
    RedisCallers, Ttl, ServerMax, ServerWindow, MaxClock, MaxStrays, Uses

CONSTANTS v1, v2, n1, r1, l1

VARIABLES
    mem, fw, site, ready, dirty, sweeps, now, held, lease, granted,
    records, jar, req, conf, clock, ids, writes, kept, dead, excused,
    store, counter, ends, time, step, window, torn,
    pool, idle, channel, parked, live, count, waiters, closed, pcs, lent, tries,
    recycler, closer, gets,
    driver, decl, instances, cache, made, timer, flow,
    use, lock, rate, scripts, server, call, strays, holds, leases, allowed, runs, calls,
    part

Memory == INSTANCE GeneMemory
Sessions == INSTANCE Session
Throttling == INSTANCE Throttle
Pooling == INSTANCE RedisPool
Registry == INSTANCE PoolRegistry
Redis == INSTANCE RedisClient
    WITH clock <- server, Callers <- RedisCallers, Max <- ServerMax, Window <- ServerWindow

memoryVars == <<mem, fw, site, ready, dirty, sweeps, now, held, lease, granted>>
sessionVars == <<records, jar, req, conf, clock, ids, writes, kept, dead, excused>>
throttleVars == <<store, counter, ends, time, step, window, torn>>
poolVars == <<pool, idle, channel, parked, live, count, waiters, closed, pcs, lent,
    tries, recycler, closer, gets>>
registryVars == <<driver, decl, instances, cache, made, timer, flow>>
clientVars == <<use, lock, rate, scripts, server, call, strays, holds, leases,
    allowed, runs, calls>>
vars == <<memoryVars, sessionVars, throttleVars, poolVars, registryVars, clientVars, part>>

ASSUME Assumptions ==
    /\ Memory!MemoryAssumption
    /\ Sessions!SessionAssumption
    /\ Throttling!ThrottleAssumption
    /\ Pooling!RedisPoolAssumption
    /\ Registry!RegistryAssumption
    /\ Redis!RedisClientAssumption

(* Values and counters, and values in both memory modes, with and without  *)
(* a cap; the rate limit; locks, also evicted ones.                        *)
SiteChoices ==
    {[cap |-> 0, mode |-> "fpm", keys |-> {v1, n1}],
     [cap |-> 1, mode |-> "fpm", keys |-> {v1, v2}],
     [cap |-> 0, mode |-> "swoole", keys |-> {v1, r1}],
     [cap |-> 0, mode |-> "swoole", keys |-> {l1, v1}],
     [cap |-> 2, mode |-> "fpm", keys |-> {n1, r1, l1}]}

(* The plain session, an idle limit shorter than the life time, an         *)
(* absolute limit, binding to a device, a response that is sent early, and *)
(* requests that overlap.                                                  *)
Plain == [ttl |-> 4, uttl |-> 1, idle |-> 0, absolute |-> 0, bind |-> FALSE,
          overlap |-> FALSE, early |-> FALSE, devices |-> {1}, horizon |-> 4,
          maxIds |-> 2, maxWrites |-> 2]
InstallationChoices ==
    {[Plain EXCEPT !.ttl = 3],
     [Plain EXCEPT !.idle = 2, !.uttl = 2],
     [Plain EXCEPT !.absolute = 2],
     [Plain EXCEPT !.bind = TRUE, !.devices = {1, 2}, !.horizon = 2],
     [Plain EXCEPT !.early = TRUE, !.horizon = 1],
     [Plain EXCEPT !.overlap = TRUE, !.horizon = 1, !.maxIds = 3, !.maxWrites = 1]}

(* A pool that keeps one connection and may open a second, one that is     *)
(* full from the start, and one that opens its single one on demand.       *)
PoolChoices ==
    {[min |-> 1, max |-> 2, wait |-> 1, gets |-> 3],
     [min |-> 2, max |-> 2, wait |-> 2, gets |-> 2],
     [min |-> 0, max |-> 1, wait |-> 1, gets |-> 4]}

(* Two pools of one driver, and one of each.                               *)
DriverChoices ==
    {[n \in Names |-> "db"],
     CHOOSE f \in [Names -> {"db", "redis"}] : {f[n] : n \in Names} = {"db", "redis"}}

(* Locks, the rate limit, and the rate limit among other commands.         *)
UseChoices ==
    {[ops |-> {"lock", "unlock"}, calls |-> 3],
     [ops |-> {"rate"}, calls |-> 3],
     [ops |-> {"rate", "command"}, calls |-> 2]}

-----------------------------------------------------------------------------
(* The variables of a part that a behaviour does not have.                 *)
NoMemory ==
    /\ mem = Absent /\ fw = Absent /\ site = Absent /\ ready = Absent /\ dirty = Absent
    /\ sweeps = Absent /\ now = Absent /\ held = Absent /\ lease = Absent /\ granted = Absent
NoSession ==
    /\ records = Absent /\ jar = Absent /\ req = Absent /\ conf = Absent /\ clock = Absent
    /\ ids = Absent /\ writes = Absent /\ kept = Absent /\ dead = Absent /\ excused = Absent
NoThrottle ==
    /\ store = Absent /\ counter = Absent /\ ends = Absent /\ time = Absent /\ step = Absent
    /\ window = Absent /\ torn = Absent
NoRedisPool ==
    /\ pool = Absent /\ idle = Absent /\ channel = Absent /\ parked = Absent /\ live = Absent
    /\ count = Absent /\ waiters = Absent /\ closed = Absent /\ pcs = Absent /\ lent = Absent
    /\ tries = Absent /\ recycler = Absent /\ closer = Absent /\ gets = Absent
NoRegistry ==
    /\ driver = Absent /\ decl = Absent /\ instances = Absent /\ cache = Absent
    /\ made = Absent /\ timer = Absent /\ flow = Absent
NoRedisClient ==
    /\ use = Absent /\ lock = Absent /\ rate = Absent /\ scripts = Absent /\ server = Absent
    /\ call = Absent /\ strays = Absent /\ holds = Absent /\ leases = Absent /\ allowed = Absent
    /\ runs = Absent /\ calls = Absent

Init ==
    /\ part \in {"memory", "session", "throttle", "redisPool", "registry", "redisClient"}
    /\ IF part = "memory" THEN Memory!Init ELSE NoMemory
    /\ IF part = "session" THEN Sessions!SessionInit ELSE NoSession
    /\ IF part = "throttle" THEN Throttling!ThrottleInit ELSE NoThrottle
    /\ IF part = "redisPool" THEN Pooling!RedisPoolInit ELSE NoRedisPool
    /\ IF part = "registry" THEN Registry!RegistryInit ELSE NoRegistry
    /\ IF part = "redisClient" THEN Redis!RedisClientInit ELSE NoRedisClient

Next ==
    \/ /\ part = "memory" /\ Memory!Next
       /\ UNCHANGED <<sessionVars, throttleVars, poolVars, registryVars, clientVars, part>>
    \/ /\ part = "session" /\ Sessions!SessionNext
       /\ UNCHANGED <<memoryVars, throttleVars, poolVars, registryVars, clientVars, part>>
    \/ /\ part = "throttle" /\ Throttling!ThrottleNext
       /\ UNCHANGED <<memoryVars, sessionVars, poolVars, registryVars, clientVars, part>>
    \/ /\ part = "redisPool" /\ Pooling!RedisPoolNext
       /\ UNCHANGED <<memoryVars, sessionVars, throttleVars, registryVars, clientVars, part>>
    \/ /\ part = "registry" /\ Registry!RegistryNext
       /\ UNCHANGED <<memoryVars, sessionVars, throttleVars, poolVars, clientVars, part>>
    \/ /\ part = "redisClient" /\ Redis!RedisClientNext
       /\ UNCHANGED <<memoryVars, sessionVars, throttleVars, poolVars, registryVars, part>>

Spec == Init /\ [][Next]_vars

-----------------------------------------------------------------------------
(* The variables of the part that is there have their types.               *)
StoresTypeOK ==
    /\ part = "memory" => Memory!TypeOK
    /\ part = "session" => Sessions!SessionTypeOK
    /\ part = "throttle" => Throttling!ThrottleTypeOK
    /\ part = "redisPool" => Pooling!RedisPoolTypeOK
    /\ part = "registry" => Registry!RegistryTypeOK
    /\ part = "redisClient" => Redis!RedisClientTypeOK

(* The properties of the parts, by the names they have there.              *)
StoreSound == part = "memory" => Memory!StoreSound
ExpiringExact == part = "memory" => Memory!LockExclusive /\ Memory!RateExact
SessionKept == part = "session" => Sessions!SessionKept
DestroyedGone == part = "session" => Sessions!DestroyedGone
Throttled == part = "throttle" => Throttling!Throttled
RedisPoolExact == part = "redisPool" => Pooling!RedisPoolExact
RegistryKept == part = "registry" => Registry!RegistryKept
AnswersTrue == part = "redisClient" => Redis!AnswersTrue
=============================================================================
