----------------------------- MODULE PoolRegistry -----------------------------
(***************************************************************************)
(* The named pools of a Swoole worker: the registries of Gene\Pool and     *)
(* Gene\Cache\RedisPool (src/db/pool.c, src/cache/redis_pool.c) with the C *)
(* cache in front of them, and the application's declarations, which start *)
(* and stop the pools (src/app/application.c).                             *)
(*                                                                         *)
(* A pool object is abstracted to whether it still has connections to      *)
(* lend; what happens inside is in GenePool and RedisPool.  close() waits  *)
(* for connections that are lent, and the constructor for the server: both *)
(* let others run.  Everything is called in a coroutine.                   *)
(*                                                                         *)
(* Careful names what the application does not do:                         *)
(*   "overlap"  it creates or closes pools while a pool of that name is    *)
(*              being created or pools of that driver are being closed,    *)
(*              also by the application object;                            *)
(*   "by_hand"  it calls closeAll() itself although the application object *)
(*              has started pools of that driver.                          *)
(***************************************************************************)
EXTENDS FiniteSets

CONSTANTS
    Names,       \* of declared pools
    Drivers,     \* assignments of a driver, "db" or "redis", to each name
    PoolObjects,
    Workflows,   \* coroutines of the worker that start and stop pools
    RegistryCareful,
    Absent

RegistryAssumption ==
    /\ Drivers \subseteq [Names -> {"db", "redis"}]
    /\ RegistryCareful \subseteq {"overlap", "by_hand"}
    /\ Absent \notin Names \cup PoolObjects \cup {"db", "redis"}

VARIABLES
    driver,    \* the driver of each name
    decl,      \* GENE_G(pool_decls): "none", "declared" or "started"
    instances, \* the static property instances of both classes, by name
    cache,     \* the C cache of instances, which owns no reference
    made,      \* pool objects: "free" (no object), "open", "closing", "closed"
    timer,     \* which of them have a timer
    flow       \* where each coroutine is

registryVars == <<driver, decl, instances, cache, made, timer, flow>>

-----------------------------------------------------------------------------
(* A coroutine is in startPools(), in create() on behalf of it or of the   *)
(* application, or in closeAll() on behalf of closePools() or of the       *)
(* application.  It closes the pools in `closes`, still has the names or   *)
(* drivers in `left` to do, and is busy with the name or driver in `now`.  *)
Out == [in |-> "none", for |-> "none", now |-> Absent, closes |-> {}, left |-> {}]

Flow(c, f) == flow' = [flow EXCEPT ![c] = f]
Is(c, in) == flow[c].in = in

Registered(d) == {instances[n] : n \in {m \in Names : driver[m] = d}} \ {Absent}
Started == {driver[n] : n \in {m \in Names : decl[m] = "started"}}
Creating(d) == {flow[c].now : c \in {k \in Workflows : Is(k, "create")}} \cap {n \in Names : driver[n] = d}
Closing(d) == \E c \in Workflows : Is(c, "close") /\ d \in flow[c].left \cup {flow[c].now}

MayCreate(n) ==
    "overlap" \in RegistryCareful => n \notin Creating(driver[n]) /\ ~Closing(driver[n])
MayClose(ds) ==
    "overlap" \in RegistryCareful => \A d \in ds : Creating(d) = {} /\ ~Closing(d)

RegistryInit ==
    /\ driver \in Drivers
    /\ decl = [n \in Names |-> "none"]
    /\ instances = [n \in Names |-> Absent]
    /\ cache = [n \in Names |-> Absent]
    /\ made = [q \in PoolObjects |-> "free"]
    /\ timer = [q \in PoolObjects |-> FALSE]
    /\ flow = [c \in Workflows |-> Out]

(* Application::pools(); a name that is started is refused.                *)
Declare(n) ==
    /\ decl[n] = "none"
    /\ decl' = [decl EXCEPT ![n] = "declared"]
    /\ UNCHANGED <<driver, instances, cache, made, timer, flow>>

-----------------------------------------------------------------------------
(* create(name): close the pool of that name, which waits, make another,   *)
(* which waits for its connections, and register it.                       *)

(* Gene\Pool looks at the closed flag of the old pool, RedisPool calls     *)
(* close() again, which waits as long as the pool has its channel.         *)
Closes(n) ==
    /\ instances[n] # Absent
    /\ made[instances[n]] \in {"open"} \cup (IF driver[n] = "redis" THEN {"closing"} ELSE {})

(* The flag is set and the timer stopped before anybody else runs.         *)
Marked(qs) == made' = [q \in PoolObjects |-> IF q \in qs /\ made[q] = "open" THEN "closing" ELSE made[q]]
Silenced(qs) == timer' = [q \in PoolObjects |-> timer[q] /\ q \notin qs]

Create(c, n, for, left) ==
    LET f == [in |-> "create", for |-> for, now |-> n, closes |-> {}, left |-> left] IN
    IF Closes(n)
    THEN /\ Marked({instances[n]}) /\ Silenced({instances[n]})
         /\ Flow(c, [f EXCEPT !.closes = {instances[n]}])
    ELSE Flow(c, f) /\ UNCHANGED <<made, timer>>

CreateByHand(c, n) ==
    /\ Is(c, "none") /\ MayCreate(n)
    /\ Create(c, n, "none", {})
    /\ UNCHANGED <<driver, decl, instances, cache>>

(* Mutant: a pool that is marked closed already is left as it is.          *)
ClosedUnlessMarked(c) ==
    \E q \in flow[c].closes :
        /\ made' = IF Is(c, "close") THEN made ELSE [made EXCEPT ![q] = "closed"]
        /\ Flow(c, [flow[c] EXCEPT !.closes = @ \ {q}])
        /\ UNCHANGED <<driver, decl, instances, cache, timer>>

(* close() comes back.  It did not stop when it found the flag set, because*)
(* closeAll() sets the flags of all pools first.                           *)
Closed(c) ==
    \E q \in flow[c].closes :
        /\ made' = [made EXCEPT ![q] = "closed"]
        /\ Flow(c, [flow[c] EXCEPT !.closes = @ \ {q}])
        /\ UNCHANGED <<driver, decl, instances, cache, timer>>

(* An object that nothing refers to is freed: its timer refers to a pool,  *)
(* and so does whoever is closing it.  The destructor closes an open one.  *)
Referred(q, inst) ==
    \/ \E n \in Names : inst[n] = q
    \/ timer[q] \/ \E c \in Workflows : q \in flow[c].closes

(* The constructor has its connections, or did not get any, and has        *)
(* started the timer.                                                      *)
Register(c) ==
    LET n == flow[c].now IN
    /\ Is(c, "create") /\ flow[c].closes = {}
    /\ \E q \in PoolObjects :
          /\ made[q] = "free"
          /\ instances' = [instances EXCEPT ![n] = q]
          /\ cache' = [cache EXCEPT ![n] = q]
          /\ made' = [p \in PoolObjects |->
                        IF p = q THEN "open"
                        ELSE IF p = instances[n] /\ made[p] # "closing" /\ ~Referred(p, instances')
                        THEN "free" ELSE made[p]]
          /\ timer' = [timer EXCEPT ![q] = TRUE]
    /\ IF flow[c].for = "startPools"
       THEN /\ decl' = [decl EXCEPT ![n] = "started"]
            /\ Flow(c, [Out EXCEPT !.in = "startPools", !.left = flow[c].left])
       ELSE Flow(c, Out) /\ UNCHANGED decl
    /\ UNCHANGED driver

-----------------------------------------------------------------------------
(* startPools() creates what is declared and not started, one by one.      *)
Startable(c) == {n \in flow[c].left : decl[n] = "declared"}

StartPools(c) ==
    /\ Is(c, "none")
    /\ "overlap" \in RegistryCareful => \A n \in Names : MayCreate(n)
    /\ \A k \in Workflows : ~Is(k, "startPools")
    /\ Flow(c, [Out EXCEPT !.in = "startPools", !.left = Names])
    /\ UNCHANGED <<driver, decl, instances, cache, made, timer>>

StartNext(c) ==
    /\ Is(c, "startPools")
    /\ \E n \in Startable(c) : MayCreate(n) /\ Create(c, n, "startPools", flow[c].left \ {n})
    /\ UNCHANGED <<driver, decl, instances, cache>>

(* It is done, or throws because the next one has no configuration.        *)
StartEnds(c) ==
    /\ Is(c, "startPools")
    /\ Flow(c, Out)
    /\ UNCHANGED <<driver, decl, instances, cache, made, timer>>

-----------------------------------------------------------------------------
(* stopPoolTimers() for the drivers that have started pools, or stopTimers *)
(* of one class.                                                           *)
StopTimers ==
    /\ \E ds \in {Started, {"db"}, {"redis"}} :
          Silenced(UNION {Registered(d) : d \in ds})
    /\ UNCHANGED <<driver, decl, instances, cache, made, flow>>

(* closePools() calls closeAll() of the drivers that have started pools,   *)
(* first of Gene\Pool.                                                     *)
ClosePools(c) ==
    /\ Is(c, "none") /\ MayClose(Started)
    /\ Flow(c, [Out EXCEPT !.in = "close", !.for = "closePools", !.left = Started])
    /\ UNCHANGED <<driver, decl, instances, cache, made, timer>>

CloseAllByHand(c, d) ==
    /\ Is(c, "none") /\ MayClose({d})
    /\ "by_hand" \in RegistryCareful => d \notin Started
    /\ Flow(c, [Out EXCEPT !.in = "close", !.left = {d}])
    /\ UNCHANGED <<driver, decl, instances, cache, made, timer>>

(* closeAll() marks all pools before it closes the first of them, and keeps*)
(* a list of its own, because close() waits.                               *)
CloseAll(c) ==
    /\ Is(c, "close") /\ flow[c].now = Absent
    /\ \E d \in flow[c].left :
          /\ d = "redis" => "db" \notin flow[c].left
          /\ Marked(Registered(d)) /\ Silenced(Registered(d))
          /\ Flow(c, [flow[c] EXCEPT !.now = d, !.left = @ \ {d},
                        !.closes = {q \in Registered(d) : made[q] # "closed"}])
    /\ UNCHANGED <<driver, decl, instances, cache>>

Emptied(d, f) == [n \in Names |-> IF driver[n] = d THEN Absent ELSE f[n]]

(* All of the list are closed: the cache and the registry are emptied.     *)
CloseAllEnds(c) ==
    LET d == flow[c].now IN
    /\ Is(c, "close") /\ d # Absent /\ flow[c].closes = {}
    /\ instances' = Emptied(d, instances)
    /\ cache' = Emptied(d, cache)
    /\ made' = [q \in PoolObjects |->
                  IF q \in Registered(d) /\ made[q] # "closing" /\ ~Referred(q, instances')
                  THEN "free" ELSE made[q]]
    /\ Flow(c, [flow[c] EXCEPT !.now = Absent])
    /\ UNCHANGED <<driver, decl, timer>>

(* closePools() resets the declarations, so that they can be started again.*)
CloseEnds(c) ==
    /\ Is(c, "close") /\ flow[c].now = Absent /\ flow[c].left = {}
    /\ Flow(c, Out)
    /\ decl' = IF flow[c].for # "closePools" THEN decl
               ELSE [n \in Names |-> IF decl[n] = "started" THEN "declared" ELSE decl[n]]
    /\ UNCHANGED <<driver, instances, cache, made, timer>>

RegistryNext ==
    \/ \E n \in Names : Declare(n)
    \/ \E c \in Workflows :
          \/ \E n \in Names : CreateByHand(c, n)
          \/ \E d \in {"db", "redis"} : CloseAllByHand(c, d)
          \/ Closed(c) \/ Register(c)
          \/ StartPools(c) \/ StartNext(c) \/ StartEnds(c)
          \/ ClosePools(c) \/ CloseAll(c) \/ CloseAllEnds(c) \/ CloseEnds(c)
    \/ StopTimers

RegistrySpec == RegistryInit /\ [][RegistryNext]_registryVars

-----------------------------------------------------------------------------
(* The variables have their types.                                         *)
RegistryTypeOK ==
    /\ driver \in Drivers
    /\ decl \in [Names -> {"none", "declared", "started"}]
    /\ instances \in [Names -> PoolObjects \cup {Absent}]
    /\ cache \in [Names -> PoolObjects \cup {Absent}]
    /\ made \in [PoolObjects -> {"free", "open", "closing", "closed"}]
    /\ timer \in [PoolObjects -> BOOLEAN]
    /\ \A c \in Workflows :
          /\ flow[c].in \in {"none", "startPools", "create", "close"}
          /\ flow[c].closes \subseteq PoolObjects

(* No pool gets lost: one that may still have connections, or a timer, is  *)
(* in the registry under one name, so that closeAll() will find it; and    *)
(* getInstance() answers from its cache what the registry has, which is no *)
(* freed object.                                                           *)
NoneLost ==
    /\ \A q \in PoolObjects :
          made[q] \in {"open", "closing"} \/ timer[q] =>
              Cardinality({n \in Names : instances[n] = q}) = 1
    /\ cache = instances
    /\ \A n \in Names : instances[n] # Absent => made[instances[n]] # "free"

(* A pool that was started is there and open, unless its name is just      *)
(* being created or its driver's pools are being closed; also after they   *)
(* were closed and started again (startPools, closePools).                 *)
StartedServe ==
    \A n \in Names :
        decl[n] = "started" =>
            \/ n \in Creating(driver[n])
            \/ \E c \in Workflows : Is(c, "close")
            \/ instances[n] # Absent /\ made[instances[n]] = "open"

(* The pools of a worker: none is lost, and what was started serves        *)
(* (create, closeAll, startPools, closePools).                             *)
RegistryKept == NoneLost /\ StartedServe
=============================================================================
