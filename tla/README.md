# A verification project for Gene

Gene is a PHP framework written as a C extension. It runs under PHP-FPM, one request at a time, and under Swoole, where one
worker process serves many requests as *coroutines*. This directory holds TLA+ models of the parts of Gene in which the order
of steps matters, or in which many copies and conversions must agree; the TLC configurations that check them; and proofs
checked by TLAPS.

Contents: 1 the system, 2 the plan, 3 the modules, 4 the runs, 5 bounds, assumptions and fairness, 6 the proofs, 7 what the
project found, 8 what is not modelled.

## 1. The system

Coroutines of one worker share the process: its memory, the extension's globals (`GENE_G`), its connection pools and its
caches. They are cooperative. A coroutine runs until it *parks* (socket I/O, a database connect, `Channel::pop()`, a sleep);
no other coroutine of that worker runs in between. So C code without a parking point is atomic, and every value read before a
parking point may be stale after it. Under FPM nothing runs concurrently in a process, but the process lives on from request
to request, and so do its tables. Several workers share only what is outside: the database, Redis, Memcached.

| component | state it keeps | operations | interacts with | what is hard | what makes it correct |
|---|---|---|---|---|---|
| connection pool (`db/pool.c`) | idle stack, atomic counter, count of waiters, channel, closed flag | construct, get, put, remove, recycleIdle (timer), healthCheck, close | the database handles borrow from it; the Swoole timer and channel | get, recycler, health check and close all park in the middle and resume on a changed pool | the counter is exact, a connection is in one place, no waiter is stranded, a closed pool lends and keeps nothing |
| registries of pools (`db/pool.c`, `cache/redis_pool.c`) | static maps of named pools, a C cache of one, the application's declarations | create, getInstance, closeAll, stopTimers, startPools, closePools | worker start and stop | create and closeAll park between two updates of the map | no pool is forgotten, what was started serves |
| database handles (`db/pdo.c`, `mysql.c`, `pgsql.c`, `mssql.c`, `sqlite.c`) | a PDO object, the pool it came from, transaction state, the statement under construction, history | the statement builder, query, execute, reconnect, begin, commit, rollback, transaction, release, free | the pool, the ORM, the request cleanup | reconnect inside a transaction; values of many clauses collected in one array, in four copies of the code | every connection goes back once, outside a transaction; every placeholder gets its value |
| memory store (`cache/memory.c`) | a persistent hash table with expiry times, an LRU list, borrowed values, counters, locks | set, get, del, incr, sweep, rateLimit, lock | caches, throttle, router and configuration tables | entries that are expired, borrowed or evicted while in use; counters at their limits | bounded size, no value freed while borrowed, counters exact |
| cache (`cache/cache.c`) | loads in flight, version keys | cached, cachedVersion, unsetCached, updateVersion | Redis, Memcached or the memory store; the ORM | a load in flight while its data is invalidated; a leader that fails; a timeout of a waiter | one load per key, nobody waits for ever, no stale value under a current version |
| ORM (`orm/query.c`, `orm/model.c`, `orm/meta.c`) | queries as lists of operations, objects with a mark and a key, version keys pending per connection | build, replay, union; fill, save, delete, toggle, flip; publish, flush, discard | database handles, cache | queries share one handle; two tasks toggle one row; versions are published after the commit | what is executed is what was asked for; an object writes its own row; a committed write is never hidden by a cached value for ever |
| Redis client and pool (`cache/redis.c`, `redis_pool.c`) | a connection; the pool as above | commands with retry, lock, unlock, rateLimit; get, put, remove, recycle, close | server, pool, throttle, session, cache | a reply is lost and the command is sent again; the channel also holds connections | a lock has one holder, a limit holds, no slot is lost |
| session (`session/session.c`) | data, dirty flag, id | lazy load, get, set, del, save, regenerate, destroy | a cache driver, cookies | limits checked at the load, two requests of one session, early cookies | what one request saved is not lost, what was destroyed stays so |
| throttle (`tool/throttle.c`) | counters in a store | attempt, hit, tooMany, clear | store | increment and expiry are two calls on some stores | at most max attempts per window, no lock-out beyond it |
| request context (`gene.c`, `app/application.c`) | a table of contexts by coroutine id, a fast pointer, a free list | get, bind, clean up, sweep; run, handleSwoole | everything that is per request | ids, stacks and structures are reused | no state leaks between requests |
| container and loader (`di/di.c`, `factory/*.c`) | instances per request, aliases, the index of class keys | get, set, del, alias, magic properties, create | handles, request cleanup | constructors that ask the container; keys that look alike | a name gives one whole object |
| router and hooks (`router/router.c`) | prefix tree, hooks, closures by object handle, compiled dispatch descriptors | register, group, match, dispatch, clear, rebuild | memory store, request context | a table rebuilt while coroutines are inside it; closures found by reusable handles; fast and slow path | the right handler runs behind all of its hooks |
| application and extension life cycle | flags, declarations, paths | load, workerReady, run, policy | all of the above | nested and overlapping run() | see context, router, registries |
| validation (`http/validate.c`) | rules, messages, errors and values of one object; the rules of extend() for the process | init, name, the rules, msg, bail, skipOnEmpty, sometimes, filter, addValidator, extend, valid, groupValid | controllers, through the container | one object is used for many chains, a field under several names | the verdict, errors and values are what the chain asked for |
| HTTP, views, tools | none across calls | | | none | string work |

## 2. The plan

Order: what is shared by most requests and has the most parking points comes first. All of it is done, except for what
section 8 lists.

1. `GenePool`, with the abstract lender `ConnectionLease`, the refinement `GenePoolLease` and the proofs.
2. `VersionedCache` (proved) and the coalesced loads of `cached()`, `CacheFlight`.
3. The stores and what uses them: `GeneMemory`, `Session`, `Throttle`, `RedisPool`, `PoolRegistry`, `RedisClient` (all proved).
4. What serves a request: `RequestContext` (proved), `Router` (proved in part), `Container` (proved); the statement builders `MysqlBuilder` ... over
   `SqlStatement`, side by side in `DbBuilder`; `DbHandle` (proved); `OrmQuery`, and `OrmModel` (proved).

## 3. The modules

| modules | code | composed by |
|---|---|---|
| GenePool; ConnectionLease, GenePoolLease; GenePoolProofs (DataFacts) | db/pool.c | MCGenePool |
| VersionedCache; VersionedCacheProofs | cache/cache.c, orm/meta.c, orm/model.c | MCVersionedCache |
| CacheFlight; CacheFlightProofs (DataFacts) | cache/cache.c | MCCacheFlight |
| GeneMemory, Session, Throttle, RedisPool (RedisPoolProofs, DataFacts), PoolRegistry, RedisClient | cache/memory.c, session/session.c, tool/throttle.c, cache/redis_pool.c, db/pool.c and app/application.c, cache/redis.c | MCStores (StoresProofs) |
| RequestContext | gene.c and app/application.c, http/context.c | RequestParts (RequestPartsProofs, DataFacts), MCRequests (RequestsProofs) |
| Router | router/router.c | RequestParts (RequestPartsProofs), MCRequests (RequestsProofs, MCDispatch) |
| Container | di/di.c and factory | RequestParts (RequestPartsProofs), MCRequests (RequestsProofs, MCContainer) |
| Validate | http/validate.c | MCRequests (MCValidate) |
| SqlStatement, MysqlBuilder, PgsqlBuilder, SqliteBuilder, MssqlBuilder, DbBuilder | db/pdo.c, mysql.c, pgsql.c, sqlite.c, mssql.c | MCRequests (MCDbBuilder) |
| DbHandle | db/mysql.c, pdo.c, pool.c, gene.c | RequestParts (RequestPartsProofs), MCRequests (RequestsProofs), MCTransaction |
| OrmModel | orm/model.c | RequestParts (RequestPartsProofs), MCRequests (RequestsProofs, MCOrm) |
| OrmQuery | orm/query.c | MCRequests (MCOrm) |

### GenePool (src/db/pool.c)

One pool in one worker. `cpu` names the coroutine that is between two parking points; everybody else waits for it, which
makes the model's interleavings those of the program. The state is the object's: `idle` is the C array of idle connections
(LIFO), `count` the Swoole\Atomic, `waiters` the C counter, `closed` and `channel` the properties; `parked` is the consumer
queue of the external Swoole channel. `pc`, `conn`, `n` and `cached` are the local variables of the coroutines.

Each C function is cut at its parking points, and every loop iteration is an action: `Get`, `GetIdle`, `GetReserve`, `GetPark`,
`GetGiveUp`, `Created`, `CreateFailed`, `WaitTimeout`, `OverflowCreated`, `OverflowFailed` are `get()`; `PutClosed`,
`PutShrink`, `PutHandOff`, `PutIdle` the exits of `put()`; `RemoveLent` is `remove()`; `Recycle...` and `Refill...` the timer's
`recycleIdle()`; `Health...` is `healthCheck()`; `Close...` is `close()`. Connections are model values, reused once closed. Time
is left out: whether a connection is too old, whether a probe answers, whether a connect succeeds, and when a timeout fires
are free choices.

The Swoole channel is external and modelled from its use: `push()` resumes the oldest consumer at once, `close()` resumes all of
them, `pop()` returns false on timeout.

`ConnectionLease` is what any pool promises: a connection has one borrower, comes back or is discarded, and a shut pool lends
nothing. `GenePoolLease` states the refinement mapping: a borrower's lease is the connection it uses, the stock is the idle
stack and what the recycler or a health check holds, and the lender is open while `closed` is false.

### VersionedCache (src/cache/cache.c, src/orm/meta.c, src/orm/model.c)

Requests of any worker that read through `cachedVersion()`, `localCachedVersion()` or `processCachedVersion()`, and requests
that write through the ORM. Every command to the database, the cache server or APCu is one step; anything may happen between two
of them. A row is reduced to the column that version keys are mapped to and a stamp of the write that made it; `history` keeps
every committed table, so that an answer can be compared with what the table was.

A read is `CallShared` (entry and versions in one multi-get) or `CallLocal`, `FetchLocal` (entry first) or `CallProcess`,
`LookProcess` (versions first), then on a miss `Load` (or `LoadFails`) and `Store`, then `Answer`. A write is `Prefetch` (the
pre-read), `UpdateBy`, `Destroy` or `WriteFails`, or `Create` alone, or `Flip` followed by its read `FlipPrefetch`. `Publish` puts the
keys of the write into `pending` inside a transaction or into `todo`; `Increment` takes one key from there. `Commit`, `Rollback`,
`RawCommit` and `RequestEnd` are what the end of a transaction and of a request do with `pending`. `WriteKeys` is the set of keys
that `gene_orm_version_commit_write()` computes, `save()` and `delete()` on an instance being updates and deletes by primary key.

The promise: `AnswersRegular`, an answer is the query's result on some state of the table no older than the last one whose
increments were all done when the call began; and `SettledFresh`, with nothing left to increment, an entry that would be served
shows the table as it is.

### CacheFlight (src/cache/cache.c)

`gene_cache_fill()` and its callers in one Swoole worker. A flight is the C struct: `refs`, `fillers` and the list of channels,
here the coroutines parked on them; `table` is `GENE_G(cache_inflight)`. A coroutine is a stack of calls, since the callback that
loads one key may ask the cache for another. `Get`, `Hit` and `Store` are what `cached()` does around the fill; `Lead`, `Join` and
`JoinVersioned` the three ways into it, `WaitTimeout` the end of a waiter's patience, `LoadEnds` and `FillEnds` the end of a
callback with a value, with an object that cannot be shared or with an exception, `Notify` one push to a channel and `Notified`
the end of the leader's walk. The code resumes a waiter inside `push()`; the model also lets others run in between. That RSHUTDOWN
destroys the table is left out: no coroutine runs after it.

### GeneMemory (src/cache/memory.c)

The business table (`mem`: the values with addresses, expiry times, the order of eviction; that order, a linked
list in the code, is `lru`, which gives each key those written no earlier), the framework table (`fw`) that the router and the configuration use, and the addresses that callers still hold (`held`). Each method is one
step, as it holds the write lock throughout: `Set`, `Get`, `Del`, `Incr`, `Decr`, `RateLimit`, `LockKey`, `Unlock`, `Clean`, with
the periodic sweep (`sweeps`), the eviction and the deferred freeing that the method's own calls do. `SetByRouter`,
`DelFramework`, `GetByConfig` write and read the framework table, `WorkerReady` freezes it, `RequestStart` is RINIT, when values
that were read may go. `StoreSound`: the four tables agree and no address is free that somebody holds; under a cap the values of
plain `set()` are in the order of eviction like all others, which is what the code does and not what its comments say: `PlainStays`
is the comments' claim, and `MCMemory` the instance that refutes it (section 7). `ExpiringExact`
what locks (`LockExclusive`) and limits (`RateExact`) promise. `lease` and `granted` are ghosts that remember what callers were told.

### Session (src/session/session.c)

A browser (`jar`), up to two requests, and a store whose records expire. `Begin` is the constructor with the cookie's id;
`LazyLoad`, `Kick` (a record that fails the limits or the fingerprint is removed), `Get`, `Set`, `Del`, `Clear`, `Destroy`,
`RegenerateId`, `SetSessionId`, `Save`, `Load`, `End` (the destructor, with its save or touch) are cut at each call of the store;
`Flush` sends the response early. `SessionKept` compares what a request loads with what the application last left there (ghost
`kept`); `excused` marks the legal losses; when a loss was legal, the ghost becomes what the record has. `DestroyedGone` is about requests that overlap.

### Throttle (src/tool/throttle.c)

One counter, several callers, and the four ways in which stores count. `HitIncr` and `HitExpire` are the two calls of the generic
path, between which `Dies` may come. `Throttled`: a counter that bars callers expires, and no more than `Limit` attempts pass in
the period of a counter.

### RedisPool (src/cache/redis_pool.c) and PoolRegistry

`RedisPool` is built like `GenePool`, with other loops and a channel that could hold connections (it never does: that is
part of what is proved). `Get`, `Created`, `TimedOut`, `TimedOutClosed` are `get()`, `Put` and `Reconnect` (remove, then get) the client's side, `RecycleIdle`, `Probed`,
`Refilled` the timer, `Close`, `Waited`, `CloseOutside` the two shapes of `close()`. `RedisPoolExact`: the counter is the number of
connections while the pool is open, and no connection is in two places.

`PoolRegistry` has both registries and the application's declarations. `Closed` is a `close()` that returns, of which every
`create()`, `closeAll()` and `closePools()` waits for some; `Register` the end of `create()`. `RegistryKept`: a pool that may have
connections or a timer is in the registry under one name, the C cache is the registry, and a pool that was started is there and
open.

### RedisClient (src/cache/redis.c)

Callers, a server, and connections that break before or after the server has run a command; the second copy of a command, and the
first copy run late (`ServeStray`); a server that loses its scripts (`Restart`). `AnswersTrue`: who was told that it has the lock
has it, a window lets no more through than the limit, a command that was answered was run once or twice.

### Router (src/router/router.c)

Registration of routes, events, groups, policies and hooks (`Call...`), the tree walk (`Match` for `match()`), `Dispatch` in its
three forms and through a compiled descriptor, `Call` and `DispatchHooks` for each handler of a chain, between which a coroutine may
be suspended, `Finish`, and `Rebuild`: `clear()` and a second registration in a running worker. Closures live in `fnCache` under the
handle of their object, and freed handles are given out again, last freed first. `asked` and `named` remember what the application
asked for, by which `HooksHonoured` and `PlanExact` judge a dispatch; `DescriptorsLive` is about descriptors that are retired while
coroutines are inside; `ProbeInvisible` says that `match()` leaves the module, controller and action, the parameters and the matched
route of the request as they were, and of its language that it can only become that of a path that was probed, never none. That it
does become so is against a comment of the code (section 7).
`MCDispatch` enumerates the sites: all trees of up to three patterns, and mixes of hooks, groups and languages.

### RequestContext (src/gene.c, src/app/application.c)

The structures, the table by coroutine id, the pointer to the current one with the stack that it was taken for, the free list, the
sweep when the table is large, and a request's way from `Arrive` to `End`. `ContextsKept`: no coroutine is given a context with what
another wrote, with the deferred cleanup no context outlives its coroutine, and a sweep takes none from a request that works with one.

### The statement builders (src/db)

`SqlStatement` has what the drivers share: a part of the text is the values that its placeholders stand for, so that the order of
text and values can be compared without any text. One module per driver translates its methods, from handle to handle. `DbBuilder`
gives all four the same calls. `StatementExact`: every placeholder gets its value, and nothing of an earlier statement is left;
`DriversAgree`: the drivers make the same of the same calls.

### DbHandle (src/db)

Handles over the abstracted pool: `Begin` (the constructor), `BeginTransaction`, `Commit`, `RollBack`, `RunTransaction` with its
`Return` and `Throw`, `Execute` with the reconnect and retry, `Release`, `Free`, and `End` of the request; `Lose` breaks a connection.
The pool lends an idle connection, opens one, also above its maximum (after a wait in vain), or has none, and then the handle opens its
own; what comes back above the maximum is closed (`Goes`). `Execute` has both ways in which a lost connection shows: at the execution,
with the reconnect, and at the preparation, without.
`ConnectionsKept`: every connection is in one place and counted, and none goes back inside a transaction; `AllOrNothing`: a
`transaction()` has done all of its writes or none.

### OrmQuery and OrmModel (src/orm)

`OrmQuery`: a query is its list of operations; `Terminal` replays them on the shared handle in the order of the grammar, compiles
unions on clones, and executes. `QueryExact` compares what is executed with the `Meaning` of the operations, over all rows.
`OrmModel`: objects with their mark and key, static writes by condition, and tasks whose `toggle()` reads and then compares and
swaps. `RecordsKept`: an object writes its own row; `TogglesCounted`: a row has the status that the successful calls add up to.

### Container (src/di/di.c, src/factory)

The calls of the application and of its constructors, which are stacks of calls themselves (`making`). `ServicesKept`: whatever is
asked, a name keeps its object for the request, no half-built object is handed out, keys of class properties are all noted for
removal, the response is the context's own, the autoloader is registered when it is believed to be.

### Validate (src/http/validate.c)

`Configured` has one operator per method of the chain, on an `object` with the properties of the class; `Validation` is `valid()` or
`groupValid()`, a fold of `validCheck` (`Checked`) over the names and their fields (`Walk`). The ghost `chain` records the calls since
`init()`. `ValidationExact` reads the wanted tests, their order, arguments and messages off those calls, without the object's tables,
and compares the verdict, the errors with their order, and the values. Errors of an earlier validation stay until `init()`, so a
second validation may be true beside an old error; the property says so.

## 4. The runs

| run | instance | checks | result |
|---|---|---|---|
| pool_open | 3 borrowers, a recycler, a health check, two closers, min 1, max 2, 4 connections | TypeOK, CountIsExact, ExclusiveUse, WaitersExact, NobodyParkedAfterClose, NothingLentAfterClose, ImplementsLease | holds |
| pool_shutdown | 2 borrowers, a recycler, one closer, min = max = 1, fair | ClosedClean, GetReturns, CloseEnds | holds |
| flight_coalesce | 3 coroutines, 3 keys, one of them versioned, 4 calls, nested once, fair | FlightsExact, WaiterHasLeader, EveryCallReturns | holds |
| versions_fresh | 2 readers, 2 writers, 2 rows, 2 statements, each kind of cache; writes that do not overlap | TypeOK, AnswersRegular, SettledFresh | holds |
| stores | the memory store, sessions, throttle, Redis pool, registries and Redis client, one of them per behaviour | StoresTypeOK, StoreSound, ExpiringExact, SessionKept, DestroyedGone, Throttled, RedisPoolExact, RegistryKept, AnswersTrue | holds |
| requests | router, contexts, builders, handles, queries, records, container and validator, one of them per behaviour | RequestsTypeOK, HooksHonoured, DescriptorsLive, PlanExact, ContextsKept, StatementExact, DriversAgree, ConnectionsKept, AllOrNothing, QueryExact, RecordsKept, TogglesCounted, ServicesKept, ValidationExact, ProbeInvisible | holds |
| pool_recycle_starves | 2 borrowers and a recycler | NoGetStarves | violated, see 7 |
| pool_healthcheck_closed | as pool_open with one closer | NeverWraps | violated, see 7 |
| versions_stale_prefetch | 1 reader, 2 transactions on one row | AnswersRegular | violated, see 7 |
| handle_transaction | connections lost inside a transaction | AllOrNothing | violated, see 7 |
| handle_count_drifts | a connection lost while the server refuses new ones | StockCounted | violated, see 7 |
| memory_plain_evicted | two values of plain set(), a cap of one | PlainStays | violated, see 7 |

`MCStores` and `MCRequests` instantiate modules that share no state in this instance; the variable `part` says which of them a
behaviour is about, and the variables of the others hold nothing, so the state space is the sum of theirs and not the product.
Connections are interchangeable in the runs of the pool and in requests, coroutines in those of the pool, readers in
versions_fresh (SYMMETRY).

Every property of a passing run has a mutant: the same model with one plausible mistake, which violates it.

## 5. Bounds, assumptions and fairness

*Bounds of the pool.* `Conns` bounds the connections open at once. With max 2 and three borrowers four connections are enough for
the cases that matter: a full pool, a waiter, an overflow connection above max, a refill. The counter's range is 0..`AtomicMax`;
9 is more than can be open, so that a wrap-around is visible as a value no count of connections can have. `DrainRounds` is 2
instead of 60 rounds of 50 ms: one round that goes on and one that is the last. Three borrowers are the least that put one in use,
one parked and one connecting at a time. Deadlock checking is off because the system may rest: with every closer done nobody has to
call. The same holds of the other runs: applications may stop calling.

*Bounds of the caches.* In `VersionedCache` two writing statements (`MaxWrites`) are a write that is being published while the next
one is made, or two in one transaction. The cached query depends on a column value and on another row's primary key, so that a row
enters, leaves and changes within the result. Only version keys that some query names are kept. `Serialised` says that no two
writers are between pre-read and commit at a time: what the code promises without it fails, see 7. `Transactional` puts every write
in a transaction. `ScanLimit` stays above the number of rows: beyond it the code warns and does not invalidate. In `CacheFlight`
three coroutines are a leader and two waiters, the least for which the leader's walk goes on after somebody it resumed; four calls
leave one for a nested call or for coming back after a timeout. `MaxDepth` 2 lets callbacks wait for each other in a circle. There
are as many `Flights` as calls, so memory for one never runs out.

*Bounds of the stores.* Times to live of 0 (for ever) and 1, a clock to 4 and a sweep at every second write let each entry expire
unread, be found expired and be swept; caps of 1 and 2 entries force evictions, also of counters and locks. `LockExclusive` and
`RateExact` are promised without a cap only: with one, a lock may be evicted. Two overlapping requests of one session; windows and
periods of 1 and 2 ticks. Five Redis connections for three borrowers leave one to spare for a reconnect (a creation succeeds while `Conns` has an unused one). Two names, four pool objects
and two coroutines let a pool be created, closed and created again while the other coroutine is in the registry. One stray command
(`MaxStrays`) suffices for a first copy that runs after its second.

*Bounds of the requests.* Two requests at once, two rebuilds (one while each of them is inside), two dispatches per process in
turn; a free list of one structure and a table of two contexts, so that both limits are met; three coroutines that reuse two ids and
two stacks. Builder calls and clauses per statement are bounded per application (`MCDbBuilder`), enough for every method to stand
before and after every other kind of clause. Three connections, two writes. Unions nest to a depth of 3
in place of the code's 8 (`UnionDepth`); `LongMax` 9 instead of 2^63 - 1 for the product of page and size.
Five applications of the validator (`MCValidate`) say what each call of a chain of up to eight may be: enough for a rule and a message
called twice, a field in two names, two validations with a filter between them, and every rule on every kind of value.

*What the application is assumed to do.* Each `...Careful` constant names what callers avoid because the code gives no answer to
it; dropping a name lets TLC find the case, and most of them are findings of section 7. Builders: `"union"`, `"verb"`, `"literal"`.
Queries: `"or"`. Records: `"retry"`, `"null"`; the application fills in a key only on an unmarked object without one, and calls
setExists() only for objects without a row. Validator: no callback accepts an absent field.
Container: `"throws"`, `"response"`, and `"itself"`, no constructor asks for or writes what it is being built for (a circle of
constructors recurses without end); a name that is also a class is configured for that class, and only setResponse() writes
the key of the response (`ContainerAssumption`). Registries: `"overlap"`, two creations of one name at a time or one while its driver is being
closed, and `"by_hand"`, create() of a declared name by the application; everything is called in a coroutine
and idleTimeout is positive, so that every pool has a timer. Router: a group's hook is no closure when reload is off; no closure is
a before hook in a site that clears and registers again; hooks are registered before they are used, and a handler keeps its kind
without clear(); the XOR keys of composed hooks are distinct; no rebuild while a dispatch of the closure form is under way. Workers
without cleanup reuse neither ids nor stacks. A lost connection of a pool can be replaced by one of the pool (`failing` is
FALSE), and in the run `requests` none is lost inside a transaction.

*Fairness.* `CacheFlight` asks weak fairness of everything inside a call: replies arrive, callbacks end, timers fire. `FairSpec` of
the pool asks strong fairness of what a coroutine does once it is inside the pool (`GetStep`, `RecycleStep`, `HealthStep`,
`CloseStep`): the event loop serves finished I/O and due timers in turn, so a parked coroutine that can go on again and again does go
on. It is strong because the cpu is taken in between by others. Starting a call, and giving a connection back, is up to the
application and is not fair: `GetReturns` and `CloseEnds` hold with borrowers that never return anything. The other modules state
safety only: their operations end within the call, and what they wait for (a server's answer) is outside.

## 6. The proofs

*The pool.* `GenePoolProofs` proves, for every set of borrowers, recyclers, health checks and closers and every min and max
(assumption `PoolAssumption`: finite connections, disjoint roles, natural numbers), that `TypeOK`, `CountIsExact`, `ExclusiveUse`
and `WaitersExact` are invariants and that `NothingLentAfterClose` holds of every step. None of them is inductive. The proof goes
through `PoolInv`, the conjunction of

- `TypeOK`, `ExclusiveUse`, `CountIsExact`, `WaitersExact`;
- `Holding`, `HandsFull`: a coroutine has a connection in hand exactly at the places where the code has one, so an action that
  releases or counts one knows there is one;
- `Queue`: the channel's queue holds each coroutine at most once, and only coroutines that are parked, so a hand-off
  never resumes somebody who is not waiting;
- `CloseMarked`, `LoopOpen`: a coroutine is inside close() only on a closed pool, and a get() is between two
  parking points only while the pool is open. Without `LoopOpen` a get() could leave a closed pool with an idle connection.

The counter's exactness needs `ExclusiveUse`: one connection more in `Charged` is one more in its cardinality only because no two
places hold the same one. `InitInv` proves the initial states, `NextInv` the step, one lemma per conjunct (`TypeStep`, `HandsStep`,
`QueueStep`, `CloseMarkedStep`, `LoopOpenStep`, `WaitersStep`, `OwnStep`, `CountStep`), each with a case per action.

*The refinement.* `GenePoolProofs` proves `PoolImplementsLease`: `Spec` implies the specification of `ConnectionLease` under the
mapping of `GenePoolLease`. Every action is one of a few moves of a connection, and each move is a step of the lender or none by the
ownership that `PoolInv` states. One more inductive fact is needed, `ScanOpen`: the recycler is in its loops only on an open pool.

*The end.* `GenePoolProofs` also proves what `close()` in a coroutine (assumption `CoroutineClose`) leaves behind:
`NobodyLeftParked`, that nobody is parked on a closed channel, and `ClosesClean`, that without health checks nothing is held and the
counter has not wrapped. `WakeInv` is made of `CloserRuns` (one closer at a
time has the cpu in its loops), `Gone` (a pool whose channel is gone is closed) and `Waking` (once the channel is gone, only the
close() that wakes them finds others parked). `DrainInv` is made of `Reset` (without a channel the count is 0), `Drained` (nothing
comes back to a stack that close() has drained) and `Covered` (while the channel is there the count covers the charged
connections, so that each later subtraction has something to subtract).

*The flights.* `CacheFlightProofs` proves `FlightsCounted` and `WaitersServed`, that `FlightsExact` and `WaiterHasLeader` are
invariants, and the types (`FlightTypes`), for every finite set of coroutines and keys, any depth of nesting and any callbacks
(assumption `FlightAssumption`). `FlightInv` adds to the types and the two properties
`Nested`, that only the innermost call of a coroutine is anything but a running callback, so that a push resumes the call that waits;
`Shaped`, which calls hold a flight; `LedOnce`, that no flight has two leaders; and `Listed`, that a channel in the list belongs to
a call that waits for this flight, and stands there once. The stacks are seen as one table of calls (`View`), of which every action
changes one entry; an action keeps `FlightInv` by what that one change does to each conjunct (`ShapedStep`, `LedOnceStep`,
`TableKept`, `WaitersKept`, `WaiterAdded`, `WaiterGone`, `CountedStep`). The reference count matters to the waiters: that a release
by somebody who does not wait never empties the list of a flight (`ReleaseKeeps`) needs its exactness.

*The versions.* `VersionedCacheProofs` proves `VersionTypes`, `AnswersCorrect` and `SettledCorrect`, that `TypeOK`, `AnswersRegular`
and `SettledFresh` are invariants, for every set of requests, rows, column values and cached queries (assumption `CacheAssumption`:
a row, a value, the table's key and the mark of an absent row are different things). They hold for an application that is
`Careful`. It writes with the methods that publish, no two writes overlap between pre-read and commit (`Serialised`; the run
versions_stale_prefetch breaks this condition), a where clause by column value does not select more rows than
`$versionScanLimit`, and `flip()` is given the two values the column can have: on a third value flip() finds, after its update, only
the value the row got, so that the key of the value it had is not incremented. Reads are not restricted.

`VersionInv` has two halves. `WriteInv` is about the writers: besides the types, `Alone` (one of them at a time is between pre-read and
commit), `PreRead` (what a pre-read found is still there when its statement runs), `Flipped` (the second read of a flip finds one
of its two values) and `DraftCovered` (the keys that wait for a commit are all keys that the rows it changes have or had). It gives,
for each step of a writer, what readers can see of it (`WriterGoal`): the history stays or gains one commit; either no version
changes, no debt of increments is forgotten and a commit that changes a query's result is in debt to it, or one version is
incremented and only queries that name it lose a debt. `ReadInv` is about the readers, the entries and the results that are held:
`Fetched`, the versions kept with a result are no newer than those of now; `Loaded`, the result was that of some past table, and as
long as all its versions are those of now, each table since has the same result or a commit in between still owes an increment;
`Suits`, a reader that fetched its versions first and has not yet looked at the entry is served nothing that is too old for its
call; `Sinces`, the commits that were out when a call began owe nothing. An answer is then good because a served entry is current
(`CheckCurrent`), and what is current is good from any point without debts on (`CurrentGood`).

`DataFacts` has what these proofs and those of the Redis pool need to know of stacks, queues and finite sets that gain or lose one
element.

*The throttle.* `ThrottlePartCorrect`: `Throttled` is an invariant for every number of callers, limit, period and
kind of store (`ThrottleAssumption`). `ThrottleInv` ties the attempts that were let through to the counter:
`CounterLasts`, the counter is there while its period lasts, and `AllCounted`, it counts no fewer than were let through.

*The Redis pool.* `RedisPoolProofs` proves `RedisPoolCorrect`: `RedisPoolExact` is an invariant for every finite set of coroutines,
every set of connections and every configuration (assumption `RedisPoolAssumption`, which also asks for as many connections as a
configuration's minimum). `RedisPoolInv` is the conjunction of the types, with a channel that is always empty; `Queue`, that the
channel's queue has each parked coroutine once and nobody else, so that a hand-off never resumes somebody who is busy; `Holding`,
who has a connection; `Apart`, that no two places have the same one; and `Counted`, that the count is exact while the pool is open,
covers the busy coroutines while `close()` drains, and is 0 after. The second part says that a connection which comes back
during the drain is subtracted from a count it is in, so that the counter never goes below zero (`RedisCountNatural`). There is one lemma for each kind of step of a
borrower (`RoundStep`, `SlotLeft`, `HandOffStep`, `PutIdleStep`, `LeavesStep`), of the timer (`ScanStep`, `TimerStep`) and of
`close()` (`DrainStep`, `FinishedStep`).

*The composition.* `StoresProofs` proves the properties of the run `stores` for the specification that the run checks: a step of the
composition is a step of one part and leaves the others alone. The Redis pool is carried over
(`PoolPartCorrect`); the other five parts are proved there, each with an inductive invariant of its own.

*The Redis client.* `ClientPartCorrect`: `AnswersTrue` is an invariant for every set of callers, every limit, window, time to live
and number of stray copies (`RedisClientAssumption`: these are positive numbers). `ClientInv` adds to the types
`TokensApart`, a token belongs to one caller and to no unlock that may still be run, in a call or astray; `LockKept`, the key has the
token of the owner whose lease is not over; `RateKept`, what was let through in a window was counted; and `RunsKept`, how often a
command was run is bounded by its attempt. `ClientSide` has what each step of a caller does to them, `ClientStep` the server's.

*The registry.* `RegistryPartCorrect`: `RegistryKept` is an invariant for every set of names, pool objects and coroutines, for an
application that takes both cares of `RegistryCareful`; without them TLC finds the losses of section 7. `RegistryInv` is made of
the types; `Excluded`, no two coroutines deal with one name at a time; `Registers`, the C cache is the registry and a pool that is
open or being closed is in it once; `Closers`, a pool that is being closed is waited for by who deals with its name; and `Serving`,
which a pool that was started satisfies unless it is just being created or closed.

*The memory store.* `StorePartSound` and `ExpiringPartExact`: `StoreSound` and `ExpiringExact` are invariants for every set of keys, addresses
and clients, every cap, lifetime and clock (`MemoryAssumption`: the kinds of keys are disjoint). `MemoryInv` consists of `TypeOK`;
`Sound`, which says of a table what a method relies on in its middle too, with the keys it has not yet done with: every key has a
value of its kind (`Shaped`), the order of eviction is an order, of any keys in it one is the oldest (`Ordered`), expiry, order and
table have the same keys (`Dated`, `Listed`), and what was lent is in the table or retired (`Guarded`); `Lending`, under Swoole only
the frozen framework table lends; `Leased`, a lock that is held is in the store with its token; and `Limited`, a counter is that of its
window. The theorem holds of plain values as of all others: they are tracked and evicted. That an eviction meets the cap is a fact about the order: each key has a different number of keys behind it.

*The session.* `SessionPartKept` and `SessionPartGone`: `SessionKept` and `DestroyedGone` are invariants for every lifetime, limit and clock
(`SessionAssumption`). `SessionInv` has a half that always holds, `Structured` (no value that was buried is in the store or in an
object under its id, `StoreWell` and `ObjectWell`), and one for requests that do not overlap, `Orderly`: the record of the cookie's
id is what the application left in it or is gone by right (`Resting`, `Recorded`), and the request that is there sends this id
(`Sends`), has what was loaded or set since (`Copies`), and before it loads finds the record as it was left (`Holds`). The first
attempt failed, and TLC confirmed with an early response and a longer lifetime that it had to: the ghost `kept` remembered the age of
a session that had been lost by right, so that the next one was judged by it. The ghost now becomes the record's after such a loss.

*What serves a request.* `RequestsProofs` does for the run `requests` what `StoresProofs` does for `stores`. The parts that it has
theorems about are declared in `RequestParts`, which `MCRequests` extends, and `RequestPartsProofs` proves for each of them alone that its
invariant is inductive: there no fact about the other parts is in the provers' way.

*The router.* `RouterPartLive`: `DescriptorsLive` is an invariant for every application, every finite number of requests, of dispatches and
of rebuilds. `RouterAssumption` asks for as many addresses as there may be dispatches: the code allocates a descriptor when it needs one.
`DispatchInv` adds to the property what makes it inductive: `Allocated`, a dispatch takes one address at most, so that the next
one is fresh; `Entered`, a dispatch is inside a descriptor only while it is under way, so that `Finish` is the one way out; and in
`Routed`, a descriptor is found under one route only: otherwise one that is retired under the first would still be found under the
second, and freed while it is in the table. `RouterPartHides`: the action property `ProbeInvisible` holds of every step, from
`Contextual`, a context never loses one of its fields; of the language it says, by `CapturedLang` and `WalkedLang`, that the walk of a
probe leaves that of the probed path or the one there was, and nothing more: it is not put back. `Captured`, which was a recursion over the pattern, is now written without one.

*The database handles.* `HandlePartKept` and `HandlePartWhole`: `ConnectionsKept` is an invariant for every finite set of coroutines and connections, every pool and every loss
of connections, if a lost connection of a pool is replaced by one of it, `AllOrNothing` where none is lost in the middle of a transaction (`HandleAssumption`: a pool does not lend
persistent connections, and null is neither a handle nor a connection). `HandleInv` has the types; `HeldOnce`, a connection is held by
one handle, or idle; `Rested`, an idle one is in no transaction; `Unfinished`, the server holds something only for a transaction on a
connection that lives and is held; `Slots`, the count is exact, also above the maximum, which needs that a handle which replaces a
connection of the pool gets no other that the pool does not count; `Apart`, a write is pending on one connection or stored; `Framed`, a
transaction() that is under way has a connection; and `Whole`, which needs the assumption: what the owner of a transaction has
written is what is pending on its connection, and what a transaction() that has ended wrote is stored, or pending nowhere.

*The records.* `RecordPartKept`: `RecordsKept` is an invariant for every number of objects, rows and tasks, whether the database gives the
keys or the application, if no object is saved again whose delete or insert has thrown (`RecordAssumption`: the values are those of the
columns, and the rows that there are have the first keys). `RecordTypes` says in `Tabled` that no key from `nextId` on was given;
`Standing`, which needs the care, that the key of an object is that of the row it was loaded from or inserted as, and the other way
round where the key is one that `save()` would update; `LastWrote`, what the property says of the last step. `RecordPartToggled`:
`TogglesCounted` is an invariant where the status is written by `toggle()` and `flip()` only and is never NULL (`OnlyToggles`); the compare
and swap is what `CountingKeeps` needs, for the value that was read may be old.

*The request context.* `ContextPartKept`: `ContextsKept` is an invariant for every set of coroutines, every finite set of numbers and of structures,
every size of the pool and of the table, whoever yields where. `ContextAssumption` asks for more structures than numbers: the code allocates
one when its free list is empty. `Cleaning` says that numbers and stacks come back only in a worker that cleans up (`CleansUp`: deferred
cleanup, or `cleanup()` without destructors that use the context again, or the cleanup at the end of `run()` of one request at a time,
none of which is denied); every worker of the run satisfies it, and section 7 says what happens without. `ContextInv` has `Sound`, a
structure belongs to one number or lies once in the pool, is empty if it belongs to none, and the current one is that of the number
remembered with it, which is what makes the comparison of stacks a safe short cut; `Told`, the coroutines that are there are told apart by
number and by stack; `Owned`, what was written for a number was written by the coroutine that has it, and the current context
is that of one that is there; `Present`, a request that works with a context has one; `Reaped` and `Tidied`, under the deferred
cleanup and after `cleanup()` a coroutine that is gone has none, so that a number that comes back finds nothing; and `Alone`, the
depth of `run()` where requests do not overlap. Each of the three ways to clean up needs another of these.

*The container.* `ContainerPartKept`: `ServicesKept` is an invariant for every application (its services, the calls of its handlers and of
its constructors), every nesting of constructors and every chain or circle of aliases, with the three cares of section 5. Every part of
it needs another fact of `ServiceInv`. `GivenFound`: what a name once gave is what a lookup of it finds now, so that the answer
cannot change under it; a constructor that ends keeps this because `Stacked` says that what is under construction is not in the
registry yet and is claimed by one constructor only, which is what `"itself"` is needed for, and that whoever claims a name of a
shared class claims the class as well. `SharedSame`: a shared name that the request did not write has the object of its class. `AllWhole` and
`Unwinding`: a half-built object gets into the registry only with an exception that is still under way, or is the last answer, and
no further call is made then. `Replying`: the response that is kept is the one in the registry. The count of keys stays
right because a key that is counted as one part is never empty. A name that is a class and is configured for another one would have
two objects in turn, which `ContainerAssumption` rules out; the hops of an alias are written out, eight of them as in the code.

Only model-checked: the liveness properties `GetReturns`, `CloseEnds` and `EveryCallReturns` (liveness under fairness is out of the
prover's reach), the types of the stores (`StoresTypeOK`: the proofs use types of their own, which leave out the bounds that TLC sees), and
what else the run `requests` checks. Those are mostly comparisons of many copies and conversions over recursive
data (statements, unions, trees), where a proof would need induction over data, which is out of reach too.

## 7. What the project found

The six runs that expect a violation:

- `recycleIdle()` and `healthCheck()` push a probed connection back without looking at `waiters`, against the comment that this
  prevents starving get() (run pool_recycle_starves).
- `healthCheck()` does not look at `closed` after its probe and drives the reset counter below zero (pool_healthcheck_closed).
- The ORM's pre-read and its update are two statements; in a transaction too, another writer's value between them is never
  invalidated, against docs/CONFIGURATION.md:173 (versions_stale_prefetch).
- execute() replaces a lost connection inside transaction() and stores this statement and the following at once
  (handle_transaction).
- execute() takes a lost connection off the pool's count before it has another one: when the connects fail, the handle keeps the dead
  connection, or gets one of its own, and gives it to the pool uncounted, against the comment that decrements and increments are
  symmetric (handle_count_drifts).
- Plain Memory::set() writes as the cache layer does, so its values are evicted under gene.cache_max_items, against the two comments
  that they are never tracked (memory_plain_evicted).

The others are listed with their lines and quotes under "findings" in PROJECT.json; the passing runs leave each of them out by an
assumption of section 5, or their properties allow it in so many words (the language, clean()). In short:

- *Pools.* close() from workerStop, outside a coroutine, leaves the idle stack full, against the comment that nulling the channel
  releases what is left: no run has such a close(), but the theorems of section 6 that do not assume `CoroutineClose` cover it.
  closeAll() drops a pool that create() registers while it waits. recycleIdle() of the Redis pool probes the top of its stack
  again and again and never the connections below.
- *Versions.* `updateOrCreate()`, `toggle()`, `createMany()` and `insertIgnore()` publish no versions, against the comment and the
  document that any successful write does.
- *Memory store.* clean() empties the business table only, also in a ready worker; its comment says that it wipes everything and is
  refused there.
- *Redis.* lock() is told false, and holds the key, when the answer to its first attempt was lost.
- *Router.* match() leaves the language of the path that it was asked for in the request, against the comment that the probe leaves
  no trace. In a ready worker the closures of routes that are registered again are found under the handles of the old ones.
- *Context.* `run_depth` is one counter for all coroutines, so policies do not judge a request that overlaps another one; a
  coroutine that ends without cleanup() leaves its data to the next one on the same stack.
- *Statements.* A constant array of the caller grows in a ready worker, and any array that in() gets; joinOn() behind placeholders, and where() behind a
  union, bind values to the wrong places.
- *ORM.* Conditions given as arrays move in front of a text that begins with OR; delete() and save() change the object's mark although
  the statement threw; toggle() of NULL overwrites what another task did.
- *Container.* alias() has the order of its arguments reversed against the manual; a circle of aliases ends at the eighth
  name; a constructor that throws leaves its object; setResponse() after the first output is not seen.
- *Validation.* The callback of a rule is called without arguments for an absent field, and if it accepts, a null pointer is stored.

Seen on the way, outside the properties: a session's regenerateId() without a load discards the data; with an absolute limit a new
visitor who only reads leaves a record behind; a raw \Memcached store never limits anybody; `Config::set()` ignores its $validity;
limit($num, $offset) is documented with an order of arguments that differs from the drivers; match() does not try the raw path again
with dots; a hook that is not registered is skipped without a word.

## 8. What is not modelled

Everything listed as such under "components" in PROJECT.json, with the reason there; views, HTTP helpers and tools are
work on strings without state that outlives the call. Within the modelled components:

- *Pools.* The check of the process id after a fork (an early return of every method), statistics, `waitTimeout` <= 0 (which makes
  pop() wait without a limit), what a PDO connection does; a destructor of a replaced pool that parks inside the registry's update.
- *Caches.* Eviction by the cache server, a cache server that fails during the increments (the keys are lost, and the exception looks
  like a failed transaction: a hazard of PROJECT.json without a property), loads inside a transaction of their own (which would
  cache uncommitted rows), a request that goes on writing after a raw COMMIT, the batch methods, and the composition of keys.
- *Memory store.* Deep copies of arrays and statistics; values that are refused.
- *Context.* A coroutine whose VM stack grows another page (a deep call): it then misses the short cut by the stack and is found by
  its number, which the model has as the case of another stack having been current.
- *Session and throttle.* That of two overlapping requests the later to save undoes what the other changed. Serialisation, cookie attributes, an explicit load() before the limits are checked.
- *Redis client.* Which reply on a connection belongs to which command: a caller's answer is that of a run of his command. SELECT and MULTI on a connection that goes back to the pool; Memcached.
- *Handles and statements.* in() keeps the array that it is given also when it is a variable of the caller; the model's literal stands
  for both. Fetching and mapping of rows; calls that no builder promises to handle, such as execute() with nothing built,
  where() arrays without index 0, and rows of a batch with other keys.
- *ORM.* A where() text that contains an OR of its own is spliced in without parentheses: conditions are atoms here. Declared types, relations by name, the metadata of classes.
- *Validation.* A rule whose name has 59 characters or more is passed over with a warning, a registered one too.
- *Router.* URL generation, resource() and the attribute scanner.
- *Container.* has(), Load::import() with a symbol table, the helpers that call methods by name; destructors at the end of the
  request.
- *Life cycle.* bootstrap() and the setters of the configuration.
