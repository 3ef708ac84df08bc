------------------------------ MODULE GeneMemory -----------------------------
(***************************************************************************)
(* The process-local store Gene\Memory (src/cache/memory.c): values with a *)
(* time to live, counters, a fixed-window rate limit and locks, all in the *)
(* business table; and next to it the framework table (routes, config),    *)
(* which Swoole freezes at workerReady().                                  *)
(*                                                                         *)
(* Memory management is part of the model.  Under FPM a read hands out the *)
(* stored value itself, so a value that is overwritten, deleted, evicted   *)
(* or swept may only be freed once the request that may hold it is over;   *)
(* under Swoole business values are copied, and the values of the frozen   *)
(* framework table are handed out for good.                                *)
(*                                                                         *)
(* Every operation runs under the write lock of its table and is one step. *)
(* Values, counters and lock tokens live under different keys, as the      *)
(* callers of the class use them.  Refused (unsupported) values change     *)
(* nothing and are left out.                                               *)
(***************************************************************************)
EXTENDS Integers, FiniteSets

CONSTANTS
    ValueKeys, CountKeys, RateKeys, LockKeys,
    Clients,       \* callers of lock(), each with at most one lock
    Ptrs,          \* addresses of stored values
    Tokens,        \* what random_bytes() can return
    Max,           \* $max of rateLimit()
    Window,        \* $windowSec of rateLimit()
    Ttls,          \* the times to live that callers pass
    SweepInterval, \* GENE_MEMORY_EXPIRY_SWEEP_INTERVAL
    Sites,         \* the installations to explore: see Site
    MaxTime,       \* bound on the clock
    Absent

Keys == ValueKeys \cup CountKeys \cup RateKeys \cup LockKeys

(* gene.cache_max_items (0 = off), runtime_type, and the keys in use.      *)
Site == [cap: Nat, mode: {"fpm", "swoole"}, keys: SUBSET Keys]

MemoryAssumption ==
    /\ ValueKeys \cap (CountKeys \cup RateKeys \cup LockKeys) = {}
    /\ CountKeys \cap (RateKeys \cup LockKeys) = {} /\ RateKeys \cap LockKeys = {}
    /\ Max \in Nat \ {0} /\ Window \in Nat \ {0}
    /\ Ttls \subseteq Nat /\ SweepInterval \in Nat \ {0} /\ MaxTime \in Nat \ {0}
    /\ Sites \subseteq Site
    /\ Absent \notin Ptrs \cup Tokens \cup Int

VARIABLES
    mem,       \* the business table: see MemType
    fw,        \* the value of a route or config entry in the framework table
    site,      \* the installation
    ready,     \* worker_ready: workerReady() has frozen the framework table
    dirty,     \* framework_cache_dirty
    sweeps,    \* memory_expiry_sweep_ctr, modulo the interval
    now,       \* the clock, in seconds
    held,      \* the addresses that callers still use
    lease,     \* ghost: what lock() gave each client, and until when
    granted    \* ghost (without a cap): a limit's window and the calls let through

cap == site.cap
mode == site.mode
memVars == <<mem, fw, site, ready, dirty, sweeps, now, held, lease, granted>>

-----------------------------------------------------------------------------
(* table, the times of expiry (0 = none), the recency order, whether a read*)
(* has handed out a value since the request began, and the values parked   *)
(* on the retired list.  The recency order is an ordered set of keys: each *)
(* has those written no earlier, and a key that is not tracked has none.   *)
MemType == [table: [Keys -> Ptrs \cup Tokens \cup Int \cup {Absent}],
            expiry: [Keys -> Nat], lru: [Keys -> SUBSET Keys],
            borrowed: BOOLEAN, retired: SUBSET Ptrs]

NoLease == [key |-> Absent, token |-> Absent, until |-> 0]

Live(m) == {m.table[k] : k \in ValueKeys} \ {Absent}
InUse == Live(mem) \cup mem.retired \cup held \cup {fw}
Allocated(p) == p \in Ptrs \ InUse /\ p = CHOOSE q \in Ptrs \ InUse : TRUE

(* Mutant: an entry is still good in the second it expires in.             *)
ExpiredLate(m, k) == m.expiry[k] # 0 /\ m.expiry[k] < now

(* gene_memory_expired_nolock().                                           *)
Expired(m, k) == m.expiry[k] # 0 /\ m.expiry[k] <= now

(* gene_memory_value_release(): free, or retire while values are borrowed. *)
Park(m, ps) == IF m.borrowed THEN m.retired \cup (ps \ {Absent}) ELSE m.retired

(* gene_memory_del_core().                                                 *)
Drop(m, K) ==
    [m EXCEPT !.table = [k \in Keys |-> IF k \in K THEN Absent ELSE m.table[k]],
              !.expiry = [k \in Keys |-> IF k \in K THEN 0 ELSE m.expiry[k]],
              !.retired = Park(m, {m.table[k] : k \in K \cap ValueKeys})]

(* gene_cache_lru_remove_nolock() and gene_cache_lru_touch_nolock().       *)
Tracked(m) == {k \in Keys : m.lru[k] # {}}
Untrack(m, K) == [m EXCEPT !.lru = [k \in Keys |-> IF k \in K THEN {} ELSE @[k] \ K]]
Touch(m, k) ==
    [m EXCEPT !.lru = [j \in Keys |-> IF j = k THEN {k} ELSE IF @[j] = {} THEN {} ELSE @[j] \cup {k}]]

(* gene_cache_lru_evict_nolock(): the oldest goes until the cap is kept.   *)
Evict(m) ==
    LET victims == {k \in Keys : Cardinality(m.lru[k]) > cap}
    IN  Untrack(Drop(m, victims), victims)
Track(m, k) == IF cap = 0 THEN m ELSE Evict(Touch(m, k))

(* gene_memory_expiry_sweep_nolock(); there are fewer keys than its batch. *)
Sweep(m) ==
    LET gone == {k \in Keys : Expired(m, k)} IN Untrack(Drop(m, gone), gone)

SetExpiry(m, k, ttl) ==
    [m EXCEPT !.expiry[k] = IF ttl > 0 THEN now + ttl ELSE 0]

(* Mutant: an overwritten value is freed at once.                          *)
StoreFrees(m, k, v) == [m EXCEPT !.table[k] = v]

(* gene_memory_zval_edit_persistent(): the old value goes after the swap.  *)
Store(m, k, v) ==
    [m EXCEPT !.table[k] = v,
              !.retired = Park(m, IF k \in ValueKeys THEN {m.table[k]} ELSE {})]

(* What rateLimit(), lock() and incr() do first with the key.              *)
Fresh(m, k) == IF Expired(m, k) THEN Drop(m, {k}) ELSE m

(* gene_memory_write_allowed(), for a writer of the framework table.       *)
WriteAllowed == ~(mode = "swoole" /\ ready)

Init ==
    /\ site \in Sites
    /\ mem = [table |-> [k \in Keys |-> Absent], expiry |-> [k \in Keys |-> 0],
              lru |-> [k \in Keys |-> {}], borrowed |-> FALSE, retired |-> {}]
    /\ fw = Absent /\ ready = FALSE /\ dirty = FALSE /\ sweeps = 0 /\ now = 1
    /\ held = {}
    /\ lease = [c \in Clients |-> NoLease]
    /\ granted = [k \in RateKeys |-> [end |-> 0, n |-> 0]]

-----------------------------------------------------------------------------
(* gene_memory_set() behind Memory::set(): the expiry first, every so many *)
(* writes with a ttl a sweep, then the value, then the recency list.       *)
SetVal(k, ttl) ==
    LET due == ttl > 0 /\ (sweeps + 1) % SweepInterval = 0
        m1  == SetExpiry(mem, k, ttl)
        m2  == IF due THEN Sweep(m1) ELSE m1
    IN  /\ \E p \in Ptrs : Allocated(p) /\ mem' = Track(Store(m2, k, p), k)
        /\ sweeps' = IF ttl > 0 THEN (sweeps + 1) % SweepInterval ELSE sweeps
        /\ UNCHANGED <<fw, site, ready, dirty, now, held, lease, granted>>

(* Memory::set(), and mset() entry by entry, make it a business write: it  *)
(* may come after workerReady(), and is tracked and evicted under a cap    *)
(* like those of Gene\Cache.                                               *)
Set(k, ttl) == SetVal(k, ttl)

(* gene_business_memory_get_copy() and gene_memory_business_borrow(): the  *)
(* value itself under FPM, a copy under Swoole.                            *)
Present(k) == mem.table[k] # Absent /\ ~Expired(mem, k)
Borrow(k) ==
    /\ mode = "fpm"
    /\ held' = held \cup {mem.table[k]}
    /\ mem' = [mem EXCEPT !.borrowed = TRUE]

(* Memory::get(), and mget() key by key.                                   *)
Get(k) ==
    /\ Present(k) /\ Borrow(k)
    /\ UNCHANGED <<fw, site, ready, dirty, sweeps, now, lease, granted>>

(* Memory::del(): gene_memory_del() under the depth of a business write.   *)
DelEntry(k) == mem' = Untrack(Drop(mem, {k}), {k})
Del(k) ==
    /\ mem.table[k] # Absent
    /\ DelEntry(k)
    /\ UNCHANGED <<fw, site, ready, dirty, sweeps, now, held, lease, granted>>

(* gene_memory_adjust(): the ttl counts only when the counter is created.  *)
(* The value does not matter here.                                         *)
Adjusted(k, ttl) ==
    LET m == Fresh(mem, k)
        created == m.table[k] = Absent
        m1 == IF created THEN Store(m, k, 1) ELSE m
        m2 == IF created /\ ttl > 0 THEN SetExpiry(m1, k, ttl) ELSE m1
    IN  Track(m2, k)

(* Memory::incr() and decr(); the latter has no ttl.                       *)
Incr(k, ttl) ==
    /\ mem' = Adjusted(k, ttl)
    /\ UNCHANGED <<fw, site, ready, dirty, sweeps, now, held, lease, granted>>
Decr(k) == Incr(k, 0)

(* Memory::rateLimit(): a window opens with its first call.                *)
Granted(k) ==
    IF granted[k].end <= now THEN [end |-> now + Window, n |-> 1]
                             ELSE [granted[k] EXCEPT !.n = @ + 1]
RateLimit(k) ==
    LET m == Fresh(mem, k)
        first == m.table[k] = Absent
        allowed == first \/ m.table[k] < Max
        m1 == IF first THEN SetExpiry(Store(m, k, 1), k, Window)
                       ELSE Store(m, k, m.table[k] + 1)
    IN  /\ mem' = IF allowed THEN Track(m1, k) ELSE m
        /\ granted' = IF allowed /\ cap = 0 THEN [granted EXCEPT ![k] = Granted(k)] ELSE granted
        /\ UNCHANGED <<fw, site, ready, dirty, sweeps, now, held, lease>>

(* Memory::lock(): the token is new.                                       *)
UsedTokens == {lease[c].token : c \in Clients} \cup {mem.table[k] : k \in LockKeys}
LockKey(c, k, ttl) ==
    LET m == Fresh(mem, k) IN
    /\ lease[c] = NoLease /\ ttl >= 1
    /\ \E t \in Tokens \ UsedTokens :
        /\ t = CHOOSE u \in Tokens \ UsedTokens : TRUE
        /\ IF m.table[k] = Absent
           THEN /\ mem' = Track(SetExpiry(Store(m, k, t), k, ttl), k)
                /\ lease' = [lease EXCEPT ![c] = [key |-> k, token |-> t, until |-> now + ttl]]
           ELSE mem' = m /\ lease' = lease
    /\ UNCHANGED <<fw, site, ready, dirty, sweeps, now, held, granted>>

(* Memory::unlock(): only with the token that is stored, however late.     *)
Unlock(c) ==
    LET k == lease[c].key IN
    /\ lease[c] # NoLease
    /\ mem' = IF Expired(mem, k) \/ mem.table[k] = lease[c].token
              THEN Untrack(Drop(mem, {k}), {k}) ELSE mem
    /\ lease' = [lease EXCEPT ![c] = NoLease]
    /\ UNCHANGED <<fw, site, ready, dirty, sweeps, now, held, granted>>

(* Memory::clean(): wipes the business table; the table itself is retired  *)
(* if a value of it was handed out.                                        *)
Clean ==
    /\ mem' = Untrack(Drop(mem, Keys), Keys)
    /\ lease' = [c \in Clients |-> NoLease]
    /\ granted' = [k \in RateKeys |-> [end |-> 0, n |-> 0]]
    /\ UNCHANGED <<fw, site, ready, dirty, sweeps, now, held>>

-----------------------------------------------------------------------------
(* Config::set() and the route registrations: gene_memory_set_by_router(), *)
(* the swap of gene_memory_set_val().  A write that comes too late is      *)
(* refused and marks the table dirty.                                      *)
SetByRouter ==
    /\ \/ /\ WriteAllowed
          /\ \E p \in Ptrs : Allocated(p) /\ fw' = p
          /\ dirty' = dirty
       \/ /\ ~WriteAllowed /\ fw' = fw /\ dirty' = TRUE
    /\ UNCHANGED <<mem, site, ready, sweeps, now, held, lease, granted>>

(* Config::del() and Router::clear(): gene_memory_del() at depth 0.        *)
DelFramework ==
    /\ fw # Absent
    /\ fw' = IF WriteAllowed THEN Absent ELSE fw
    /\ dirty' = (dirty \/ ~WriteAllowed)
    /\ UNCHANGED <<mem, site, ready, sweeps, now, held, lease, granted>>

(* gene_memory_zval_local(): borrow from the frozen table, else copy.      *)
LendsFramework == mode = "swoole" /\ ready /\ ~dirty
GetByConfig ==
    /\ fw # Absent /\ LendsFramework
    /\ held' = held \cup {fw}
    /\ UNCHANGED <<mem, fw, site, ready, dirty, sweeps, now, lease, granted>>

(* Application::workerReady().                                             *)
WorkerReady ==
    /\ mode = "swoole" /\ ~ready
    /\ ready' = TRUE
    /\ UNCHANGED <<mem, fw, site, dirty, sweeps, now, held, lease, granted>>

(* RINIT of the next FPM request: the heap of the last one is gone.        *)
RequestStart ==
    /\ mode = "fpm"
    /\ held' = {}
    /\ mem' = [mem EXCEPT !.borrowed = FALSE, !.retired = {}]
    /\ UNCHANGED <<fw, site, ready, dirty, sweeps, now, lease, granted>>

Tick ==
    /\ now < MaxTime
    /\ now' = now + 1
    /\ UNCHANGED <<mem, fw, site, ready, dirty, sweeps, held, lease, granted>>

Next ==
    \/ \E k \in ValueKeys \cap site.keys : (\E ttl \in Ttls : Set(k, ttl)) \/ Get(k) \/ Del(k)
    \/ \E k \in CountKeys \cap site.keys : (\E ttl \in Ttls : Incr(k, ttl)) \/ Decr(k)
    \/ \E k \in RateKeys \cap site.keys : RateLimit(k)
    \/ \E c \in Clients, k \in LockKeys \cap site.keys, ttl \in Ttls : LockKey(c, k, ttl)
    \/ \E c \in Clients : Unlock(c)
    \/ Clean \/ SetByRouter \/ DelFramework \/ GetByConfig
    \/ WorkerReady \/ RequestStart \/ Tick

Spec == Init /\ [][Next]_memVars

-----------------------------------------------------------------------------
(* The variables have their types.                                         *)
TypeOK ==
    /\ mem \in MemType
    /\ fw \in Ptrs \cup {Absent}
    /\ site \in Sites
    /\ ready \in BOOLEAN /\ dirty \in BOOLEAN
    /\ sweeps \in 0..(SweepInterval - 1) /\ now \in 1..MaxTime
    /\ held \subseteq Ptrs
    /\ lease \in [Clients -> [key: LockKeys, token: Tokens, until: Nat] \cup {NoLease}]
    /\ granted \in [RateKeys -> [end: Nat, n: Nat]]

(* The three tables of the store agree: an expiry time belongs to a stored *)
(* key (one that stayed behind would kill a later permanent value of that  *)
(* key), and with a cap the keys in the recency order are those stored,    *)
(* plain values of set() included, and no more of them than the cap, so    *)
(* that nothing escapes it; without one the order is not kept.             *)
TablesAgree ==
    /\ \A k \in Keys : mem.expiry[k] # 0 => mem.table[k] # Absent
    /\ IF cap = 0 THEN Tracked(mem) = {}
       ELSE /\ Tracked(mem) = {k \in Keys : mem.table[k] # Absent}
            /\ Cardinality(Tracked(mem)) <= cap

(* A value that a caller still uses is not freed: it is in a table or on   *)
(* the retired list, whatever was overwritten, deleted, evicted, swept or  *)
(* wiped meanwhile.                                                        *)
NoDangling == held \subseteq Live(mem) \cup mem.retired \cup {fw}

(* What the comment above gene_memory_del_core() says of a cap: a plain    *)
(* value of set() is never evicted.  Storing one value takes no other away *)
(* that has not expired.                                                   *)
ValueStored == \E k \in ValueKeys : mem'.table[k] \notin {Absent, mem.table[k]}
PlainStays ==
    [][ValueStored => \A k \in ValueKeys : Present(k) => mem'.table[k] # Absent]_memVars

(* The store as its callers rely on it.                                    *)
StoreSound == TablesAgree /\ NoDangling

(* Without a cap, two clients never hold the same lock at a time, however  *)
(* late an earlier holder unlocks.                                         *)
LockExclusive ==
    cap = 0 => \A c, d \in Clients :
        /\ c # d /\ lease[c].key = lease[d].key
        /\ lease[c].until > now
        => lease[d].until <= now

(* Without a cap, a limit lets at most Max calls through in a window, and  *)
(* the counter and its expiry are those of the window: it does not reset   *)
(* early, nor outlive the window and lock callers out.                     *)
RateExact ==
    cap = 0 => \A k \in RateKeys :
        /\ granted[k].n <= Max
        /\ granted[k].end > now => mem.table[k] # Absent
        /\ mem.table[k] # Absent => /\ mem.table[k] = granted[k].n
                                   /\ mem.expiry[k] = granted[k].end
=============================================================================
