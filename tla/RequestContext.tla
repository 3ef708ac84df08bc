--------------------------- MODULE RequestContext ---------------------------
(***************************************************************************)
(* The context of a request in a Swoole worker (src/gene.c): a structure   *)
(* per coroutine, found through its id, cached for the coroutine that runs *)
(* and recycled through a pool; and the request that uses it, from         *)
(* handleSwoole() or a handler of the application through run() to         *)
(* cleanup() (src/app/application.c).  Coroutines interleave wherever the  *)
(* application yields; each action is what one of them does between.       *)
(***************************************************************************)
EXTENDS Integers, SequencesExt, FiniteSets

CONSTANTS
    Coroutines,  \* one per request
    Cids,        \* what the server numbers live coroutines with
    Structs,     \* gene_request_context structures
    Absent,
    PoolMax,     \* gene.ctx_pool_max
    Cap, Floor,  \* gene.co_contexts_max, and the table size not worth a sweep
    Workers      \* [auto, defer, tidy, touch, overlap, nested, denies, places (cid, stack), reuse]

VARIABLES
    site,    \* one of Workers
    co,      \* each coroutine: [pc, cid, stack]
    worker,  \* the worker's tables, see Start
    depth,   \* run_depth: calls of run() under way
    foreign  \* a coroutine was given a context with what another one wrote

contextVars == <<site, co, worker, depth, foreign>>

ContextAssumption ==
    /\ PoolMax \in Nat /\ Cap > 0 /\ Floor \in Nat
    /\ IsFiniteSet(Cids) /\ IsFiniteSet(Structs) /\ Cardinality(Structs) > Cardinality(Cids)
    /\ Absent \notin Structs \cup Cids
    /\ \A u \in Workers : \A p \in u.places : p[1] \in Cids

Nobody == [ctx |-> Absent, cid |-> Absent, stack |-> Absent]

Start ==
    [contexts |-> [i \in Cids |-> Absent],    \* co_contexts
     content |-> [s \in Structs |-> {}],      \* who wrote into each structure
     pool |-> <<>>,                           \* ctx_pool_head
     current |-> Nobody,                      \* current_ctx, _cid, _vm_stack
     allocs |-> 0, mark |-> 0]                \* since the last sweep, and its size

ContextInit ==
    /\ site \in Workers
    /\ co = [c \in Coroutines |-> [pc |-> "unborn", cid |-> Absent, stack |-> Absent]]
    /\ worker = Start /\ depth = 0 /\ foreign = FALSE

Born == {c \in Coroutines : co[c].pc \notin {"unborn", "dead"}}
Alive(cid) == \E c \in Born : co[c].cid = cid
Tracked(w) == {i \in Cids : w.contexts[i] # Absent}

-----------------------------------------------------------------------------
(* The tables.                                                             *)

(* Mutant: the fields are kept with the structure.                         *)
RecycleFull(w, s) ==
    [w EXCEPT !.pool = IF Len(@) < PoolMax THEN Append(@, s) ELSE @]

(* pool_release() of a structure that was destroyed.                       *)
Recycle(w, s) ==
    [w EXCEPT !.content[s] = {}, !.pool = IF Len(@) < PoolMax THEN Append(@, s) ELSE @]

(* The entry of id i goes: its fields are destroyed, its structure freed.  *)
Forget(w, i) ==
    IF w.contexts[i] = Absent THEN w
    ELSE LET s == w.contexts[i]
             u == [w EXCEPT !.contexts[i] = Absent,
                            !.current = IF @.ctx = s THEN Nobody ELSE @]
         IN Recycle(u, s)

(* The same of every entry in ids, in some order.                          *)
ForgetAll(w, ids) ==
    LET gone == {w.contexts[i] : i \in ids} \ {Absent}
        pool == w.pool \o SetToSeq(gone)
    IN  [w EXCEPT !.contexts = [i \in Cids |-> IF i \in ids THEN Absent ELSE @[i]],
                  !.current = IF @.ctx \in gone THEN Nobody ELSE @,
                  !.content = [s \in Structs |-> IF s \in gone THEN {} ELSE @[s]],
                  !.pool = SubSeq(pool, 1, IF Len(pool) < PoolMax THEN Len(pool) ELSE PoolMax)]

(* gene_co_contexts_sweep(): contexts of coroutines that are gone.         *)
Sweep(w) ==
    IF Cardinality(Tracked(w)) < Floor THEN w
    ELSE ForgetAll(w, {i \in Tracked(w) : i # w.current.cid /\ ~Alive(i)})

(* At the cap, and not at every allocation.                                *)
Swept(w) ==
    LET n == Cardinality(Tracked(w))
        cooldown == IF Cap \div 4 < 1 THEN 1 ELSE Cap \div 4
        u == Sweep([w EXCEPT !.allocs = 0])
    IN IF n >= Cap /\ (w.allocs >= cooldown \/ n >= w.mark + cooldown)
         THEN [u EXCEPT !.mark = Cardinality(Tracked(u))] ELSE w

Allocate(w, c) ==
    LET u == Swept(w)
        used == {u.contexts[i] : i \in Cids} \cup {u.pool[k] : k \in DOMAIN u.pool}
        s == IF u.pool # <<>> THEN u.pool[Len(u.pool)] ELSE CHOOSE s \in Structs : s \notin used
    IN [u EXCEPT !.contexts[co[c].cid] = s,
                 !.pool = IF @ # <<>> THEN SubSeq(@, 1, Len(@) - 1) ELSE @,
                 !.allocs = @ + 1,
                 !.current = [ctx |-> s, cid |-> co[c].cid, stack |-> co[c].stack]]

(* gene_request_ctx(): the current structure while the stack is the same,  *)
(* or the one of the coroutine's id, or a new one.                         *)
Resolve(w, c) ==
    LET own == w.contexts[co[c].cid]
        stale == [w EXCEPT !.current = Nobody]
    IN IF w.current.ctx # Absent /\ w.current.stack = co[c].stack THEN w
       ELSE IF own # Absent
         THEN [w EXCEPT !.current = [ctx |-> own, cid |-> co[c].cid, stack |-> co[c].stack]]
       ELSE Allocate(IF w.current.ctx # Absent /\ w.current.cid = co[c].cid THEN stale ELSE w, c)

Written(w, c) == [w EXCEPT !.content[w.current.ctx] = @ \cup {c}]

(* Code that uses the context: whoever wrote into it is seen.              *)
Use(w, c) ==
    LET u == Resolve(w, c) IN
    /\ foreign' = (foreign \/ u.content[u.current.ctx] \ {c} # {})
    /\ worker' = Written(u, c)

(* The context of the coroutine itself goes, found through its id.         *)
Gone(w, c) ==
    Forget([w EXCEPT !.current = IF @.cid = co[c].cid THEN Nobody ELSE @], co[c].cid)

(* cleanup(): the current structure if the stack is the same, else the one *)
(* of the id.  A destructor that runs then may use a context again, which  *)
(* the coroutine gets a new one for.                                       *)
CleanedUp(w, c) ==
    LET i == IF w.current.ctx # Absent /\ w.current.stack = co[c].stack THEN w.current.cid ELSE co[c].cid
        u == Forget([w EXCEPT !.current = IF @.cid = i THEN Nobody ELSE @], i)
    IN IF site.touch /\ w.contexts[i] # Absent THEN Written(Resolve(u, c), c) ELSE u

-----------------------------------------------------------------------------
(* The requests.                                                           *)

Goto(c, pc) == co' = [co EXCEPT ![c].pc = pc]

(* The server starts a coroutine; a request is bound to its context.  The  *)
(* stack is one page of the VM for the coroutine's life: it does not call  *)
(* so deep that it grows another.                                          *)
Arrive(c) ==
    /\ co[c].pc = "unborn"
    /\ site.overlap \/ Born = {}
    /\ \E p \in site.places :
          /\ \A d \in (IF site.reuse THEN Born ELSE Coroutines) :
                co[d].cid # p[1] /\ co[d].stack # p[2]
          /\ co' = [co EXCEPT ![c] = [pc |-> "born", cid |-> p[1], stack |-> p[2]]]
    /\ UNCHANGED <<site, worker, depth, foreign>>

Bind(c) ==
    /\ co[c].pc = "born"
    /\ Use(worker, c) /\ Goto(c, "bound")
    /\ UNCHANGED <<site, depth>>

(* run(): while no other one is under way in the worker it asks the        *)
(* policies, then the request goes to the router, and its handlers run and *)
(* yield.                                                                  *)
Outermost == depth = 0

Run(c) ==
    /\ co[c].pc = "bound"
    /\ Use(worker, c)
    /\ Goto(c, "inside")
    /\ depth' = depth + 1
    /\ UNCHANGED site

(* The policies deny the request: it is answered and not dispatched.       *)
Deny(c) ==
    /\ site.denies /\ co[c].pc = "bound" /\ Outermost
    /\ Use(worker, c) /\ Goto(c, "left")
    /\ UNCHANGED <<site, depth>>

(* A handler that reads or writes request data, or clears it.              *)
Handle(c) ==
    /\ co[c].pc \in {"inside", "nested"}
    /\ Use(worker, c)
    /\ UNCHANGED <<site, co, depth>>

ClearState(c) ==
    /\ co[c].pc = "inside"
    /\ LET s == IF worker.current.ctx # Absent /\ worker.current.stack = co[c].stack
                  THEN worker.current.ctx ELSE worker.contexts[co[c].cid]
       IN s # Absent /\ worker' = [worker EXCEPT !.content[s] = {}]
    /\ UNCHANGED <<site, co, depth, foreign>>

(* run() inside run(): a local call, admitted with the outer one.          *)
RunNested(c) ==
    /\ site.nested /\ co[c].pc = "inside"
    /\ Use(worker, c) /\ Goto(c, "nested")
    /\ depth' = depth + 1
    /\ UNCHANGED site

LeaveNested(c) ==
    /\ co[c].pc = "nested" /\ Goto(c, "inside")
    /\ depth' = depth - 1
    /\ UNCHANGED <<site, worker, foreign>>

(* The end of run(): without Coroutine::defer it reclaims the context,     *)
(* unless handleSwoole() will.                                             *)
Leave(c) ==
    /\ co[c].pc = "inside" /\ Goto(c, "left")
    /\ depth' = depth - 1
    /\ worker' = IF site.auto /\ ~site.defer /\ depth = 1 /\ ~site.tidy
                   THEN Gone(worker, c)
                   ELSE worker
    /\ UNCHANGED <<site, foreign>>

(* handleSwoole(), or a handler that tidies up, ends with cleanup().       *)
Cleanup(c) ==
    /\ site.tidy /\ co[c].pc = "left" /\ Goto(c, "clean")
    /\ worker' = CleanedUp(worker, c)
    /\ UNCHANGED <<site, depth, foreign>>

(* The coroutine ends.  gene_auto_cleanup_defer() was registered for each  *)
(* context it was given, also for one given while they run.                *)
Deferred(w, c) ==
    IF ~(site.auto /\ site.defer) THEN w
    ELSE IF site.touch /\ w.contexts[co[c].cid] # Absent
      THEN Gone(Written(Resolve(Gone(w, c), c), c), c)
      ELSE Gone(w, c)

End(c) ==
    /\ co[c].pc = IF site.tidy THEN "clean" ELSE "left"
    /\ Goto(c, "dead")
    /\ worker' = Deferred(worker, c)
    /\ UNCHANGED <<site, depth, foreign>>

ContextNext ==
    \E c \in Coroutines :
        \/ Arrive(c) \/ Bind(c) \/ Run(c) \/ Deny(c) \/ Handle(c) \/ ClearState(c)
        \/ RunNested(c) \/ LeaveNested(c) \/ Leave(c) \/ Cleanup(c) \/ End(c)

ContextSpec == ContextInit /\ [][ContextNext]_contextVars

-----------------------------------------------------------------------------
ContextTypeOK ==
    /\ site \in Workers /\ depth \in Nat
    /\ \A i \in Cids : worker.contexts[i] \in Structs \cup {Absent}
    /\ Len(worker.pool) <= PoolMax

(* No request is given a context with what another request left there:     *)
(* neither one that runs at the same time nor one that is over, whose      *)
(* number, structure and stack it may have got.                            *)
Isolated == ~foreign

(* With automatic cleanup no context outlives its coroutine, and a sweep   *)
(* takes none from a request under way that has one.                       *)
Reclaimed ==
    /\ site.auto /\ site.defer => \A i \in Tracked(worker) : Alive(i)
    /\ \A c \in Born : co[c].pc \in {"bound", "inside", "nested"} => worker.contexts[co[c].cid] # Absent
=============================================================================
