------------------------------- MODULE Router -------------------------------
(***************************************************************************)
(* Gene\Router (src/src/router/router.c): registration of routes, hooks    *)
(* and groups into the process-wide tables, the walk of the route tree,    *)
(* the plan of a dispatch in its three forms (direct, closure, eval), the  *)
(* cache of precompiled dispatch descriptors of a Swoole worker, and the   *)
(* steps of a dispatch, between which a coroutine may be suspended.        *)
(*                                                                         *)
(* A path is a sequence of segments; a pattern also has parameters.  A     *)
(* handler is an identifier: of a "Class@method" string, or of the body of *)
(* a closure, which the eval form runs from its source text.               *)
(***************************************************************************)
EXTENDS Integers, Sequences, FiniteSets, SequencesExt

CONSTANTS
    Requests,      \* requests that one process serves at once
    Sites,         \* the applications considered, as MCDispatch writes them
    Params,        \* pattern elements that are parameters
    Mca,           \* those kept in the inline buffers of the context (:m :c :a)
    Long,          \* segments too long for an inline buffer
    Handles,       \* object handles, in the order a fresh process gives them
    Descriptors,   \* addresses of dispatch descriptors
    MaxServed,     \* bound: dispatches of a process
    MaxRebuilds,   \* bound: rebuilds of the table in a running worker
    Absent         \* NULL

VARIABLES
    site,          \* the application
    todo,          \* calls on the Router object still to be made
    group,         \* the open group of the Router object
    stack,         \* the groups around it
    conf,          \* the ":cf" table
    tree,          \* the ":rt" table: leaves in the order they were made
    events,        \* the ":re" table
    chains,        \* the compiled hook chains
    fnCache,       \* closures in the order they were stored, or Absent
    free,          \* free object handles, the next one first
    ready,         \* workerReady() was called
    generation,    \* route_pc_generation
    table,         \* route_pc: route -> descriptor
    retired,       \* route_pc_retired
    pcs,           \* the descriptors allocated: address -> contents
    run,           \* the dispatches
    ctx,           \* their request contexts
    served, rebuilds,
    asked,         \* what the application asked for, route by route
    named          \* the hooks it registered, by name

registration == <<todo, group, stack, conf, tree, events, chains, asked, named>>
descriptors == <<generation, table, retired, pcs>>
counters == <<served, rebuilds>>
vars == <<site, registration, fnCache, free, ready, descriptors, run, ctx, counters>>

-----------------------------------------------------------------------------
(* Registration.                                                           *)

(* There is a fresh address for the descriptor of every dispatch.          *)
RouterAssumption ==
    /\ Mca \subseteq Params
    /\ IsInjective(Handles)
    /\ MaxServed \in Nat /\ MaxRebuilds \in Nat
    /\ IsFiniteSet(Requests) /\ \A s \in Sites : s.requests \subseteq Requests
    /\ IsFiniteSet(Descriptors) /\ Cardinality(Descriptors) >= MaxServed
    /\ Absent \notin Descriptors

Fresh == [path |-> <<>>, hooks |-> <<>>, before |-> TRUE, after |-> TRUE]
NoConf == [prefix |-> <<>>, langs |-> {}]
NoLeaf == [run |-> Absent, src |-> Absent, frun |-> Absent, hook |-> Absent]

(* The process-wide tables refuse writes once a Swoole worker is ready.    *)
Frozen == site.mode = "swoole" /\ ready

(* A closure is cached under its object handle.                            *)
IsClosure(code) == code.kind = "closure"
Cached == IF fnCache = Absent THEN <<>> ELSE fnCache
FnCacheStore(code) ==
    IF IsClosure(code)
      THEN /\ fnCache' = Append(Cached, [handle |-> Head(free), id |-> code.id])
           /\ free' = Tail(free)
      ELSE UNCHANGED <<fnCache, free>>

(* The closure cached under a handle, and whether there is one.            *)
Live(h) == \E i \in DOMAIN Cached : Cached[i].handle = h
Closure(h) == Cached[CHOOSE i \in DOMAIN Cached : Cached[i].handle = h].id

(* The name of a hook is a path too: a group puts its own in front.         *)
Before == <<"before">>
After == <<"after">>
NotFound == <<"404">>
HookName(c) == group.path \o c.name
Has(key) == key \in DOMAIN events

(* One link of a hook chain.                                               *)
ChainAdd(n) ==
    IF Has(<<"hsrc", n>>) THEN [by |-> "src", of |-> events[<<"hsrc", n>>]]
    ELSE IF Has(<<"fcl", n>>) THEN [by |-> "fcl", of |-> events[<<"fcl", n>>]]
    ELSE events[<<"hook", n>>]
Addable(n) == \E k \in {"hsrc", "fcl", "hook"} : Has(<<k, n>>)

(* The hooks of the group and of the route become one hook, whose chain is *)
(* kept under a hash of the method and the path (taken to be distinct).    *)
Where(c) == group.path \o (IF "path" \in DOMAIN c THEN c.path ELSE c.name)
OwnHook(c) == IF "hook" \in DOMAIN c THEN c.hook ELSE Absent
Composed(c) ==
    LET own == OwnHook(c)
        last == IF own # Absent /\ own.name # Absent THEN <<own.name>> ELSE <<>>
    IN [key |-> <<"group", c.method>> \o Where(c),
        names |-> group.hooks \o last,
        before |-> group.before /\ (own # Absent => own.before),
        after |-> group.after /\ (own # Absent => own.after)]
Plain == group.hooks = <<>> /\ group.before /\ group.after
Composes == ~Plain /\ DOMAIN events # {}
ComposeThrowsLate(c) == Composes /\ \E n \in Range(Composed(c).names) : ~Addable(n)
ComposeThrows(c) ==
    \/ group.hooks # <<>> /\ DOMAIN events = {}
    \/ Composes /\ \E n \in Range(Composed(c).names) : ~Addable(n)
ComposedHook(c) ==
    IF Composes
      THEN [name |-> Composed(c).key, before |-> Composed(c).before, after |-> Composed(c).after]
      ELSE OwnHook(c)
ComposedEvents(c) ==
    IF Composes
      THEN (<<"hook", Composed(c).key>> :> [by |-> "chain", of |-> Composed(c).key]) @@ events
      ELSE events
ComposedChains(c) ==
    IF Composes
      THEN (Composed(c).key :> [i \in DOMAIN Composed(c).names |-> ChainAdd(Composed(c).names[i])])
             @@ chains
      ELSE chains

(* The entries of a leaf are written one by one: one that the new          *)
(* registration does not have keeps its old value.                         *)
Leaves(method) == {i \in DOMAIN tree : tree[i].method = method}
LeafAt(method, pattern) == {i \in Leaves(method) : tree[i].pattern = pattern}
Written(leaf, c, hook) ==
    [run |-> c.code.id,
     src |-> IF IsClosure(c.code) THEN leaf.src ELSE c.code.id,
     frun |-> IF IsClosure(c.code) THEN Head(free) ELSE leaf.frun,
     hook |-> IF hook = Absent THEN leaf.hook ELSE hook]
TreeWith(c, hook) ==
    LET at == LeafAt(c.method, Where(c))
    IN IF at = {}
         THEN Append(tree, [method |-> c.method, pattern |-> Where(c),
                            leaf |-> Written(NoLeaf, c, hook)])
         ELSE LET i == CHOOSE i \in at : TRUE
              IN [tree EXCEPT ![i].leaf = Written(@, c, hook)]

(* What the application asks for: the handlers it gave the route, the      *)
(* hooks in front of it, and whether the global hooks apply.               *)
AskedWith(c) ==
    LET key == <<c.method, Where(c)>>
        old == IF key \in DOMAIN asked THEN asked[key].handlers ELSE {}
        now == [handlers |-> old \cup {c.code.id},
                hooks |-> Composed(c).names,
                before |-> Composed(c).before, after |-> Composed(c).after]
    IN (key :> IF Frozen /\ old # {} THEN [asked[key] EXCEPT !.handlers = now.handlers]
               ELSE now) @@ asked

(* $router->get($path, $handler, $hook) and the other HTTP methods.        *)
Route(c) ==
    /\ c.op = "route"
    /\ FnCacheStore(c.code)
    /\ IF ComposeThrows(c)
         THEN todo' = <<>> /\ UNCHANGED <<events, chains, tree, asked>>
         ELSE /\ todo' = Tail(todo)
              /\ asked' = AskedWith(c)
              /\ IF Frozen
                   THEN UNCHANGED <<events, chains, tree>>
                   ELSE /\ events' = ComposedEvents(c)
                        /\ chains' = ComposedChains(c)
                        /\ tree' = TreeWith(c, ComposedHook(c))
    /\ UNCHANGED <<group, stack, conf, named, descriptors>>

(* $router->hook($name, $handler) and error(): hsrc and fcl are one name   *)
(* space for both.                                                         *)
Event(c) ==
    /\ c.op \in {"hook", "error"}
    /\ FnCacheStore(c.code)
    /\ LET call == [method |-> c.op, name |-> c.name]
           n == HookName(c)
           direct == IF IsClosure(c.code) THEN <<"fcl", n>> :> Head(free)
                                          ELSE <<"hsrc", n>> :> c.code.id
       IN IF ComposeThrows(call)
            THEN todo' = <<>> /\ UNCHANGED <<events, chains, named>>
            ELSE /\ todo' = Tail(todo)
                 /\ IF Frozen
                      THEN UNCHANGED <<events, chains, named>>
                      ELSE /\ events' = direct @@ (<<c.op, n>> :> [by |-> "text", of |-> c.code.id])
                                          @@ ComposedEvents(call)
                           /\ chains' = ComposedChains(call)
                           /\ named' = (<<c.op, n>> :> c.code.id) @@ named
    /\ UNCHANGED <<group, stack, conf, tree, asked, descriptors>>

(* group($name) opens a group in the current one; group() closes it.       *)
Group(c) ==
    /\ c.op = "group"
    /\ CASE c.path # Absent ->
              /\ stack' = Append(stack, group)
              /\ group' = [group EXCEPT !.path = @ \o c.path]
         [] c.path = Absent /\ stack # <<>> ->
              /\ group' = Last(stack)
              /\ stack' = Front(stack)
         [] OTHER ->
              /\ group' = [group EXCEPT !.path = <<>>]
              /\ UNCHANGED stack
    /\ todo' = Tail(todo)
    /\ UNCHANGED <<conf, tree, events, chains, asked, named, fnCache, free, descriptors>>

(* through(), withoutHooks(), withoutBefore(), withoutAfter().             *)
Policy(c) ==
    /\ c.op \in {"through", "withoutHooks", "withoutBefore", "withoutAfter"}
    /\ group' = CASE c.op = "through" -> [group EXCEPT !.hooks = @ \o c.hooks]
                  [] c.op = "withoutHooks" -> [group EXCEPT !.hooks = <<>>]
                  [] c.op = "withoutBefore" -> [group EXCEPT !.before = FALSE]
                  [] c.op = "withoutAfter" -> [group EXCEPT !.after = FALSE]
    /\ todo' = Tail(todo)
    /\ UNCHANGED <<stack, conf, tree, events, chains, asked, named, fnCache, free, descriptors>>

(* prefix(), lang() and delConf().                                         *)
Configure(c) ==
    /\ c.op \in {"prefix", "lang", "delConf"}
    /\ conf' = IF Frozen THEN conf
               ELSE CASE c.op = "prefix" -> [conf EXCEPT !.prefix = c.path]
                      [] c.op = "lang" -> [conf EXCEPT !.langs = c.langs]
                      [] c.op = "delConf" -> NoConf
    /\ todo' = Tail(todo)
    /\ UNCHANGED <<group, stack, tree, events, chains, asked, named, fnCache, free, descriptors>>

(* Mutant: a retired descriptor is freed whoever is inside it.             *)
PcInvalidateAll ==
    /\ generation' = generation + 1 /\ retired' = {}
    /\ pcs' = [d \in DOMAIN pcs \ retired |-> pcs[d]]
    /\ UNCHANGED table

(* A rebuild makes every descriptor stale; a retired one is freed unless a *)
(* coroutine is inside it.                                                 *)
PcInvalidate ==
    LET kept == {d \in retired : pcs[d].borrowers > 0}
    IN /\ generation' = generation + 1
       /\ retired' = kept
       /\ pcs' = [d \in DOMAIN pcs \ (retired \ kept) |-> pcs[d]]
       /\ UNCHANGED table

None == [x \in {} |-> x]

(* clear(), delTree() and delEvent().  Destroying the closures frees their *)
(* handles, the last one being the next to be given out.                   *)
Removal(c) ==
    /\ c.op \in {"clear", "delTree", "delEvent"}
    /\ LET trees == c.op \in {"clear", "delTree"} /\ ~Frozen
           event == c.op \in {"clear", "delEvent"} /\ ~Frozen
       IN /\ tree' = IF trees THEN <<>> ELSE tree
          /\ asked' = IF trees THEN None ELSE asked
          /\ events' = IF event THEN None ELSE events
          /\ named' = IF event THEN None ELSE named
    /\ IF c.op = "clear"
         THEN /\ fnCache' = Absent
              /\ free' = Reverse([i \in DOMAIN Cached |-> Cached[i].handle]) \o free
         ELSE UNCHANGED <<fnCache, free>>
    /\ PcInvalidate
    /\ todo' = Tail(todo)
    /\ UNCHANGED <<group, stack, conf, chains>>

-----------------------------------------------------------------------------
(* The walk of the tree.                                                   *)

Node(method, prefix) == \E i \in Leaves(method) : IsPrefix(prefix, tree[i].pattern)
Since(method, prefix) ==
    CHOOSE i \in Leaves(method) :
        /\ IsPrefix(prefix, tree[i].pattern)
        /\ \A j \in Leaves(method) : IsPrefix(prefix, tree[j].pattern) => i <= j

(* The static child first; then the parameters in the order they were      *)
(* made.  At the last segment a static child without a leaf ends the walk. *)
Walk(method, path) ==
    LET At[n \in Seq(STRING), rest \in Seq(STRING)] ==
          IF rest = <<>>
            THEN IF LeafAt(method, n) = {} THEN Absent ELSE n
            ELSE LET static == Append(n, Head(rest))
                     ways == {p \in Params : /\ Node(method, Append(n, p))
                                             /\ At[Append(n, p), Tail(rest)] # Absent}
                     first == CHOOSE p \in ways : \A q \in ways :
                                Since(method, Append(n, p)) <= Since(method, Append(n, q))
                     found == IF Node(method, static) THEN At[static, Tail(rest)] ELSE Absent
                 IN CASE found # Absent -> found
                      [] found = Absent /\ Node(method, static) /\ Len(rest) = 1 -> Absent
                      [] OTHER -> IF ways = {} THEN Absent ELSE At[Append(n, first), Tail(rest)]
    IN At[<<>>, path]

(* The prefix is taken off, then a language that is on the list.           *)
Stripped(path) ==
    LET rest == IF IsPrefix(conf.prefix, path)
                  THEN SubSeq(path, Len(conf.prefix) + 1, Len(path)) ELSE path
        lang == rest # <<>> /\ Head(rest) \in conf.langs
    IN [path |-> IF lang THEN Tail(rest) ELSE rest,
        lang |-> IF lang THEN Head(rest) ELSE Absent]

Lookup(method, path) == Walk(method, Stripped(path).path)
LeafOf(key) == tree[CHOOSE i \in LeafAt(key[1], key[2]) : TRUE].leaf

(* The parameters of a path: :m, :c or :a goes to its inline buffer, or to *)
(* the heap when it is long; any other into path_params, if there are.     *)
(* The walk sets them from the last segment to the first, so the first of  *)
(* several that share a place stands.                                      *)
Positions(pattern, params) == {j \in DOMAIN pattern : pattern[j] \in params}
SetMca(x, pattern, path) ==
    LET kept == Positions(pattern, Params \cap Mca)
        long == {j \in kept : path[j] \in Long}
        short == kept \ long
    IN [x EXCEPT
          !.at = IF kept = {} THEN @ ELSE IF Min(kept) \in long THEN "heap" ELSE "inline",
          !.heap = IF long = {} THEN @ ELSE path[Min(long)],
          !.buf = IF short = {} THEN @ ELSE path[Min(short)]]
Captured(x, pattern, path) ==
    LET others == Positions(pattern, Params \ Mca)
        Value(p) == path[Min({j \in others : pattern[j] = p})]
    IN [SetMca(x, pattern, path) EXCEPT
          !.params = [p \in {pattern[j] : j \in others} |-> Value(p)] @@ @]

-----------------------------------------------------------------------------
(* The plan of a dispatch: its form, and what it calls, in order.          *)

Direct(role, id) == [role |-> role, by |-> "src", of |-> id]
Kept(role, h) == [role |-> role, by |-> "fcl", of |-> h]
Text(role, prog) == [role |-> role] @@ prog
Src(n) == events[<<"hsrc", n>>]
When(cond, stages) == IF cond THEN stages ELSE <<>>

(* The same resolution for one request and for a descriptor: direct when   *)
(* everything is a "Class@method" string, else closures when each is a     *)
(* string or still cached, else the program text.  In the first two forms  *)
(* the string of a hook is enough, whether or not it has a program text.   *)
Resolve(leaf) ==
    LET before == (leaf.hook # Absent => leaf.hook.before) /\ Has(<<"hook", Before>>)
        after == (leaf.hook # Absent => leaf.hook.after) /\ Has(<<"hook", After>>)
        name == IF leaf.hook = Absent THEN Absent ELSE leaf.hook.name
        hook == name # Absent /\ Has(<<"hook", name>>)
        hookSrc == leaf.src # Absent /\ name # Absent /\ Has(<<"hsrc", name>>)
        isDirect == /\ leaf.src # Absent
                    /\ before => Has(<<"hsrc", Before>>)
                    /\ after => Has(<<"hsrc", After>>)
                    /\ hook => hookSrc
        ByClosure(n) == Has(<<"fcl", n>>) /\ Live(events[<<"fcl", n>>])
        routeLives == leaf.frun # Absent /\ Live(leaf.frun)
        isClosure == /\ fnCache # Absent
                     /\ routeLives \/ leaf.src # Absent
                     /\ before => Has(<<"hsrc", Before>>) \/ ByClosure(Before)
                     /\ after => Has(<<"hsrc", After>>) \/ ByClosure(After)
                     /\ hook => hookSrc \/ ByClosure(name)
        Named(role, n, src) == IF src THEN Direct(role, Src(n)) ELSE Kept(role, events[<<"fcl", n>>])
    IN CASE isDirect ->
              [kind |-> "direct",
               stages |-> When(before, <<Direct("before", Src(Before))>>)
                       \o When(hookSrc, <<Direct("hook", Src(name))>>)
                       \o <<Direct("action", leaf.src)>>
                       \o When(after, <<Direct("after", Src(After))>>)]
         [] ~isDirect /\ isClosure ->
              [kind |-> "closure",
               stages |-> When(before, <<Named("before", Before, Has(<<"hsrc", Before>>))>>)
                       \o When(hook \/ hookSrc, <<Named("hook", name, hookSrc)>>)
                       \o <<IF routeLives THEN Kept("action", leaf.frun)
                                          ELSE Direct("action", leaf.src)>>
                       \o When(after, <<Named("after", After, Has(<<"hsrc", After>>))>>)]
         [] OTHER ->
              [kind |-> "eval",
               stages |-> When(before, <<Text("before", events[<<"hook", Before>>])>>)
                       \o When(hook, <<Text("hook", events[<<"hook", name>>])>>)
                       \o <<Text("action", [by |-> "text", of |-> leaf.run])>>
                       \o When(after, <<Text("after", events[<<"hook", After>>])>>)]

(* A descriptor keeps the keys of the closures; they are looked up, all of *)
(* them, before anything runs.                                             *)
PcResolveAllHooks(leaf) ==
    Resolve(IF leaf.hook = Absent THEN leaf ELSE [leaf EXCEPT !.hook.before = TRUE])
PcResolve(leaf) == Resolve(leaf)
Runnable(plan) == \A i \in DOMAIN plan.stages : plan.stages[i].by = "fcl" => Live(plan.stages[i].of)
Bound(plan) ==
    [plan EXCEPT !.stages = [i \in DOMAIN @ |->
        IF @[i].by = "fcl" THEN [role |-> @[i].role, by |-> "closure", of |-> Closure(@[i].of)]
                           ELSE @[i]]]
SlowPlan(leaf) == Bound(Resolve(leaf))

(* The handler of an error: a string, a cached closure, or its text.       *)
ErrorPlan(n) ==
    LET stage == IF Has(<<"hsrc", n>>) THEN Direct("error", Src(n))
                 ELSE IF Has(<<"fcl", n>>) /\ Live(events[<<"fcl", n>>])
                   THEN [role |-> "error", by |-> "closure", of |-> Closure(events[<<"fcl", n>>])]
                   ELSE Text("error", events[<<"error", n>>])
    IN [kind |-> "error", stages |-> When(Has(<<"error", n>>), <<stage>>)]

-----------------------------------------------------------------------------
(* Dispatch.                                                               *)

Idle == [at |-> "idle", route |-> Absent, kind |-> Absent, queue |-> <<>>, did |-> <<>>,
         verdicts |-> <<>>, pc |-> Absent]
Started(route, plan, pc) ==
    [at |-> "busy", route |-> route, kind |-> plan.kind, queue |-> plan.stages, did |-> <<>>,
     verdicts |-> <<>>, pc |-> pc]
NoCtx == [at |-> Absent, heap |-> Absent, buf |-> Absent, params |-> None, lang |-> Absent,
          uri |-> Absent]

Precompiles == site.precompile /\ Frozen
Unused == CHOOSE d \in Descriptors \ DOMAIN pcs : TRUE
With(f, x, y) == [z \in DOMAIN f \cup {x} |-> IF z = x THEN y ELSE f[z]]

(* get_router_info(): a descriptor that is stale is taken out of the table *)
(* and the request takes the slow path, as it does when a closure is gone. *)
SlowPath(r, key) ==
    run' = [run EXCEPT ![r] = Started(key, SlowPlan(LeafOf(key)), Absent)]
FastPath(r, key) ==
    IF key \in DOMAIN table
      THEN LET d == table[key]
           IN IF pcs[d].gen # generation
                THEN /\ table' = [k \in DOMAIN table \ {key} |-> table[k]]
                     /\ retired' = retired \cup {d}
                     /\ SlowPath(r, key)
                     /\ UNCHANGED <<generation, pcs>>
                ELSE /\ IF Runnable(pcs[d].plan)
                          THEN /\ run' = [run EXCEPT ![r] = Started(key, Bound(pcs[d].plan), d)]
                               /\ pcs' = [pcs EXCEPT ![d].borrowers = @ + 1]
                          ELSE SlowPath(r, key) /\ UNCHANGED pcs
                     /\ UNCHANGED <<generation, table, retired>>
      ELSE LET plan == PcResolve(LeafOf(key))
           IN /\ table' = With(table, key, Unused)
              /\ pcs' = With(pcs, Unused, [plan |-> plan, gen |-> generation, borrowers |-> 1])
              /\ run' = [run EXCEPT ![r] = Started(key, Bound(plan), Unused)]
              /\ UNCHANGED <<generation, retired>>

(* get_router_content_run().                                               *)
Dispatch(r, method, path) ==
    LET route == Lookup(method, path)
        key == <<method, route>>
        reset == [ctx[r] EXCEPT !.params = None,
                                !.lang = IF Stripped(path).lang # Absent THEN Stripped(path).lang ELSE @]
    IN /\ run[r].at = "idle" /\ todo = <<>> /\ served < MaxServed
       /\ site.mode = "swoole" => ready
       /\ Leaves(method) # {}
       /\ served' = served + 1
       /\ IF route # Absent
            THEN /\ ctx' = [ctx EXCEPT ![r] =
                              [Captured(reset, route, Stripped(path).path) EXCEPT !.uri = key]]
                 /\ IF Precompiles THEN FastPath(r, key)
                                   ELSE SlowPath(r, key) /\ UNCHANGED descriptors
            ELSE /\ ctx' = [ctx EXCEPT ![r] = reset]
                 /\ run' = [run EXCEPT ![r] = Started(Absent, ErrorPlan(NotFound), Absent)]
                 /\ UNCHANGED descriptors
       /\ UNCHANGED <<site, registration, fnCache, free, ready, rebuilds>>

(* What a callee may answer: nothing special, 0 or false, Application::    *)
(* stop(), or the end of the response.                                     *)
Verdicts(role) ==
    CASE role \in {"before", "hook", "link"} -> {"go", "no", "stop", "end"}
      [] role = "action" -> {"go", "stop", "end"}
      [] OTHER -> {"go"}

(* Whether the dispatch goes on to the next stage after the answers so far.*)
Stopped(answers) == \E i \in DOMAIN answers : answers[i] \in {"stop", "end"}
Ended(answers) == \E i \in DOMAIN answers : answers[i] = "end"
GoesOn(kind, role, answers, next) ==
    CASE role = "link" -> Last(answers) # "no" /\ ~Stopped(answers)
      [] role # "link" /\ kind = "eval" ->
            /\ role \in {"before", "hook"} => Last(answers) # "no"
            /\ next = "after" => ~Stopped(answers)
      [] OTHER ->
            /\ role \in {"before", "hook"} => Last(answers) # "no" /\ ~Ended(answers)
            /\ next \in {"action", "after"} => ~Stopped(answers)

(* The dispatch ends: it leaves its descriptor.                            *)
Release(r) ==
    pcs' = IF run[r].pc = Absent THEN pcs ELSE [pcs EXCEPT ![run[r].pc].borrowers = @ - 1]

(* The next callee runs.                                                   *)
Call(r) ==
    LET stage == Head(run[r].queue)
        id == IF stage.by = "fcl" THEN Closure(stage.of) ELSE stage.of
        rest == Tail(run[r].queue)
    IN /\ run[r].queue # <<>>
       /\ stage.by # "chain"
       /\ stage.by = "fcl" => Live(stage.of)
       /\ \E v \in Verdicts(stage.role) :
            LET answers == Append(run[r].verdicts, v)
                on == rest # <<>> /\ GoesOn(run[r].kind, stage.role, answers, Head(rest).role)
            IN run' = [run EXCEPT ![r].did = Append(@, id), ![r].verdicts = answers,
                                  ![r].queue = IF on THEN rest ELSE <<>>]
       /\ UNCHANGED <<site, registration, fnCache, free, ready, descriptors, ctx, counters>>

(* dispatchHooks(): the links of the chain take the place of the hook.     *)
DispatchHooks(r) ==
    LET stage == Head(run[r].queue)
        Link(d) == [role |-> "link"] @@ d
    IN /\ run[r].queue # <<>> /\ stage.by = "chain"
       /\ run' = [run EXCEPT ![r].queue =
                    IF stage.of \in DOMAIN chains
                      THEN [i \in DOMAIN chains[stage.of] |-> Link(chains[stage.of][i])] \o Tail(@)
                      ELSE <<>>]
       /\ UNCHANGED <<site, registration, fnCache, free, ready, descriptors, ctx, counters>>

(* A link whose closure is not cached aborts the chain; without a cache it *)
(* is passed over.                                                         *)
LostLink(r) ==
    LET stage == Head(run[r].queue)
    IN /\ run[r].queue # <<>> /\ stage.by = "fcl" /\ ~Live(stage.of)
       /\ run' = [run EXCEPT ![r].queue = IF fnCache = Absent THEN Tail(@) ELSE <<>>]
       /\ UNCHANGED <<site, registration, fnCache, free, ready, descriptors, ctx, counters>>

Finish(r) ==
    /\ run[r].at = "busy" /\ run[r].queue = <<>>
    /\ run' = [run EXCEPT ![r].at = "done", ![r].pc = Absent]
    /\ Release(r)
    /\ UNCHANGED <<site, registration, fnCache, free, ready, generation, table, retired, ctx, counters>>

(* match(): the fields of the context are set aside, the walk fills them,  *)
(* and they are put back, the contents of the inline buffer included.  The *)
(* language is not among them: it stays that of the probed path.           *)
Walked(x, method, path) ==
    LET blank == [x EXCEPT !.at = Absent, !.params = None]
        route == Lookup(method, path)
        lang == Stripped(path).lang
    IN [IF route = Absent THEN blank ELSE Captured(blank, route, Stripped(path).path)
          EXCEPT !.lang = IF lang # Absent THEN lang ELSE @]
Put(saved, x, walked) == [f \in DOMAIN x |-> IF f \in saved THEN x[f] ELSE walked[f]]
MatchKeepsBuffer(r, method, path) ==
    /\ site.probes # {} /\ run[r].at = "busy"
    /\ ctx' = [ctx EXCEPT ![r] = Put({"at", "heap", "params", "uri"}, @, Walked(@, method, path))]
    /\ UNCHANGED <<site, registration, fnCache, free, ready, descriptors, run, counters>>
Match(r, method, path) ==
    /\ site.probes # {} /\ run[r].at = "busy"
    /\ ctx' = [ctx EXCEPT ![r] =
                  Put({"at", "heap", "buf", "params", "uri"}, @, Walked(@, method, path))]
    /\ UNCHANGED <<site, registration, fnCache, free, ready, descriptors, run, counters>>

-----------------------------------------------------------------------------
(* The process.                                                            *)

Made == /\ UNCHANGED <<site, ready, run, ctx, counters>>
        /\ Head(todo).op \notin {"clear", "delTree", "delEvent"} => UNCHANGED descriptors

(* The next call on the Router object; the calls of a file run in one go.  *)
CallRoute == todo # <<>> /\ Route(Head(todo)) /\ Made
CallEvent == todo # <<>> /\ Event(Head(todo)) /\ Made
CallGroup == todo # <<>> /\ Group(Head(todo)) /\ Made
CallPolicy == todo # <<>> /\ Policy(Head(todo)) /\ Made
CallConfigure == todo # <<>> /\ Configure(Head(todo)) /\ Made
CallRemove == todo # <<>> /\ Removal(Head(todo)) /\ Made

WorkerReady ==
    /\ site.mode = "swoole" /\ todo = <<>> /\ ~ready
    /\ ready' = TRUE
    /\ UNCHANGED <<site, registration, fnCache, free, descriptors, run, ctx, counters>>

(* The end of a request.  Under FPM the closures and their handles go; the *)
(* application registers its routes again, or load() finds them loaded.    *)
RequestEnd(r) ==
    /\ run[r].at = "done"
    /\ run' = [run EXCEPT ![r] = Idle]
    /\ ctx' = [ctx EXCEPT ![r] = NoCtx]
    /\ IF site.mode = "fpm"
         THEN /\ fnCache' = Absent /\ free' = Handles
              /\ todo' = IF site.reload THEN site.file ELSE <<>>
              /\ group' = Fresh /\ stack' = <<>>
         ELSE UNCHANGED <<fnCache, free, todo, group, stack>>
    /\ UNCHANGED <<site, conf, tree, events, chains, asked, named, ready, descriptors, counters>>

(* Calls of a running worker on a Router object of its own.  A dispatch    *)
(* that holds closures is not under way: it would be left with pointers    *)
(* into the cache that clear() destroys.                                   *)
Rebuild ==
    /\ ready /\ todo = <<>> /\ rebuilds < MaxRebuilds
    /\ \A r \in Requests : run[r].kind = "closure" => run[r].at # "busy"
    /\ \E calls \in site.rebuilds : todo' = calls
    /\ group' = Fresh /\ stack' = <<>>
    /\ rebuilds' = rebuilds + 1
    /\ UNCHANGED <<site, conf, tree, events, chains, asked, named, fnCache, free, ready,
                   descriptors, run, ctx, served>>

RouterInit ==
    /\ site \in Sites
    /\ todo = site.file /\ group = Fresh /\ stack = <<>>
    /\ conf = NoConf /\ tree = <<>> /\ events = None /\ chains = None
    /\ fnCache = Absent /\ free = Handles
    /\ ready = FALSE
    /\ generation = 0 /\ table = None /\ retired = {} /\ pcs = None
    /\ run = [r \in Requests |-> Idle] /\ ctx = [r \in Requests |-> NoCtx]
    /\ served = 0 /\ rebuilds = 0
    /\ asked = None /\ named = None

RouterNext ==
    \/ CallRoute \/ CallEvent \/ CallGroup \/ CallPolicy \/ CallConfigure \/ CallRemove
    \/ WorkerReady
    \/ Rebuild
    \/ \E r \in site.requests :
         \/ \E path \in site.paths : Dispatch(r, "get", path)
         \/ \E path \in site.probes : Match(r, "get", path)
         \/ Call(r) \/ DispatchHooks(r) \/ LostLink(r) \/ Finish(r) \/ RequestEnd(r)

RouterSpec == RouterInit /\ [][RouterNext]_vars

-----------------------------------------------------------------------------
(* Properties.                                                             *)

(* The variables have their types; every descriptor is in one place.       *)
RouterTypeOK ==
    /\ site.mode \in {"fpm", "swoole"}
    /\ fnCache # Absent => Len(fnCache) + Len(free) = Len(Handles)
    /\ retired \subseteq DOMAIN pcs
    /\ \A r \in Requests : run[r].at \in {"idle", "busy", "done"}
    /\ served \in 0..MaxServed /\ rebuilds \in 0..MaxRebuilds

(* What a request for a route should call, in order, as the application    *)
(* registered it.  A hook asked for by name must be there: without it      *)
(* nothing may be called.                                                  *)
IsNamed(n) == <<"hook", n>> \in DOMAIN named
Hook(n) == named[<<"hook", n>>]
Guards(key) ==
    When(asked[key].before /\ IsNamed(Before), <<Hook(Before)>>)
      \o [i \in DOMAIN asked[key].hooks |->
            LET n == asked[key].hooks[i] IN IF IsNamed(n) THEN Hook(n) ELSE Absent]
Expected(key, action) ==
    Guards(key) \o <<action>> \o When(asked[key].after /\ IsNamed(After), <<Hook(After)>>)

(* A request calls what was registered for its route and for the groups    *)
(* around it, in order and nothing else: whatever form its plan takes, no  *)
(* hook is left out, nothing follows a hook that answered 0 or false, the  *)
(* after hook does not follow a stop, nor the action, unless the dispatch  *)
(* took the eval form (get_router_info_slow, gene_router_compose_group_    *)
(* hooks).                                                                 *)
HooksHonoured ==
    \A r \in Requests :
        run[r].route # Absent =>
          LET q == run[r]
              guards == Len(Guards(q.route))
              Upto(n) == SubSeq(q.verdicts, 1, n)
              Called(calls) == \E a \in asked[q.route].handlers : calls = Expected(q.route, a)
          IN /\ \E a \in asked[q.route].handlers : IsPrefix(q.did, Expected(q.route, a))
             /\ \A i \in DOMAIN q.did : i < Len(q.did) => q.verdicts[i] # "no"
             /\ Len(q.did) > guards => q.kind = "eval" \/ ~Stopped(Upto(guards))
             /\ Len(q.did) > guards + 1 => ~Stopped(Upto(guards + 1))
             /\ q.at = "done" /\ ToSet(q.verdicts) = {"go"} => Called(q.did)

(* A coroutine suspended inside a descriptor keeps it: it is not freed,    *)
(* its borrowers are those inside it, and what is retired is not found     *)
(* again (gene_route_pc_execute, gene_router_pc_invalidate).               *)
DescriptorsLive ==
    /\ \A d \in DOMAIN pcs : pcs[d].borrowers = Cardinality({r \in Requests : run[r].pc = d})
    /\ \A r \in Requests : run[r].pc # Absent => run[r].pc \in DOMAIN pcs
    /\ \A key \in DOMAIN table : table[key] \in DOMAIN pcs \ retired

(* A descriptor that may run answers as the slow path would now.           *)
FastAsSlow ==
    \A key \in DOMAIN table :
        LET d == pcs[table[key]]
        IN d.gen = generation /\ Runnable(d.plan) => Bound(d.plan) = SlowPlan(LeafOf(key))

(* The walk finds a registered pattern that matches, and never a worse one *)
(* than another: the first difference is its static segment, or its older  *)
(* parameter.  The one exception is a pattern whose last parameter stands  *)
(* beside a static segment of that name that has no leaf of its own.       *)
Matches(pattern, path) ==
    /\ Len(pattern) = Len(path)
    /\ \A i \in DOMAIN path : pattern[i] = path[i] \/ pattern[i] \in Params
Precedes(p, q, method) ==
    \E i \in DOMAIN p :
        /\ SubSeq(p, 1, i - 1) = SubSeq(q, 1, i - 1) /\ p[i] # q[i]
        /\ \/ p[i] \notin Params
           \/ Since(method, SubSeq(p, 1, i)) < Since(method, SubSeq(q, 1, i))
Shadowed(p, path, method) ==
    path # <<>> /\ Last(p) \in Params /\ Node(method, Append(Front(p), Last(path)))
MatchFinds ==
    \A path \in site.paths :
        LET at == Stripped(path).path
            found == Lookup("get", path)
            candidates == {tree[i].pattern : i \in {i \in Leaves("get") : Matches(tree[i].pattern, at)}}
        IN /\ found # Absent => found \in candidates
           /\ \A c \in candidates \ {found} :
                \/ found # Absent /\ Precedes(found, c, "get")
                \/ Shadowed(c, at, "get")

(* What a request is dispatched to: the right pattern, by either path.     *)
PlanExact == MatchFinds /\ FastAsSlow

(* match() leaves nothing in the context of the request that asks but the  *)
(* language of the path it probed: not the captured module, controller or  *)
(* action, whose buffer the walk writes over, nor parameters or the route, *)
(* and never a language of another path (PHP_METHOD(gene_router, match),   *)
(* whose comment says that it leaves no trace: the language is one).  Of   *)
(* what two requests see it changes that of one at most.                   *)
Visible(x) ==
    [mca |-> CASE x.at = Absent -> Absent [] x.at = "inline" -> x.buf [] OTHER -> x.heap,
     params |-> x.params, uri |-> x.uri, lang |-> x.lang]
Between(r) == run[r].at = "busy" /\ run'[r].at = "busy"
ProbeHides ==
    /\ \A r \in Requests :
        Between(r) => \E lang \in {Stripped(path).lang : path \in site.probes} \cup {ctx[r].lang} :
                         /\ Visible(ctx'[r]) = [Visible(ctx[r]) EXCEPT !.lang = lang]
                         /\ ctx[r].lang # Absent => lang # Absent
    /\ \A q, r \in Requests :
        q # r /\ Between(q) /\ Between(r) => \E s \in {q, r} : Visible(ctx'[s]) = Visible(ctx[s])
=============================================================================
