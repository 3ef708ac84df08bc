----------------------------- MODULE RequestParts -----------------------------
(***************************************************************************)
(* Five of the parts that serve a request, side by side: the router, the   *)
(* context of the request, the database handle, the records of the ORM and *)
(* the service container.  They share no state.                            *)
(***************************************************************************)
EXTENDS Integers, FiniteSets

CONSTANTS
    Absent,
    Requests, Sites, Params, Mca, Long, Handles, Descriptors, MaxServed, MaxRebuilds,
    Cids, Structs, PoolMax, Cap, Floor, Workers,
    Coroutines, Handlers, Conns, Writes, Deployments,
    Objects, Tasks, RecordUses, RecordCareful, Null,
    Shops, ContainerCareful

VARIABLES
    site, todo, group, stack, conf, tree, events, chains, fnCache, free, ready,
    generation, table, retired, pcs, run, ctx, served, rebuilds, asked, named,
    kind, co, worker, depth, foreign,
    deployment, handle, idle, count, alive, tx, pending, stored, frame, ended, issued,
    losses, requests,
    using, rows, nextId, obj, call, stands, unsure, gone, flips, wrote,
    shop, regs, aliases, keyCount, response, making, thrown, built, loader, serving,
    answer, given, touched, seen

Routing == INSTANCE Router
Contexts == INSTANCE RequestContext WITH site <- kind
Handling == INSTANCE DbHandle WITH Coroutines <- Handlers
Recording == INSTANCE OrmModel
Serving == INSTANCE Container

routerVars == <<site, todo, group, stack, conf, tree, events, chains, fnCache, free,
    ready, generation, table, retired, pcs, run, ctx, served, rebuilds, asked, named>>
contextVars == <<kind, co, worker, depth, foreign>>
handleVars == <<deployment, handle, idle, count, alive, tx, pending, stored, frame,
    ended, issued, losses, requests>>
recordVars == <<using, rows, nextId, obj, call, stands, unsure, gone, flips, wrote>>
containerVars == <<shop, regs, aliases, keyCount, response, making, thrown, built, loader,
    serving, answer, given, touched, seen>>

ASSUME PartAssumptions ==
    /\ Routing!RouterAssumption
    /\ Contexts!ContextAssumption
    /\ Handling!HandleAssumption
    /\ Recording!RecordAssumption
    /\ Serving!ContainerAssumption
===============================================================================
