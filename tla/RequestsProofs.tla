---------------------------- MODULE RequestsProofs ----------------------------
(***************************************************************************)
(* What the run of MCRequests checks of the router, the database handles,  *)
(* the records of the ORM, the contexts of the requests and their service  *)
(* containers, proved for every value of its constants: a step of the      *)
(* composition is a step of one part, and leaves the others alone.         *)
(***************************************************************************)
EXTENDS MCRequests, RequestPartsProofs

LEMMA HandleAlways == Spec => [](part = "handle" => HandleInv)
<1> DEFINE Inv == part = "handle" => HandleInv
<1>1. Init => Inv
  BY HandleStarts DEF Init
<1>2. ASSUME Inv, [Next]_vars PROVE Inv'
  <2>1. CASE part # "handle"
    BY <1>2, <2>1 DEF Next, vars
  <2>2. CASE part = "handle"
    <3>1. part' = part /\ [Handling!HandleNext]_handleVars
      BY <1>2, <2>2 DEF Next, vars
    <3> QED
      BY <1>2, <2>2, <3>1, HandleKeeps
  <2> QED
    BY <2>1, <2>2
<1> QED
  BY <1>1, <1>2, PTL DEF Spec

(* A connection that waits for its next borrower is in nobody's hands and  *)
(* in no transaction, and the pool's count is that of its connections,     *)
(* idle or lent: for every number of coroutines and connections, every     *)
(* pool and every loss of connections, also inside transactions, if what   *)
(* replaces a lost connection of a pool is one of the pool.                *)
THEOREM HandlePartKept ==
  ASSUME \A d \in Deployments : ~d.failing
  PROVE  Spec => []ConnectionsKept
<1>1. ASSUME part = "handle" => HandleInv PROVE ConnectionsKept
  <2> SUFFICES ASSUME part = "handle", HandleInv PROVE Handling!LeftClean /\ Handling!CountHonest
    BY <1>1 DEF ConnectionsKept
  <2>1. Handling!LeftClean
    <3> SUFFICES ASSUME NEW x \in idle PROVE x \notin Handling!InUse /\ (alive[x] => ~tx[x] /\ pending[x] = {})
      BY DEF Handling!LeftClean
    <3>1. x \in Conns /\ \A c \in Handlers : ~Holds(c, x)
      BY DEF HandleInv, HandleTypes, HeldOnce
    <3>2. x \notin Handling!InUse
      BY <3>1 DEF Handling!InUse, Holds
    <3>3. pending[x] = {} /\ (alive[x] => ~tx[x])
      BY <3>1 DEF HandleInv, Unfinished, Rested
    <3> QED
      BY <3>2, <3>3
  <2>2. Handling!CountHonest
    <3>1. \A S : Handling!Cardinality(S) = Cardinality(S)
      BY DEF Handling!Cardinality, Cardinality
    <3>2. Borrowing = {c \in Handlers : Handling!Open(c) /\ handle[c].pool}
      BY DEF Borrowing
    <3>3. deployment.pool => count = Cardinality(idle) + Cardinality(Borrowing)
      BY DEF HandleInv, HandleTypes, Slots
    <3> QED
      BY <3>1, <3>2, <3>3 DEF Handling!CountHonest
  <2> QED
    BY <2>1, <2>2
<1> QED
  BY <1>1, HandleAlways, PTL

(* Where connections are not lost in the middle of a transaction, every    *)
(* transaction() has stored all of its writes or none when it has ended,   *)
(* also when a request ends inside it or the answer to COMMIT is lost.     *)
THEOREM HandlePartWhole ==
  ASSUME \A d \in Deployments : ~d.inside
  PROVE  Spec => []AllOrNothing
<1>1. ASSUME part = "handle" => HandleInv PROVE AllOrNothing
  <2> SUFFICES ASSUME part = "handle", HandleInv PROVE Handling!AllOrNothing
    BY <1>1 DEF AllOrNothing
  <2>1. ~deployment.inside
    BY DEF HandleInv, HandleTypes
  <2> QED
    BY <2>1 DEF HandleInv, Whole, Settled, Handling!AllOrNothing
<1> QED
  BY <1>1, HandleAlways, PTL

LEMMA RecordAlways ==
  Spec => [](part = "record" => RecordTypes /\ ("retry" \in RecordCareful => Standing /\ LastWrote))
<1> DEFINE Inv == part = "record" => RecordTypes /\ ("retry" \in RecordCareful => Standing /\ LastWrote)
<1>1. Init => Inv
  BY RecordStarts DEF Init
<1>2. ASSUME Inv, [Next]_vars PROVE Inv'
  <2>1. CASE part # "record"
    BY <1>2, <2>1 DEF Next, vars
  <2>2. CASE part = "record"
    <3>1. part' = part /\ (Recording!RecordNext \/ UNCHANGED recordVars)
      BY <1>2, <2>2 DEF Next, vars
    <3>2. CASE Recording!RecordNext
      BY <1>2, <2>2, <3>1, <3>2, RecordKeeps
    <3>3. CASE UNCHANGED recordVars
      BY <1>2, <2>2, <3>1, <3>3, RecordStutters
    <3> QED
      BY <3>1, <3>2, <3>3
  <2> QED
    BY <2>1, <2>2
<1> QED
  BY <1>1, <1>2, PTL DEF Spec

(* If no object is saved again whose delete or insert has thrown, an       *)
(* object that was loaded or inserted has the key of its row, so its       *)
(* save() changes that row and no other, nothing that was deleted is       *)
(* inserted again under its key, and what is written by a condition or as  *)
(* a batch goes where it was to go: for every number of objects, rows and  *)
(* tasks, and every value.                                                 *)
THEOREM RecordPartKept ==
  ASSUME "retry" \in RecordCareful
  PROVE  Spec => []RecordsKept
<1>1. ASSUME part = "record" => RecordTypes /\ ("retry" \in RecordCareful => Standing /\ LastWrote)
      PROVE  RecordsKept
  <2> SUFFICES ASSUME part = "record", Standing, LastWrote PROVE Recording!RecordsKept
    BY <1>1 DEF RecordsKept
  <2> QED
    BY DEF Standing, LastWrote, Recording!RecordsKept
<1> QED
  BY <1>1, RecordAlways, PTL

(* If the status is changed over by toggle() and flip() only, and is never *)
(* NULL, a row has the status that the number of the calls that reported   *)
(* success says: for every number of tasks and rows, in whatever order the *)
(* two statements of the calls interleave, and also when rows are deleted  *)
(* or a statement throws.                                                  *)
THEOREM RecordPartToggled == OnlyToggles => (Spec => []TogglesCounted)
<1> SUFFICES ASSUME OnlyToggles PROVE Spec => []TogglesCounted
  OBVIOUS
<1> DEFINE Inv == part = "record" => RecordTypes /\ ("retry" \in RecordCareful => Standing /\ LastWrote)
           Count == part = "record" => Counting
<1>1. Init => Count
  BY CountingStarts DEF Init
<1>2. ASSUME Inv, Count, [Next]_vars PROVE Count'
  <2>1. CASE part # "record"
    BY <1>2, <2>1 DEF Next, vars
  <2>2. CASE part = "record"
    <3>1. part' = part /\ (Recording!RecordNext \/ UNCHANGED recordVars)
      BY <1>2, <2>2 DEF Next, vars
    <3>2. CASE Recording!RecordNext
      BY <1>2, <2>2, <3>1, <3>2, CountingKeeps
    <3>3. CASE UNCHANGED recordVars
      <4>1. UNCHANGED <<using, rows, call, flips>> /\ Recording!Ids' = Recording!Ids
            /\ (Recording!Calls("toggle")' <=> Recording!Calls("toggle"))
        BY <3>3 DEF recordVars, Recording!Ids, Recording!Calls
      <4> QED
        BY <1>2, <2>2, <3>1, <4>1 DEF Counting
    <3> QED
      BY <3>1, <3>2, <3>3
  <2> QED
    BY <2>1, <2>2
<1>3. Count => TogglesCounted
  BY DEF TogglesCounted, Counting, Recording!TogglesCounted
<1> QED
  BY <1>1, <1>2, <1>3, RecordAlways, PTL DEF Spec

(* Where numbers come back only if something cleans up, no request is      *)
(* given a context with what another one left there; with the deferred     *)
(* cleanup no context outlives its coroutine, and a sweep takes none from  *)
(* a request that works with one: for every number of coroutines, numbers  *)
(* and structures, every size of the pool and of the table.                *)
THEOREM ContextPartKept == Cleaning => (Spec => []ContextsKept)
<1> SUFFICES ASSUME Cleaning PROVE Spec => []ContextsKept
  OBVIOUS
<1> DEFINE Inv == part = "context" => ContextInv
<1>1. Init => Inv
  BY ContextStarts DEF Init
<1>2. ASSUME Inv, [Next]_vars PROVE Inv'
  <2>1. CASE part # "context"
    BY <1>2, <2>1 DEF Next, vars
  <2>2. CASE part = "context"
    <3>1. part' = part /\ (Contexts!ContextNext \/ UNCHANGED contextVars)
      BY <1>2, <2>2 DEF Next, vars
    <3> QED
      BY <1>2, <2>2, <3>1, ContextKeeps
  <2> QED
    BY <2>1, <2>2
<1>3. Inv => ContextsKept
  <2> SUFFICES ASSUME part = "context", ContextInv PROVE Contexts!Isolated /\ Contexts!Reclaimed
    BY DEF ContextsKept
  <2>1. Contexts!Isolated
    BY DEF ContextInv, Contexts!Isolated
  <2>2. Contexts!Reclaimed
    BY DEF ContextInv, Present, Working, Reaped, Automatic, Contexts!Reclaimed, Contexts!Tracked
  <2> QED
    BY <2>1, <2>2
<1> QED
  BY <1>1, <1>2, <1>3, PTL DEF Spec

LEMMA DispatchAlways == Spec => [](part = "dispatch" => DispatchInv /\ Contextual)
<1> DEFINE Inv == part = "dispatch" => DispatchInv /\ Contextual
<1>1. Init => Inv
  BY DispatchStarts DEF Init
<1>2. ASSUME Inv, [Next]_vars PROVE Inv'
  <2>1. CASE part # "dispatch"
    BY <1>2, <2>1 DEF Next, vars
  <2>2. CASE part = "dispatch"
    <3>1. part' = part /\ (Routing!RouterNext \/ UNCHANGED routerVars)
      BY <1>2, <2>2 DEF Next, vars
    <3> QED
      BY <1>2, <2>2, <3>1, DispatchStep, DispatchStutters
  <2> QED
    BY <2>1, <2>2
<1> QED
  BY <1>1, <1>2, PTL DEF Spec

(* A dispatch that is suspended inside a precompiled descriptor keeps it   *)
(* through every rebuild of the table, the borrowers of a descriptor are   *)
(* those inside it, and the table finds none that is retired or freed: for *)
(* every application, every number of requests and of rebuilds, in         *)
(* whatever order they come.                                               *)
THEOREM RouterPartLive == Spec => []DescriptorsLive
<1>1. ASSUME part = "dispatch" => DispatchInv /\ Contextual PROVE DescriptorsLive
  <2> SUFFICES ASSUME part = "dispatch", DispatchInv PROVE Routing!DescriptorsLive
    BY <1>1 DEF DescriptorsLive
  <2>1. \A S : Routing!Cardinality(S) = Cardinality(S)
    BY DEF Routing!Cardinality, Cardinality
  <2>2. \A d \in DOMAIN pcs : pcs[d].borrowers = Cardinality({r \in Requests : run[r].pc = d})
    BY DEF DispatchInv, Borrowed, Inside
  <2> QED
    BY <2>1, <2>2 DEF DispatchInv, Entered, Routed, Routing!DescriptorsLive
<1> QED
  BY <1>1, DispatchAlways, PTL

(* match(), whatever it walks through, leaves the request that asks with   *)
(* the module, controller, action, parameters and route it had, and with   *)
(* its language or that of a path that requests probe, never none.  No     *)
(* step changes what two requests see that are being served, and no other  *)
(* part of it than the language.                                           *)
THEOREM RouterPartHides == Spec => ProbeInvisible
<1>1. ASSUME part = "dispatch" => DispatchInv /\ Contextual, [Next]_vars
      PROVE  [part = "dispatch" => Routing!ProbeHides]_routerVars
  <2> SUFFICES ASSUME part = "dispatch", ~UNCHANGED routerVars PROVE Routing!ProbeHides
    OBVIOUS
  <2>1. Routing!RouterNext
    BY <1>1 DEF Next, vars
  <2> QED
    BY <1>1, <2>1, DispatchStep
<1> QED
  BY <1>1, DispatchAlways, PTL DEF Spec, ProbeInvisible

(* If the application does not go on after a constructor has thrown, does  *)
(* not replace a response that has been written to, and no constructor     *)
(* asks for or writes what it is built for, a name gives one whole object  *)
(* until its key is written, the names of a shared class give the same     *)
(* one, no key of a class is overlooked, the response that is written to   *)
(* is the one that was set, and every request finds the autoloader: for    *)
(* every application, every nesting of constructors and every circle of    *)
(* aliases.                                                                *)
THEOREM ContainerPartKept ==
  ASSUME {"throws", "response", "itself"} \subseteq ContainerCareful
  PROVE  Spec => []ServicesKept
<1> DEFINE Inv == part = "container" => ServiceInv
<1>1. Init => Inv
  BY ServiceStarts DEF Init
<1>2. ASSUME Inv, [Next]_vars PROVE Inv'
  <2>1. CASE part # "container"
    BY <1>2, <2>1 DEF Next, vars
  <2>2. CASE part = "container"
    <3>1. part' = part /\ (Serving!ContainerNext \/ UNCHANGED containerVars)
      BY <1>2, <2>2 DEF Next, vars
    <3> QED
      BY <1>2, <2>2, <3>1, ServiceKeeps
  <2> QED
    BY <2>1, <2>2
<1>3. Inv => ServicesKept
  BY ServiceHolds DEF ServicesKept
<1> QED
  BY <1>1, <1>2, <1>3, PTL DEF Spec
===============================================================================
