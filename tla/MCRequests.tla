------------------------------ MODULE MCRequests ------------------------------
(***************************************************************************)
(* Small instances of what serves a request: the router, the context of    *)
(* the request, the statement builders, the database handle, the queries   *)
(* and records of the ORM, the service container, and the validator.  They *)
(* share no state here, so a behaviour has one of them, its part, and the  *)
(* variables of the others hold nothing.  RequestParts declares those that *)
(* RequestPartsProofs is about.                                            *)
(***************************************************************************)
EXTENDS Integers, Sequences, FiniteSets, TLC, RequestParts

CONSTANTS
    HistoryMax, Applications, Careful, Schemas,
    Queries, QueryUses, UnionDepth, LongMax, QueryCareful,
    Forms

CONSTANTS q1, q2, q3

VARIABLES
    handles, app, schemas, length,
    use, query, db, last,
    form, object, ext, chain, calls, outcome,
    part

INSTANCE MCDispatch

Builders == INSTANCE DbBuilder
Querying == INSTANCE OrmQuery
Validating == INSTANCE Validate
Orm == INSTANCE MCOrm
Services == INSTANCE MCContainer
Input == INSTANCE MCValidate
INSTANCE MCDbBuilder

builderVars == <<handles, app, schemas, length>>
queryVars == <<use, query, db, last>>
validateVars == <<form, object, ext, chain, calls, outcome>>
vars == <<routerVars, contextVars, builderVars, handleVars, queryVars, recordVars, containerVars,
          validateVars, part>>

ASSUME Assumptions ==
    /\ Builders!BuilderAssumption
    /\ Querying!QueryAssumption
    /\ Validating!ValidateAssumption

(* Workers whose handlers clean up, alone or with automatic cleanup, also  *)
(* with destructors that use the context; automatic cleanup alone, with    *)
(* and without Coroutine::defer; and neither, where ids are not reused.    *)
Tidy ==
    [auto |-> FALSE, defer |-> TRUE, tidy |-> TRUE, touch |-> FALSE, overlap |-> TRUE,
     nested |-> FALSE, denies |-> TRUE, reuse |-> TRUE, places |-> {"i1", "i2"} \X {"k1", "k2"}]
WorkerChoices ==
    {Tidy,
     [Tidy EXCEPT !.auto = TRUE, !.touch = TRUE],
     [Tidy EXCEPT !.auto = TRUE, !.tidy = FALSE],
     [Tidy EXCEPT !.auto = TRUE, !.tidy = FALSE, !.touch = TRUE],
     [Tidy EXCEPT !.overlap = FALSE, !.nested = TRUE],
     [Tidy EXCEPT !.auto = TRUE, !.defer = FALSE, !.tidy = FALSE, !.overlap = FALSE, !.denies = FALSE],
     [Tidy EXCEPT !.tidy = FALSE, !.reuse = FALSE,
                  !.places = {<<"i1", "k1">>, <<"i2", "k2">>, <<"i3", "k3">>}]}

(* A pool of two connections and one of one, a persistent connection, and  *)
(* connections of the handles' own.                                        *)
Pooled2 ==
    [pool |-> TRUE, size |-> 2, persistent |-> FALSE, losses |-> 2, inside |-> FALSE,
     failing |-> FALSE, requests |-> 3]
DeploymentChoices ==
    {Pooled2,
     [Pooled2 EXCEPT !.size = 1, !.losses = 0],
     [Pooled2 EXCEPT !.pool = FALSE, !.persistent = TRUE, !.losses = 1],
     [Pooled2 EXCEPT !.pool = FALSE, !.losses = 1, !.requests = 2]}

(* The database connections are interchangeable; only the handles' part    *)
(* has any.                                                                *)
Symmetry == Permutations(Conns)

QueryUseChoices == Orm!QueryUseChoices
RecordUseChoices == Orm!RecordUseChoices
ShopChoices == Services!ShopChoices
FormChoices == Input!FormChoices

-----------------------------------------------------------------------------
(* The variables of a part that a behaviour does not have.                 *)
NoDispatch ==
    /\ site = Absent /\ todo = Absent /\ group = Absent /\ stack = Absent /\ conf = Absent
    /\ tree = Absent /\ events = Absent /\ chains = Absent /\ fnCache = Absent /\ free = Absent
    /\ ready = Absent /\ generation = Absent /\ table = Absent /\ retired = Absent /\ pcs = Absent
    /\ run = Absent /\ ctx = Absent /\ served = Absent /\ rebuilds = Absent /\ asked = Absent
    /\ named = Absent
NoContext ==
    /\ kind = Absent /\ co = Absent /\ worker = Absent /\ depth = Absent /\ foreign = Absent
NoBuilder ==
    /\ handles = Absent /\ app = Absent /\ schemas = Absent /\ length = Absent
NoHandle ==
    /\ deployment = Absent /\ handle = Absent /\ idle = Absent /\ count = Absent /\ alive = Absent
    /\ tx = Absent /\ pending = Absent /\ stored = Absent /\ frame = Absent /\ ended = Absent
    /\ issued = Absent /\ losses = Absent /\ requests = Absent
NoQuery ==
    /\ use = Absent /\ query = Absent /\ db = Absent /\ last = Absent
NoRecord ==
    /\ using = Absent /\ rows = Absent /\ nextId = Absent /\ obj = Absent /\ call = Absent
    /\ stands = Absent /\ unsure = Absent /\ gone = Absent /\ flips = Absent /\ wrote = Absent
NoContainer ==
    /\ shop = Absent /\ regs = Absent /\ aliases = Absent /\ keyCount = Absent /\ response = Absent
    /\ making = Absent /\ thrown = Absent /\ built = Absent /\ loader = Absent /\ serving = Absent
    /\ answer = Absent /\ given = Absent /\ touched = Absent /\ seen = Absent
NoValidator ==
    /\ form = Absent /\ object = Absent /\ ext = Absent /\ chain = Absent /\ calls = Absent
    /\ outcome = Absent

Init ==
    /\ part \in {"dispatch", "context", "builder", "handle", "query", "record", "container",
                "validation"}
    /\ IF part = "dispatch" THEN Routing!RouterInit ELSE NoDispatch
    /\ IF part = "context" THEN Contexts!ContextInit ELSE NoContext
    /\ IF part = "builder" THEN Builders!BuilderInit ELSE NoBuilder
    /\ IF part = "handle" THEN Handling!HandleInit ELSE NoHandle
    /\ IF part = "query" THEN Querying!QueryInit ELSE NoQuery
    /\ IF part = "record" THEN Recording!RecordInit ELSE NoRecord
    /\ IF part = "container" THEN Serving!ContainerInit ELSE NoContainer
    /\ IF part = "validation" THEN Validating!ValidateInit ELSE NoValidator

Next ==
    \/ /\ part = "dispatch" /\ Routing!RouterNext
       /\ UNCHANGED <<contextVars, builderVars, handleVars, queryVars, recordVars, containerVars,
                    validateVars, part>>
    \/ /\ part = "context" /\ Contexts!ContextNext
       /\ UNCHANGED <<routerVars, builderVars, handleVars, queryVars, recordVars, containerVars,
                    validateVars, part>>
    \/ /\ part = "builder" /\ Builders!BuilderNext
       /\ UNCHANGED <<routerVars, contextVars, handleVars, queryVars, recordVars, containerVars,
                    validateVars, part>>
    \/ /\ part = "handle" /\ Handling!HandleNext
       /\ UNCHANGED <<routerVars, contextVars, builderVars, queryVars, recordVars, containerVars,
                    validateVars, part>>
    \/ /\ part = "query" /\ Querying!QueryNext
       /\ UNCHANGED <<routerVars, contextVars, builderVars, handleVars, recordVars, containerVars,
                    validateVars, part>>
    \/ /\ part = "record" /\ Recording!RecordNext
       /\ UNCHANGED <<routerVars, contextVars, builderVars, handleVars, queryVars, containerVars,
                    validateVars, part>>
    \/ /\ part = "container" /\ Serving!ContainerNext
       /\ UNCHANGED <<routerVars, contextVars, builderVars, handleVars, queryVars, recordVars,
                    validateVars, part>>
    \/ /\ part = "validation" /\ Validating!ValidateNext
       /\ UNCHANGED <<routerVars, contextVars, builderVars, handleVars, queryVars, recordVars,
                    containerVars, part>>

Spec == Init /\ [][Next]_vars

-----------------------------------------------------------------------------
(* The variables of the part that is there have their types.               *)
RequestsTypeOK ==
    /\ part = "dispatch" => Routing!RouterTypeOK
    /\ part = "context" => Contexts!ContextTypeOK
    /\ part = "builder" => Builders!BuilderTypeOK
    /\ part = "handle" => Handling!HandleTypeOK
    /\ part = "query" => Querying!QueryTypeOK
    /\ part = "record" => Recording!RecordTypeOK
    /\ part = "container" => Serving!ContainerTypeOK
    /\ part = "validation" => Validating!ValidateTypeOK

(* The properties of the parts, by the names they have there.              *)
HooksHonoured == part = "dispatch" => Routing!HooksHonoured
DescriptorsLive == part = "dispatch" => Routing!DescriptorsLive
PlanExact == part = "dispatch" => Routing!PlanExact
ContextsKept == part = "context" => Contexts!Isolated /\ Contexts!Reclaimed
StatementExact == part = "builder" => Builders!StatementExact
DriversAgree == part = "builder" => Builders!DriversAgree
ConnectionsKept == part = "handle" => Handling!LeftClean /\ Handling!CountHonest
AllOrNothing == part = "handle" => Handling!AllOrNothing
QueryExact == part = "query" => Querying!QueryExact
RecordsKept == part = "record" => Recording!RecordsKept
ServicesKept == part = "container" => Serving!ServicesKept
ValidationExact == part = "validation" => Validating!ValidationExact
TogglesCounted == part = "record" => Recording!TogglesCounted
ProbeInvisible == [][part = "dispatch" => Routing!ProbeHides]_routerVars
===============================================================================
