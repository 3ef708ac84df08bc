SPECIFICATION Spec
CONSTANTS
    Absent = Absent
    Requests = {1, 2}
    Sites <- SiteChoices
    Handles <- HandleOrder
    Params = {":p", ":q", ":c"}
    Mca = {":c"}
    Long = {"long"}
    Descriptors = {d1, d2, d3, d4}
    MaxServed = 2
    MaxRebuilds = 2
    Cids = {"i1", "i2", "i3"}
    Structs = {s1, s2, s3, s4}
    PoolMax = 1
    Cap = 2
    Floor = 1
    Workers <- WorkerChoices
    HistoryMax = 2
    Applications <- ApplicationChoices
    Careful = {"union", "verb", "literal"}
    Schemas = {"s", "invalid"}
    Coroutines = {g1, g2, g3}
    Handlers = {h1, h2}
    Conns = {x1, x2, x3}
    Writes = {w1, w2}
    Deployments <- DeploymentChoices
    Queries = {q1, q2, q3}
    q1 = q1
    q2 = q2
    q3 = q3
    QueryUses <- QueryUseChoices
    UnionDepth = 3
    LongMax = 9
    QueryCareful = {"or"}
    Objects = {o1, o2}
    Tasks = {t1, t2}
    RecordUses <- RecordUseChoices
    RecordCareful = {"retry", "null"}
    Null = Null
    Shops <- ShopChoices
    Forms <- FormChoices
    ContainerCareful = {"throws", "response", "itself"}
SYMMETRY Symmetry
INVARIANTS
    RequestsTypeOK
    HooksHonoured
    DescriptorsLive
    PlanExact
    ContextsKept
    StatementExact
    DriversAgree
    ConnectionsKept
    AllOrNothing
    QueryExact
    RecordsKept
    TogglesCounted
    ServicesKept
    ValidationExact
PROPERTIES
    ProbeInvisible
CHECK_DEADLOCK FALSE
