SPECIFICATION Spec
CONSTANTS
    v1 = v1
    v2 = v2
    n1 = n1
    r1 = r1
    l1 = l1
    ValueKeys = {v1, v2}
    CountKeys = {n1}
    RateKeys = {r1}
    LockKeys = {l1}
    Clients = {c1, c2}
    Ptrs = {p1, p2, p3, p4}
    Tokens = {t1, t2, t3}
    Max = 2
    Window = 1
    Ttls = {0, 1}
    SweepInterval = 2
    Sites <- SiteChoices
    MaxTime = 4
    Absent = Absent
    Requests = {1, 2}
    Installations <- InstallationChoices
    Callers = {k1, k2, k3}
    Limit = 2
    Period = 2
    Stores = {"memory", "redis", "incr", "add"}
    Horizon = 4
    Borrowers = {b1, b2, b3}
    Conns = {x1, x2, x3, x4, x5}
    Pools <- PoolChoices
    Names = {"n1", "n2"}
    Drivers <- DriverChoices
    PoolObjects = {o1, o2, o3, o4}
    Workflows = {w1, w2}
    RegistryCareful = {"overlap", "by_hand"}
    RedisCallers = {k1, k2}
    Ttl = 1
    ServerMax = 1
    ServerWindow = 1
    MaxClock = 2
    MaxStrays = 1
    Uses <- UseChoices
INVARIANTS
    StoresTypeOK
    StoreSound
    ExpiringExact
    SessionKept
    DestroyedGone
    Throttled
    RedisPoolExact
    RegistryKept
    AnswersTrue
CHECK_DEADLOCK FALSE
