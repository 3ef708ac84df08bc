SPECIFICATION FairSpec
CONSTANTS
    Conns = {c1, c2, c3}
    Borrowers = {b1, b2}
    Recyclers = {r}
    Checkers = {}
    Closers = {x}
    MinConns = 1
    MaxConns = 1
    DrainRounds = 2
    AtomicMax = 9
    CoroutineClose = TRUE
    NoConn = NoConn
    NoProc = NoProc
INVARIANTS
    ClosedClean
PROPERTIES
    GetReturns
    CloseEnds
CHECK_DEADLOCK FALSE
