SPECIFICATION Spec
CONSTANTS
    Conns = {c1, c2, c3, c4}
    Borrowers = {b1, b2}
    Recyclers = {r}
    Checkers = {}
    Closers = {x}
    MinConns = 1
    MaxConns = 2
    DrainRounds = 2
    AtomicMax = 9
    CoroutineClose = TRUE
    NoConn = NoConn
    NoProc = NoProc
SYMMETRY Symmetry
INVARIANT NoGetStarves
CHECK_DEADLOCK FALSE
