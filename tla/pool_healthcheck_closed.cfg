SPECIFICATION Spec
CONSTANTS
    Conns = {c1, c2, c3, c4}
    Borrowers = {b1, b2, b3}
    Recyclers = {r}
    Checkers = {h}
    Closers = {x}
    MinConns = 1
    MaxConns = 2
    DrainRounds = 2
    AtomicMax = 9
    CoroutineClose = TRUE
    NoConn = NoConn
    NoProc = NoProc
SYMMETRY Symmetry
INVARIANT NeverWraps
CHECK_DEADLOCK FALSE
