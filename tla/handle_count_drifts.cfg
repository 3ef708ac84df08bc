SPECIFICATION HandleSpec
CONSTANTS
    Coroutines = {h1}
    Conns = {x1, x2, x3}
    Writes = {w1, w2}
    Absent = Absent
    Deployments <- FailingChoices
INVARIANT StockCounted
CHECK_DEADLOCK FALSE
