SPECIFICATION Spec
CONSTANTS
    ValueKeys = {v1, v2}
    CountKeys = {}
    RateKeys = {}
    LockKeys = {}
    Clients = {c1}
    Ptrs = {p1, p2, p3, p4}
    Tokens = {t1}
    Max = 1
    Window = 1
    Ttls = {0, 1}
    SweepInterval = 2
    Sites <- Capped
    MaxTime = 3
    Absent = Absent
PROPERTY PlainStays
CHECK_DEADLOCK FALSE
