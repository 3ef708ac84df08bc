SPECIFICATION Spec
CONSTANTS
    k1 = k1
    k2 = k2
    k3 = k3
    Coros = {c1, c2, c3}
    Keys = {k1, k2, k3}
    Versioned = {k3}
    Loads <- LoadsEachOther
    Flights = {f1, f2, f3, f4}
    MaxDepth = 2
    MaxCalls = 4
    None = None
INVARIANTS
    FlightsExact
    WaiterHasLeader
PROPERTIES
    EveryCallReturns
CHECK_DEADLOCK FALSE
