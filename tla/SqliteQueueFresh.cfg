SPECIFICATION Spec
CONSTANTS
    u1 = u1
    u2 = u2
    p1 = p1
    p2 = p2
    Keys = {u1, u2}
    Processes = {p1}
    Exclusive = TRUE
    LegacyTables = {}
    RetryMax = 2
    Priorities = {0, 10}
    Delays = {0, 2}
    TicksPerSecond = 2
    MAX_ROWS = 3
    MAX_TIME = 3
INVARIANTS
    InFlightOwned
PROPERTIES
    AtMostASecondEarly
    ImplementsFrontier
