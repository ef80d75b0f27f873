SPECIFICATION Spec
CONSTANTS
    u1 = u1
    u2 = u2
    p1 = p1
    p2 = p2
    Keys = {u1, u2}
    Processes = {p1, p2}
    Exclusive = FALSE
    LegacyTables <- MCLegacy
    RetryMax = 1
    Priorities = {0}
    Delays = {0}
    TicksPerSecond = 2
    MAX_ROWS = 3
    MAX_TIME = 0
SYMMETRY Symmetry
INVARIANTS
    KeysUnique
    AttemptsWithinCap
PROPERTIES
    JobsSurvive
