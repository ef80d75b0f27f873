SPECIFICATION Spec
CONSTANTS
    u1 = u1
    u2 = u2
    t1 = t1
    t2 = t2
    Keys = {u1, u2}
    Seeds = {u1}
    Links <- MCLinks
    Main = main
    Tasks = {t1}
    NoJob = NoJob
    RetryMax = 1
    RUNS = 2
    MAX_IDS = 2
    MAX_MESSAGES = 3
    FAULTS = 0
CHECK_DEADLOCK FALSE
SYMMETRY Symmetry
INVARIANTS
    NothingLost
