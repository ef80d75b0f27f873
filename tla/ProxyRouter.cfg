SPECIFICATION Spec
CONSTANTS
    t1 = t1
    c1 = c1
    p1 = p1
    p2 = p2
    h1 = h1
    Jobs <- MCJobs
    Checkers <- MCCheckers
    Proxies <- MCProxies
    Hosts <- MCHosts
    Capacity = 1
    MaxBatch = 1
    MaxFailures = 2
    Quarantine = 1
    ChallengeQuarantine = 3
    Second = 2
    CALLS = 3
    TICKS = 1
    FAULTS = 1
SYMMETRY Symmetry
INVARIANTS
    SavedOrPending
    PinsPersisted
    NotDeadThroughout
PROPERTIES
    SavedNeverGoesBack
    QuarantineSurvives
    QuarantineKept
