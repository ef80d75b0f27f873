SPECIFICATION Spec
CONSTANTS
    t1 = t1
    t2 = t2
    t3 = t3
    h = h
    h2 = h2
    o = o
    o2 = o2
    o3 = o3
    p = p
    s = s
    s2 = s2
    Tasks <- MCTasks
    Keys <- MCKeys
    Requests <- MCRequests
    Limit <- MCLimit
    NoRequest = NoRequest
INVARIANTS
    WithinLimits
    CountersExact
PROPERTIES
    GrantsAreAtomic
SYMMETRY Symmetry
