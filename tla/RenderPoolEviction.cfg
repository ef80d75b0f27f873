SPECIFICATION Spec
CONSTANTS
    Tasks = {t1, t2}
    Droppers = {d1}
    Browsers = {b1, b2}
    Sessions = {s1}
    Keys <- MCKeys
    MaxBrowsers = 1
    MaxPages = 1
    MaxUses = 2
    RENDERS = 3
    FAULTS = 1
SYMMETRY Symmetry
INVARIANTS
    EvictedIsReleased
