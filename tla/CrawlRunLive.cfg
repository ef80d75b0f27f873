SPECIFICATION FairSpec
CONSTANTS
    a = a
    b = b
    c = c
    NoLimit = NoLimit
    Urls = {a, b}
    Seeds = {a}
    Links <- MCCycle
    Scripts = {}
    MaxDepth = NoLimit
    MaxPages = NoLimit
    MaxTasks = 2
    MaxRetries = 2
    RetryMax = 3
    RenderModes = {TRUE, FALSE}
    ExactCap = 1
    RUNS = 2
    DEFERS = 1
    ERRORS = 0
PROPERTIES
    RunEnds
CHECK_DEADLOCK FALSE
