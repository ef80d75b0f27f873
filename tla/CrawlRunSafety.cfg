SPECIFICATION Spec
CONSTANTS
    a = a
    b = b
    c = c
    NoLimit = NoLimit
    Urls = {a, b, c}
    Seeds = {a}
    Links <- MCLinks
    Scripts = {b}
    MaxDepth = 1
    MaxPages = 4
    MaxTasks = 2
    MaxRetries = 2
    RetryMax = 2
    RenderModes = {FALSE}
    ExactCap = 2
    RUNS = 2
    DEFERS = 0
    ERRORS = 1
INVARIANTS
    SeenIsAdmitted
    TaskOwnsJob
    NothingLeftBehind
    StopsClean
CHECK_DEADLOCK FALSE
