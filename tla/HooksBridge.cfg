SPECIFICATION FairSpec
CONSTANTS
    j1 = j1
    j2 = j2
    e1 = e1
    e2 = e2
    Jobs <- MCJobs
    Events <- MCEvents
    Handled <- MCHandled
    Pipe = 2
    CALLS = 3
    EMITS = 2
    FAULTS = 2
INVARIANTS
    AnswersItsOwn
    PendingIsAwaited
    OnlyLateDropped
PROPERTIES
    InvocationEnds
