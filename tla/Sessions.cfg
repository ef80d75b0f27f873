SPECIFICATION FairSpec
CONSTANTS
    Tasks = {t1, t2}
    RenderSessions = {s1}
    Http = http
    Signals <- MCSignals
    ScopeAuto = TRUE
    DropOnBlock = TRUE
    JOBS = 2
    SWEEPS = 1
    FAULTS = 1
INVARIANTS
    JobsGoOn
    ArchivedOnce
    MapsAgree
PROPERTIES
    StateOnlyRises
    ScopeOnlyNarrows
    BlockedIsEvicted
