SPECIFICATION FairSpec
CONSTANTS
    Conns = {c1, c2}
    MaxSessions = 1
    MaxDuration = 1
    CleanupInterval = 2
    Slack = 1
    WritesFail = TRUE
    MaxStarts = 2
INVARIANTS
    TypeOK
    OneFate
    AgeBound
PROPERTIES
    ImplementsRegistry
    EverySessionEnds
CHECK_DEADLOCK FALSE
