SPECIFICATION Spec
CONSTANTS
    Conns = {c1, c2, c3}
    MaxSessions = 2
    MaxDuration = 1
    CleanupInterval = 2
    Slack = 1
    WritesFail = FALSE
    MaxStarts = 1
SYMMETRY Symmetry
INVARIANT EvictionMakesRoom
CHECK_DEADLOCK FALSE
