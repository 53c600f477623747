SPECIFICATION Spec
CONSTANTS
    IPs = {a1, a2}
    Limit = 2
    Window = 2
    MaxLen = 3
    Forget = 3
    CleanupInterval = 1
    Slack = 1
    MaxTime = 7
    MaxHits = 4
INVARIANTS TypeOK PassBound ForgetBound
PROPERTY ImplementsWindow
CHECK_DEADLOCK FALSE
SYMMETRY Symmetry
