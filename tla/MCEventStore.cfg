SPECIFICATION FairSpec
CONSTANTS
    MaxQueue = 2
    MaxBatch = 3
    MaxEvents = 4
    MaxFaults = 2
    MaxKills = 1
    MaxStarts = 2
    Faults = {"connect", "statement", "commit"}
INVARIANTS
    TypeOK
    InOrder
    OneFate
    OneFaultAbsorbed
PROPERTIES
    ImplementsLog
    EventuallySettled
    ShutdownCompletes
CHECK_DEADLOCK FALSE
