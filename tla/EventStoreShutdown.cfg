SPECIFICATION Spec
CONSTANTS
    MaxQueue = 2
    MaxBatch = 2
    MaxEvents = 4
    MaxFaults = 0
    MaxKills = 0
    MaxStarts = 1
    Faults = {}
INVARIANT ShutdownKeepsEvents
CHECK_DEADLOCK FALSE
