SPECIFICATION Spec
CONSTANTS
    Ips = {i1, i2}
    Scores = {10, 80}
    Threshold = 70
    MaxProfiles = 2
    MaxByHand = 1
    MaxFaults = 0
    MaxStarts = 2
PROPERTY ScoreKept
CHECK_DEADLOCK FALSE
