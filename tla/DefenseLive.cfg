SPECIFICATION FairSpec
CONSTANTS
    Ips = {i1, i2}
    Scores = {0, 80}
    Threshold = 70
    MaxProfiles = 1
    MaxByHand = 0
    MaxFaults = 1
    MaxStarts = 2
PROPERTIES
    HighThreatIsBanned
CHECK_DEADLOCK FALSE
