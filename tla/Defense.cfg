SPECIFICATION Spec
CONSTANTS
    Ips = {i1, i2}
    Scores = {0, 80}
    Threshold = 70
    MaxProfiles = 1
    MaxByHand = 1
    MaxFaults = 1
    MaxStarts = 2
SYMMETRY Symmetry
INVARIANTS
    TypeOK
    FlagExplained
    WrittenThrough
    FirewallFollows
    RulesBounded
    AutoBanDeserved
PROPERTY ImplementsReputation
CHECK_DEADLOCK FALSE
