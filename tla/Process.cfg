SPECIFICATION FairSpec
CONSTANTS
    Plain <- MCPlain
    MaxRefusals = 1
    MaxMissed = 1
    MaxStarts = 2
INVARIANTS
    TypeOK
    TroubleExplained
    DegradedExplained
    NothingSkipped
PROPERTIES
    SilentForLife
    BrokenForGood
    RetentionTakesEffect
CHECK_DEADLOCK FALSE
