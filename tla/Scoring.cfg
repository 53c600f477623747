SPECIFICATION Spec
CONSTANTS
    Ips = {a}
    Texts <- MCTexts
    Serving = {"FTP", "HTTP", "SNMP", "SMTP"}
    Few = 0
    Some = 1
    Many = 2
    MaxCount = 4
    MaxEvents = 4
    MaxLives = 1
INVARIANTS
    TypeOK
    ProfileSumsUp
    ContentNeeded
PROPERTIES
    SuspicionGrows
    ImplementsReputation
CHECK_DEADLOCK FALSE
