SPECIFICATION Spec
CONSTANTS
    Conns = {c1, c2}
    IPs = {a1, a2}
    Cooldown = 0
INVARIANTS TypeOK GateHolds CredentialsTraceable 
CHECK_DEADLOCK FALSE
SYMMETRY Symmetry
