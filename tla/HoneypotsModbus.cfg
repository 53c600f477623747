SPECIFICATION Spec
CONSTANTS
    Conns = {c1, c2}
    IPs = {a1}
    Cooldown = 1
INVARIANT ModbusAlerts
CHECK_DEADLOCK FALSE
