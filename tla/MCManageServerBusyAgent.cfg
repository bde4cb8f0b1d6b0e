CONSTANTS
    User = {}
    Querier = {quinn, quentin}
    Role = {a1}
    Conn = {c1}
    NoConn = NoConn
    OddErrors = FALSE
    MaxOp = 2
    MaxSync = 1
    MaxCrash = 0
    MaxDead = 0
SPECIFICATION Spec
CHECK_DEADLOCK FALSE
INVARIANT OnlyFaultsCrack
