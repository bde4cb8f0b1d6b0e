CONSTANTS
    User = {alice}
    Querier = {}
    Role = {a1, a2}
    Conn = {c1}
    NoConn = NoConn
    OddErrors = FALSE
    MaxOp = 1
    MaxSync = 0
    MaxCrash = 1
    MaxDead = 0
SPECIFICATION Spec
CHECK_DEADLOCK FALSE
INVARIANT NoUncertaintyForgotten
