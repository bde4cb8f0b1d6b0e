CONSTANTS
    User = {alice}
    Querier = {}
    Role = {a1}
    Conn = {c1, c2}
    NoConn = NoConn
    OddErrors = FALSE
    MaxOp = 3
    MaxSync = 1
    MaxCrash = 0
    MaxDead = 0
SPECIFICATION Spec
SYMMETRY Interchangeable
VIEW WithQueue
CHECK_DEADLOCK FALSE
INVARIANT TypeOK
INVARIANT OneRequestOnTheWire
INVARIANT SingleActive
INVARIANT QueueIsFifo
