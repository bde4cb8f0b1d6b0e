CONSTANTS
    User = {}
    Querier = {quinn, quentin}
    Role = {a1}
    Conn = {c1}
    NoConn = NoConn
    OddErrors = FALSE
    MaxOp = 2
    MaxSync = 1
    MaxCrash = 0
    MaxDead = 1
SPECIFICATION FairSpec
CHECK_DEADLOCK FALSE
PROPERTY QueuedIsServed
PROPERTY SyncRunsOrBlocked
