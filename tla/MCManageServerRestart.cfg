CONSTANTS
    User = {alice}
    Querier = {}
    Role = {a1, a2}
    Conn = {c1}
    NoConn = NoConn
    OddErrors = TRUE
    MaxOp = 2
    MaxSync = 1
    MaxCrash = 1
    MaxDead = 0
SPECIFICATION Spec
SYMMETRY Interchangeable
VIEW WithoutFault
CHECK_DEADLOCK FALSE
INVARIANT AgentsAgreeWithDb
INVARIANT UncertaintyIsRemembered
PROPERTY CrackedStartsNothing
PROPERTY FinalIsFinal
