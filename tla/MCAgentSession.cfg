CONSTANTS
    Key = {k1}
    None = None
    MaxConnection = 2
    MaxCommand = 5
SPECIFICATION Spec
CHECK_DEADLOCK FALSE
INVARIANTS NoStaleResult OneProtocolRuns
PROPERTY AnnouncedStays
