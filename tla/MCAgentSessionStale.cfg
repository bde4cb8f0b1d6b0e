CONSTANTS
    Key = {k1}
    None = None
    MaxConnection = 2
    MaxCommand = 3
SPECIFICATION Spec
CHECK_DEADLOCK FALSE
INVARIANT ReservationIsAnnounced
