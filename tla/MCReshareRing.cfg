CONSTANTS
    Calls <- MCCalls
    Capacity = 1
    Breakable <- MCBreakable
SPECIFICATION Spec
ACTION_CONSTRAINT BreakInLastCall
CHECK_DEADLOCK FALSE
INVARIANT BufferIsLent
INVARIANT RightDataArrives
INVARIANT NobodyIsStuck
