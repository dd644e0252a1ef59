SPECIFICATION Spec
CONSTANTS
    Capacity = 3
    MaxFrames = 2
    CounterMod = 4
    MaxBlocks = 6
    MaxSessions = 2
INVARIANTS TypeOK NoSharedSlot
PROPERTIES ImplementsChannel DisplayCatchesUp
CHECK_DEADLOCK FALSE
