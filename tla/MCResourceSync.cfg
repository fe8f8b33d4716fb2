SPECIFICATION LiveSpec
CONSTANTS
    NumKinds = 2
    NoObject = NoObject
    NoEvent = NoEvent
    BufferSize = 1
    MaxChanges = 3
    MaxFaults = 1
CHECK_DEADLOCK FALSE
INVARIANTS
    TypeOK
    Converged
    EventsInOrder
    NoResurrection
PROPERTIES
    CatchesUp
