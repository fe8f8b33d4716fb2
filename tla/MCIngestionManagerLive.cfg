SPECIFICATION LiveSpec
CONSTANTS
    Callers = {c1, c2}
    NoCaller = NoCaller
    BufferSize = 1
    MaxStarts = 2
    MaxEvents = 1
CHECK_DEADLOCK FALSE
PROPERTIES
    StopReturns
    StartReturnsWhenDown
    ProcessorExits
    QueueMoves
