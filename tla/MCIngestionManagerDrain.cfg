SPECIFICATION Spec
CONSTANTS
    Callers = {c1}
    NoCaller = NoCaller
    BufferSize = 2
    MaxStarts = 1
    MaxEvents = 2
CHECK_DEADLOCK FALSE
INVARIANTS
    PendingEventsDrained
