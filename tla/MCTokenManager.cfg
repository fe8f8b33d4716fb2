SPECIFICATION LiveSpec
CONSTANTS
    Callers = {c1, c2, c3}
    Credentials = {v1, v2}
    InitCreds = v1
    NoCreds = NoCreds
    Lifetimes = {1, 4}
    RefreshBuffer = 2
    HttpTimeout = 1
    MaxTime = 4
    MaxCalls = 4
CHECK_DEADLOCK FALSE
INVARIANTS
    TypeOK
    SingleFlight
    NoLostWakeup
    CachedTokenAccepted
PROPERTIES
    ImplementsSharedToken
    CallsReturn
