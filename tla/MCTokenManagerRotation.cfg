SPECIFICATION Spec
CONSTANTS
    Callers = {c1, c2}
    Credentials = {v1, v2}
    InitCreds = v1
    NoCreds = NoCreds
    Lifetimes = {4}
    RefreshBuffer = 2
    HttpTimeout = 1
    MaxTime = 3
    MaxCalls = 2
CHECK_DEADLOCK FALSE
INVARIANTS
    TokenMatchesCredentials
