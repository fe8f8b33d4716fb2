SPECIFICATION LiveSpec
CONSTANTS
    Senders = {s1, s2}
    MaxRetries = 3
    MaxSends = 3
CHECK_DEADLOCK FALSE
INVARIANTS
    TypeOK
    DuplicatesNeedServerError
    HealthWithoutOverlap
    HealthNeedsContact
PROPERTIES
    SendsReturn
