SPECIFICATION Spec
CONSTANTS
    Callers = {c1, c2}
    NoCaller = NoCaller
    BufferSize = 2
    MaxStarts = 2
    MaxEvents = 3
SYMMETRY CallerSymmetry
CHECK_DEADLOCK FALSE
INVARIANTS
    TypeOK
    StopChOpenWhileStarted
    StoppedMeansQuiet
    StateFromLiveInformers
    SingleProcessor
    EventsAccounted
    LossOnlyAtShutdown
PROPERTIES
    ImplementsEventStream
    ImplementsLifecycle
