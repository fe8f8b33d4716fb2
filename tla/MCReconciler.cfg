SPECIFICATION LiveSpec
CONSTANTS
    Agents = {a1}
    NoAgent = NoAgent
    Probes = {p1}
    MaxObjects = 2
    MaxUpsets = 1
CHECK_DEADLOCK FALSE
INVARIANTS
    TypeOK
    AlwaysRescheduled
    StatusBacked
    ManagersOwned
PROPERTIES
    ImplementsAgentStatus
    ClientsStable
    DeletedAgentCleaned
    AgentsServed
    ProbesAnswered
