SPECIFICATION Spec
CONSTANTS
    Agents = {a1}
    NoAgent = NoAgent
    Probes = {p1}
    MaxObjects = 1
    MaxUpsets = 0
CHECK_DEADLOCK FALSE
PROPERTIES
    ManagerKeptRunning
