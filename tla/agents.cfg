SPECIFICATION Spec
CONSTANTS
    Agent = {a, b}
    Root = Root
    Path = {p}
    None = None
    Reserved = Reserved
    MaxThreads = 2
    MaxBusy = 2
SYMMETRY AgentSymmetry
INVARIANTS
    AgentsTypeOK
    SlotsExact
    PathsOwned
CHECK_DEADLOCK FALSE
