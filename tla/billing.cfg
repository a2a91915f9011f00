SPECIFICATION Spec
CONSTANTS
    Main = Main
    Ext = Ext
    Tool = {w1, w2}
    Budget = {2}
    ExtKind = {}
    EndKind = {"finish"}
    MaxTurns = 2
    MaxGoals = 1
    MaxTokens = 3
    MaxClock = 1
    MaxTools = 4
    MaxRequests = 0
SYMMETRY ToolSymmetry
INVARIANTS
    NoOverbilling
    BilledInFull
    SteerOnce
CHECK_DEADLOCK FALSE
