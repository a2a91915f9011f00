SPECIFICATION Spec
CONSTANTS
    Main = Main
    Ext = Ext
    Tool = {w1}
    Budget = {1}
    ExtKind = {"set", "clear", "resume"}
    EndKind = {"finish", "replace", "interrupt"}
    MaxTurns = 1
    MaxGoals = 2
    MaxTokens = 1
    MaxClock = 0
    MaxTools = 2
    MaxRequests = 1
SYMMETRY ToolSymmetry
INVARIANTS
    BooksTypeOK
    ActiveUnderBudget
CHECK_DEADLOCK FALSE
