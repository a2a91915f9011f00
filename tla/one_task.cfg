SPECIFICATION Spec
CONSTANTS
    Loop = Loop
    Guard = Guard
    Ext = Ext
    NoTS = NoTS
    NoTurn = NoTurn
    Turn = {t1, t2, t3}
    UserIn = {u1, u2}
    MailIn = {m1}
    TriggerIn = {m1}
    QueueIn = {}
    ShellIn = {}
    OtherProg = {}
    MaxInterrupts = 0
    MaxCalls = 0
    MaxGoalSets = 0
SYMMETRY TurnSymmetry
INVARIANTS
    AtMostOneTask
CHECK_DEADLOCK FALSE
