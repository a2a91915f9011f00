SPECIFICATION Spec
CONSTANTS
    Loop = Loop
    Guard = Guard
    Ext = Ext
    NoTS = NoTS
    NoTurn = NoTurn
    Turn = {t1, t2}
    UserIn = {}
    MailIn = {m1}
    TriggerIn = {m1}
    QueueIn = {q1}
    ShellIn = {}
    OtherProg = {"compact"}
    MaxInterrupts = 1
    MaxCalls = 1
    MaxGoalSets = 0
SYMMETRY TurnSymmetry
INVARIANTS
    TypeOK
    TaskTracked
    Answerable
    NoDuplicate
CHECK_DEADLOCK FALSE
