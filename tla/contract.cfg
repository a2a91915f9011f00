SPECIFICATION FairSpec
CONSTANTS
    Loop = Loop
    Guard = Guard
    Ext = Ext
    NoTS = NoTS
    NoTurn = NoTurn
    Turn = {t1, t2}
    UserIn = {u1, u2}
    MailIn = {}
    TriggerIn = {}
    QueueIn = {}
    ShellIn = {}
    OtherProg = {"compact"}
    MaxInterrupts = 1
    MaxCalls = 0
    MaxGoalSets = 0
INVARIANTS
    SteerKept
PROPERTIES
    ImplementsContract
CHECK_DEADLOCK FALSE
