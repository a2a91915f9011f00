SPECIFICATION FairSpec
CONSTANTS
    Loop = Loop
    Guard = Guard
    Ext = Ext
    NoTS = NoTS
    NoTurn = NoTurn
    Turn = {t1, t2, t3}
    UserIn = {}
    MailIn = {}
    TriggerIn = {}
    QueueIn = {}
    ShellIn = {s1}
    OtherProg = {}
    MaxInterrupts = 1
    MaxCalls = 0
    MaxGoalSets = 1
PROPERTIES
    PauseExcludesLaunch
    InterruptReturns
CHECK_DEADLOCK FALSE
