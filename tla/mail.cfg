SPECIFICATION FairSpec
CONSTANTS
    Loop = Loop
    Guard = Guard
    Ext = Ext
    NoTS = NoTS
    NoTurn = NoTurn
    Turn = {t1, t2}
    UserIn = {}
    MailIn = {m1}
    TriggerIn = {m1}
    QueueIn = {}
    ShellIn = {}
    OtherProg = {}
    MaxInterrupts = 0
    MaxCalls = 1
    MaxGoalSets = 1
PROPERTIES
    MailWakes
    GoalResumes
    TurnEnds
CHECK_DEADLOCK FALSE
