SPECIFICATION FairSpec
CONSTANTS
    Key <- MCKey
    Writes <- MCWrites
    Capacity = 2
    OutCapacity = 1
    MaxConn = 2
    MaxSend = 3
    MaxLog = 2
    MaxLoss = 2
    Cursored = {"init", "ping", "closed"}
INVARIANTS
    RemoteTypeOK
    InboundExact
    OpenMatches
PROPERTIES
    ImplementsRelay
    Delivered
    CutIsClosed
CHECK_DEADLOCK FALSE
