SPECIFICATION FairSpec
CONSTANTS
    Thread <- MCThread
    First <- MCFirst
    Worker = {w1, w2}
    None = None
    MaxRunning = 1
    Retries = 1
    GlobalRetries = 2
    MaxUpdate = 2
    MaxChange = 1
    MaxFault = 1
INVARIANTS
    MemoryTypeOK
    NoLostMemory
    BaselineTrue
PROPERTIES
    CatchesUp
CHECK_DEADLOCK FALSE
