SPECIFICATION FairSpec
CONSTANTS
    Stdout = Stdout
    Stderr = Stderr
    Exit = Exit
    MaxOutput = 1
    Faults = {"cut", "malformed"}
INVARIANTS
    StreamTypeOK
    PublishedInOrder
    ClosedIsLast
    RouteKept
    ReadsComplete
PROPERTIES
    ConsumerEnds
CHECK_DEADLOCK FALSE
