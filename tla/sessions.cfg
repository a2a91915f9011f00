SPECIFICATION FairSpec
CONSTANTS
    Conn = {c1, c2, c3}
    Session = {s1}
    TTL = 2
    None = None
INVARIANTS
    SessionsTypeOK
    SoleOwner
    NoOrphanChild
PROPERTIES
    ExpiresInFull
    EventuallyReaped
CHECK_DEADLOCK FALSE
