SPECIFICATION FairSpec
CONSTANTS
    Account = {a1, a2, a3}
    Staff = {}
    Session = {s1, s2, s3}
    None = None
    Limit = {1, 2}
    Tolerance = FALSE
CHECK_DEADLOCK FALSE
INVARIANTS
    NoDanglingSession
    FlagMatchesQueue
PROPERTIES
    NoIdleSlot
    QueueIsFair
    
