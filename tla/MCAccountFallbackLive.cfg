CONSTANTS
    c1 = c1
    c2 = c2
    r1 = r1
    r2 = r2
    Synthetic = synthetic
    NoConn = none
    Conns <- OneConn
    Requests <- MCRequests
    Priority <- OnePriority
    RowOrder <- OnePriority
    StickyLimit = 1
    HasFree = TRUE
    Base = 2
    MaxCooldown = 4
    MaxLevel = 1
    Transient = 2
    Denials = {4}
    ResetDelays = {3}
    Second = 2
    MaxTime = 2
SPECIFICATION FairSpec
CHECK_DEADLOCK FALSE
PROPERTIES
    EveryRequestEnds
