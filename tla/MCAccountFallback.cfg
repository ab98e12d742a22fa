CONSTANTS
    c1 = c1
    c2 = c2
    r1 = r1
    r2 = r2
    Synthetic = synthetic
    NoConn = none
    Conns <- MCConns
    Requests <- MCRequests
    Priority <- MCPriority
    RowOrder <- MCRowOrder
    StickyLimit = 1
    HasFree = FALSE
    Base = 2
    MaxCooldown = 4
    MaxLevel = 2
    Transient = 2
    Denials = {4}
    ResetDelays = {3}
    Second = 2
    MaxTime = 2
SPECIFICATION Spec
SYMMETRY RequestSymmetry
CHECK_DEADLOCK FALSE
INVARIANTS
    TypeOK
    NoDispatchIntoCooldown
    NeverRetriesFailed
PROPERTIES
    OnlyOlderRequestsShorten
