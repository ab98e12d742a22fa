CONSTANTS
    c1 = c1
    c2 = c2
    c3 = c3
    Conns <- MCConns
    Priority <- MCPriority
    RowOrder <- MCRowOrder
    StickyLimit = 2
    MaxSelections = 7
SPECIFICATION Spec
INVARIANTS
    TypeOK
    StickyBound
    NoStarvation
