SPECIFICATION Spec
CONSTANTS
    a = a
    b = b
    c = c
    Filters = {"all", "codex"}
    All = "all"
    Pages <- MCPages
    Claude = {c}
    ClaudeEvery = 2
    MaxEvents = 2
    None = None
INVARIANTS
    TypeOK
    TimerIsCurrent
    SpinnersAreFetched
PROPERTIES
    RefreshEnds
CHECK_DEADLOCK FALSE
