SPECIFICATION Spec
CONSTANTS
    m1 = m1
    m2 = m2
    Models = {m1, m2}
    MaxChunks = 1
    MaxSends = 2
    MaxChats = 2
    MaxReloads = 1
    None = None
INVARIANTS
    TypeOK
    StopReaches
    AnswersSettle
PROPERTIES
    ShownStays
    ChatKeepsModel
    StopEnds
CHECK_DEADLOCK FALSE
