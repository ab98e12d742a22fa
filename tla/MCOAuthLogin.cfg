SPECIFICATION Spec
CONSTANTS
    l1 = l1
    l2 = l2
    Logins = {l1, l2}
    MaxAttempts = 2
    MaxRenders = 1
    MaxVisits = 2
    None = None
INVARIANTS
    TypeOK
    SuccessIsTheLogins
    OnceProcessed
PROPERTIES
    CarriedOnce
    ConsumedStaysGone
    WaitEnds
CHECK_DEADLOCK FALSE
