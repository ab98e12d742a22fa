CONSTANTS
    m1 = m1
    m2 = m2
    a = a
    r1 = r1
    r2 = r2
    Requests <- MCRequests
    Captured <- MCCaptured
    Models <- MCModels
    Combo <- MCCombo
    Adapters <- MCAdapters
    Contents <- MCContents
    Able <- MCAble
    StickyLimit = 2
    MaxRotations = 5
SPECIFICATION FairSpec
INVARIANTS
    TypeOK
    FairLeads
    TriesEachOnce
    OneAnswerAtMost
PROPERTIES
    EveryRequestEnds
    KeepsContract
