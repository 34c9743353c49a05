CONSTANTS
    NULL = NULL
    N = 1
    Gptp = TRUE
    OwnKey <- Own248
    OwnId = 5
    Heard <- HeardTwoSenders
    QMax = 1
SPECIFICATION SpecLive
INVARIANTS
    FaultyHasCause
    FaultIsTimed
PROPERTIES
    FaultyRecovers
    TakesOver
