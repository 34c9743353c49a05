CONSTANTS
    NULL = NULL
    N = 2
    Gptp = TRUE
    OwnKey <- Own248
    OwnId = 5
    Heard <- HeardLoopAndMaster
    QMax = 1
SPECIFICATION SpecNoFault
INVARIANTS
    NoNullBest
