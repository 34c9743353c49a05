CONSTANTS
    NULL = NULL
    N = 2
    Gptp = FALSE
    OwnKey <- Own248
    OwnId = 5
    Heard <- HeardTwoPaths
    QMax = 1
SPECIFICATION SpecPath
INVARIANTS
    TypeOK
    OneSlave
    SlaveIsBest
    SyncOfMaster
    HostAgrees
PROPERTIES
    AnnounceIsKept
