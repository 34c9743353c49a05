CONSTANTS
    NULL = NULL
    N = 2
    Gptp = TRUE
    OwnKey <- Own248
    OwnId = 5
    Heard <- HeardManySenders
    QMax = 1
SPECIFICATION SpecRestart
INVARIANTS
    OneEntryPerSender
    BestIsCurrent
    MasterIsTimed
    StoppedIsDisabled
    HostAgrees
