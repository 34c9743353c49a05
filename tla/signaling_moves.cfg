CONSTANTS
    NULL = NULL
    N = 2
    Gptp = TRUE
    OwnKey <- Own248
    OwnId = 5
    Heard <- HeardEach
    QMax = 1
SPECIFICATION SpecNoFault
PROPERTIES
    SignalingStarted
