SPECIFICATION SpecFair
CONSTANTS
    Work = {w1, w2, w3}
    Caller = {c1}
    Task = task
    Anchor = anchor
    NULL = NULL
INVARIANTS
    TypeOK
    RequestIsQueued
    ListIsSound
    PlaceIsSound
    AllReachable
PROPERTIES
    Drains
    ImplementsRequests
