SPECIFICATION SpecFair
CONSTANTS
    Msg = {m1, m2, m3}
    Receiver = {r1, r2}
    Sender = {s1}
    Process = process
    MaxMsg = 2
    NULL = NULL
INVARIANTS
    TypeOK
    RefcntIsHolders
    OneUser
PROPERTY EveryMessageReleased
