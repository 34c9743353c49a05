SPECIFICATION SpecFair
CONSTANTS
    Msg = {m1, m2, m3, m4}
    Receiver = {r1}
    Sender = {s1}
    Process = process
    MaxMsg = 2
    NULL = NULL
CHECK_DEADLOCK FALSE
PROPERTY EveryMessageReleased
