SPECIFICATION Spec
CONSTANTS
    d1 = d1
    d2 = d2
    Node = {d1, d2}
    Vid = {1, 2}
    Uses <- TwoAndOne
    LvTicks = 4
    LvaTicks = 4
    Room = 2
    MaxLosses = 0
    MaxRequests = 3
    NoPdu = NoPdu
PROPERTY
    JoinTellsRegistrar
