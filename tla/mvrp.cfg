SPECIFICATION SpecFair
CONSTANTS
    d1 = d1
    d2 = d2
    Node = {d1, d2}
    Vid = {1, 2}
    Uses <- TwoAndNone
    LvTicks = 4
    LvaTicks = 4
    Room = 2
    MaxLosses = 1
    MaxRequests = 2
    NoPdu = NoPdu
INVARIANTS
    TypeOK
    KeepsDeclared
    ToldIsRegistered
    LeavingIsTimed
    AnxiousIsTimed
PROPERTIES
    DeclaredIsRegistered
    WithdrawnIsGone
