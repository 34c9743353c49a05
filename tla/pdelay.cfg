CONSTANTS
    None = None
    Peer = {p1, p2, p3}
    Neighbour = p1
    TwoStep = {p1, p2}
    AllowedLost = 2
    AllowedFaults = 2
    AllowedFupFaults = 2
    MaxMissing = 4
    MaxQueue = 1
    MaxTrouble = 2
SPECIFICATION SpecFair
INVARIANT TypeOK
INVARIANT KeepsAsking
INVARIANT NoMixedSample
INVARIANT NoFalseMultiple
INVARIANT CapableIsFresh
PROPERTY CapableAgain
PROPERTY SilenceNoticed
