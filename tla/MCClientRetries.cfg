CONSTANTS
    p1 = p1
    p2 = p2
    Peers = {p1, p2}
    LanTries = 1
    WanTries = 0
    MaxBusy = 2
    MaxRetry = 2
    MaxLinks = 1
SPECIFICATION Spec
SYMMETRY PeersAlike
INVARIANT TypeOK
INVARIANT TimersHavePeers
INVARIANT FailedRetried
PROPERTY PendingPursued
