CONSTANTS
    p1 = p1
    Peers = {p1}
    LanTries = 0
    WanTries = 0
    MaxBusy = 2
    MaxRetry = 2
    MaxLinks = 2
SPECIFICATION FairSpec
PROPERTY PendingPursued
PROPERTY RelayServed
PROPERTY PeerDecided
