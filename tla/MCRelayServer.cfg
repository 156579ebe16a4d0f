SPECIFICATION RelaySpec
CONSTANTS
    Users = {u1, u2}
    Clients = {c1, c2}
    Addrs = {a1, a2}
    Sessions = {s1}
    NoAddr = NoAddr
    NoSession = NoSession
    Works = {w1, w2}
    Timeout = 1
    Lifetime = 0
    Slack = 0
    LoginUrlSet = FALSE
SYMMETRY Symmetry
INVARIANT RelayTypeOK
INVARIANT BindingsOpen
INVARIANT PeerAddrAgrees
PROPERTY CloseLogsOut
PROPERTY ActsAsMediaServer
PROPERTY EntersVerified
