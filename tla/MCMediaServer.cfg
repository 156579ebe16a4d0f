SPECIFICATION Spec
CONSTANTS
    Users = {u1, u2, u3}
    Addrs = {a1}
    Sessions = {s1}
    NoAddr = NoAddr
    NoSession = NoSession
    Works = {w1}
    Timeout = 1
    Lifetime = 0
    Slack = 0
    LoginUrlSet = TRUE
SYMMETRY Symmetry
INVARIANT TypeOK
INVARIANT ForwardConsistent
INVARIANT PhantomsExpired
PROPERTY ImplementsForwardGraph
PROPERTY SweepSparesFresh
