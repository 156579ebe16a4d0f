CONSTANTS
    s1 = s1
    s2 = s2
    q1 = q1
    listed = listed
    other = other
    Slaves = {s1, s2}
    Sessions = {q1}
    LocalAddrs = {listed, other}
    Whitelist = {listed}
    MaxConn = 4
SPECIFICATION FairSpec
INVARIANT TypeOK
INVARIANT RegisteredOpen
INVARIANT IndexCovers
PROPERTY SessionSticks
PROPERTY SlaveReturns
CHECK_DEADLOCK FALSE
