CONSTANTS
    s1 = s1
    s2 = s2
    q1 = q1
    listed = listed
    other = other
    Slaves = {s1, s2}
    Sessions = {q1}
    LocalAddrs = {listed, other}
    Whitelist = {listed}
    MaxConn = 4
SPECIFICATION Spec
INVARIANT AllocatedOnline
CHECK_DEADLOCK FALSE
