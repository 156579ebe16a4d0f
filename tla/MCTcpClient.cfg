CONSTANTS
    a = a
    b = b
    l = l
    Threads = {a, b}
    Loop = l
    Capacity = 3
    Slow = 2
    MaxDelay = 3
    MaxSend = 1
    MaxChange = 2
SPECIFICATION FairSpec
INVARIANT StreamWhole
PROPERTY SendEnds
PROPERTY ComesBack
CHECK_DEADLOCK FALSE
