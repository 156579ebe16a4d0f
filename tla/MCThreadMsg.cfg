CONSTANTS
    t1 = t1
    t2 = t2
    t3 = t3
    Threads = {t1, t2, t3}
    MaxMsg = 4
SPECIFICATION FairSpec
INVARIANT FirstIn
PROPERTY AllHandled
CHECK_DEADLOCK FALSE
