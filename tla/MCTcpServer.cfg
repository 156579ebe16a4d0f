CONSTANTS
    MAXLISTSIZE = 1
    MaxConn = 4
    MaxStart = 2
    MaxClose = 2
    MaxWrites = 1
SPECIFICATION FairSpec
INVARIANT ContextsOwned
INVARIANT HangsOnlyAfterClose
PROPERTY EndedGoes
PROPERTY CloseEnds
CHECK_DEADLOCK FALSE
