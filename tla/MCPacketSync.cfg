CONSTANTS
    Payloads <- MCPayloads
    MaxFrames = 2
    MaxConn = 3
    ReadLen = 4
    Number <- MCNumber
SPECIFICATION Spec
INVARIANT CutsDoNotMatter
INVARIANT Resynchronises
INVARIANT BuffersHold
CHECK_DEADLOCK FALSE
