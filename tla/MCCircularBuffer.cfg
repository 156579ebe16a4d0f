\* One test more than the buffer holds: every wrap-around case is reached.
CONSTANTS
    Data = {0, 1}
    Size = 4
    MaxCount = 5
SPECIFICATION Spec
INVARIANT BufferOK
PROPERTY ImplementsQueue
