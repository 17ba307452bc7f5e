SPECIFICATION Spec
CONSTANTS
    Size <- MCSize
    MinChunk <- MCMinChunk
    MsgSizes = {1, 2}
    MaxBytes = 8
INVARIANTS
    TypeOK
    NothingLost
    
PROPERTIES
    WrittenWhileRunning
    ClosesWhenStopped
CHECK_DEADLOCK FALSE
