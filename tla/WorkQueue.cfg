CONSTANTS
    Items = {i1, i2}
    Callers = {c1, c2}
    Worker = w
    Deleters = {c1, w}
    Nil = Nil

SPECIFICATION FairSpec
CHECK_DEADLOCK FALSE
INVARIANTS
    TypeOK
    QueueIsFifo
    NoLostWakeup
    NoLostStop
    LockstepWaitsForWork
    LockstepNotStuck
    DetachOutlived
PROPERTIES
    ScheduledItemRuns
    StoppedWorkerEnds
