CONSTANTS
    p1 = p1
    p2 = p2
    Publishers = {p1, p2}
    Pollers = {}
    WorkItems = {w1}
    Blockers = {b1}
    QueueSizeOf <- TwoPublishers12
    Required = 2
    Withdrawals = {"unadvertise", "destroy"}
    TimedWait = TRUE
    GenMod = 4
    MaxPublished = 9

SPECIFICATION Spec
CHECK_DEADLOCK FALSE
INVARIANTS
    TypeOK
    BufferHasQueueSize
    GenerationsCountMessages
    WakeupNotLost
    RoundsUp
PROPERTIES
    ImplementsTopic
