CONSTANTS
    p1 = p1
    p2 = p2
    Publishers = {p1}
    Pollers = {}
    WorkItems = {}
    Blockers = {b1}
    QueueSizeOf <- OnePublisher1
    Required = 0
    Withdrawals = {}
    TimedWait = FALSE
    GenMod = 4
    MaxPublished = 4

SPECIFICATION Spec
CHECK_DEADLOCK FALSE
INVARIANTS
    BlockedIsNotUpdated
