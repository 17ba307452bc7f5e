CONSTANTS
    p1 = p1
    p2 = p2
    Publishers = {p1, p2}
    Pollers = {s1}
    WorkItems = {}
    Blockers = {}
    QueueSizeOf <- TwoPublishers1
    Required = 0
    Withdrawals = {"destroy"}
    TimedWait = FALSE
    GenMod = 4
    MaxPublished = 4

SPECIFICATION Spec
CHECK_DEADLOCK FALSE
INVARIANTS
    RemainingPublishersAreHeard
