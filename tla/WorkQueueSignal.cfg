CONSTANTS
    Items = {i1}
    Callers = {c1}
    Worker = w
    Deleters = {w}
    Nil = Nil

SPECIFICATION Spec
CHECK_DEADLOCK FALSE
INVARIANTS
    SignalOutlived
