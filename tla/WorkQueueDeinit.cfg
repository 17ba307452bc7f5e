CONSTANTS
    Items = {i1, i2}
    Callers = {c1, c2}
    Worker = w
    Deleters = {c2}
    Nil = Nil

SPECIFICATION Spec
CHECK_DEADLOCK FALSE
INVARIANTS
    DetachedIsNotQueued
