SPECIFICATION Spec
CONSTANTS
    a = a
    b = b
    Jobs <- Alone
    Capacity = 1
    MaxRestarts = 0
    None = None
INVARIANTS
    NothingEvicted
CHECK_DEADLOCK FALSE
