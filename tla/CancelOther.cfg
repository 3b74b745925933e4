SPECIFICATION Spec
CONSTANTS
    a = a
    b = b
    Jobs <- Both
    Capacity = 2
    MaxRestarts = 0
    None = None
SYMMETRY Symmetry
INVARIANTS
    InterruptsOnlyItsOwn
CHECK_DEADLOCK FALSE
