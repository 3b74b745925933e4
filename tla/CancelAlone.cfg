SPECIFICATION Spec
CONSTANTS
    a = a
    b = b
    Jobs <- Both
    Capacity = 1
    MaxRestarts = 1
    None = None
SYMMETRY Symmetry
INVARIANTS
    TypeOK
    InterruptsOnlyItsOwn
    EndedLeavesWorker
    OutcomeIsJustified
CHECK_DEADLOCK FALSE
