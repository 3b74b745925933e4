SPECIFICATION Spec
CONSTANTS
    MaxJobs = 3
    u1 = u1
    u2 = u2
    w1 = w1
    w2 = w2
    Users <- MCUsers
    Restless <- MCNobody
    Workers = {w1}
    Owners = {g1}
    UserOf <- MCTwoThenOne
    Fits <- MCFits
    Capacity <- MCCapacity
    MaxActive = 1
    MaxQueued = 2
    LeaseMayLapse = FALSE
    MaxThrows = 0
    None = None
SYMMETRY Symmetry
PROPERTIES
    NoSecondTurnWhileAnotherWaits
CHECK_DEADLOCK FALSE
