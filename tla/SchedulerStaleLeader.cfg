SPECIFICATION Spec
CONSTANTS
    MaxJobs = 2
    u1 = u1
    u2 = u2
    w1 = w1
    w2 = w2
    Users <- MCUsers
    Restless <- MCNobody
    Workers = {w1}
    Owners = {g1, g2}
    UserOf <- MCUserOf
    Fits <- MCFits
    Capacity <- MCCapacity
    MaxActive = 1
    MaxQueued = 2
    LeaseMayLapse = TRUE
    MaxThrows = 0
    None = None
SYMMETRY Symmetry
INVARIANTS
    WorkerCapacity
CHECK_DEADLOCK FALSE
