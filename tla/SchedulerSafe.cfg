SPECIFICATION Spec
CONSTANTS
    MaxJobs = 2
    u1 = u1
    u2 = u2
    w1 = w1
    w2 = w2
    Users <- MCUsers
    Restless <- MCNobody
    Workers = {w1, w2}
    Owners = {g1, g2}
    UserOf <- MCOneUser
    Fits <- MCFits
    Capacity <- MCCapacity
    MaxActive = 1
    MaxQueued = 2
    LeaseMayLapse = FALSE
    MaxThrows = 1
    None = None
SYMMETRY Symmetry
INVARIANTS
    TypeOK
    WorkerCapacity
    UserActiveLimit
    SentAtMostOnce
CHECK_DEADLOCK FALSE
