SPECIFICATION LiveSpec
CONSTANTS
    MaxJobs = 1
    u1 = u1
    u2 = u2
    w1 = w1
    w2 = w2
    Users <- MCUsers
    Restless <- MCNobody
    Workers = {w1}
    Owners = {g1}
    UserOf <- MCUserOf
    Fits <- MCFits
    Capacity <- MCCapacity
    MaxActive = 1
    MaxQueued = 2
    LeaseMayLapse = FALSE
    MaxThrows = 1
    None = None
PROPERTIES
    JobEnds
CHECK_DEADLOCK FALSE
