SPECIFICATION LiveSpec
CONSTANTS
    MaxJobs = 1
    u1 = u1
    u2 = u2
    w1 = w1
    w2 = w2
    Users <- MCUsers
    Restless <- MCRestless
    Workers = {w1}
    Owners = {g1, g2}
    UserOf <- MCUserOf
    Fits <- MCFits
    Capacity <- MCCapacity
    MaxActive = 1
    MaxQueued = 2
    LeaseMayLapse = FALSE
    MaxThrows = 0
    None = None
INVARIANTS
    SlotHeldWhileExecuting
PROPERTIES
    TerminalIsFinal
    LifecycleSpec
    JobEnds
CHECK_DEADLOCK FALSE
