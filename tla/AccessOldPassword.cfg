SPECIFICATION Spec
CONSTANTS
    Addresses = {alice}
    Returning = {alice}
    Passes = {p1}
    MaxVersion = 1
    None = None
INVARIANTS
    NewPasswordEndsSessions
CHECK_DEADLOCK FALSE
