SPECIFICATION LiveSpec
CONSTANTS
    Addresses = {alice, bob}
    Returning = {alice}
    Passes = {p1}
    MaxVersion = 2
    None = None
INVARIANTS
    TypeOK
    MembersAreProven
    RowFollowsAddress
    NothingOutlivesSignOut
PROPERTIES
    RevokedProofNeverEnrolls
    RevokedSocketsClose
CHECK_DEADLOCK FALSE
