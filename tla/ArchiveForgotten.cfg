SPECIFICATION LiveSpec
CONSTANTS
    MaxRetries = 0
    MaxCrashes = 1
    Policies = {FALSE}
PROPERTIES
    CompletedIsArchived
CHECK_DEADLOCK FALSE
