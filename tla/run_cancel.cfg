SPECIFICATION Spec
CONSTANTS
    Node = {1}
    Ask = {}
    Approval = {1}
    Edge = {}
    AutoWindow = {1}
    Timeout = TRUE
    Failing = FALSE
    LogFails = FALSE
    MaxLegs = 2
    MaxCrashes = 0
CHECK_DEADLOCK FALSE
INVARIANTS
    CancelSticks
