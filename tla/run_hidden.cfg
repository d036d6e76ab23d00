SPECIFICATION FairSpec
CONSTANTS
    Node = {1, 2}
    Ask = {1}
    Approval = {2}
    Edge = {}
    AutoWindow = {}
    Timeout = TRUE
    Failing = FALSE
    LogFails = FALSE
    MaxLegs = 3
    MaxCrashes = 0
CHECK_DEADLOCK FALSE
PROPERTIES
    ApprovalBounded
