SPECIFICATION Spec
CONSTANTS
    Node = {1, 2}
    Ask = {}
    Approval = {1}
    Edge <- PairEdge
    AutoWindow = {}
    Timeout = TRUE
    Failing = FALSE
    LogFails = FALSE
    MaxLegs = 2
    MaxCrashes = 0
CHECK_DEADLOCK FALSE
PROPERTIES
    RejectedStops
