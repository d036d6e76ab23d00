SPECIFICATION Spec
CONSTANTS
    Node = {1, 2, 3}
    Ask = {3}
    Approval = {1, 2}
    Edge <- PairEdge
    AutoWindow = {2}
    Timeout = TRUE
    Failing = TRUE
    LogFails = FALSE
    MaxLegs = 4
    MaxCrashes = 1
CHECK_DEADLOCK FALSE
INVARIANTS
    OneLeg
    OneVerdict
    PausedOnOne
PROPERTIES
    RestartTells
