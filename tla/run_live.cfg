SPECIFICATION FairSpec
CONSTANTS
    Node = {1, 2}
    Ask = {}
    Approval = {1, 2}
    Edge = {}
    AutoWindow = {2}
    Timeout = TRUE
    Failing = FALSE
    LogFails = TRUE
    MaxLegs = 3
    MaxCrashes = 0
CHECK_DEADLOCK FALSE
PROPERTIES
    PausedEnds
    RunningEnds
