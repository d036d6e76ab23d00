SPECIFICATION Spec
CONSTANTS
    N = 2
    Memory = {m1}
    Origin = {1}
    Limit = 1
    Settled = TRUE
    Skewed = {}
    MaxSkew = 0
    MaxRestarts = 1
    MaxEdits = 2
    MaxForgets = 1
    MaxFaults = 1
    MaxSweeps = 0
    MaxErases = 0
    MaxSwitch = 0
CHECK_DEADLOCK FALSE
INVARIANTS
    NeverLost
