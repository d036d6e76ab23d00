SPECIFICATION Spec
CONSTANTS
    N = 2
    Memory = {m1, m2}
    Origin = {1}
    Limit = 1
    Settled = TRUE
    Skewed = {m1}
    MaxSkew = 1
    MaxRestarts = 1
    MaxEdits = 0
    MaxForgets = 0
    MaxFaults = 1
    MaxSweeps = 0
    MaxErases = 1
    MaxSwitch = 1
CHECK_DEADLOCK FALSE
INVARIANTS
    Agree
    EraseHolds
