SPECIFICATION FairSpec
CONSTANTS
    Node <- LoopNode
    Edge <- LoopEdge
    Entry <- LoopEntry
    LiveSets <- LoopLive
    Rewind <- LoopRewind
    BadTarget = BadTarget
    None = None
    Slot = {s1, s2, s3}
    MaxBacktracks = 1
    Faults = {"error", "park", "log"}
    MaxResumes = 0
CHECK_DEADLOCK FALSE
INVARIANTS
    NoDoubleDispatch
PROPERTIES
    Termination
