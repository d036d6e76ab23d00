SPECIFICATION Spec
CONSTANTS
    Node <- TargetNode
    Edge <- TargetEdge
    Entry <- TargetEntry
    LiveSets <- TargetLive
    Rewind <- TargetRewind
    BadTarget = BadTarget
    None = None
    Slot = {s1, s2}
    MaxBacktracks = 1
    Faults = {}
    MaxResumes = 0
SYMMETRY SlotSymmetry
CHECK_DEADLOCK FALSE
INVARIANTS
    SkipExact
