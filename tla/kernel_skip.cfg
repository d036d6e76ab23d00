SPECIFICATION Spec
CONSTANTS
    Node <- SkipNode
    Edge <- SkipEdge
    Entry <- SkipEntry
    LiveSets <- SkipLive
    Rewind <- SkipRewind
    BadTarget = BadTarget
    None = None
    Slot = {s1, s2, s3, s4, s5}
    MaxBacktracks = 1
    Faults = {}
    MaxResumes = 0
SYMMETRY SlotSymmetry
CHECK_DEADLOCK FALSE
INVARIANTS
    SkipExact
