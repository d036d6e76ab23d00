SPECIFICATION Spec
CONSTANTS
    Node <- WideNode
    Edge <- WideEdge
    Entry <- WideEntry
    LiveSets <- WideLive
    Rewind <- WideRewind
    BadTarget = BadTarget
    None = None
    Slot = {s1, s2, s3, s4}
    MaxBacktracks = 1
    Faults = {}
    MaxResumes = 0
SYMMETRY SlotSymmetry
CHECK_DEADLOCK FALSE
INVARIANTS
    FiringBound
