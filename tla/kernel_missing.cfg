SPECIFICATION Spec
CONSTANTS
    Node <- RaceNode
    Edge <- RaceEdge
    Entry <- RaceEntry
    LiveSets <- RaceLive
    Rewind <- RaceRewind
    BadTarget = BadTarget
    None = None
    Slot = {s1, s2, s3, s4, s5}
    MaxBacktracks = 1
    Faults = {}
    MaxResumes = 0
SYMMETRY SlotSymmetry
CHECK_DEADLOCK FALSE
PROPERTIES
    ReadyInputs
