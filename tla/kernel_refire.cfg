SPECIFICATION Spec
CONSTANTS
    Node <- AskNode
    Edge <- AskEdge
    Entry <- AskEntry
    LiveSets <- AskLive
    Rewind <- AskRewind
    BadTarget = BadTarget
    None = None
    Slot = {s1, s2, s3}
    MaxBacktracks = 1
    Faults = {"park"}
    MaxResumes = 1
SYMMETRY SlotSymmetry
CHECK_DEADLOCK FALSE
PROPERTIES
    ResumeKeepsCompleted
