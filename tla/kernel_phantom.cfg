SPECIFICATION Spec
CONSTANTS
    Node <- ReviewNode
    Edge <- ReviewEdge
    Entry <- ReviewEntry
    LiveSets <- ReviewLive
    Rewind <- ReviewRewind
    BadTarget = BadTarget
    None = None
    Slot = {s1, s2, s3, s4}
    MaxBacktracks = 1
    Faults = {}
    MaxResumes = 0
SYMMETRY SlotSymmetry
CHECK_DEADLOCK FALSE
PROPERTIES
    NoPhantomInput
