SPECIFICATION Spec
CONSTANTS
    Node <- ReviewNode
    Edge <- ReviewEdge
    Entry <- ReviewEntry
    LiveSets <- ReviewLive
    Rewind <- ReviewRewind
    BadTarget = BadTarget
    None = None
    Slot = {s1, s2, s3, s4}
    MaxBacktracks = 2
    Faults = {"error", "park", "pausederr", "budget"}
    MaxResumes = 1
SYMMETRY SlotSymmetry
CHECK_DEADLOCK FALSE
INVARIANTS
    CompleteRun
    SkipExact
    FreshRunComplete
    FiringBound
PROPERTIES
    ReadyInputs
    NoPhantomResume
