SPECIFICATION FairSpec
CONSTANTS
    Node <- ChainNode
    Edge <- ChainEdge
    Entry <- ChainEntry
    LiveSets <- ChainLive
    Rewind <- ChainRewind
    BadTarget = BadTarget
    None = None
    Slot = {s1, s2}
    MaxBacktracks = 0
    Faults = {}
    MaxResumes = 0
CHECK_DEADLOCK FALSE
PROPERTIES
    Termination
