SPECIFICATION Spec
CONSTANTS
    MaxFires = 2
    MaxSubs = 2
    By = "user"
    Declared <- Both
    Lists <- Narrower
    Corrupt = Corrupt
    MaxEdits = 0
    MaxMoves = 2
    StoreFails = FALSE
    None = None
CHECK_DEADLOCK FALSE
INVARIANTS
    OneConversation
