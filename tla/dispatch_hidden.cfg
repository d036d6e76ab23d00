SPECIFICATION ApartSpec
CONSTANTS
    MaxFires = 3
    MaxSubs = 3
    By = "user"
    Declared <- Nothing
    Lists <- Narrower
    Corrupt = Corrupt
    MaxEdits = 0
    MaxMoves = 3
    StoreFails = FALSE
    None = None
CHECK_DEADLOCK FALSE
INVARIANTS
    Alone
