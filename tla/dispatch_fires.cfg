SPECIFICATION FairSpec
CONSTANTS
    MaxFires = 2
    MaxSubs = 3
    By = "user"
    Declared <- Both
    Lists <- Narrower
    Corrupt = Corrupt
    MaxEdits = 1
    MaxMoves = 3
    StoreFails = TRUE
    None = None
CHECK_DEADLOCK FALSE
INVARIANTS
    TypeOK
    Confined
PROPERTIES
    OneTurn
    ClaimFreed
    Freed
