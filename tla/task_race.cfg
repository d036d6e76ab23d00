SPECIFICATION FairSpec
CONSTANTS
    a1 = a1
    a2 = a2
    w1 = w1
    Aborter <- TwoAborters
    Watcher <- OneWatcher
    StoreFails = TRUE
INVARIANTS
    HookHonest
    ClosedMeansEnded
    RowFollows
PROPERTIES
    FirstEndWins
    TaskEnds
    AbortReturns
CHECK_DEADLOCK FALSE
