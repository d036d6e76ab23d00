SPECIFICATION Spec
CONSTANTS
    a1 = a1
    a2 = a2
    w1 = w1
    Aborter <- TwoAborters
    Watcher <- OneWatcher
    StoreFails = FALSE
INVARIANT AbortStops
CHECK_DEADLOCK FALSE
