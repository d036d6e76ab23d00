SPECIFICATION FairSpec
CONSTANTS
    None = None
    Dialog = {d1}
    Deferred = {e1, e2}
    Wizard = {d1}
    Question = {"q1", "q2"}
    Parent <- Chain
    MaxDeferred = 1
    Caller = {c1, c2}
CHECK_DEADLOCK FALSE
INVARIANTS
    BatchSettles
    SentSettled
PROPERTIES
    KeepsContract
