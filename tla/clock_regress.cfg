SPECIFICATION Spec
CONSTANTS
    MaxCounter = 2
    Wall = {1, 2, 3}
    MaxWall = 4
    Held = 2
CONSTRAINT FewStamps
CHECK_DEADLOCK FALSE
INVARIANTS HealthyCovers
