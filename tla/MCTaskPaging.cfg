\* Four tasks under two times of creation, and three commits during the walk.
CONSTANTS
    Tasks = {1, 2, 3, 4}
    Times = {1, 2}
    Sizes = {1, 2, 3}
    MaxChanges = 3
SPECIFICATION Spec
INVARIANTS
    WalkTypeOK
    EveryTaskOnce
\* The walk is over.
CHECK_DEADLOCK FALSE
