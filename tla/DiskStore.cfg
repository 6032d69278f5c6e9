SPECIFICATION Spec
CONSTANTS
    Writer = {w1, w2, w3}
    Item = {i, j}
    MaxChanges = 4
    MaxFailures = 2
    MaxCrashes = 1
INVARIANTS
    TypeOK
    ChangeHasWriter
PROPERTY
    FileCatchesUp
CHECK_DEADLOCK FALSE
