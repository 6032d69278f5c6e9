SPECIFICATION Spec
CONSTANTS
    Intent = {i}
    Function = {f}
    FunctionId = {a}
    Copies = 2
    Stalls = TRUE
    MaxRequests = 3
    MaxBreaks = 2
    MaxRestarts = 1
INVARIANTS
    TypeOK
    AckedIsKept
    StoredIsIssued
    DisabledIsWithdrawn
    DeletedIsWithdrawn
PROPERTY
    Settles
CHECK_DEADLOCK FALSE
