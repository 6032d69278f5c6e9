SPECIFICATION Spec
CONSTANTS
    Sub = {u, v}
    Device = {d}
    SubId = {1, 2, 3, 4, 5, 6}
    Recreate = TRUE
    None = None
    MaxRequests = 3
    MaxCrashes = 1
    MaxRestarts = 1
INVARIANTS
    TypeOK
    RecordedIsSubscribed
PROPERTIES
    FileKeepsRecords
    Restores
CHECK_DEADLOCK FALSE
