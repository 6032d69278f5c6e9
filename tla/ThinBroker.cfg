SPECIFICATION Spec
CONSTANTS
    Entity = {e, f}
    Written = {e}
    Subscription = {s}
    Reliable = {s}
    None = None
    MaxWrites = 2
    MaxFailures = 1
INVARIANTS
    TypeOK
    LatestIsReceived
CHECK_DEADLOCK FALSE
