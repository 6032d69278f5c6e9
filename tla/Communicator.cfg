SPECIFICATION Spec
CONSTANTS
    Msg = {m, x}
    Bad = {x}
    Channel = {1, 2, 3, 4, 5, 6}
    Prefetch = 1
    Reinit = 2
    GiveUp = 3
    MaxFaults = 2
INVARIANTS
    TypeOK
    HandledOnce
PROPERTIES
    NoCommandWaits
    Recovers
    StopReturns
CHECK_DEADLOCK FALSE
