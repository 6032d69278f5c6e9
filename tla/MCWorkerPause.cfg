SPECIFICATION NodeSpec
CONSTANTS
    a = a
    b = b
    i = i
    TaskId <- Ids
    Input = {i}
    Priorities <- UrgentAndShared
    MaxLevel = 1
    Failing = {}
    Commands <- AllCommands
    MaxCommands = 3
INVARIANT
    PausedTasksAreStopped
CHECK_DEADLOCK FALSE
