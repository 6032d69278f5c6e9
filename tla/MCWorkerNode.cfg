SPECIFICATION NodeSpec
CONSTANTS
    a = a
    b = b
    i = i
    TaskId <- Ids
    Input = {i}
    Priorities <- UrgentAndShared
    MaxLevel = 1
    Failing = {a}
    Commands <- AllCommands
    MaxCommands = 3
INVARIANTS
    ExecTypeOK
    NoStrandedInput
    ContextIsUp
PROPERTY
    DelayedInputIsApplied
CHECK_DEADLOCK FALSE
