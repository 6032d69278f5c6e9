SPECIFICATION Spec
CONSTANTS
    TaskId = {a, b, c, d}
    MaxLevel = 2
    Priorities <- FormPriorities
INVARIANT
    ExclusiveUse
