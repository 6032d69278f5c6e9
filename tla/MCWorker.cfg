SPECIFICATION Spec
CONSTANTS
    TaskId = {a, b, c, d, e}
    MaxLevel = 2
    Priorities <- FormPriorities
INVARIANTS
    TypeOK
    NoneIsOutranked
PROPERTY
    OnlyDemotionStrands
