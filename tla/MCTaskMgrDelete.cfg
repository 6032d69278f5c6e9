CONSTANTS
    a = a
    b = b
    e1 = e1
    e2 = e2
    e3 = e3
    Stream = {a}
    GroupBy <- AllOf
    Scoped = {a}
    Entity = {e1, e2}
    TypeOf <- Two
    NoLoc = NoLoc
    Loc = {NoLoc, l1}
    Worker = {w1, w2}
    None = None
    Intent = {i1}
    Subscribable <- AllStreams
    MaxFlows = 1
    MaxLost = 2
    MaxNotes = 4
SPECIFICATION Spec
INVARIANTS DeletedInputIsGone
CHECK_DEADLOCK FALSE
