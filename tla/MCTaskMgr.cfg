CONSTANTS
    a = a
    b = b
    e1 = e1
    e2 = e2
    e3 = e3
    Stream = {a, b}
    GroupBy <- AllOf
    Scoped = {a}
    Entity = {e1, e2, e3}
    TypeOf <- TwoAndOne
    NoLoc = NoLoc
    Loc = {NoLoc, l1, l2}
    Worker = {w1, w2}
    None = None
    Intent = {i1}
    Subscribable <- AllStreams
    MaxFlows = 2
    MaxLost = 1
    MaxNotes = 4
SPECIFICATION Spec
INVARIANTS TypeOK OnePlace InputsAreUpToDate
SYMMETRY Symmetry
CHECK_DEADLOCK FALSE
