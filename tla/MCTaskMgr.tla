------------------------------ MODULE MCTaskMgr -----------------------------
EXTENDS TaskMgr, TLC

CONSTANTS a, b, e1, e2, e3

\* Two entities on stream a and, if there is one, one on stream b, all in one
\* group.
AllOf == [s \in Stream |-> "ALL"]
TwoAndOne == e1 :> a @@ e2 :> a @@ e3 :> b
Two == e1 :> a @@ e2 :> a

AllStreams == {Stream}

Symmetry == Permutations(Worker) \cup Permutations({e1, e2}) \cup Permutations(Loc \ {NoLoc})
=============================================================================
