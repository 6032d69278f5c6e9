---------------------------- MODULE MCWorkerNode ----------------------------
EXTENDS WorkerNode, TLC

CONSTANTS a, b, i

Ids == {a, b}

Urgent == [excl |-> TRUE, level |-> 1]
Shared == [excl |-> FALSE, level |-> 0]

\* An exclusive task and one that it overtakes.
UrgentAndShared == a :> {Urgent} @@ b :> {Shared}

AllCommands == {"ADD_TASK", "REMOVE_TASK", "ADD_INPUT", "REMOVE_INPUT", "QUIT"}
=============================================================================
