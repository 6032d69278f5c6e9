----------------------------- MODULE TaskModel ------------------------------
(***************************************************************************)
(* What the modules of the worker share of common/datamodel: the task      *)
(* instances and the priority the master copies into each of them.         *)
(***************************************************************************)
EXTENDS Integers

CONSTANTS
    TaskId,       \* the task instances the master may schedule on a worker
    Priorities,   \* Priorities[t]: the priorities ADD_TASK may carry for t
    MaxLevel      \* the largest int of the Go implementation

\* datamodel.Priority.
Level == -MaxLevel - 1 .. MaxLevel
PriorityType == [excl : BOOLEAN, level : Level]

ASSUME LevelAssumption == MaxLevel \in Nat

ASSUME PrioritiesAssumption ==
    Priorities \in [TaskId -> SUBSET PriorityType]
=============================================================================
