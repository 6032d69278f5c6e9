------------------------------ MODULE FogFlow -------------------------------
(***************************************************************************)
(* The data of a FogFlow, master/taskMgr.go: what the task manager of the  *)
(* master keeps for a task of a topology, and the helpers that read it.    *)
(*                                                                         *)
(* The task has input streams, each a selector of entities of one type.    *)
(* From the entities it is notified of, the task manager derives groups,   *)
(* and for each group a task instance (the execution plan).  A group picks *)
(* a value of the grouping key of each stream; GetHash, of which the ID of *)
(* the task instance is made, is taken to be injective, so a group is the  *)
(* name of its task instance.                                              *)
(***************************************************************************)
EXTENDS Naturals, Sequences, FiniteSets

CONSTANTS
    Stream,        \* the input streams of the task, each with its own entity type
    GroupBy,       \* GroupBy[s]: "ALL" or "EntityID"
    Scoped,        \* the streams whose selector has a geoscope
    Entity,        \* entity IDs
    TypeOf,        \* TypeOf[e]: the stream that selects the type of e
    Loc,           \* values of the location metadata
    NoLoc,         \* the one of a registration without a location
    Worker,        \* workers that may join
    None           \* no worker

ASSUME FogFlowAssumption ==
    /\ GroupBy \in [Stream -> {"ALL", "EntityID"}]
    /\ Scoped \subseteq Stream
    /\ TypeOf \in [Entity -> Stream]
    /\ NoLoc \in Loc
    /\ {"*", "", "ALL"} \cap Entity = {}
    /\ None \notin Worker

\* IsSimpleByType: one registration stands for all entities of the type.
Simple(s) == s \notin Scoped /\ GroupBy[s] # "EntityID"

\* The key of ReceivedEntityRegistrations.
Ids == Entity \cup {"*"}
Key(e) == IF Simple(TypeOf[e]) THEN "*" ELSE e

\* The value of the grouping key.
GroupValue == Entity \cup {"ALL"}
Value(s, k) == IF GroupBy[s] = "ALL" THEN "ALL" ELSE k

Group == UNION {[S -> GroupValue] : S \in SUBSET Stream}

Input == [type : Stream, id : Entity \cup {""}, loc : Loc]
Task == [inputs : SUBSET Input, worker : Worker \cup {None}]

Action == [op : {"ADD_TASK", "REMOVE_TASK", "ADD_INPUT", "REMOVE_INPUT", "nil"},
           task : Group,
           worker : Worker \cup {None}]

\* A map of Go with an entry set, and with an entry deleted.
Put(f, k, v) == [x \in DOMAIN f \cup {k} |-> IF x = k THEN v ELSE f[x]]
Del(f, k) == [x \in DOMAIN f \ {k} |-> f[x]]
Empty == [x \in {} |-> x]
=============================================================================
