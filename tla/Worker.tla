------------------------------- MODULE Worker -------------------------------
(***************************************************************************)
(* The task list of a FogFlow worker (edge node), worker/worker.go.        *)
(*                                                                         *)
(* The master sends ADD_TASK and REMOVE_TASK commands over the message     *)
(* bus.  Every command is handled by a goroutine of its own (so in any     *)
(* order), but each handler holds taskList_lock from its first to its last *)
(* access, so a handler is one action here.  A handler does not start or   *)
(* stop anything itself: it spawns goroutines of the executor, which       *)
(* WorkerNode adds.  This module decides which tasks are to run.           *)
(***************************************************************************)
EXTENDS TaskModel, FiniteSets

VARIABLE allTasks     \* Worker.allTasks: the scheduled tasks and their status

Status == {"running", "paused"}
TaskType == [excl : BOOLEAN, level : Level, status : Status]

Known   == DOMAIN allTasks
Running == {t \in Known : allTasks[t].status = "running"}
Paused  == Known \ Running
Excl    == {t \in Known : allTasks[t].excl}

-----------------------------------------------------------------------------
(* ADD_TASK: onScheduledTask.  The loop over allTasks compares the new     *)
(* task with every known one, an older instance of itself included, and    *)
(* whatever that task's status is.                                         *)

\* Variant: a shared task runs beside an exclusive one.
Runnable_sharedToo(p) ==
    \A u \in Excl : p.excl => allTasks[u].level <= p.level

\* The incoming task may run: no known task stands in its way.
Runnable(p) ==
    \A u \in Excl : p.excl /\ allTasks[u].level <= p.level

\* The known tasks the incoming one overtakes, runnable or not.
Overtaken(p) ==
    {u \in Known : p.excl /\ (allTasks[u].excl => allTasks[u].level < p.level)}

\* Variant: the status is left for LaunchTask to set.
onScheduledTask_noStatus(t, p) ==
    allTasks' = [u \in Known \cup {t} |->
                    IF u = t
                    THEN [excl |-> p.excl, level |-> p.level, status |-> "scheduled"]
                    ELSE allTasks[u]]

onScheduledTask(t, p) ==
    allTasks' = [u \in Known \cup {t} |->
                    IF u = t
                    THEN [excl |-> p.excl, level |-> p.level,
                          status |-> IF Runnable(p) THEN "running" ELSE "paused"]
                    ELSE IF u \in Overtaken(p)
                         THEN [allTasks[u] EXCEPT !.status = "paused"]
                         ELSE allTasks[u]]

-----------------------------------------------------------------------------
(* REMOVE_TASK: onTerminateTask.                                           *)

\* The paused exclusive tasks the scan for the next priority considers.  The
\* scan starts from priority 0 and asks for a strictly larger level.
Contenders(t) ==
    {u \in (Excl \cap Paused) \ {t} : allTasks[u].level > 0}

\* The levels the scan can end with: the largest one of a contender.
TopLevel(t) ==
    {n \in {allTasks[u].level : u \in Contenders(t)} :
        \A u \in Contenders(t) : allTasks[u].level <= n}

\* Variant: the next exclusive task is started, shared ones never again.
Restarted_exclusiveOnly(t) ==
    IF t \notin Excl \/ (Excl \cap Running) \ {t} # {}
    THEN {}
    ELSE {u \in Known \ {t} : allTasks[u].level \in TopLevel(t)}

\* The remaining tasks that are restarted when t leaves.
Restarted(t) ==
    IF t \notin Excl \/ (Excl \cap Running) \ {t} # {}
    THEN {}
    ELSE IF Contenders(t) # {}
         THEN {u \in Known \ {t} : allTasks[u].level \in TopLevel(t)}
         ELSE Paused \ {t}

onTerminateTask(t) ==
    /\ t \in Known
    /\ allTasks' = [u \in Known \ {t} |->
                       IF u \in Restarted(t)
                       THEN [allTasks[u] EXCEPT !.status = "running"]
                       ELSE allTasks[u]]

-----------------------------------------------------------------------------
Init == allTasks = [t \in {} |-> [excl |-> FALSE, level |-> 0, status |-> "paused"]]

Next == \E t \in TaskId :
           \/ \E p \in Priorities[t] : onScheduledTask(t, p)
           \/ onTerminateTask(t)

Spec == Init /\ [][Next]_allTasks

-----------------------------------------------------------------------------
\* Type correctness of the task list of worker.go.
TypeOK == /\ Known \subseteq TaskId
          /\ allTasks \in [Known -> TaskType]

\* A running exclusive task shares the worker with no running task that is
\* not exclusive: "In an exclusive way means the topology will not share the
\* resources with any task from other topologies" (core_concept.rst).
ExclusiveUse ==
    \A t, u \in Running : allTasks[t].excl => allTasks[u].excl

\* What the code does guarantee, whatever priorities arrive, in whatever order
\* and however often for the same task: no task, exclusive or not, runs while an
\* exclusive task of a positive and higher level is known.
NoneIsOutranked ==
    \A t \in Running, u \in Excl :
        allTasks[u].level <= 0 \/ allTasks[u].level <= allTasks[t].level

\* Every paused task waits for a running exclusive task that outranks it, whose
\* REMOVE_TASK will look for the tasks to restart.  (Of levels below 0, which the
\* intent form does not offer, only that an exclusive task runs.)
PausedIsOutranked ==
    \A t \in Paused : \E u \in Running \cap Excl :
        allTasks[t].excl => allTasks[t].level < allTasks[u].level \/ allTasks[t].level < 0

\* The ADD_TASK of a known exclusive task that makes it less urgent, from an
\* intent that was submitted again: it is compared with its old self and paused.
Demotion ==
    \E t \in Excl \cap DOMAIN allTasks' :
        allTasks'[t].excl => allTasks'[t].level < allTasks[t].level

\* The REMOVE_TASK of an exclusive task that leaves none of them running.
LastExclusiveLeaves ==
    \E t \in Excl : t \notin DOMAIN allTasks' /\ (Excl \cap Running) \ {t} = {}

\* No sequence of ADD_TASK and REMOVE_TASK leaves the worker with paused tasks
\* that nothing will restart, but for a demotion; and the next removal after
\* which no exclusive task runs puts right whatever came before it.
OnlyDemotionStrands ==
    [][(PausedIsOutranked /\ ~Demotion) \/ LastExclusiveLeaves => PausedIsOutranked']_allTasks
=============================================================================
