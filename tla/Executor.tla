------------------------------ MODULE Executor ------------------------------
(***************************************************************************)
(* The executor of a worker, worker/executor.go: the goroutines that start *)
(* and stop the containers of tasks, and the input commands applied to     *)
(* running ones.                                                           *)
(*                                                                         *)
(* LaunchTask and TerminateTask run as goroutines and take taskMap_lock    *)
(* only around single accesses to taskInstances, so each is split at those *)
(* accesses and at the calls of the container engine; between two steps of *)
(* one of them all the others may move.  onAddInput, onRemoveInput and     *)
(* handleDelayedAddInputCommands hold the lock throughout: one step each.  *)
(* Reading taskInstances[t] for a task that is not there yields a nil      *)
(* pointer whose use ends the process: crashed.                            *)
(***************************************************************************)
EXTENDS TaskModel, FiniteSets

CONSTANTS
    Input,             \* input streams
    Failing            \* tasks for which the engine or the broker may refuse a call

VARIABLES
    pendingLaunch,     \* LaunchTask goroutines not begun, per task
    pendingTerminate,  \* TerminateTask goroutines not begun, per task
    pendingQuit,       \* those spawned by terminateAllTasks
    routines,          \* goroutines between two of their steps
    fresh,             \* the next unused name of a container or routine
    containers,        \* containers that run
    stopping,          \* containers whose StopContainer call is in flight
    taskInstances,     \* Executor.taskInstances: context per task
    delayed,           \* Executor.delayedAddInputCommands: the inputs to add
    crashed            \* a nil context was used: the process is gone

pendingVars == <<pendingLaunch, pendingTerminate, pendingQuit>>
execVars == <<pendingVars, routines, fresh, containers, stopping,
              taskInstances, delayed, crashed>>

Context == [ctr : Nat, subs : SUBSET Input]
Instances == DOMAIN taskInstances
Routine == [op : {"launch"}, task : TaskId, ctr : Nat, n : Nat,
            pc : {"started", "stored"}, quit : {FALSE}]
           \cup [op : {"terminate"}, task : TaskId, ctr : Nat, n : Nat,
                 pc : {"stop", "cleanup"}, quit : BOOLEAN]

\* The subsets of S that subscribing to S may leave subscribed.
Subscribed(t, S) == IF t \in Failing THEN SUBSET S ELSE {S}

Store(t, ctx) == [u \in Instances \cup {t} |-> IF u = t THEN ctx ELSE taskInstances[u]]
StoreSubs(t, S) == Store(t, [ctr |-> taskInstances[t].ctr, subs |-> S])
Drop(t) == [u \in Instances \ {t} |-> taskInstances[u]]
Advance(r, pc) == (routines \ {r}) \cup {[r EXCEPT !.pc = pc]}

-----------------------------------------------------------------------------
(* go executor.LaunchTask(task)                                            *)

\* client.StartTask: the container is up, or an error ends the goroutine.
StartTask(t) ==
    /\ pendingLaunch[t] > 0
    /\ pendingLaunch' = [pendingLaunch EXCEPT ![t] = @ - 1]
    /\ \/ /\ routines' = routines \cup
                 {[op |-> "launch", task |-> t, ctr |-> fresh, n |-> fresh,
                   pc |-> "started", quit |-> FALSE]}
          /\ containers' = containers \cup {fresh}
          /\ fresh' = fresh + 1
       \/ /\ t \in Failing
          /\ UNCHANGED <<routines, containers, fresh>>
    /\ UNCHANGED <<pendingTerminate, pendingQuit, stopping, taskInstances, delayed, crashed>>

\* Variant: the launch forgets the commands that were delayed.
StoreContext_noDrain(r) ==
    /\ r.op = "launch" /\ r.pc = "started"
    /\ taskInstances' = Store(r.task, [ctr |-> r.ctr, subs |-> {}])
    /\ routines' = routines \ {r}
    /\ UNCHANGED <<pendingVars, fresh, containers, stopping, delayed, crashed>>

\* Subscribe to the task's own input streams (none of Input: those arrive by
\* ADD_INPUT), then store the context, over an older one of the same task.
StoreContext(r) ==
    /\ r.op = "launch" /\ r.pc = "started"
    /\ taskInstances' = Store(r.task, [ctr |-> r.ctr, subs |-> {}])
    /\ routines' = Advance(r, "stored")
    /\ UNCHANGED <<pendingVars, fresh, containers, stopping, delayed, crashed>>

\* Variant: the queue is emptied before it is looked at.
HandleDelayed_emptyFirst(r) ==
    /\ r.op = "launch" /\ r.pc = "stored"
    /\ routines' = routines \ {r}
    /\ delayed' = [delayed EXCEPT ![r.task] = {}]
    /\ UNCHANGED <<pendingVars, fresh, containers, stopping, taskInstances, crashed>>

\* handleDelayedAddInputCommands: a TerminateTask may have dropped the context
\* since StoreContext; with commands waiting, handleAddInput then uses nil.
HandleDelayed(r) ==
    /\ r.op = "launch" /\ r.pc = "stored"
    /\ routines' = routines \ {r}
    /\ IF r.task \in Instances
       THEN /\ \E S \in Subscribed(r.task, delayed[r.task]) :
                  taskInstances' = StoreSubs(r.task, taskInstances[r.task].subs \cup S)
            /\ delayed' = [delayed EXCEPT ![r.task] = {}]
            /\ UNCHANGED crashed
       ELSE /\ crashed' = (delayed[r.task] # {})
            /\ UNCHANGED <<taskInstances, delayed>>
    /\ UNCHANGED <<pendingVars, fresh, containers, stopping>>

-----------------------------------------------------------------------------
(* go executor.TerminateTask(taskID, paused)                               *)

\* The check under the lock: an unknown task is left alone, of a known one
\* the container is remembered.
BeginTerminate(t, quit) ==
    /\ IF quit
       THEN /\ t \in pendingQuit
            /\ pendingQuit' = pendingQuit \ {t}
            /\ UNCHANGED pendingTerminate
       ELSE /\ pendingTerminate[t] > 0
            /\ pendingTerminate' = [pendingTerminate EXCEPT ![t] = @ - 1]
            /\ UNCHANGED pendingQuit
    /\ IF t \in Instances
       THEN /\ routines' = routines \cup
                   {[op |-> "terminate", task |-> t, ctr |-> taskInstances[t].ctr,
                     n |-> fresh, pc |-> "stop", quit |-> quit]}
            /\ fresh' = fresh + 1
       ELSE UNCHANGED <<routines, fresh>>
    /\ UNCHANGED <<pendingLaunch, containers, stopping, taskInstances, delayed, crashed>>

\* client.StopTask of the docker engine only spawns the StopContainer call.
StopTask(r) ==
    /\ r.op = "terminate" /\ r.pc = "stop"
    /\ stopping' = stopping \cup {r.ctr}
    /\ routines' = Advance(r, "cleanup")
    /\ UNCHANGED <<pendingVars, fresh, containers, taskInstances, delayed, crashed>>

\* Variant: the container is wiped from the context, which stays.
Cleanup_wipe(r) ==
    /\ r.op = "terminate" /\ r.pc = "cleanup"
    /\ routines' = routines \ {r}
    /\ IF r.task \in Instances
       THEN taskInstances' = [taskInstances EXCEPT ![r.task].ctr = -1] /\ UNCHANGED crashed
       ELSE crashed' = TRUE /\ UNCHANGED taskInstances
    /\ UNCHANGED <<pendingVars, fresh, containers, stopping, delayed>>

\* Variant: the context is not removed from taskInstances.
Cleanup_keep(r) ==
    /\ r.op = "terminate" /\ r.pc = "cleanup"
    /\ routines' = routines \ {r}
    /\ UNCHANGED <<pendingVars, fresh, containers, stopping, taskInstances, delayed, crashed>>

\* Under the lock again: unsubscribe, delete the output streams and drop the
\* context of the task, whichever one is stored by now; nil if there is none.
Cleanup(r) ==
    /\ r.op = "terminate" /\ r.pc = "cleanup"
    /\ routines' = routines \ {r}
    /\ IF r.task \in Instances
       THEN taskInstances' = Drop(r.task) /\ UNCHANGED crashed
       ELSE crashed' = TRUE /\ UNCHANGED taskInstances
    /\ UNCHANGED <<pendingVars, fresh, containers, stopping, delayed>>

\* The docker daemon ends the container.
StopContainer(c) ==
    /\ c \in stopping
    /\ stopping' = stopping \ {c}
    /\ containers' = containers \ {c}
    /\ UNCHANGED <<pendingVars, routines, fresh, taskInstances, delayed, crashed>>

-----------------------------------------------------------------------------
(* ADD_INPUT and REMOVE_INPUT                                              *)

onAddInput(t, i) ==
    /\ IF t \in Instances
       THEN /\ \E S \in Subscribed(t, {i}) :
                  taskInstances' = StoreSubs(t, taskInstances[t].subs \cup S)
            /\ UNCHANGED delayed
       ELSE /\ delayed' = [delayed EXCEPT ![t] = @ \cup {i}]
            /\ UNCHANGED taskInstances
    /\ UNCHANGED <<pendingVars, routines, fresh, containers, stopping, crashed>>

onRemoveInput(t, i) ==
    /\ IF t \in Instances
       THEN /\ taskInstances' = StoreSubs(t, taskInstances[t].subs \ {i})
            /\ UNCHANGED crashed
       ELSE crashed' = TRUE /\ UNCHANGED taskInstances
    /\ UNCHANGED <<pendingVars, routines, fresh, containers, stopping, delayed>>

-----------------------------------------------------------------------------
ExecInit ==
    /\ pendingLaunch = [t \in TaskId |-> 0]
    /\ pendingTerminate = [t \in TaskId |-> 0]
    /\ pendingQuit = {}
    /\ routines = {}
    /\ fresh = 0
    /\ containers = {}
    /\ stopping = {}
    /\ taskInstances = [t \in {} |-> [ctr |-> 0, subs |-> {}]]
    /\ delayed = [t \in TaskId |-> {}]
    /\ crashed = FALSE

\* A step of a goroutine of the executor or of the engine.
ExecStep ==
    \/ \E t \in TaskId : StartTask(t)
    \/ \E t \in TaskId, quit \in BOOLEAN : BeginTerminate(t, quit)
    \/ \E r \in routines : \/ StoreContext(r)
                           \/ HandleDelayed(r)
                           \/ StopTask(r)
                           \/ Cleanup(r)
    \/ \E c \in stopping : StopContainer(c)

\* Type correctness of the executor's state.
ExecTypeOK ==
    /\ pendingLaunch \in [TaskId -> Nat]
    /\ pendingTerminate \in [TaskId -> Nat]
    /\ pendingQuit \subseteq TaskId
    /\ routines \subseteq Routine
    /\ fresh \in Nat
    /\ containers \subseteq Nat
    /\ stopping \subseteq Nat
    /\ Instances \subseteq TaskId
    /\ taskInstances \in [Instances -> Context]
    /\ delayed \in [TaskId -> SUBSET Input]
    /\ crashed \in BOOLEAN

\* An input command waits in delayedAddInputCommands only while its task has
\* no context, or a launch that will drain the queue is on its way: however
\* ADD_INPUT, LaunchTask and TerminateTask interleave, no command is left
\* behind in the queue of a task that is up.
NoStrandedInput ==
    \A t \in Instances : delayed[t] # {} =>
        \E r \in routines : r.op = "launch" /\ r.task = t /\ r.pc = "stored"

\* The container of a stored context runs and nobody stops it, except while
\* the TerminateTask that stops it is about to drop the context: commands are
\* never routed to a container that is gone for good.
ContextIsUp ==
    \A t \in Instances :
        LET c == taskInstances[t].ctr IN
        c \notin containers \/ c \in stopping =>
            \E r \in routines : r.op = "terminate" /\ r.task = t
                                /\ r.ctr = c /\ r.pc = "cleanup"
=============================================================================
