----------------------------- MODULE WorkerNode -----------------------------
(***************************************************************************)
(* A worker process: the task list of module Worker decides, the executor  *)
(* of module Executor acts.  Worker.Process dispatches the commands of the *)
(* master; the handlers update allTasks under taskList_lock and spawn the  *)
(* executor's goroutines, which run on their own.                          *)
(***************************************************************************)
EXTENDS Worker, Executor

CONSTANTS
    Commands,      \* the kinds of command the master sends
    MaxCommands    \* bound: commands handled in a behaviour

ASSUME CommandsAssumption ==
    /\ Commands \subseteq {"ADD_TASK", "REMOVE_TASK", "ADD_INPUT", "REMOVE_INPUT", "QUIT"}
    /\ MaxCommands \in Nat

VARIABLES
    phase,         \* "up", "shutdown" (in Executor.Shutdown) or "exited"
    handled        \* commands handled so far

vars == <<allTasks, execVars, phase, handled>>

\* A handler of a command runs, its goroutine perhaps since before Quit: the
\* process has not ended and the bound is not reached.
Receive(kind) ==
    /\ kind \in Commands
    /\ phase # "exited" /\ ~crashed
    /\ handled < MaxCommands
    /\ handled' = handled + 1

\* go executor.LaunchTask for the tasks in L, TerminateTask for those in T.
Spawn(L, T) ==
    /\ pendingLaunch' = [t \in TaskId |-> pendingLaunch[t] + (IF t \in L THEN 1 ELSE 0)]
    /\ pendingTerminate' = [t \in TaskId |-> pendingTerminate[t] + (IF t \in T THEN 1 ELSE 0)]
    /\ UNCHANGED <<pendingQuit, routines, fresh, containers, stopping,
                   taskInstances, delayed, crashed>>

AddTask(t, p) ==
    /\ Receive("ADD_TASK")
    /\ onScheduledTask(t, p)
    /\ Spawn(IF Runnable(p) THEN {t} ELSE {}, Overtaken(p))
    /\ UNCHANGED phase

RemoveTask(t) ==
    /\ Receive("REMOVE_TASK")
    /\ onTerminateTask(t)
    /\ Spawn(Restarted(t), {t} \cap Running)
    /\ UNCHANGED phase

AddInput(t, i) ==
    /\ Receive("ADD_INPUT")
    /\ onAddInput(t, i)
    /\ UNCHANGED <<allTasks, phase>>

RemoveInput(t, i) ==
    /\ Receive("REMOVE_INPUT")
    /\ onRemoveInput(t, i)
    /\ UNCHANGED <<allTasks, phase>>

\* Worker.Quit: no more commands are consumed; terminateAllTasks spawns a
\* TerminateTask for every context stored at this moment and waits for them.
Quit ==
    /\ Receive("QUIT") /\ phase = "up"
    /\ phase' = "shutdown"
    /\ pendingQuit' = Instances
    /\ UNCHANGED <<allTasks, pendingLaunch, pendingTerminate, routines, fresh,
                   containers, stopping, taskInstances, delayed, crashed>>

\* The WaitGroup is released and main returns; every goroutine dies with it.
Exit ==
    /\ phase = "shutdown" /\ ~crashed
    /\ pendingQuit = {} /\ \A r \in routines : ~r.quit
    /\ phase' = "exited"
    /\ UNCHANGED <<allTasks, execVars, handled>>

Alive == ~crashed /\ phase # "exited"

NodeInit == Init /\ ExecInit /\ phase = "up" /\ handled = 0

NodeNext ==
    \/ \E t \in TaskId : \/ \E p \in Priorities[t] : AddTask(t, p)
                         \/ RemoveTask(t)
                         \/ \E i \in Input : AddInput(t, i) \/ RemoveInput(t, i)
    \/ Quit
    \/ Exit
    \/ Alive /\ ExecStep /\ UNCHANGED <<allTasks, phase, handled>>

\* The Go scheduler runs every goroutine that can run; the docker daemon
\* answers every call.  Commands need not arrive.
NodeFairness ==
    WF_vars((Alive /\ ExecStep /\ UNCHANGED <<allTasks, phase, handled>>) \/ Exit)

NodeSpec == NodeInit /\ [][NodeNext]_vars /\ NodeFairness

-----------------------------------------------------------------------------
\* All goroutines are done and nothing crashed.
AtRest ==
    /\ Alive
    /\ routines = {} /\ stopping = {} /\ pendingQuit = {}
    /\ \A t \in TaskId : pendingLaunch[t] = 0 /\ pendingTerminate[t] = 0

Launching(t) == pendingLaunch[t] > 0 \/ \E r \in routines : r.op = "launch" /\ r.task = t

\* Every input command delayed for a task that is being launched is subscribed
\* in the end, however other tasks come, go and fail, unless a call for the task
\* itself fails, it is overtaken or removed, or the process ends.
DelayedInputIsApplied ==
    \A t \in TaskId \ Failing, i \in Input :
        (i \in delayed[t] /\ Launching(t))
            ~> \/ t \in Instances /\ i \in taskInstances[t].subs
               \/ t \notin Running \/ crashed \/ phase # "up"

\* "pause this task temporarily" (worker.go): once the worker is at rest, a
\* paused task has no container.
PausedTasksAreStopped ==
    AtRest => \A t \in Paused : t \notin Instances
=============================================================================
