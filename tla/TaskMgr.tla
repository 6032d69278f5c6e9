------------------------------ MODULE TaskMgr -------------------------------
(***************************************************************************)
(* The task manager of the master, master/taskMgr.go, with the worker list *)
(* and the dispatching of commands of master/master.go.                    *)
(*                                                                         *)
(* Intents install a FogFlow, availability notifications (each handled by  *)
(* a goroutine, so in any order) change it.  A handler holds fogFlows_lock *)
(* from beginning to end; it first plans a list of deployment actions and  *)
(* then executes it, calling the master, whose worker list has a lock of   *)
(* its own and changes meanwhile.  "job" is the handler that holds the     *)
(* lock, between two of its steps.  The use of a nil pointer ends the      *)
(* process: crashed.                                                       *)
(*                                                                         *)
(* SelectWorker may return any worker of the list: which one is closest    *)
(* and which are overloaded is left open.                                  *)
(***************************************************************************)
EXTENDS FogFlow

CONSTANTS
    Intent,        \* service intents, all of the same topology
    Subscribable,  \* sets of streams that may be the ones Discovery accepts
    MaxFlows,      \* bound: flows set up
    MaxLost,       \* bound: workers that are lost, each any number of times
    MaxNotes       \* bound: notifications handled

ASSUME TaskMgrAssumption ==
    /\ Subscribable \subseteq SUBSET Stream
    /\ MaxFlows \in Nat /\ MaxLost \in Nat /\ MaxNotes \in Nat

VARIABLES
    workers,       \* Master.workers: the worker list
    flows,         \* flows set up so far; numbers their subscriptions
    setups,        \* handlers of intents between two of their steps
    recorded,      \* ServiceMgr.service2TaskMap: intents with a task intent
    fid,           \* number of the flow in fogFlows, 0: none
    subs,          \* its Subscriptions
    received,      \* ReceivedEntityRegistrations of each, with the location
    uniqueKeys,    \* its UniqueKeys
    plan,          \* its ExecutionPlan
    deployed,      \* its DeploymentPlan: the worker of each task instance
    job,           \* the handler that holds fogFlows_lock
    curNumOfTasks, \* DeployTask calls so far
    adding,        \* go communicator.Publish of an ADD_TASK
    onWorker,      \* tasks of each worker, by the commands published
    crashed,       \* a nil pointer was used
    notes,         \* notifications handled so far
    available,     \* history: entities whose last notification was no DELETE
    told,          \* history: the location last given for each of them
    issued,        \* history: tasks of each worker, by the calls of the master
    lost,          \* history: workers that were removed from the list
    astray         \* history: tasks of which the task manager lost track

flow == <<fid, subs, received, uniqueKeys, plan, deployed>>
intents == <<flows, setups, recorded>>
bus == <<curNumOfTasks, adding, onWorker, issued>>
heard == <<available, told>>
strays == <<lost, astray>>
vars == <<workers, intents, flow, job, bus, crashed, notes, heard, strays>>

Idle == [pc |-> "idle", stream |-> None, key |-> "*", groups |-> {},
         cur |-> Empty, ents |-> {}, acts |-> <<>>, worker |-> None]
Act(op, t, w) == [op |-> op, task |-> t, worker |-> w]

\* The process is alive and its handler, or none, is at this step.
At(pc) == ~crashed /\ job.pc = pc

-----------------------------------------------------------------------------
(* The worker list                                                         *)

\* onWorkerJoin, or onHeartbeat of a worker that is not in the list.
WorkerJoin(w) ==
    /\ ~crashed /\ w \notin workers
    /\ workers' = workers \cup {w}
    /\ UNCHANGED <<intents, flow, job, bus, crashed, notes, heard, strays>>

\* onWorkerLeave, or onTimer when the heartbeats have not come.
WorkerLost(w) ==
    /\ ~crashed /\ w \in workers
    /\ workers' = workers \ {w}
    /\ lost' = lost \cup {w} /\ Cardinality(lost') <= MaxLost
    /\ UNCHANGED <<intents, flow, job, bus, crashed, notes, heard, astray>>

\* SelectWorker for a task with these inputs; without inputs overloaded workers
\* are not left out.
SelectWorker(inputs) ==
    workers \cup (IF inputs = {} /\ workers # {} THEN {} ELSE {None})

\* TerminateTask: REMOVE_TASK is published if the worker is in the list.
TerminateTask(t, w) ==
    /\ issued' = IF w \in workers THEN issued \ {<<t, w>>} ELSE issued
    /\ onWorker' = IF w \in workers THEN onWorker \ {<<t, w>>} ELSE onWorker
    /\ UNCHANGED <<curNumOfTasks, adding>>

\* The goroutine of DeployTask.
PublishAddTask(a) ==
    /\ ~crashed /\ a \in adding
    /\ adding' = adding \ {a}
    /\ onWorker' = onWorker \cup {<<a.task, a.worker>>}
    /\ UNCHANGED <<workers, intents, flow, job, curNumOfTasks, issued,
                   crashed, notes, heard, strays>>

-----------------------------------------------------------------------------
(* Intents                                                                 *)

\* handleServiceIntent up to the subscriptions of handleASynchronousTaskIntent.
HandleServiceIntent(i) ==
    /\ ~crashed /\ flows < MaxFlows
    /\ flows' = flows + 1
    /\ \E S \in Subscribable :
          setups' = setups \cup {[fid |-> flows', intent |-> i, subs |-> S, pc |-> "install"]}
    /\ UNCHANGED <<workers, recorded, flow, job, bus, crashed, notes, heard, strays>>

\* The new flow takes the place of the one in fogFlows, if there is one, whose
\* deployment plan is forgotten.
InstallFlow(x) ==
    /\ x \in setups /\ x.pc = "install" /\ At("idle")
    /\ setups' = (setups \ {x}) \cup {[x EXCEPT !.pc = "record"]}
    /\ fid' = x.fid
    /\ subs' = x.subs
    /\ received' = [s \in Stream |-> Empty]
    /\ uniqueKeys' = [s \in Stream |-> {}]
    /\ plan' = Empty
    /\ deployed' = Empty
    /\ available' = {}
    /\ told' = [e \in Entity |-> NoLoc]
    /\ astray' = IF fid = 0 THEN astray ELSE astray \cup {p[1] : p \in issued}
    /\ UNCHANGED <<workers, flows, recorded, job, bus, crashed, notes, lost>>

RecordIntent(x) ==
    /\ ~crashed /\ x \in setups /\ x.pc = "record"
    /\ setups' = setups \ {x}
    /\ recorded' = recorded \cup {x.intent}
    /\ UNCHANGED <<workers, flows, flow, job, bus, crashed, notes, heard, strays>>

\* removeServiceIntent, removeTaskIntent: unsubscribe and, under fogFlows_lock,
\* terminate what the deployment plan holds.
RemoveServiceIntent(i) ==
    /\ i \in recorded /\ At("idle")
    /\ recorded' = recorded \ {i}
    /\ IF fid = 0
       THEN crashed' = TRUE /\ UNCHANGED job
       ELSE job' = [Idle EXCEPT !.pc = "end", !.groups = DOMAIN deployed] /\ UNCHANGED crashed
    /\ UNCHANGED <<workers, flows, setups, flow, bus, notes, heard, strays>>

EndTask(t) ==
    /\ At("end") /\ t \in job.groups
    /\ TerminateTask(t, deployed[t])
    /\ job' = [job EXCEPT !.groups = @ \ {t}]
    /\ UNCHANGED <<workers, intents, flow, crashed, notes, heard, strays>>

DeleteFlow ==
    /\ At("end") /\ job.groups = {}
    /\ job' = Idle
    /\ fid' = 0
    /\ plan' = Empty
    /\ deployed' = Empty
    /\ UNCHANGED <<workers, intents, subs, received, uniqueKeys, bus, crashed,
                   notes, heard, strays>>

-----------------------------------------------------------------------------
(* Notifications: HandleContextAvailabilityUpdate plans ...                *)

\* checkInputAvailability with the registrations r.
InputsAvailable(r) == \A s \in subs : DOMAIN r[s] # {}

\* getRelevantGroups: the value of the entity's own key, with all combinations
\* of the values of the other keys.
RelevantGroups(s, k, keys) ==
    LET Keyed == {u \in Stream : keys[u] # {}}
    IN  {g \in [Keyed -> GroupValue] :
            g[s] = Value(s, k) /\ \A u \in Keyed \ {s} : g[u] \in keys[u]}

\* searchRelevantEntities.
RelevantEntities(g) ==
    {[type |-> p[1], id |-> IF Simple(p[1]) THEN "" ELSE p[2], loc |-> received[p[1]][p[2]]] :
        p \in {q \in subs \X Ids :
                  /\ q[2] \in DOMAIN received[q[1]]
                  /\ q[1] \in DOMAIN g => g[q[1]] = Value(q[1], q[2])}}

Note(e) ==
    /\ notes < MaxNotes /\ notes' = notes + 1
    /\ At("idle") /\ fid # 0 /\ TypeOf[e] \in subs

\* A notification for a subscription of a flow that is not installed (yet, or
\* any more), or for an entity to delete that is not known, changes nothing.
\* CREATE and UPDATE: the registration is stored, or updated unless one stands
\* for all (a location that is not given leaves the old one), and when there is
\* input on all streams the plan is expanded.
NotifyUpdate(e, l) ==
    /\ Note(e)
    /\ LET s == TypeOf[e]
           k == Key(e)
           r == IF k \in DOMAIN received[s] /\ (Simple(s) \/ l = NoLoc)
                THEN received
                ELSE [received EXCEPT ![s] = Put(@, k, l)]
           keys == [uniqueKeys EXCEPT ![s] = @ \cup {Value(s, k)}]
       IN  /\ received' = r
           /\ uniqueKeys' = keys
           /\ job' = IF InputsAvailable(r)
                     THEN [Idle EXCEPT !.pc = "expand", !.stream = s, !.key = k,
                                       !.groups = RelevantGroups(s, k, keys)]
                     ELSE job
    /\ available' = available \cup {e}
    /\ told' = IF l = NoLoc THEN told ELSE [told EXCEPT ![e] = l]
    /\ UNCHANGED <<workers, intents, fid, subs, plan, deployed, bus, crashed, strays>>

\* DELETE: when there is input on all streams the plan is reduced and the
\* registration stays; otherwise it is dropped.  UniqueKeys stay as they are.
NotifyDelete(e) ==
    /\ Note(e)
    /\ LET s == TypeOf[e]
           k == Key(e)
       IN  /\ k \in DOMAIN received[s]
           /\ IF InputsAvailable(received)
              THEN /\ job' = [Idle EXCEPT !.pc = "reduce", !.stream = s, !.key = k,
                                          !.groups = RelevantGroups(s, k, uniqueKeys)]
                   /\ UNCHANGED received
              ELSE /\ received' = [received EXCEPT ![s] = Del(@, k)]
                   /\ UNCHANGED job
    /\ available' = available \ {e}
    /\ told' = [told EXCEPT ![e] = NoLoc]
    /\ UNCHANGED <<workers, intents, fid, subs, uniqueKeys, plan, deployed, bus, crashed, strays>>

\* expandExecutionPlan, the next group: a new task instance is planned, of an
\* existing one the inputs are to be compared.
ExpandGroup(g) ==
    /\ At("expand") /\ job.ents = {} /\ g \in job.groups
    /\ IF g \in DOMAIN plan
       THEN /\ job' = [job EXCEPT !.groups = @ \ {g}, !.cur = g, !.ents = RelevantEntities(g)]
            /\ UNCHANGED plan
       ELSE /\ job' = [job EXCEPT !.groups = @ \ {g},
                                  !.acts = Append(@, Act("ADD_TASK", g, None))]
            /\ plan' = Put(plan, g, [inputs |-> RelevantEntities(g), worker |-> None])
    /\ UNCHANGED <<workers, intents, fid, subs, received, uniqueKeys, deployed, bus,
                   crashed, notes, heard, strays>>

\* Whether an entity found for a task is new to it depends on the selector of
\* the stream that the notification is for.
NewInput(x, inputs) ==
    \A y \in inputs : IF Simple(job.stream) THEN y.type # x.type ELSE y.id # x.id

\* A new input is added to the task of job.cur, which must be deployed.
ExpandInput(x) ==
    /\ At("expand") /\ x \in job.ents
    /\ NewInput(x, plan[job.cur].inputs)
    /\ IF job.cur \in DOMAIN deployed
       THEN /\ plan' = [plan EXCEPT ![job.cur].inputs = @ \cup {x}]
            /\ job' = [job EXCEPT !.ents = @ \ {x},
                                  !.acts = Append(@, Act("ADD_INPUT", job.cur, deployed[job.cur]))]
            /\ UNCHANGED crashed
       ELSE crashed' = TRUE /\ UNCHANGED <<plan, job>>
    /\ UNCHANGED <<workers, intents, fid, subs, received, uniqueKeys, deployed, bus,
                   notes, heard, strays>>

\* The inputs with the ID of x that are somewhere else.
Moved(x, inputs) == {y \in inputs : y.id = x.id /\ y.loc # x.loc}

\* Variant: the location by which the worker was selected is kept.
Relocated_not(y, l) == y
Relocated(y, l) == [y EXCEPT !.loc = l]

\* Variant: a task that lost its inputs is not ended, only one that migrates.
removeExistingTask_moving(t) ==
    IF t \in DOMAIN deployed /\ job.pc = "expand"
    THEN <<Act("REMOVE_TASK", t, deployed[t])>> ELSE <<>>
\* The action that ends a task where it is deployed; none if it is not.
removeExistingTask(t) ==
    IF t \in DOMAIN deployed THEN <<Act("REMOVE_TASK", t, deployed[t])>> ELSE <<>>

\* The handler has an action of this kind for the task.
Plans(op, t) == \E n \in DOMAIN job.acts : job.acts[n].op = op /\ job.acts[n].task = t

\* The location of a known input has changed: one of those with its ID (they
\* differ for an unnamed one only) is updated, and the task migrates when
\* another worker is selected now.  A task with a worker that was never deployed
\* gets a nil action for its removal.  A task that is added already (an unnamed
\* input was compared with that of another stream) is removed a second time from
\* where it was at first.
ExpandMoved(x) ==
    /\ At("expand") /\ x \in job.ents
    /\ LET t == job.cur
           old == plan[t]
           nil == <<Act("nil", t, None)>>
           end == IF old.worker = None THEN <<>>
                  ELSE IF removeExistingTask(t) = <<>> THEN nil ELSE removeExistingTask(t)
       IN  /\ ~NewInput(x, old.inputs)
           /\ \E y \in Moved(x, old.inputs) :
              LET inputs == (old.inputs \ {y}) \cup {Relocated(y, x.loc)} IN
              \E w \in SelectWorker(inputs) :
                 /\ plan' = [plan EXCEPT ![t] = [inputs |-> inputs, worker |-> w]]
                 /\ job' = [job EXCEPT !.ents = @ \ {x},
                              !.acts = IF w = old.worker THEN @
                                       ELSE Append(@ \o end, Act("ADD_TASK", t, None))]
                 /\ astray' = IF w # old.worker /\ Plans("ADD_TASK", t) THEN astray \cup {t} ELSE astray
    /\ UNCHANGED <<workers, intents, fid, subs, received, uniqueKeys, deployed, bus,
                   crashed, notes, heard, lost>>

\* A known input that is where it was.
ExpandKnown(x) ==
    /\ At("expand") /\ x \in job.ents
    /\ ~NewInput(x, plan[job.cur].inputs) /\ Moved(x, plan[job.cur].inputs) = {}
    /\ job' = [job EXCEPT !.ents = @ \ {x}]
    /\ UNCHANGED <<workers, intents, flow, bus, crashed, notes, heard, strays>>

removeInput(inputs, k) == {y \in inputs : y.id # k}

checkInputsOfTaskInstance(inputs) == \A s \in Stream : \E y \in inputs : y.type = s

\* removeExecutionPlan, the next group.  A task that lacks an input afterwards is
\* removed from the execution plan (not from the deployment plan), another one,
\* which must be deployed, only loses the input.
ReduceGroup(g) ==
    /\ At("reduce") /\ g \in job.groups
    /\ IF g \in DOMAIN plan
       THEN LET kept == removeInput(plan[g].inputs, job.key) IN
            IF checkInputsOfTaskInstance(kept)
            THEN /\ plan' = [plan EXCEPT ![g].inputs = kept]
                 /\ IF g \in DOMAIN deployed
                    THEN /\ job' = [job EXCEPT !.groups = @ \ {g},
                                      !.acts = Append(@, Act("REMOVE_INPUT", g, deployed[g]))]
                         /\ UNCHANGED crashed
                    ELSE crashed' = TRUE /\ UNCHANGED job
            ELSE /\ plan' = Del(plan, g)
                 /\ job' = [job EXCEPT !.groups = @ \ {g},
                                       !.acts = @ \o removeExistingTask(g)]
                 /\ UNCHANGED crashed
       ELSE /\ job' = [job EXCEPT !.groups = @ \ {g}]
            /\ UNCHANGED <<plan, crashed>>
    /\ UNCHANGED <<workers, intents, fid, subs, received, uniqueKeys, deployed, bus,
                   notes, heard, strays>>

-----------------------------------------------------------------------------
(* ... and then executes the deployment actions one by one.                *)

Planned == (At("expand") \/ At("reduce")) /\ job.groups = {} /\ job.ents = {}
Executing(ops) == Planned /\ job.acts # <<>> /\ Head(job.acts).op \in ops
NextAct == [job EXCEPT !.acts = Tail(@)]

\* Variant: the handler goes on without a worker.
SelectForTask_goOn ==
    /\ Executing({"ADD_TASK"})
    /\ \E w \in SelectWorker(plan[Head(job.acts).task].inputs) :
          job' = [job EXCEPT !.pc = "deploy", !.worker = w]
    /\ UNCHANGED <<workers, intents, flow, bus, crashed, notes, heard, strays>>

\* The tasks without a worker in the plan that the handler has yet to remove.
ToRemove == {t \in DOMAIN plan : plan[t].worker = None /\ Plans("REMOVE_TASK", t)}

\* ADD_TASK: without a worker the handler returns, whatever is left to do.
SelectForTask ==
    /\ Executing({"ADD_TASK"})
    /\ \E w \in SelectWorker(plan[Head(job.acts).task].inputs) :
          IF w = None
          THEN job' = Idle /\ astray' = astray \cup ToRemove
          ELSE job' = [job EXCEPT !.pc = "deploy", !.worker = w] /\ UNCHANGED astray
    /\ UNCHANGED <<workers, intents, flow, bus, crashed, notes, heard, lost>>

\* DeployTask publishes the command, then updates the profile of the worker, nil
\* if it has left the list since; then both plans get the worker.
DeployTask ==
    /\ At("deploy")
    /\ curNumOfTasks' = curNumOfTasks + 1
    /\ LET t == Head(job.acts).task
           w == job.worker
       IN  /\ adding' = adding \cup {[n |-> curNumOfTasks', task |-> t, worker |-> w]}
           /\ issued' = issued \cup {<<t, w>>}
           /\ IF w \in workers
              THEN /\ deployed' = Put(deployed, t, w)
                   /\ plan' = [plan EXCEPT ![t].worker = w]
                   /\ job' = [NextAct EXCEPT !.pc = "expand", !.worker = None]
                   /\ UNCHANGED crashed
              ELSE crashed' = TRUE /\ UNCHANGED <<deployed, plan, job>>
    /\ UNCHANGED <<workers, intents, fid, subs, received, uniqueKeys, onWorker,
                   notes, heard, strays>>

RemoveTask ==
    /\ Executing({"REMOVE_TASK"})
    /\ TerminateTask(Head(job.acts).task, Head(job.acts).worker)
    /\ job' = NextAct
    /\ UNCHANGED <<workers, intents, flow, crashed, notes, heard, strays>>

\* AddInputEntity and RemoveInputEntity publish a command and change nothing here.
SendInput ==
    /\ Executing({"ADD_INPUT", "REMOVE_INPUT"})
    /\ job' = NextAct
    /\ UNCHANGED <<workers, intents, flow, bus, crashed, notes, heard, strays>>

NilAction ==
    /\ Executing({"nil"})
    /\ crashed' = TRUE
    /\ UNCHANGED <<workers, intents, flow, job, bus, notes, heard, strays>>

Return ==
    /\ Planned /\ job.acts = <<>>
    /\ job' = Idle
    /\ UNCHANGED <<workers, intents, flow, bus, crashed, notes, heard, strays>>

-----------------------------------------------------------------------------
Init ==
    /\ workers = {}
    /\ flows = 0 /\ setups = {} /\ recorded = {}
    /\ fid = 0 /\ subs = {}
    /\ received = [s \in Stream |-> Empty]
    /\ uniqueKeys = [s \in Stream |-> {}]
    /\ plan = Empty /\ deployed = Empty
    /\ job = Idle
    /\ curNumOfTasks = 0 /\ adding = {} /\ onWorker = {} /\ issued = {}
    /\ crashed = FALSE
    /\ notes = 0
    /\ available = {} /\ told = [e \in Entity |-> NoLoc]
    /\ lost = {} /\ astray = {}

Intents ==
    \/ \E i \in Intent : HandleServiceIntent(i) \/ RemoveServiceIntent(i)
    \/ \E x \in setups : InstallFlow(x) \/ RecordIntent(x)
    \/ \E t \in DOMAIN deployed : EndTask(t)
    \/ DeleteFlow

Notifications ==
    \E e \in Entity : NotifyDelete(e) \/ \E l \in Loc : NotifyUpdate(e, l)

Planning ==
    \/ \E g \in job.groups : ExpandGroup(g) \/ ReduceGroup(g)
    \/ \E x \in job.ents : ExpandInput(x) \/ ExpandMoved(x) \/ ExpandKnown(x)

Execution == SelectForTask \/ DeployTask \/ RemoveTask \/ SendInput \/ NilAction \/ Return

Next ==
    \/ \E w \in Worker : WorkerJoin(w) \/ WorkerLost(w)
    \/ \E a \in adding : PublishAddTask(a)
    \/ Intents
    \/ Notifications
    \/ Planning
    \/ Execution

Spec == Init /\ [][Next]_vars

-----------------------------------------------------------------------------
\* Type correctness of the task manager.
TypeOK ==
    /\ workers \subseteq Worker
    /\ flows \in 0..MaxFlows
    /\ setups \subseteq [fid : 1..MaxFlows, intent : Intent, subs : SUBSET Stream,
                         pc : {"install", "record"}]
    /\ recorded \subseteq Intent
    /\ fid \in 0..MaxFlows
    /\ subs \subseteq Stream
    /\ received \in [Stream -> UNION {[K -> Loc] : K \in SUBSET Ids}]
    /\ uniqueKeys \in [Stream -> SUBSET GroupValue]
    /\ DOMAIN plan \subseteq Group /\ plan \in [DOMAIN plan -> Task]
    /\ DOMAIN deployed \subseteq Group /\ deployed \in [DOMAIN deployed -> Worker]
    /\ job \in [pc : {"idle", "expand", "reduce", "deploy", "end"},
                stream : Stream \cup {None}, key : Ids, groups : SUBSET Group,
                cur : Group, ents : SUBSET Input, acts : Seq(Action),
                worker : Worker \cup {None}]
    /\ curNumOfTasks \in Nat
    /\ adding \subseteq [n : Nat, task : Group, worker : Worker]
    /\ onWorker \subseteq Group \X Worker
    /\ crashed \in BOOLEAN
    /\ notes \in 0..MaxNotes
    /\ available \subseteq Entity /\ told \in [Entity -> Loc]
    /\ issued \subseteq Group \X Worker
    /\ lost \subseteq Worker /\ astray \subseteq Group

\* However tasks are deployed, migrated and removed, a task is on no worker but
\* the one of the deployment plan, which is where a REMOVE_TASK for it goes, by
\* the order of the calls of DeployTask and TerminateTask.  The exceptions are
\* workers that were lost meanwhile and tasks that went astray in one of three
\* ways: their intent was submitted again, the handler gave up for want of a
\* worker before it removed them, or it planned their migration twice.
OnePlace ==
    \A p \in issued : p[2] \notin lost /\ p[1] \notin astray /\ ~crashed =>
        p[1] \in DOMAIN deployed /\ deployed[p[1]] = p[2]

\* An input with an ID, of which another location was given since.
Outdated(y) == y.id # "" /\ told[y.id] # NoLoc /\ y.loc # told[y.id]

\* The locations by which the worker of a task is selected are those last given
\* in the notifications of the entities, as they were handled, for every input
\* that has an ID, of every planned task, whatever streams it has.  (An input of
\* a stream that is selected by type only keeps the first location.)
InputsAreUpToDate ==
    job.pc = "idle" => \A g \in DOMAIN plan : \A y \in plan[g].inputs : ~Outdated(y)

\* With one stream grouped by entity ID there is, whenever no handler is at work,
\* a task instance for exactly the entities that are available, although DELETE
\* drops neither their registrations nor their keys.
PlanFollowsAvailability ==
    (\A s \in Stream : Stream = {s} /\ GroupBy[s] = "EntityID") =>
        (job.pc = "idle" /\ fid # 0 => DOMAIN plan = {[s \in Stream |-> e] : e \in available})

\* A planned task has no input that was deleted: "remove it from the task inputs",
\* removeExecutionPlan.  (Of a stream that is selected by type only, the task
\* manager does not know the entities.)
DeletedInputIsGone ==
    job.pc = "idle" =>
        \A g \in DOMAIN plan : \A y \in plan[g].inputs : y.id # "" => y.id \in available

-----------------------------------------------------------------------------
(* The inductive invariants.                                               *)

AtWork == job.pc \in {"expand", "reduce", "deploy"}
JobIsSound ==
    /\ job.pc = "idle" => job = Idle
    /\ job.pc # "expand" => job.ents = {}
    /\ job.pc = "deploy" => job.groups = {} /\ job.acts # <<>> /\ job.worker # None

\* Registrations and keys belong to the streams of the flow.
KeysAreKept ==
    \A s \in Stream :
        /\ uniqueKeys[s] # {} => s \in subs
        /\ \A k \in DOMAIN received[s] :
              /\ Value(s, k) \in uniqueKeys[s]
              /\ IF Simple(s) THEN k = "*" ELSE k \in Entity /\ TypeOf[k] = s

\* The registration that an input comes from.
InputKey(y) == IF Simple(y.type) THEN "*" ELSE y.id
Current(y) == InputKey(y) \in DOMAIN received[y.type] /\ received[y.type][InputKey(y)] = y.loc

\* A task instance has a value for every stream, and inputs that fit them.
Complete(g) == DOMAIN g = subs /\ \A s \in subs : g[s] \in uniqueKeys[s]
Fits(y, g) ==
    /\ y.type \in subs /\ InputKey(y) \in DOMAIN received[y.type]
    /\ g[y.type] = Value(y.type, InputKey(y))
    /\ y.id = "" <=> Simple(y.type)
GroupsFit ==
    /\ DOMAIN plan # {} \/ AtWork => InputsAvailable(received)
    /\ \A g \in DOMAIN plan : Complete(g) /\ \A y \in plan[g].inputs : Fits(y, g)
    /\ AtWork => \A g \in job.groups : Complete(g)
    /\ job.ents # {} => job.cur \in DOMAIN plan /\ job.ents \subseteq RelevantEntities(job.cur)

\* The location last given is the one of the registration.
ToldIsReceived ==
    \A e \in Entity : told[e] # NoLoc /\ ~Simple(TypeOf[e]) =>
        e \in DOMAIN received[TypeOf[e]] /\ received[TypeOf[e]][e] = told[e]

\* No two inputs of a task have the same ID, except those without one.
InputsDiffer ==
    \A g \in DOMAIN plan : \A y, z \in plan[g].inputs : y.id # "" /\ y.id = z.id => y = z

\* An input whose location has changed is one that the handler will compare.
StaleIsCompared ==
    \A g \in DOMAIN plan : \A y \in plan[g].inputs : y.id # "" /\ ~Current(y) =>
        /\ job.pc = "expand" /\ y.type = job.stream /\ InputKey(y) = job.key
        /\ \/ g \in job.groups
           \/ g = job.cur /\ [y EXCEPT !.loc = received[y.type][InputKey(y)]] \in job.ents

PlanInv ==
    TypeOK /\ JobIsSound /\ KeysAreKept /\ GroupsFit /\ ToldIsReceived /\ InputsDiffer /\ StaleIsCompared

\* With one stream that is grouped by entity ID, what the handler has yet to plan.
PlanIsOnItsWay ==
    LET all == {[s \in Stream |-> e] : e \in available} IN
    fid # 0 => /\ job.pc = "expand" => DOMAIN plan \cup job.groups = all
               /\ job.pc = "reduce" => /\ DOMAIN plan \ job.groups = all /\ job.stream \in Stream
                                       /\ \A g \in job.groups, s \in Stream : g[s] = job.key
               /\ job.pc \in {"idle", "deploy"} => DOMAIN plan = all

\* The worker has the task, as far as the master can know.
Holds(t, w) == <<t, w>> \in issued /\ w \notin lost
Gone(t) == \A w \in Worker : ~Holds(t, w)
Tracked == Group \ astray

\* Where the handler adds a task, and the REMOVE_TASK that comes before.
Adds(n, t) == n \in DOMAIN job.acts /\ job.acts[n].op = "ADD_TASK" /\ job.acts[n].task = t
Leaves(t) == \E n \in DOMAIN job.acts :
    /\ job.acts[n] = Act("REMOVE_TASK", t, deployed[t]) /\ t \in DOMAIN deployed
    /\ \A m \in 1..n : ~Adds(m, t)

\* Without a flow nothing is deployed.
FlowsEnd ==
    /\ job.pc # "idle" => fid # 0
    /\ fid = 0 => \A t \in Tracked : Gone(t)

\* Workers are those of the list, or were.
WorkersWereListed ==
    /\ \A p \in issued : p[2] \in workers \cup lost
    /\ \A t \in DOMAIN deployed : deployed[t] \in workers \cup lost

\* A handler acts on planned tasks, and adds a task once.
ActsAreSound ==
    /\ ~AtWork => job.acts = <<>>
    /\ job.pc = "reduce" => \A t \in Group, n \in DOMAIN job.acts : ~Adds(n, t)
    /\ job.pc \in {"expand", "deploy"} => \A n \in DOMAIN job.acts : job.acts[n].task \in DOMAIN plan
    /\ job.pc = "deploy" => \E t \in Group : Adds(1, t)
    /\ \A t \in Tracked : \A m, n \in DOMAIN job.acts : Adds(m, t) /\ Adds(n, t) => m = n

\* A new task, and one whose worker is not known any more, is nowhere, or is
\* removed from where it is before it is added.
Unplaced(t) ==
    \/ t \notin DOMAIN plan
    \/ plan[t].worker = None
    \/ \E n \in DOMAIN job.acts : Adds(n, t)
NowhereElse ==
    \A t \in Tracked :
        /\ Unplaced(t) => Gone(t) \/ Leaves(t)
        /\ job.pc = "end" => Gone(t) \/ t \in job.groups

PlaceInv ==
    ~crashed => FlowsEnd /\ WorkersWereListed /\ ActsAreSound /\ NowhereElse /\ OnePlace
=============================================================================
