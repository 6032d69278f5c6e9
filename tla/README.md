# FogFlow in TLA+

FogFlow runs dataflow programs on cloud and edge nodes. This directory holds TLA+
models of its Go services and of the designer's server, the TLC configurations that check them on small
instances, and TLAPS proofs about them. Paths are relative to the root of the
repository, which `PROJECT.json` calls `src/`.

## 1. The system

| Part | State | Operations | Interacts with |
|---|---|---|---|
| Worker (`worker/worker.go`) | `allTasks`: the scheduled tasks with status, exclusiveness and level, under `taskList_lock` | `onScheduledTask`, `onTerminateTask`, `onPatchTask`, `onAddInput`, `onRemoveInput`, heartbeat, `Quit` | gets commands of the master over the bus; spawns goroutines of its executor |
| Executor (`worker/executor.go`, `dockerengine.go`) | `taskInstances`, `delayedAddInputCommands`, under `taskMap_lock`; containers | `LaunchTask`, `TerminateTask`, `onAddInput`, `onRemoveInput`, `terminateAllTasks` | container engine; subscribes at a broker on behalf of tasks |
| Master (`master/master.go`) | `workers` with workload and last heartbeat, `workerList_lock`; `operatorList` | `onHeartbeat`, `onWorkerJoin`, `onWorkerLeave`, `onTimer`, `SelectWorker`, `DeployTask`, `TerminateTask`, `AddInputEntity`, `RemoveInputEntity` | bus; Discovery; designer |
| Task manager (`master/taskMgr.go`) | per task intent a `FogFlow`: subscriptions with received registrations, unique keys, execution plan, deployment plan | `MetadataDrivenTaskOrchestration`, `expandExecutionPlan`, `removeExecutionPlan`, `HandleContextAvailabilityUpdate` | availability notifications of Discovery drive it; it deploys through the master |
| Service manager (`master/serviceMgr.go`) | service intents and the task intents derived from them | `handleServiceIntentUpdate` and its create and remove parts | task manager |
| IoT Discovery (`discovery/*.go`) | registrations, subscriptions, brokers, `notifyCache`, three files | register, delete, subscribe, unsubscribe, discover, broker heartbeat, timer | brokers and masters register and subscribe; it notifies them by HTTP |
| Thin broker (`broker/*.go`) | entities, subscriptions, links to Discovery's subscriptions, caches of notifications | update, query, subscribe, `handleNGSI9Notify`, `notifySubscribers`, timer | Discovery; other brokers; tasks and applications |
| Message bus client (`common/communicator`) | connection, channel, `stopChan`, `consuming`, `retry` | `StartConsuming`, `consume`, `consumeOne`, `StopConsuming`, `Publish` | RabbitMQ; the loops of worker and master around it |
| Designer (`designer/main.js`, `rabbitmq.cjs`) | `db.data` and its file, `pendingMessages`, flags of the connection | requests for intents, fog functions, subscriptions and devices; `connect`, `flushPendingMessages`; `entityrestore` | the master over RabbitMQ; the cloud broker by HTTP |
| Command line, operators, other engines, web pages | | | out of scope, see section 8 |

A typical flow: a user submits an intent to the designer, which stores it and sends it to the master; a broker registers an entity at Discovery; Discovery notifies the
master whose task intent subscribed to its type; the master's task manager expands
the execution plan and sends ADD_TASK (or ADD_INPUT) to a worker; the worker starts
a container and subscribes at a broker for its inputs; the broker asks Discovery for
the providers, subscribes at them and forwards updates to the task.

What is hard here:

* every HTTP request and every bus message ends in a goroutine of its own, so
  almost no order is kept: of commands for one task, of notifications for one
  entity, of a registration and a subscription that cross;
* locks protect single accesses, so values are read under a lock and used
  after its release (`TerminateTask`, `deleteRegistration`, the disk writers);
* notifications fail and are cached, resent and put back by several goroutines;
* the lists of Discovery are written to files with a delay that is coordinated by an
  unprotected flag, by a writer that truncates the file first;
* the designer stores before or after it publishes, depending on the handler, queues messages as references to
  objects that later requests change, and writes its file without waiting for earlier writes;
* a broken connection to RabbitMQ is noticed by each side at its own time, and handlers go on meanwhile;
* exclusive tasks pause others, and a task's removal has to restart the right ones.

What makes each part correct:

* worker: no task runs that a more urgent exclusive one keeps from running, whatever the order of
  commands, exclusive tasks run alone, and no task stays paused with nothing to wait for;
* executor: no input command is forgotten, a context belongs to a container that is
  up, stopped tasks are stopped;
* Discovery: a subscriber learns of every matching registration, and no
  notification is dropped; the files catch up with the lists;
* master: the execution plan has a task for each group of available inputs, a task is
  on the worker of the deployment plan only, a removed intent leaves nothing behind; and
  (planned) a worker that is dead gets no task;
* broker: a subscriber ends with the latest value of each entity it subscribed to;
* message bus client: no command is processed twice or waits for ever, the worker gets back to RabbitMQ, and
  shutdown ends;
* designer: what it answered with 200 survives, the master has heard of exactly what is stored and enabled, and
  the broker has every recorded subscription under its recorded ID.

The hazards, each at its line, are in `PROJECT.json`.

## 2. Modules

```
TaskModel <-- Worker   --+                      NotifyChannel <.. Discovery  (refines)
    ^                    +--> WorkerNode        DiskStore
    +------- Executor  --+                      FogFlow <-- TaskMgr
                                                ThinBroker
LowDb <-- Designer                              Communicator
    ^---- DesignerSubs
```

A module `X` whose constants are functions has an `MCX` module with their values; the others are run as they
are. Each component has its proofs in `XProofs`; those of `Worker` and `Executor` are in `WorkerNodeProofs`.

**TaskModel**: the priorities of tasks from `common/datamodel`.

**Worker**: the variable `allTasks` and one action for each command,
`onScheduledTask(t, p)` and `onTerminateTask(t)`. The handlers hold `taskList_lock`
from beginning to end, hence one action each. `Runnable`, `Overtaken` and `Restarted`
are what the loops compute. The loops run over a Go map in any order; nothing
in them depends on it. `Contenders` keeps the detail that the scan for the next
priority starts at 0. `Priorities[t]` says which priorities ADD_TASK may carry for `t`; the same task may come
again with another one, when its intent is submitted again.

**Executor**: `LaunchTask` and `TerminateTask` are goroutines that take
`taskMap_lock` around single accesses. They are cut at these accesses and at the
calls of the engine: `StartTask`, `StoreContext`, `HandleDelayed`; `BeginTerminate`,
`StopTask`, `Cleanup`. `routines` holds the goroutines between two steps,
`pendingLaunch`, `pendingTerminate` and `pendingQuit` those not begun. `StopTask` of
the docker engine spawns `StopContainer` and returns, so the container goes
later. Use of a nil context sets `crashed`: Go ends the process. `Failing` is the set of tasks
for which the engine may refuse to start and the broker to subscribe. A context is
reduced to its container and the inputs it is subscribed to; what a task is
launched with (its own inputs, outputs, ports) is dropped with the context and is
not told apart. `StartActualTask = false`, which turns input commands off, is not modelled.

**WorkerNode** composes the two: each command updates the task list and spawns the
goroutines; `Quit` and `Exit` are the shutdown, during which deliveries are still handled. `MaxCommands` bounds the commands.

**DiskStore**: `updateRegistrationsOnDisk`, with one step for each access another
goroutine can notice: `CheckScheduled` (no lock), `LockDb`, `SetScheduled`,
`Snapshot` (after the delay; the file is truncated), `WriteFile`, `ClearScheduled`,
and the deferred `UnlockDb` and `UnlockList`. `Change` stands for the three ways
the list changes. `CrashAndRestart` at any point, then `Init` reads the file. The
same code exists for the subscriptions and the brokers
(`discovery/fastDiscovery.go`); there it runs as a goroutine, here the
writer is the request's goroutine or that one. A write may fail before the file is opened (`OpenFails`, the file
stays) or after (`WriteFails`, it stays truncated); the code logs the error and goes on. The history variable
`failed` says that the last write failed.

**Discovery**: registrations are objects in a `heap` that goroutines point to, as
in Go: `updateRegistrationInMemory` changes them in place, and a goroutine that
announces one reads it when it gets there. `announcers`, `deleters`, `queries`,
`senders`, `spawned` and `resenders` are the goroutines of `notifySubscribers`,
`deleteRegistration`, `handleSubscribeCtxAvailability`, `sendNotify` and
`resendCachedItems`. A registration is a `Content` with a stamp, a filter the set of
contents it matches. The stamp only distinguishes updates, so that a property can
say "the latest". Calls of a subscriber succeed, fail, or deliver and then fail
(`PostNotify`). A registration is read in one step; in the code the maps of
attributes and metadata are read without the lock that protects their update.

**NotifyChannel**: what Discovery promises of notifications: each stays
outstanding until it was received.

**FogFlow** holds the data of a flow of the task manager and the helpers that read it:
streams, grouping keys, groups, inputs. `GetHash` is taken to be injective, so a group
names its task instance. Streams are grouped by `ALL` or `EntityID`; the other groupings
(entity type, metadata) work like `EntityID` with another value and are left out.

**TaskMgr**: `master/taskMgr.go` with the worker list and the dispatching of
`master/master.go` and the intents of `master/serviceMgr.go`, for a topology with one
task. A handler of a notification holds `fogFlows_lock` from beginning to end, but the
worker list changes meanwhile; the handler is cut at every call of the master. `job` is
the handler that holds the lock: it first plans, group by group and entity by entity
(`ExpandGroup`, `ExpandInput`, `ExpandMoved`, `ExpandKnown`, `ReduceGroup`), and then executes the list of
deployment actions (`SelectForTask`, `DeployTask`, `RemoveTask`, `SendInput`, `NilAction`). Go iterates over maps in any
order, so groups and entities are taken in any order. A nil pointer sets `crashed`, and nothing
happens after that. `SelectWorker` may return any worker of the list, or none: distances and
workloads are left open. `adding` are the goroutines that publish an ADD_TASK;
`onWorker` is what a worker has by the commands on the bus, `issued` what it has by
the order of the calls. A location that is not given (`NoLoc`) leaves a known one. Notifications that the
handlers drop (no flow, unknown subscription or entity) change nothing and are no steps. `available`, `told` (the
location last given for an entity), `issued`, `lost` and `astray` are history variables. `astray` are the tasks of which the
task manager lost track: `InstallFlow` replaced their flow, `SelectForTask` gave up before it removed them, or `ExpandMoved` planned their
migration twice. An entity ID has one type (`TypeOf`).

**ThinBroker**: updates, subscriptions and notifications of `broker/thinBroker.go` and `broker/ngsiv1.go`, for entities
the broker holds itself and subscriptions by entity ID. `writers` are the handlers of updateContext (`Register`,
`Apply`, `Notify`, `Unregister`), `linkers` the goroutines of `handleNGSI9Notify`, which send the current contents of all entities of
the list in one notification (`SendCurrent`) and then make the links one by one (`Associate`), `senders` those of `sendReliableNotifyToSubscriber` (`Collect`,
`Post`, `PostFails`). `links` counts how often `entityId2Subcriptions` has an ID, as the code appends it without
looking (CREATE) or after looking (UPDATE). `Cached` keeps what the cache really holds: pointers to the variable of the
loop (the module is built with go 1.16, where the variable is one for all rounds). The timer hands an empty list to the
sender, which returns at once; it has no effect and is no step. Two nil pointers are used while a lock is held
(`broker/thinBroker.go:516`, `:985`); the web server recovers from the panic (`restapisrv.go:85`) and the lock is kept: `stuck`. IoT
Discovery is `registered`, `queries` and `avail`, with notifications in any order; equal ones on their way are one.
A user unsubscribes only when the link to Discovery is there. Updates that are not sent back to a subscriber because they have its
correlator or come from a prosumer (`broker/thinBroker.go:461`, `:480`) are left out. `Written` bounds the entities that change. `latest` numbers contents in the order they are stored.
`lost` and `missed` are history variables.

**Communicator**: consuming of `common/communicator/communicator.go` with the loop of `worker/worker.go` (the one in
`master/master.go:108` is the same, without the end). RabbitMQ is `consumers`, `ready` and `unacked`: a queue
goes with its last consumer, and what a consumer did not acknowledge goes back to the queue. `ConsumeFails` is an error of Qos or Consume:
the queue is declared, perhaps without a consumer (`declared`), there is a new `stopChan`, and `consuming` stays as it was. `Open` is the worker's view of
its channel, `Notice` the moment RabbitMQ sees that it is gone. A handler that fails waits until `consume` takes its error;
those that `consume` never hears wait for ever and are removed (`Unblocked`), since nothing can happen to them. The constants `Reinit`,
`GiveUp` and `Prefetch` are 5, 10 and 3 in the code. `numConnectionFailure` counts over the whole life of the worker and so does
`tries`. Publishing is not modelled here; what matters of it to the master is in `TaskMgr`.

**LowDb**: the file behind lowdb, an external library: one write at a time, of the contents that wait only the last is
written, and the file is replaced by a rename.

**Designer**: requests for service intents and fog functions, and the client of RabbitMQ. Node.js runs a handler to
its next `await`, so a handler is an action up to `db.write()` and `Resume` after it; `Idle` says that continuations go before
new events. `pendingMessages` holds objects, not texts: `action` is the field that the handlers overwrite and `Flush`
reads. `Flush` may stop at any message whose `publish` returns false and goes on with `Drain`. amqplib ends the channel and emits 'close' in
one step, so `publish` does not throw while `isReady` is set, and its catch blocks are no steps; a list of fog functions in one
request is taken as one request for each. A message
that sits in the socket when the connection breaks is lost (`Break`). `heard` is the last action about an intent that
RabbitMQ got. `promised`, `dropped`, `overtaken` and `crossed` are history variables; the last three name the ways in which
the master may miss a word, and the properties exclude exactly these. An object is reused when nothing refers to it.

**DesignerSubs**: requests for subscriptions and devices, and `entityrestore`: `CheckVersion`, `BrokerLists`,
`RestoreSubscriptions`, then one call for each lost subscription. Calls of the broker are handled, fail or
are answered in any order. `ListFails` is the end of the process when the second request of the restore fails, which no
handler catches (`designer/main.js:89`). `BrokerEnds` empties the broker; when it is back, answers of the old one have
arrived or are lost, as its start takes longer than a response in the socket lives. A broker that runs answers without errors.

Operators named `X_variant` with a comment "Variant:" are wrong versions of `X`; they are in no
specification, and each is known to break the property that is about its part.

## 3. Runs

| Run | Configuration | Result |
|---|---|---|
| `worker` | five tasks, three levels for exclusive and shared use as in the intent form, any task again with any priority | `TypeOK`, `NoneIsOutranked`, `OnlyDemotionStrands` hold |
| `worker_exclusive` | the same with four tasks | `ExclusiveUse` is violated, see section 6 |
| `worker_node` | an exclusive task whose calls may fail and a shared one, one input, three commands of any kind | `ExecTypeOK`, `NoStrandedInput`, `ContextIsUp`, `DelayedInputIsApplied` hold |
| `worker_pause` | as `worker_node`, no failures | violated, see section 6 |
| `disk` | three writers, two items, four changes, two failing writes, a crash | `TypeOK`, `ChangeHasWriter`, `FileCatchesUp` hold |
| `discovery` | one entity, two contents, one subscriber with two filters, three requests, failing calls | `TypeOK`, `NoMissedRegistration`, `ImplementsChannel`, `EventuallyInformed` hold |
| `taskmgr` | a stream with a scope and two entities, a stream selected by type, two workers, two locations or none given, four notifications, one worker that is lost any number of times, an intent that is removed and submitted again, or submitted again at once | `TypeOK`, `OnePlace`, `InputsAreUpToDate` hold |
| `taskmgr_delete` | a stream with a scope, two entities, two workers, four notifications | violated, see section 6 |
| `designer` | an intent and a fog function, three requests, two lost connections or failed attempts, a restart, a socket that may be full | `TypeOK`, `AckedIsKept`, `StoredIsIssued`, `DisabledIsWithdrawn`, `DeletedIsWithdrawn`, `Settles` hold |
| `designer_subs` | two subscriptions, a device, three requests, a broker that ends, a designer that ends | `TypeOK`, `RecordedIsSubscribed`, `FileKeepsRecords`, `Restores` hold |
| `broker` | two entities that are there or not, a reliable subscription to both, two updates or deletions of one of them, a notification that fails | `TypeOK`, `LatestIsReceived` hold |
| `communicator` | a good and a bad command, six channels, two faults of any kind, a prefetch of one, a loop that ends or not | `TypeOK`, `HandledOnce`, `NoCommandWaits`, `Recovers`, `StopReturns` hold |

Why the bounds are enough. The worker compares tasks in pairs and looks for the
largest level, so the three levels of the form, with ties among five tasks of either kind, give every case. In
the executor races are between two goroutines of one task; three commands give
launch, terminate and restart or input, and the second task is the one that
overtakes. The disk writers race in pairs (one holds the lock, one queues, one returns);
three writers give all three roles at once, and a failing write can be followed by another one and by one that succeeds. In Discovery three requests give a
registration, its update or deletion, and a subscription, in every order, and the filters make an update that no longer
matches. For the task manager four notifications give two entities and
a move or deletion of each, or three changes of one, with and without workers (`SelectWorker` may find none at any time, so one worker that is lost and may come back is enough); a task is handled by itself except for the
list of actions that is cut short (section 6). In the designer three requests for one intent give POST and DELETE that
cross and one that follows, with a connection lost before and after; keys do not influence each other but for the
order on the wire, which needs two. In the restore two subscriptions let one be in the list and one not. In the broker
two writes give an update and a deletion, or two updates, around the sending of a list of two contents and the making of its two links; the
entity that does not change makes the list longer than one; subscriptions share nothing but the locks, and nothing is promised to one that was removed. For RabbitMQ two faults give a lost connection and a failed attempt, or a failure at each step of an attempt; a prefetch of one lets one failing
handler use it up, six channels are more than a behaviour with two faults has at a time, and an
attempt to make the communicator anew every second time, and an end after three, keep the order of the two. Every safety
property of a passing run is also proved, without these bounds, for every value of
the constants.

Runs have `CHECK_DEADLOCK FALSE` where the bounds on commands, changes or requests make the
behaviours end; `worker` has none and checks for deadlock.
Symmetry is used in `taskmgr` (workers, locations, and the two entities of a stream), where
nothing distinguishes the permuted values.

## 4. Fairness

* `NodeFairness`: goroutines that can run do run, and the docker daemon answers.
  Commands need not arrive.
* `DiskStore!Fairness`: weak fairness for each writer; strong fairness for taking
  `dbLock`, since `sync.RWMutex` starves no one. Changes and crashes need not happen.
* `Discovery!Fairness`: weak fairness for each kind of goroutine and for the
  ticker; an HTTP call returns (an assumption: `http.Client` has no timeout
  here); and a subscriber that is called infinitely often acknowledges a call, by
  strong fairness on `Acknowledge(s)`. A weaker assumption would not do: a
  subscriber that fails for ever is called for ever.
* `Designer!Fairness`: writes end, continuations run, timers fire, a socket drains, RabbitMQ takes what
  was sent, and an attempt to connect is not under way for ever. Requests, lost connections and restarts need not happen, and
  the bound makes failed attempts finite: RabbitMQ can be reached in the end.
* `DesignerSubs!Fairness`: calls are handled or fail and are answered, timers fire, the broker comes back, and the designer is
  started again when it ended (`restart: always` in `docker/core/http/docker-compose.yml`).
* `Communicator!Fairness`: goroutines run, the timer of five seconds fires, RabbitMQ delivers what it may and notices in the end that
  a consumer is gone (heartbeats of AMQP). Commands, faults and shutdown need not come.
* `Worker`, `TaskMgr` and `ThinBroker` have safety properties only. `LatestIsReceived` is about states in which nothing
  is under way.

## 5. Proofs

All are for every value of the constants, under the assumptions declared with them (`ASSUME`: sizes, finiteness, disjointness). No theorem
has a further hypothesis.

* `WorkerNodeProofs`, the task list. `TypeCorrect`, `NoTaskIsOutranked` (`NoneIsOutranked`) and `PausedTasksAreStrandedByDemotionOnly`
  (`OnlyDemotionStrands`), for any priorities, shared levels and tasks that come again with another priority. For the first, REMOVE_TASK is
  the point: what it restarts has the largest level of the paused exclusive tasks, and no exclusive task that runs is left. The second is an action property,
  since its state predicate (`PausedIsOutranked`) does break: the ADD_TASK of a known exclusive task with a lower level compares the task with
  its old self and pauses it, and then nothing runs that others wait for. It is shown that no other command does this, and that the removal of the last running exclusive
  task always restores the predicate. `NodeImplementsTaskList` is a refinement: every step of the worker process is a step of
  the task list or leaves it alone, so what holds of the list holds in the process (`NodeKeepsTheRanks`).
* `WorkerNodeProofs`, the executor. `ExecTypeCorrect`, `InputsAreNotStranded` and `ContextsAreUp`. The invariant
  `ExecInv` adds that names of containers and routines are older than `fresh`, that the
  container of a launch that has not stored its context is nobody else's, that a container
  has one owner, and that a routine in its cleanup belongs to the container it
  stops. Without these facts a stale `TerminateTask` could stop a container that a
  context of another task refers to.
* `DiskStoreProofs`. `TypeCorrect`, `NoChangeIsLost`. The invariant
  says that the holder of `dbLock` is the one writer past `LockDb` and before `UnlockDb`, that the
  flag is up only while that writer is between `SetScheduled` and `ClearScheduled`, and
  that after `WriteFile` the file equals the list as long as the read lock is held, unless the write failed. The point of the
  proof: a request that finds the flag up has changed the list before the writer's snapshot,
  because the flag is cleared under the read lock of the list.
* `DiscoveryProofs`. `TypeCorrect`; `NobodyMissesARegistration`: the registering side
  stores and then reads the subscriptions, the subscribing side stores and then
  reads the registrations, so one of them sees the other. The invariant adds that a
  registration object belongs to one entity, so an announcer that is on its way
  reads the latest version. `NotificationsAreKept` is the refinement of `NotifyChannel`: every
  step maps to a `Send`, a `Receive` or a stutter.

* `DesignerProofs`, the file. `TypeCorrect` and `AnswersAreKept`. The invariant `IInv` adds that a write waits only while another is
  under way (`NoGap`), that memory, the file and every write under way have what the last
  answer promised (`Kept`), and that a handler which waits, and is the last for its key, waits for a write that
  has its change (`Waiting`). The point: a later handler's content includes the change of an earlier one, so merging writes loses nothing.
* `DesignerProofs`, the messages. `StoredIntentsAreIssued`, `DisabledFunctionsAreWithdrawn` and `DeletedIntentsAreWithdrawn`. The invariant
  `WordsInv` looks at `Outlook`, the messages on the wire followed by the queue as it would be sent now, and at the last one in it about each
  intent. For what is enabled in memory that one is an ADD, or the POST has still to publish it, or the first connection
  has still to issue it (`EnabledIsOnItsWay`); for what is deleted or disabled it is a DELETE (`OffIsOnItsWay`). The second is also stated of the file and
  of the write under way, since a restart makes them the memory: there a handler that waits for a later write is an excuse. A queue that waits
  for `drain` keeps a message it has sent (`HeadIsSent`); repeating it changes no last word, since an object of the same intent that
  is sent meanwhile is the same one or counts as overtaken.
* `DesignerSubsProofs`. `TypeCorrect`, `RecordsAreKept` and `RestoredIsSubscribed`. The invariant `SubsInv` has three parts. `KeepInv`:
  an ID the broker has just given is in no record and in no other call, a call that removes a record was made for it,
  and each content that is to be written has what the one before it has, deleted things apart. `IdsAgree`: broker and records never
  have different things under one ID. `ListIsCurrent`: since the broker's list each record is known to the
  broker, or a call is under way that renews or removes it.
* `CommunicatorProofs`. `TypeCorrect` and `CommandsAreHandledOnce`. The invariant `OnceInv` says that without an overlap RabbitMQ knows
  the last channel only. So what it takes back has no queue to go to, and a command has one handler at most.
* `ThinBrokerProofs`. `TypeCorrect` and `SubscribersGetTheLatest`. The invariant adds that no content is numbered beyond the writes
  that were applied (`Numbered`), that what is under way for a subscription fits the state it is in (`StatesAgree`), and
  `NobodyIsForgotten`: a subscriber that listens is owed the latest content of a registered entity by something that is under way, unless
  it has it, or one of the exceptions of `LatestIsReceived` has happened. When nothing is under way only the
  first is left.
* `TaskMgrProofs`. `TypeCorrect` rests on what the loops of a handler keep (`JobIsSound`, `KeysAreKept`).
  `InputsFollowTheirEntities` (`InputsAreUpToDate`): the inputs of a task that have an ID have the locations last given for their entities when no
  handler is at work, whatever the streams. The
  invariant says that the inputs of a task fit its group (`GroupsFit`), that no two inputs with an ID are one entity
  (`InputsDiffer`), that the location last given is the one of the registration (`ToldIsReceived`), and that an input whose location is old is compared
  before the handler ends (`StaleIsCompared`).
  `TasksFollowAvailability` (`PlanFollowsAvailability`, not in a run): with one stream grouped by entity ID there is a task for each available
  entity. The invariant `PlanIsOnItsWay` follows the group of an entity
  through the handler that expands or reduces it.
  `TasksAreInOnePlace` (`OnePlace`): a task has one worker at most. The invariant `PlaceInv` says that where a task is, by the
  orders of the calls, is where the deployment plan has it, lost workers and tasks that went astray apart, and but for the actions that are still in the handler's list
  (`FlowsEnd`, `NowhereElse`), and that a list has one ADD_TASK at most for such a task, after the REMOVE_TASK for it (`ActsAreSound`). So a
  handler that gives up between the two leaves the task nowhere, and never in two places. Section 6 describes the tasks that go astray.

Every invariant and every refinement that a passing run checks is stated by one of these theorems. Only model-checked: the liveness properties
`DelayedInputIsApplied`, `FileCatchesUp`, `EventuallyInformed`, `Settles`, `Restores`,
`NoCommandWaits`, `Recovers` and `StopReturns`, since the prover does not handle fairness; and the violations.

## 6. Where code and documents disagree

* `worker_pause`: "pause this task temporarily" (`worker/worker.go:268`). When the
  `TerminateTask` goroutine looks for the context before `LaunchTask` has stored it, it
  returns, and the container of the paused task stays.
* `taskmgr_delete`: "remove it from the task inputs" (`master/taskMgr.go:503`). The handler of DELETE returns before it deletes
  the registration (line 216), so the next notification of the group makes the deleted entity an input again.
* `worker_exclusive`: an exclusive topology "will not share the resources with any task from other topologies"
  (`docs/en/source/core_concept.rst:114`). The intent form gives exclusive and inclusive intents the same three levels
  (`designer/public/js/topology.js:663`). On REMOVE_TASK the worker finds no exclusive task of level 0 (`worker/worker.go:345`), and
  restarts every task of the level it found, inclusive ones too (line 355).

Behaviours that the models have as well and that no run is about (several are the exceptions that a property names, and hazards
without a property in `PROJECT.json`):

* "stop all running tasks" (`worker/executor.go:396`): tasks that are being launched are not found, and
  `StopContainer` calls die with the process.
* "check if the dblock was already taken ... then just return" (`discovery/repository.go:250`): the flag that is checked is
  set after the lock is taken, so a second writer queues. No change is lost by this (`NoChangeIsLost`).
* "send those in the cache first" (`discovery/fastDiscovery.go:366`): the resender is a goroutine that nobody waits for.
* "remove the group key from the table" (`master/taskMgr.go:519`) only logs; the key of a deleted entity is combined with
  the keys of the other streams, and a task may be planned that has no input on one of them.
* An intent that is submitted again installs a flow with an empty deployment plan (`master/taskMgr.go:918`); the tasks of the
  flow before it are forgotten. (Tasks go astray in this way, and in the two that follow below.)
* ADD_TASK is published by a goroutine (`master/master.go:444`), REMOVE_TASK at once, so the latter may be first on the bus and the
  task stays.
* "one instance for each entity ID of the input streams" (`docs/en/source/intent_based_program.rst:796`): two tasks share an
  input that moves while no worker is free. Both lose their worker in the execution plan, the handler returns after the first
  (`master/taskMgr.go:1040`), and the second still runs. When the input moves again, it is deployed anew.
* The inputs of a task are told apart by the entity ID that the notification has (`master/taskMgr.go:347`), and inputs of streams that
  are selected by type have none. With two such streams a notification of one changes the
  input of the other, and one handler may plan two migrations of the task. The registration of such a stream keeps the first
  location (`master/taskMgr.go:184`), which is why `InputsAreUpToDate` speaks of inputs with an ID.
* A TerminateTask that belongs to an earlier pause drops the context of the restarted task; later inputs of it are delayed for ever.
* A subscription that is deleted in the delay before its restore (`designer/main.js:120`) is issued again and recorded, although
  the user got 200 for "delete a specific subscription" (`docs/en/source/api.rst:1551`).
* DELETE of an intent that comes while the POST of it waits for the file is published first; the master keeps the intent. A
  message published while the queue waits for `drain` overtakes those in the queue. What was in the socket when the connection broke
  is not sent again before the designer is restarted. These are the exceptions of `StoredIsIssued`,
  `DisabledIsWithdrawn` and `DeletedIsWithdrawn`.
* A failure of the second request of a restore ends the designer's process (`designer/main.js:89`).
* The broker keeps `entities_lock` or `e2sub_lock` after a nil pointer (see `ThinBroker`): updates are blocked from then on.
  An update between the current contents and the link is not sent; of two availability notifications before the answer to
  the subscription only the last is kept. These are the exceptions of `LatestIsReceived`.
* After an error in `consume` nothing clears `consuming`, and `StopConsuming` blocks (`communicator.go:109`), the exception of
  `StopReturns`. A worker that may give up does so after ten failures in its whole life, however far apart. If it ends when the
  queue is declared and has never had a consumer, the queue and its commands stay (the exception of `NoCommandWaits`).
* "the new subscription will be written by the already scheduled write to file" (`discovery/repository.go:251`), unless that write fails: the
  error is logged, nobody repeats the write, and the file may stay truncated until the next change.
* An exclusive task that comes again with a lower level, from an intent that was changed, is compared with its old self
  (`worker/worker.go:249`) and paused; nothing is restarted in its place until a REMOVE_TASK leaves no exclusive task running.

## 7. Plan

In this order:

1. `Master`: worker registry with heartbeats, liveness and workloads, `SelectWorker` by distance and load, PATCH_TASK,
   and the broker list of Discovery, which has the same shape. Abstract specification: a membership service that drops only
   silent workers.
2. `TaskMgr`: topologies with several tasks; notifications that come before the subscription is
   recorded, in composition with `Discovery`.
3. Compositions: `TaskMgr` with `WorkerNode`, where the commands of the one are the inputs of the other, reordered as the bus
   does (property: a removed task is not left running); `Designer` with the intents of `TaskMgr`; `DesignerSubs` with `ThinBroker`.
4. `ThinBroker`: subscriptions by type, entities of other brokers, prosumers.
5. Pure algorithms against reference definitions: matching of registrations with
   filters, `updateRegistrationInMemory`, `updateAttributes`, `hasUpdatedMetadata`, `getRelevantGroups`, `SelectWorker`.
6. The designer's catalogues (operators, images, topologies, services), which are stored like intents and publish nothing.

## 8. Not modelled

Image pulling, ports, volumes and end point services of the executor; the kubernetes,
edge controller and airflow engines, which stand behind the same interface; JSON and NGSI
conversions (NGSI-LD, NGSIv2); configuration, logging, TLS, start-up; the designer's catalogues, proxies and uploads;
its web pages, which show what the server has and send the requests that the models take as inputs; the command line,
operators and example applications. They hold no concurrent state of the core, or are calls of external
programs. Crashes of Discovery between a notification and its acknowledgement are not
modelled: the code does not try to recover from them.

By lines, most of the JavaScript of the repository is libraries for the browser (`designer/public/lib`: d3, nvd3, blocks,
bootstrap), web pages, and examples; the server of the designer has about 1,200 lines of it, of which the models cover the
handlers that keep state. The rest of the core is Go: of `worker`, `discovery`, `master`, `broker` and `common/communicator`
the models cover the parts named in section 2.
