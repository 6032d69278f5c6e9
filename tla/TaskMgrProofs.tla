--------------------------- MODULE TaskMgrProofs ----------------------------
(***************************************************************************)
(* Theorems about TaskMgr, for any topology, entities, workers, intents    *)
(* and bounds: types; that the inputs of the planned tasks are up to date; *)
(* that the plan follows the available entities; and that a task is in one *)
(* place.                                                                  *)
(***************************************************************************)
EXTENDS TaskMgr, SequenceTheorems, TLAPS

JobType == [pc : {"idle", "expand", "reduce", "deploy", "end"},
            stream : Stream \cup {None}, key : Ids, groups : SUBSET Group,
            cur : Group, ents : SUBSET Input, acts : Seq(Action),
            worker : Worker \cup {None}]

TypeInv == TypeOK /\ JobIsSound /\ KeysAreKept

-----------------------------------------------------------------------------
(* The helpers                                                             *)

LEMMA EmptyType ==
    /\ Empty \in Group /\ DOMAIN Empty = {}
    /\ \A T : Empty \in [{} -> T]
BY DEF Empty, Group

LEMMA PutType ==
    ASSUME NEW T, NEW f, f \in [DOMAIN f -> T], NEW k, NEW v \in T
    PROVE  /\ Put(f, k, v) \in [DOMAIN f \cup {k} -> T]
           /\ DOMAIN Put(f, k, v) = DOMAIN f \cup {k} /\ Put(f, k, v)[k] = v
           /\ \A x \in DOMAIN f : x # k => Put(f, k, v)[x] = f[x]
BY DEF Put

LEMMA DelType ==
    ASSUME NEW T, NEW f, f \in [DOMAIN f -> T], NEW k
    PROVE  /\ Del(f, k) \in [DOMAIN f \ {k} -> T] /\ DOMAIN Del(f, k) = DOMAIN f \ {k}
           /\ \A x \in DOMAIN f : x # k => Del(f, k)[x] = f[x]
BY DEF Del

LEMMA ActType ==
    ASSUME NEW op \in {"ADD_TASK", "REMOVE_TASK", "ADD_INPUT", "REMOVE_INPUT", "nil"},
           NEW t \in Group, NEW w \in Worker \cup {None}
    PROVE  /\ Act(op, t, w) \in Action /\ <<Act(op, t, w)>> \in Seq(Action)
           /\ Act(op, t, w).op = op /\ Act(op, t, w).task = t /\ Act(op, t, w).worker = w
BY DEF Act, Action

LEMMA IdleType ==
    /\ Idle \in JobType /\ Idle.pc = "idle" /\ Idle.ents = {} /\ Idle.groups = {} /\ Idle.acts = <<>>
<1>1. Empty \in Group /\ "*" \in Ids /\ <<>> \in Seq(Action) BY EmptyType DEF Ids
<1> QED BY <1>1 DEF Idle, JobType

\* The key of a notification, and the value that it has in a group.
LEMMA KeyType ==
    ASSUME NEW e \in Entity
    PROVE  /\ TypeOf[e] \in Stream /\ Key(e) \in Ids
           /\ Value(TypeOf[e], Key(e)) \in GroupValue
           /\ IF Simple(TypeOf[e]) THEN Key(e) = "*" ELSE Key(e) = e /\ Key(e) \in Entity
BY FogFlowAssumption DEF Key, Ids, Value, GroupValue, Simple

LEMMA GroupsType ==
    ASSUME NEW s \in Stream, NEW k, NEW keys
    PROVE  RelevantGroups(s, k, keys) \subseteq Group
BY DEF RelevantGroups, Group

\* The registrations of a stream.
LEMMA ReceivedType ==
    ASSUME TypeOK, NEW s \in Stream
    PROVE  DOMAIN received[s] \subseteq Ids /\ received[s] \in [DOMAIN received[s] -> Loc]
BY DEF TypeOK

LEMMA EntitiesType ==
    ASSUME TypeOK, KeysAreKept, NEW g
    PROVE  RelevantEntities(g) \subseteq Input
<1> SUFFICES ASSUME NEW s \in subs, NEW k \in Ids, k \in DOMAIN received[s]
             PROVE  [type |-> s, id |-> IF Simple(s) THEN "" ELSE k, loc |-> received[s][k]] \in Input
    BY DEF RelevantEntities
<1>1. s \in Stream BY DEF TypeOK
<1>2. received[s][k] \in Loc BY <1>1, ReceivedType
<1>3. ~Simple(s) => k \in Entity BY <1>1 DEF KeysAreKept
<1> QED BY <1>1, <1>2, <1>3 DEF Input

LEMMA WorkerChosen ==
    ASSUME TypeOK, NEW S, NEW w \in SelectWorker(S)
    PROVE  w \in workers \cup {None} /\ w \in Worker \cup {None}
BY DEF SelectWorker, TypeOK

LEMMA RemovedType ==
    ASSUME TypeOK, NEW t \in Group
    PROVE  removeExistingTask(t) \in Seq(Action)
BY ActType DEF removeExistingTask, TypeOK

-----------------------------------------------------------------------------
(* Types                                                                   *)

LEMMA TypeKept ==
    ASSUME TypeOK, UNCHANGED vars
    PROVE  TypeOK'
<1>1. /\ UNCHANGED <<fid, subs, received, uniqueKeys, plan, deployed, job>>
      /\ UNCHANGED <<workers, flows, setups, recorded, curNumOfTasks, adding, onWorker, issued, crashed, notes,
                     available, told, lost, astray>>
    BY DEF vars, intents, flow, bus, heard, strays
<1> QED BY <1>1 DEF TypeOK

\* The actions that leave the flow and the handler alone.
LEMMA OutsideTypes ==
    ASSUME TypeInv,
           \/ \E w \in Worker : WorkerJoin(w) \/ WorkerLost(w)
           \/ \E a \in adding : PublishAddTask(a)
           \/ \E i \in Intent : HandleServiceIntent(i)
           \/ \E x \in setups : RecordIntent(x)
           \/ UNCHANGED vars
    PROVE  TypeInv'
<1>1. UNCHANGED <<fid, subs, received, uniqueKeys, plan, deployed, job>>
    BY DEF WorkerJoin, WorkerLost, PublishAddTask, HandleServiceIntent, RecordIntent, vars, flow
<1>2. JobIsSound' /\ KeysAreKept' BY <1>1 DEF TypeInv, JobIsSound, KeysAreKept
<1>3. ASSUME NEW w \in Worker, WorkerJoin(w) \/ WorkerLost(w) PROVE TypeOK'
    BY <1>1, <1>3 DEF TypeInv, TypeOK, WorkerJoin, WorkerLost, intents, bus, heard, strays
<1>4. ASSUME NEW a \in adding, PublishAddTask(a) PROVE TypeOK'
    <2>1. <<a.task, a.worker>> \in Group \X Worker BY DEF TypeInv, TypeOK
    <2> QED BY <1>1, <1>4, <2>1 DEF TypeInv, TypeOK, PublishAddTask, intents, heard, strays
<1>5. ASSUME NEW i \in Intent, HandleServiceIntent(i) PROVE TypeOK'
    <2>1. flows' \in 1..MaxFlows
        <3>1. flows \in Nat /\ MaxFlows \in Nat /\ flows < MaxFlows /\ flows' = flows + 1
            BY <1>5, TaskMgrAssumption DEF HandleServiceIntent, TypeInv, TypeOK
        <3> QED BY <3>1
    <2>2. PICK S \in Subscribable :
              setups' = setups \cup {[fid |-> flows', intent |-> i, subs |-> S, pc |-> "install"]}
        BY <1>5 DEF HandleServiceIntent
    <2>3. S \in SUBSET Stream BY TaskMgrAssumption
    <2>4. setups' \subseteq [fid : 1..MaxFlows, intent : Intent, subs : SUBSET Stream, pc : {"install", "record"}]
        BY <2>1, <2>2, <2>3 DEF TypeInv, TypeOK
    <2>5. flows' \in 0..MaxFlows BY <2>1
    <2> QED BY <1>1, <1>5, <2>4, <2>5 DEF TypeInv, TypeOK, HandleServiceIntent, bus, heard, strays
<1>6. ASSUME NEW x \in setups, RecordIntent(x) PROVE TypeOK'
    <2>1. x.intent \in Intent BY DEF TypeInv, TypeOK
    <2>2. setups' \subseteq setups /\ recorded' \subseteq Intent
        BY <1>6, <2>1 DEF RecordIntent, TypeInv, TypeOK
    <2> QED BY <1>1, <1>6, <2>2 DEF TypeInv, TypeOK, RecordIntent, bus, heard, strays
<1>7. CASE UNCHANGED vars
    BY <1>2, <1>7, TypeKept DEF TypeInv
<1> QED BY <1>2, <1>3, <1>4, <1>5, <1>6, <1>7 DEF TypeInv

\* The installation and the removal of a flow.
LEMMA FlowTypes ==
    ASSUME TypeInv,
           \/ \E x \in setups : InstallFlow(x)
           \/ \E i \in Intent : RemoveServiceIntent(i)
           \/ \E t \in DOMAIN deployed : EndTask(t)
           \/ DeleteFlow
    PROVE  TypeInv'
<1>0. job \in JobType BY DEF TypeInv, TypeOK, JobType
<1>1. ASSUME NEW x \in setups, InstallFlow(x) PROVE TypeInv'
    <2>1. x \in [fid : 1..MaxFlows, intent : Intent, subs : SUBSET Stream, pc : {"install", "record"}]
        BY DEF TypeInv, TypeOK
    <2>2. /\ [x EXCEPT !.pc = "record"]
                \in [fid : 1..MaxFlows, intent : Intent, subs : SUBSET Stream, pc : {"install", "record"}]
          /\ x.fid \in 0..MaxFlows /\ x.subs \subseteq Stream
        BY <2>1
    <2>3. /\ received' \in [Stream -> UNION {[K -> Loc] : K \in SUBSET Ids}]
          /\ uniqueKeys' \in [Stream -> SUBSET GroupValue]
        BY <1>1, EmptyType DEF InstallFlow
    <2>4. /\ DOMAIN plan' \subseteq Group /\ plan' \in [DOMAIN plan' -> Task]
          /\ DOMAIN deployed' \subseteq Group /\ deployed' \in [DOMAIN deployed' -> Worker]
        BY <1>1, EmptyType DEF InstallFlow
    <2>5. KeysAreKept' BY <1>1, EmptyType DEF InstallFlow, KeysAreKept
    <2>6. setups' \subseteq [fid : 1..MaxFlows, intent : Intent, subs : SUBSET Stream, pc : {"install", "record"}]
        BY <1>1, <2>2 DEF InstallFlow, TypeInv, TypeOK
    <2>7. JobIsSound' BY <1>1 DEF InstallFlow, TypeInv, JobIsSound
    <2>8. told' \in [Entity -> Loc] BY <1>1, FogFlowAssumption DEF InstallFlow
    <2>9. astray' \subseteq Group
        <3>1. \A p \in issued : p[1] \in Group BY DEF TypeInv, TypeOK
        <3> QED BY <1>1, <3>1 DEF InstallFlow, TypeInv, TypeOK
    <2>10. TypeOK' BY <1>1, <2>2, <2>3, <2>4, <2>6, <2>8, <2>9 DEF InstallFlow, TypeInv, TypeOK, bus
    <2> QED BY <2>5, <2>7, <2>10 DEF TypeInv
<1>2. ASSUME NEW i \in Intent, RemoveServiceIntent(i) PROVE TypeInv'
    <2>1. UNCHANGED <<fid, subs, received, uniqueKeys, plan, deployed>> BY <1>2 DEF RemoveServiceIntent, flow
    <2>2. KeysAreKept' BY <2>1 DEF TypeInv, KeysAreKept
    <2>3. DOMAIN deployed \subseteq Group BY DEF TypeInv, TypeOK
    <2>4. job' \in JobType /\ JobIsSound' /\ crashed' \in BOOLEAN
        <3>1. CASE fid = 0 BY <1>0, <1>2, <3>1 DEF RemoveServiceIntent, TypeInv, JobIsSound
        <3>2. CASE fid # 0
            <4> DEFINE j == [Idle EXCEPT !.pc = "end", !.groups = DOMAIN deployed]
            <4>1. j \in JobType /\ j.pc = "end" /\ j.ents = {} BY <2>3, IdleType DEF JobType
            <4>2. job' = j /\ UNCHANGED crashed BY <1>2, <3>2 DEF RemoveServiceIntent
            <4> HIDE DEF j
            <4> QED BY <4>1, <4>2 DEF JobIsSound, TypeInv, TypeOK
        <3> QED BY <3>1, <3>2
    <2>5. TypeOK' BY <1>2, <2>1, <2>4 DEF RemoveServiceIntent, TypeInv, TypeOK, JobType, bus, heard, strays
    <2> QED BY <2>2, <2>4, <2>5 DEF TypeInv
<1>3. ASSUME NEW t \in DOMAIN deployed, EndTask(t) PROVE TypeInv'
    <2>1. /\ UNCHANGED <<fid, subs, received, uniqueKeys, plan, deployed, curNumOfTasks, adding>>
          /\ issued' \subseteq issued /\ onWorker' \subseteq onWorker
        BY <1>3 DEF EndTask, TerminateTask, flow
    <2>2. KeysAreKept' BY <2>1 DEF TypeInv, KeysAreKept
    <2>3. job' \in JobType /\ JobIsSound' BY <1>0, <1>3 DEF EndTask, At, TypeInv, JobIsSound, JobType
    <2>4. TypeOK' BY <1>3, <2>1, <2>3 DEF EndTask, TypeInv, TypeOK, JobType, intents, heard, strays
    <2> QED BY <2>2, <2>3, <2>4 DEF TypeInv
<1>4. CASE DeleteFlow
    <2>1. UNCHANGED <<subs, received, uniqueKeys>> BY <1>4 DEF DeleteFlow
    <2>2. KeysAreKept' BY <2>1 DEF TypeInv, KeysAreKept
    <2>3. job' \in JobType /\ JobIsSound' BY <1>4, IdleType DEF DeleteFlow, JobIsSound
    <2>4. /\ DOMAIN plan' \subseteq Group /\ plan' \in [DOMAIN plan' -> Task]
          /\ DOMAIN deployed' \subseteq Group /\ deployed' \in [DOMAIN deployed' -> Worker]
          /\ fid' \in 0..MaxFlows
        BY <1>4, EmptyType, TaskMgrAssumption DEF DeleteFlow
    <2>5. TypeOK' BY <1>4, <2>1, <2>3, <2>4 DEF DeleteFlow, TypeInv, TypeOK, JobType, intents, bus, heard, strays
    <2> QED BY <2>2, <2>3, <2>5 DEF TypeInv
<1> QED BY <1>1, <1>2, <1>3, <1>4

\* What a notification does to the registrations and the keys.
LEMMA NotifyUpdateEffect ==
    ASSUME TypeInv, NEW e \in Entity, NEW l \in Loc, NotifyUpdate(e, l)
    PROVE  /\ UNCHANGED <<workers, intents, fid, subs, plan, deployed, bus, crashed, strays>>
           /\ notes' \in 0..MaxNotes /\ TypeOf[e] \in subs /\ fid # 0 /\ job = Idle
           /\ DOMAIN received'[TypeOf[e]] = DOMAIN received[TypeOf[e]] \cup {Key(e)}
           /\ \A k \in DOMAIN received[TypeOf[e]] :
                 k # Key(e) => received'[TypeOf[e]][k] = received[TypeOf[e]][k]
           /\ \A s \in Stream : s # TypeOf[e] => received'[s] = received[s]
           /\ received' \in [Stream -> UNION {[K -> Loc] : K \in SUBSET Ids}]
           /\ uniqueKeys' = [uniqueKeys EXCEPT ![TypeOf[e]] = @ \cup {Value(TypeOf[e], Key(e))}]
           /\ uniqueKeys' \in [Stream -> SUBSET GroupValue]
           /\ IF InputsAvailable(received')
              THEN job' = [Idle EXCEPT !.pc = "expand", !.stream = TypeOf[e], !.key = Key(e),
                                       !.groups = RelevantGroups(TypeOf[e], Key(e), uniqueKeys')]
              ELSE job' = job
<1> DEFINE s == TypeOf[e]
           k == Key(e)
<1>0. /\ s \in Stream /\ k \in Ids /\ Value(s, k) \in GroupValue
    BY KeyType
<1>1. DOMAIN received[s] \subseteq Ids /\ received[s] \in [DOMAIN received[s] -> Loc]
    BY <1>0, ReceivedType DEF TypeInv
<1>2. received' = IF k \in DOMAIN received[s] /\ (Simple(s) \/ l = NoLoc) THEN received
                  ELSE [received EXCEPT ![s] = Put(received[s], k, l)]
    BY DEF NotifyUpdate
<1>3. uniqueKeys' = [uniqueKeys EXCEPT ![s] = @ \cup {Value(s, k)}] BY DEF NotifyUpdate
<1>4. IF InputsAvailable(received')
      THEN job' = [Idle EXCEPT !.pc = "expand", !.stream = s, !.key = k,
                               !.groups = RelevantGroups(s, k, uniqueKeys')]
      ELSE job' = job
    BY DEF NotifyUpdate
<1>5. /\ UNCHANGED <<workers, intents, fid, subs, plan, deployed, bus, crashed, strays>>
      /\ notes' \in 0..MaxNotes /\ s \in subs /\ fid # 0 /\ job = Idle
    <2>1. notes \in 0..MaxNotes /\ notes < MaxNotes /\ notes' = notes + 1 /\ MaxNotes \in Nat
        BY TaskMgrAssumption DEF NotifyUpdate, Note, TypeInv, TypeOK
    <2>2. notes' \in 0..MaxNotes BY <2>1
    <2> QED BY <2>2 DEF NotifyUpdate, Note, At, TypeInv, JobIsSound
<1>6. uniqueKeys' \in [Stream -> SUBSET GroupValue] BY <1>0, <1>3 DEF TypeInv, TypeOK
<1>7. CASE k \in DOMAIN received[s] /\ (Simple(s) \/ l = NoLoc)
    <2>1. received' = received BY <1>2, <1>7
    <2>2. received \in [Stream -> UNION {[K -> Loc] : K \in SUBSET Ids}] BY DEF TypeInv, TypeOK
    <2>3. DOMAIN received[s] \cup {k} = DOMAIN received[s] BY <1>7
    <2> QED BY <1>3, <1>4, <1>5, <1>6, <2>1, <2>2, <2>3
<1>8. CASE ~(k \in DOMAIN received[s] /\ (Simple(s) \/ l = NoLoc))
    <2>0. received \in [Stream -> UNION {[K -> Loc] : K \in SUBSET Ids}] BY DEF TypeInv, TypeOK
    <2> DEFINE f == Put(received[s], k, l)
    <2>1. /\ f \in [DOMAIN received[s] \cup {k} -> Loc] /\ DOMAIN f = DOMAIN received[s] \cup {k}
          /\ \A x \in DOMAIN received[s] : x # k => f[x] = received[s][x]
        BY <1>1 DEF Put
    <2>2. DOMAIN received[s] \cup {k} \in SUBSET Ids BY <1>0, <1>1
    <2> HIDE DEF f
    <2>3. f \in UNION {[K -> Loc] : K \in SUBSET Ids} BY <2>1, <2>2
    <2>4. received' = [received EXCEPT ![s] = f] BY <1>2, <1>8 DEF f
    <2>5. received'[s] = f /\ \A u \in Stream : u # s => received'[u] = received[u]
        BY <1>0, <2>0, <2>4
    <2>6. received' \in [Stream -> UNION {[K -> Loc] : K \in SUBSET Ids}] BY <1>0, <2>0, <2>3, <2>4
    <2> QED BY <1>3, <1>4, <1>5, <1>6, <2>1, <2>5, <2>6
<1> QED BY <1>7, <1>8

LEMMA NotifyUpdateTypes ==
    ASSUME TypeInv, NEW e \in Entity, NEW l \in Loc, NotifyUpdate(e, l)
    PROVE  TypeInv'
<1> DEFINE s == TypeOf[e]
           k == Key(e)
<1>0. /\ s \in Stream /\ k \in Ids /\ (IF Simple(s) THEN k = "*" ELSE k = e /\ k \in Entity)
    BY KeyType
<1>1. RelevantGroups(s, k, uniqueKeys') \subseteq Group BY <1>0, GroupsType
<1>2. job' \in JobType /\ JobIsSound'
    <2>1. CASE InputsAvailable(received')
        <3> DEFINE j == [Idle EXCEPT !.pc = "expand", !.stream = s, !.key = k,
                                     !.groups = RelevantGroups(s, k, uniqueKeys')]
        <3>1. j \in JobType /\ j.pc = "expand" BY <1>0, <1>1, IdleType DEF JobType
        <3>2. job' = j BY <2>1, NotifyUpdateEffect
        <3> HIDE DEF j
        <3> QED BY <3>1, <3>2 DEF JobIsSound
    <2>2. CASE ~InputsAvailable(received')
        BY <2>2, IdleType, NotifyUpdateEffect DEF JobIsSound
    <2> QED BY <2>1, <2>2
<1>3. KeysAreKept'
    <2> SUFFICES ASSUME NEW u \in Stream
                 PROVE  /\ uniqueKeys'[u] # {} => u \in subs'
                        /\ \A x \in DOMAIN received'[u] :
                              /\ Value(u, x) \in uniqueKeys'[u]
                              /\ IF Simple(u) THEN x = "*" ELSE x \in Entity /\ TypeOf[x] = u
        BY DEF KeysAreKept
    <2>1. uniqueKeys'[u] = IF u = s THEN uniqueKeys[u] \cup {Value(s, k)} ELSE uniqueKeys[u]
        <3>1. uniqueKeys' = [uniqueKeys EXCEPT ![s] = @ \cup {Value(s, k)}] BY NotifyUpdateEffect
        <3> QED BY <1>0, <3>1 DEF TypeInv, TypeOK
    <2>2. subs' = subs /\ s \in subs BY NotifyUpdateEffect
    <2>3. CASE u = s
        <3>1. DOMAIN received'[s] = DOMAIN received[s] \cup {k} BY NotifyUpdateEffect
        <3> QED BY <1>0, <2>1, <2>2, <2>3, <3>1 DEF TypeInv, KeysAreKept
    <2>4. CASE u # s
        <3>1. received'[u] = received[u] BY <2>4, NotifyUpdateEffect
        <3> QED BY <2>1, <2>2, <2>4, <3>1 DEF TypeInv, KeysAreKept
    <2> QED BY <2>3, <2>4
<1>4. available' \subseteq Entity /\ told' \in [Entity -> Loc] BY DEF NotifyUpdate, TypeInv, TypeOK
<1>5. TypeOK' BY <1>2, <1>4, NotifyUpdateEffect DEF TypeInv, TypeOK, JobType, intents, bus, strays
<1> QED BY <1>2, <1>3, <1>5 DEF TypeInv

LEMMA NotifyDeleteTypes ==
    ASSUME TypeInv, NEW e \in Entity, NotifyDelete(e)
    PROVE  TypeInv'
<1> DEFINE s == TypeOf[e]
           k == Key(e)
<1>0. s \in Stream /\ k \in Ids BY KeyType
<1>1. RelevantGroups(s, k, uniqueKeys) \subseteq Group BY <1>0, GroupsType
<1>2. /\ UNCHANGED <<workers, flows, setups, recorded, curNumOfTasks, adding, onWorker, issued, crashed, lost,
                     astray, fid, subs, uniqueKeys, plan, deployed>>
      /\ notes' \in 0..MaxNotes /\ available' \subseteq Entity /\ told' \in [Entity -> Loc] /\ job = Idle
    <2>1. notes \in 0..MaxNotes /\ notes < MaxNotes /\ notes' = notes + 1 /\ MaxNotes \in Nat
        BY TaskMgrAssumption DEF NotifyDelete, Note, TypeInv, TypeOK
    <2>2. notes' \in 0..MaxNotes BY <2>1
    <2>3. told' \in [Entity -> Loc] BY FogFlowAssumption DEF NotifyDelete, TypeInv, TypeOK
    <2> QED BY <2>2, <2>3 DEF NotifyDelete, Note, At, TypeInv, TypeOK, JobIsSound, intents, bus, strays
<1>3. job' \in JobType /\ JobIsSound'
    <2>1. CASE InputsAvailable(received)
        <3> DEFINE j == [Idle EXCEPT !.pc = "reduce", !.stream = s, !.key = k,
                                     !.groups = RelevantGroups(s, k, uniqueKeys)]
        <3>1. j \in JobType /\ j.pc = "reduce" /\ j.ents = {} BY <1>0, <1>1, IdleType DEF JobType
        <3>2. job' = j BY <2>1 DEF NotifyDelete
        <3> HIDE DEF j
        <3> QED BY <3>1, <3>2 DEF JobIsSound
    <2>2. CASE ~InputsAvailable(received)
        <3>1. job' = Idle BY <1>2, <2>2 DEF NotifyDelete
        <3> QED BY <3>1, IdleType DEF JobIsSound
    <2> QED BY <2>1, <2>2
<1>4. received' \in [Stream -> UNION {[K -> Loc] : K \in SUBSET Ids}] /\ KeysAreKept'
    <2>0. received \in [Stream -> UNION {[K -> Loc] : K \in SUBSET Ids}] BY DEF TypeInv, TypeOK
    <2>1. CASE InputsAvailable(received)
        <3>1. received' = received BY <2>1 DEF NotifyDelete
        <3> QED BY <1>2, <2>0, <3>1 DEF TypeInv, KeysAreKept
    <2>2. CASE ~InputsAvailable(received)
        <3> DEFINE f == Del(received[s], k)
        <3>1. DOMAIN received[s] \subseteq Ids /\ received[s] \in [DOMAIN received[s] -> Loc]
            BY <1>0, ReceivedType DEF TypeInv
        <3>2. f \in [DOMAIN received[s] \ {k} -> Loc] /\ DOMAIN f = DOMAIN received[s] \ {k}
            BY <3>1 DEF Del
        <3>3. DOMAIN received[s] \ {k} \in SUBSET Ids BY <3>1
        <3>4. received' = [received EXCEPT ![s] = f] BY <2>2 DEF NotifyDelete
        <3> HIDE DEF f
        <3>5. f \in UNION {[K -> Loc] : K \in SUBSET Ids} BY <3>2, <3>3
        <3>6. \A u \in Stream : DOMAIN received'[u] \subseteq DOMAIN received[u]
            BY <1>0, <2>0, <3>2, <3>4
        <3>7. KeysAreKept' BY <1>2, <3>6 DEF TypeInv, KeysAreKept
        <3> QED BY <1>0, <2>0, <3>4, <3>5, <3>7
    <2> QED BY <2>1, <2>2
<1>5. TypeOK' BY <1>2, <1>3, <1>4 DEF TypeInv, TypeOK, JobType
<1> QED BY <1>3, <1>4, <1>5 DEF TypeInv

\* Planning changes the plan and the handler only.
LEMMA PlanChanged ==
    ASSUME TypeInv,
           UNCHANGED <<workers, intents, fid, subs, received, uniqueKeys, deployed, bus, notes, heard, lost>>,
           astray' \subseteq Group, crashed' \in BOOLEAN, DOMAIN plan' \subseteq Group, plan' \in [DOMAIN plan' -> Task],
           job' \in JobType, JobIsSound'
    PROVE  TypeInv'
<1>1. KeysAreKept' BY DEF TypeInv, KeysAreKept
<1>2. UNCHANGED <<flows, setups, recorded, curNumOfTasks, adding, onWorker, issued, available, told>>
    BY DEF intents, bus, heard
<1>3. TypeOK' BY <1>2 DEF TypeInv, TypeOK, JobType
<1> QED BY <1>1, <1>3 DEF TypeInv

\* A task of the plan, with other inputs or on another worker.
LEMMA TaskChanged ==
    ASSUME TypeOK, NEW t, NEW S \in SUBSET Input, NEW w \in Worker \cup {None},
           plan' = [plan EXCEPT ![t] = [inputs |-> S, worker |-> w]]
    PROVE  DOMAIN plan' = DOMAIN plan /\ DOMAIN plan' \subseteq Group /\ plan' \in [DOMAIN plan' -> Task]
<1>1. [inputs |-> S, worker |-> w] \in Task BY DEF Task
<1>2. plan \in [DOMAIN plan -> Task] /\ DOMAIN plan \subseteq Group BY DEF TypeOK
<1> QED BY <1>1, <1>2

LEMMA PlanningTypes ==
    ASSUME TypeInv,
           \/ \E g \in job.groups : ExpandGroup(g) \/ ReduceGroup(g)
           \/ \E x \in job.ents : ExpandInput(x) \/ ExpandMoved(x) \/ ExpandKnown(x)
    PROVE  TypeInv'
<1>0. /\ job \in JobType /\ plan \in [DOMAIN plan -> Task] /\ DOMAIN plan \subseteq Group
      /\ crashed \in BOOLEAN /\ astray \subseteq Group
    BY DEF TypeInv, TypeOK, JobType
<1>1. ASSUME NEW g \in job.groups, ExpandGroup(g) PROVE TypeInv'
    <2>1. g \in Group BY <1>0 DEF JobType
    <2>2. RelevantEntities(g) \subseteq Input BY EntitiesType DEF TypeInv
    <2>3. CASE g \in DOMAIN plan
        <3> DEFINE j == [job EXCEPT !.groups = @ \ {g}, !.cur = g, !.ents = RelevantEntities(g)]
        <3>a. job' = j /\ job.pc = "expand" BY <1>1, <2>3 DEF ExpandGroup, At
        <3>b. j \in JobType /\ j.pc = job.pc BY <1>0, <2>1, <2>2 DEF JobType
        <3> HIDE DEF j
        <3>1. job' \in JobType /\ job'.pc = "expand" BY <3>a, <3>b
        <3>2. JobIsSound' BY <3>1 DEF JobIsSound
        <3>3. UNCHANGED plan BY <1>1, <2>3 DEF ExpandGroup
        <3> QED BY <1>0, <1>1, <3>1, <3>2, <3>3, PlanChanged DEF ExpandGroup, strays
    <2>4. CASE g \notin DOMAIN plan
        <3> DEFINE a == Act("ADD_TASK", g, None)
                   v == [inputs |-> RelevantEntities(g), worker |-> None]
        <3>1. a \in Action BY <2>1, ActType
        <3>2. v \in Task BY <2>2 DEF Task
        <3>3. job' = [job EXCEPT !.groups = @ \ {g}, !.acts = Append(@, a)] /\ job.pc = "expand"
            BY <1>1, <2>4 DEF ExpandGroup, At
        <3>4. plan' = Put(plan, g, v) BY <1>1, <2>4 DEF ExpandGroup
        <3> HIDE DEF a, v
        <3>5. job' \in JobType /\ job'.pc = "expand"
            <4>1. Append(job.acts, a) \in Seq(Action) BY <1>0, <3>1 DEF JobType
            <4> QED BY <1>0, <3>3, <4>1 DEF JobType
        <3>6. JobIsSound' BY <3>5 DEF JobIsSound
        <3>7. plan' \in [DOMAIN plan' -> Task] /\ DOMAIN plan' \subseteq Group
            BY <1>0, <2>1, <3>2, <3>4 DEF Put
        <3> QED BY <1>0, <1>1, <3>5, <3>6, <3>7, PlanChanged DEF ExpandGroup, strays
    <2> QED BY <2>3, <2>4
<1>2. ASSUME NEW g \in job.groups, ReduceGroup(g) PROVE TypeInv'
    <2>1. g \in Group BY <1>0 DEF JobType
    <2>2. job.pc = "reduce" /\ job.ents = {} BY <1>2 DEF ReduceGroup, At, TypeInv, JobIsSound
    <2>3. job' \in JobType /\ job'.pc = "reduce" /\ job'.ents = {}
        <3>1. g \in DOMAIN deployed => Act("REMOVE_INPUT", g, deployed[g]) \in Action
            BY <2>1, ActType DEF TypeInv, TypeOK
        <3>2. removeExistingTask(g) \in Seq(Action) BY <2>1, RemovedType DEF TypeInv
        <3>3. \/ job' = job
              \/ job' = [job EXCEPT !.groups = @ \ {g}]
              \/ job' = [job EXCEPT !.groups = @ \ {g}, !.acts = @ \o removeExistingTask(g)]
              \/ /\ g \in DOMAIN deployed
                 /\ job' = [job EXCEPT !.groups = @ \ {g},
                                       !.acts = Append(@, Act("REMOVE_INPUT", g, deployed[g]))]
            BY <1>2 DEF ReduceGroup
        <3>4. /\ job.acts \o removeExistingTask(g) \in Seq(Action)
              /\ g \in DOMAIN deployed => Append(job.acts, Act("REMOVE_INPUT", g, deployed[g])) \in Seq(Action)
            BY <1>0, <3>1, <3>2 DEF JobType
        <3>5. CASE job' = job BY <1>0, <2>2, <3>5
        <3>6. CASE job' = [job EXCEPT !.groups = @ \ {g}] BY <1>0, <2>2, <3>6 DEF JobType
        <3>7. CASE job' = [job EXCEPT !.groups = @ \ {g}, !.acts = @ \o removeExistingTask(g)]
            BY <1>0, <2>2, <3>4, <3>7 DEF JobType
        <3>8. CASE /\ g \in DOMAIN deployed
                   /\ job' = [job EXCEPT !.groups = @ \ {g},
                                         !.acts = Append(@, Act("REMOVE_INPUT", g, deployed[g]))]
            BY <1>0, <2>2, <3>4, <3>8 DEF JobType
        <3> QED BY <3>3, <3>5, <3>6, <3>7, <3>8
    <2>4. JobIsSound' BY <2>3 DEF JobIsSound
    <2>5. DOMAIN plan' \subseteq Group /\ plan' \in [DOMAIN plan' -> Task] /\ crashed' \in BOOLEAN
        <3>0. crashed' \in BOOLEAN BY <1>0, <1>2 DEF ReduceGroup
        <3>1. CASE plan' = plan BY <1>0, <3>0, <3>1
        <3>2. CASE plan' = Del(plan, g) BY <1>0, <3>0, <3>2 DEF Del
        <3>3. CASE g \in DOMAIN plan
                   /\ plan' = [plan EXCEPT ![g].inputs = removeInput(plan[g].inputs, job.key)]
            <4>1. plan[g] \in Task BY <1>0, <3>3
            <4>2. removeInput(plan[g].inputs, job.key) \subseteq Input BY <4>1 DEF removeInput, Task
            <4>3. [plan[g] EXCEPT !.inputs = removeInput(plan[g].inputs, job.key)] \in Task
                BY <4>1, <4>2 DEF Task
            <4> QED BY <1>0, <3>0, <3>3, <4>3
        <3> QED BY <1>2, <3>1, <3>2, <3>3 DEF ReduceGroup
    <2> QED BY <1>0, <1>2, <2>3, <2>4, <2>5, PlanChanged DEF ReduceGroup, strays
<1>3. ASSUME NEW x \in job.ents, ExpandInput(x) PROVE TypeInv'
    <2>1. x \in Input /\ job.cur \in Group /\ job.pc = "expand" BY <1>0, <1>3 DEF JobType, ExpandInput, At
    <2>2. CASE job.cur \in DOMAIN deployed
        <3> DEFINE a == Act("ADD_INPUT", job.cur, deployed[job.cur])
        <3>1. a \in Action BY <2>1, <2>2, ActType DEF TypeInv, TypeOK
        <3>2. /\ job' = [job EXCEPT !.ents = @ \ {x}, !.acts = Append(@, a)] /\ UNCHANGED crashed
              /\ plan' = [plan EXCEPT ![job.cur].inputs = @ \cup {x}]
            BY <1>3, <2>2 DEF ExpandInput
        <3> HIDE DEF a
        <3>3. job' \in JobType /\ job'.pc = "expand"
            <4>1. Append(job.acts, a) \in Seq(Action) BY <1>0, <3>1 DEF JobType
            <4> QED BY <1>0, <2>1, <3>2, <4>1 DEF JobType
        <3>4. JobIsSound' BY <3>3 DEF JobIsSound
        <3>5. DOMAIN plan' \subseteq Group /\ plan' \in [DOMAIN plan' -> Task]
            <4>1. job.cur \in DOMAIN plan => [plan[job.cur] EXCEPT !.inputs = @ \cup {x}] \in Task
                BY <1>0, <2>1 DEF Task
            <4> QED BY <1>0, <3>2, <4>1
        <3> QED BY <1>0, <1>3, <3>2, <3>3, <3>4, <3>5, PlanChanged DEF ExpandInput, strays
    <2>3. CASE job.cur \notin DOMAIN deployed
        <3>1. crashed' = TRUE /\ UNCHANGED <<plan, job>> BY <1>3, <2>3 DEF ExpandInput
        <3>2. JobIsSound' BY <3>1 DEF TypeInv, JobIsSound
        <3> QED BY <1>0, <1>3, <3>1, <3>2, PlanChanged DEF ExpandInput, strays
    <2> QED BY <2>2, <2>3
<1>4. ASSUME NEW x \in job.ents, ExpandMoved(x) PROVE TypeInv'
    <2>1. x \in Input /\ job.cur \in Group /\ job.pc = "expand" BY <1>0, <1>4 DEF JobType, ExpandMoved, At
    <2> DEFINE t == job.cur
               end == IF plan[t].worker = None THEN <<>>
                      ELSE IF removeExistingTask(t) = <<>> THEN <<Act("nil", t, None)>>
                      ELSE removeExistingTask(t)
               add == Act("ADD_TASK", t, None)
    <2>2. end \in Seq(Action) /\ add \in Action BY <2>1, ActType, RemovedType DEF TypeInv
    <2>3. PICK y \in Moved(x, plan[t].inputs) :
              \E w \in SelectWorker((plan[t].inputs \ {y}) \cup {Relocated(y, x.loc)}) :
                  /\ plan' = [plan EXCEPT ![t] = [inputs |-> (plan[t].inputs \ {y}) \cup {Relocated(y, x.loc)},
                                                  worker |-> w]]
                  /\ job' = [job EXCEPT !.ents = @ \ {x},
                               !.acts = IF w = plan[t].worker THEN @ ELSE Append(@ \o end, add)]
        BY <1>4 DEF ExpandMoved
    <2>4. PICK w \in SelectWorker((plan[t].inputs \ {y}) \cup {Relocated(y, x.loc)}) :
                  /\ plan' = [plan EXCEPT ![t] = [inputs |-> (plan[t].inputs \ {y}) \cup {Relocated(y, x.loc)},
                                                  worker |-> w]]
                  /\ job' = [job EXCEPT !.ents = @ \ {x},
                               !.acts = IF w = plan[t].worker THEN @ ELSE Append(@ \o end, add)]
        BY <2>3
    <2>5. w \in Worker \cup {None} BY WorkerChosen DEF TypeInv
    <2>6. job' \in JobType /\ job'.pc = "expand"
        <3> HIDE DEF end, add
        <3>1. Append(job.acts \o end, add) \in Seq(Action) /\ job.acts \in Seq(Action)
            BY <1>0, <2>2 DEF JobType
        <3> QED BY <1>0, <2>1, <2>4, <3>1 DEF JobType
    <2>7. JobIsSound' BY <2>6 DEF JobIsSound
    <2>8. DOMAIN plan' \subseteq Group /\ plan' \in [DOMAIN plan' -> Task]
        <3>1. CASE t \notin DOMAIN plan
            <4>1. plan' = plan BY <1>0, <2>4, <3>1
            <4> QED BY <1>0, <4>1
        <3>2. CASE t \in DOMAIN plan
            <4>1. plan[t].inputs \subseteq Input /\ y \in Input BY <1>0, <3>2 DEF Task, Moved
            <4>2. Relocated(y, x.loc) \in Input BY <2>1, <4>1 DEF Relocated, Input
            <4>3. (plan[t].inputs \ {y}) \cup {Relocated(y, x.loc)} \in SUBSET Input BY <4>1, <4>2
            <4>4. [inputs |-> (plan[t].inputs \ {y}) \cup {Relocated(y, x.loc)}, worker |-> w] \in Task
                BY <2>5, <4>3 DEF Task
            <4> QED BY <1>0, <2>4, <4>4
        <3> QED BY <3>1, <3>2
    <2>9. crashed' \in BOOLEAN BY <1>0, <1>4 DEF ExpandMoved
    <2>10. astray' \subseteq Group BY <1>0, <1>4, <2>1 DEF ExpandMoved
    <2> QED BY <1>4, <2>6, <2>7, <2>8, <2>9, <2>10, PlanChanged DEF ExpandMoved
<1>5. ASSUME NEW x \in job.ents, ExpandKnown(x) PROVE TypeInv'
    <2>1. job' \in JobType /\ job'.pc = "expand" BY <1>0, <1>5 DEF JobType, ExpandKnown, At
    <2>2. JobIsSound' BY <2>1 DEF JobIsSound
    <2> QED BY <1>0, <1>5, <2>1, <2>2, PlanChanged DEF ExpandKnown, flow, strays
<1> QED BY <1>1, <1>2, <1>3, <1>4, <1>5

LEMMA ExecutionTypes ==
    ASSUME TypeInv, Execution
    PROVE  TypeInv'
<1>0. /\ job \in JobType /\ plan \in [DOMAIN plan -> Task] /\ DOMAIN plan \subseteq Group
      /\ crashed \in BOOLEAN /\ deployed \in [DOMAIN deployed -> Worker] /\ DOMAIN deployed \subseteq Group
      /\ astray \subseteq Group
    BY DEF TypeInv, TypeOK, JobType
<1>1. job.acts # <<>> => Head(job.acts) \in Action /\ Tail(job.acts) \in Seq(Action) BY <1>0 DEF JobType
<1>2. CASE SelectForTask
    <2>1. PICK w \in SelectWorker(plan[Head(job.acts).task].inputs) :
              /\ job' = IF w = None THEN Idle ELSE [job EXCEPT !.pc = "deploy", !.worker = w]
              /\ astray' = IF w = None THEN astray \cup ToRemove ELSE astray
        BY <1>2 DEF SelectForTask
    <2>2. w \in Worker \cup {None} BY WorkerChosen DEF TypeInv
    <2>3. job' \in JobType BY <1>0, <2>1, <2>2, IdleType DEF JobType
    <2>4. job.groups = {} /\ job.ents = {} /\ job.acts # <<>> BY <1>2 DEF SelectForTask, Executing, Planned
    <2>5. JobIsSound'
        <3>1. CASE w = None BY <2>1, <3>1, IdleType DEF JobIsSound
        <3>2. CASE w # None
            <4>1. job'.pc = "deploy" /\ job'.worker = w /\ job'.groups = {} /\ job'.ents = {} /\ job'.acts # <<>>
                BY <1>0, <2>1, <2>4, <3>2 DEF JobType
            <4> QED BY <3>2, <4>1 DEF JobIsSound
        <3> QED BY <3>1, <3>2
    <2>6. astray' \subseteq Group BY <1>0, <2>1 DEF ToRemove
    <2> QED BY <1>0, <1>2, <2>3, <2>5, <2>6, PlanChanged DEF SelectForTask, flow
<1>3. CASE DeployTask
    <2> DEFINE t == Head(job.acts).task
               w == job.worker
    <2>1. /\ job.groups = {} /\ job.acts # <<>> /\ w # None /\ job.ents = {} /\ w \in Worker /\ t \in Group
          /\ Tail(job.acts) \in Seq(Action)
        BY <1>0, <1>1, <1>3 DEF DeployTask, At, TypeInv, JobIsSound, JobType, Action
    <2>2. /\ curNumOfTasks' \in Nat /\ adding' \subseteq [n : Nat, task : Group, worker : Worker]
          /\ issued' \subseteq Group \X Worker
        <3>1. curNumOfTasks \in Nat /\ curNumOfTasks' = curNumOfTasks + 1
            BY <1>3 DEF DeployTask, TypeInv, TypeOK
        <3>2. curNumOfTasks' \in Nat BY <3>1
        <3>3. /\ adding' = adding \cup {[n |-> curNumOfTasks', task |-> t, worker |-> w]}
              /\ issued' = issued \cup {<<t, w>>}
            BY <1>3 DEF DeployTask
        <3> HIDE DEF t, w
        <3> QED BY <2>1, <3>2, <3>3 DEF TypeInv, TypeOK
    <2>3. UNCHANGED <<workers, flows, setups, recorded, fid, subs, received, uniqueKeys, onWorker, notes, available,
                      told, lost, astray>>
        BY <1>3 DEF DeployTask, intents, heard, strays
    <2>4. KeysAreKept' BY <2>3 DEF TypeInv, KeysAreKept
    <2>5. /\ job' \in JobType /\ JobIsSound' /\ crashed' \in BOOLEAN
          /\ DOMAIN plan' \subseteq Group /\ plan' \in [DOMAIN plan' -> Task]
          /\ DOMAIN deployed' \subseteq Group /\ deployed' \in [DOMAIN deployed' -> Worker]
        <3>1. CASE w \in workers
            <4>1. /\ deployed' = Put(deployed, t, w) /\ plan' = [plan EXCEPT ![t].worker = w]
                  /\ job' = [NextAct EXCEPT !.pc = "expand", !.worker = None] /\ UNCHANGED crashed
                BY <1>3, <3>1 DEF DeployTask
            <4>2. DOMAIN deployed' \subseteq Group /\ deployed' \in [DOMAIN deployed' -> Worker]
                <5> HIDE DEF t, w
                <5> QED BY <1>0, <2>1, <4>1 DEF Put
            <4>3. t \in DOMAIN plan => [plan[t] EXCEPT !.worker = w] \in Task BY <1>0, <2>1 DEF Task
            <4>4. DOMAIN plan' \subseteq Group /\ plan' \in [DOMAIN plan' -> Task]
                <5> HIDE DEF t, w
                <5> QED BY <1>0, <4>1, <4>3
            <4>5. job' \in JobType /\ job'.pc = "expand" BY <1>0, <2>1, <4>1 DEF NextAct, JobType
            <4> QED BY <1>0, <4>1, <4>2, <4>4, <4>5 DEF JobIsSound
        <3>2. CASE w \notin workers
            <4>1. crashed' = TRUE /\ UNCHANGED <<deployed, plan, job>> BY <1>3, <3>2 DEF DeployTask
            <4> QED BY <1>0, <4>1 DEF TypeInv, JobIsSound
        <3> QED BY <3>1, <3>2
    <2>6. TypeOK' BY <2>2, <2>3, <2>5 DEF TypeInv, TypeOK, JobType
    <2> QED BY <2>4, <2>5, <2>6 DEF TypeInv
<1>4. ASSUME job' = NextAct, job.acts # <<>>, job.pc \in {"expand", "reduce"}, job.ents = {}
      PROVE  job' \in JobType /\ JobIsSound'
    <2>1. job' \in JobType /\ job'.pc = job.pc /\ job'.ents = {}
        BY <1>0, <1>1, <1>4 DEF NextAct, JobType
    <2> QED BY <1>4, <2>1 DEF JobIsSound
<1>5. CASE RemoveTask
    <2>1. job' \in JobType /\ JobIsSound' BY <1>4, <1>5 DEF RemoveTask, Executing, Planned, At
    <2>2. issued' \subseteq issued /\ onWorker' \subseteq onWorker /\ UNCHANGED <<curNumOfTasks, adding>>
        BY <1>5 DEF RemoveTask, TerminateTask
    <2>3. UNCHANGED <<workers, flows, setups, recorded, fid, subs, received, uniqueKeys, plan, deployed, crashed,
                      notes, available, told, lost, astray>>
        BY <1>5 DEF RemoveTask, intents, flow, heard, strays
    <2>4. KeysAreKept' BY <2>3 DEF TypeInv, KeysAreKept
    <2>5. TypeOK' BY <2>1, <2>2, <2>3 DEF TypeInv, TypeOK, JobType
    <2> QED BY <2>1, <2>4, <2>5 DEF TypeInv
<1>6. CASE SendInput
    <2>1. job' \in JobType /\ JobIsSound' BY <1>4, <1>6 DEF SendInput, Executing, Planned, At
    <2> QED BY <1>0, <1>6, <2>1, PlanChanged DEF SendInput, flow, strays
<1>7. CASE NilAction
    <2>1. JobIsSound' /\ crashed' = TRUE BY <1>7 DEF NilAction, TypeInv, JobIsSound
    <2> QED BY <1>0, <1>7, <2>1, PlanChanged DEF NilAction, flow, strays
<1>8. CASE Return
    <2>1. job' \in JobType /\ JobIsSound' BY <1>8, IdleType DEF Return, JobIsSound
    <2> QED BY <1>0, <1>8, <2>1, PlanChanged DEF Return, flow, strays
<1> QED BY <1>2, <1>3, <1>5, <1>6, <1>7, <1>8 DEF Execution

LEMMA TypeStep == TypeInv /\ [Next]_vars => TypeInv'
<1> SUFFICES ASSUME TypeInv, [Next]_vars PROVE TypeInv' OBVIOUS
<1>1. CASE \/ \E w \in Worker : WorkerJoin(w) \/ WorkerLost(w)
           \/ \E a \in adding : PublishAddTask(a)
           \/ UNCHANGED vars
    BY <1>1, OutsideTypes
<1>2. CASE Intents BY <1>2, OutsideTypes, FlowTypes DEF Intents
<1>3. CASE Notifications BY <1>3, NotifyUpdateTypes, NotifyDeleteTypes DEF Notifications
<1>4. CASE Planning BY <1>4, PlanningTypes DEF Planning
<1>5. CASE Execution BY <1>5, ExecutionTypes
<1> QED BY <1>1, <1>2, <1>3, <1>4, <1>5 DEF Next

LEMMA TypeInit == Init => TypeInv
<1> SUFFICES ASSUME Init PROVE TypeInv OBVIOUS
<1>1. JobIsSound BY IdleType DEF Init, JobIsSound
<1>2. KeysAreKept BY EmptyType DEF Init, KeysAreKept
<1>3. job \in JobType BY IdleType DEF Init
<1>4. /\ received \in [Stream -> UNION {[K -> Loc] : K \in SUBSET Ids}]
      /\ plan \in [DOMAIN plan -> Task] /\ DOMAIN plan \subseteq Group
      /\ deployed \in [DOMAIN deployed -> Worker] /\ DOMAIN deployed \subseteq Group
    BY EmptyType DEF Init
<1>5. /\ uniqueKeys \in [Stream -> SUBSET GroupValue] /\ fid \in 0..MaxFlows /\ flows \in 0..MaxFlows
      /\ notes \in 0..MaxNotes /\ curNumOfTasks \in Nat
    BY TaskMgrAssumption DEF Init
<1>6. told \in [Entity -> Loc] BY FogFlowAssumption DEF Init
<1>7. TypeOK BY <1>3, <1>4, <1>5, <1>6 DEF Init, TypeOK, JobType
<1> QED BY <1>1, <1>2, <1>7 DEF TypeInv

\* The task manager is well typed: in particular a handler deploys only to a
\* worker that it has selected, and an input is an entity of its own stream.
THEOREM TypeCorrect == Spec => []TypeOK
<1>1. TypeInv => TypeOK BY DEF TypeInv
<1> QED BY <1>1, TypeInit, TypeStep, PTL DEF Spec

-----------------------------------------------------------------------------
(* Inputs are up to date                                                   *)

InputInv == GroupsFit /\ InputsDiffer /\ StaleIsCompared
NoneIsStale == \A g \in DOMAIN plan : \A y \in plan[g].inputs : y.id # "" => Current(y)

\* An input of a planned task is an entity of a stream.
LEMMA PlannedInput ==
    ASSUME TypeOK, NEW g \in DOMAIN plan, NEW y \in plan[g].inputs
    PROVE  y \in Input /\ y.type \in Stream /\ y.loc \in Loc /\ g \in Group
<1>1. plan[g] \in Task /\ g \in Group BY DEF TypeOK
<1>2. y \in Input BY <1>1 DEF Task
<1> QED BY <1>1, <1>2 DEF Input

\* What searchRelevantEntities finds fits the task and has its latest location.
LEMMA RelevantFits ==
    ASSUME TypeInv, NEW g, Complete(g), NEW x \in RelevantEntities(g)
    PROVE  x \in Input /\ x.type \in Stream /\ Fits(x, g) /\ Current(x)
<1>1. PICK s \in subs, k \in Ids : /\ k \in DOMAIN received[s]
                                   /\ s \in DOMAIN g => g[s] = Value(s, k)
                                   /\ x = [type |-> s, id |-> IF Simple(s) THEN "" ELSE k, loc |-> received[s][k]]
    BY DEF RelevantEntities
<1>2. s \in Stream /\ s \in DOMAIN g BY DEF TypeInv, TypeOK, Complete
<1>3. IF Simple(s) THEN k = "*" ELSE k \in Entity /\ k # ""
    BY <1>1, <1>2, FogFlowAssumption DEF TypeInv, KeysAreKept
<1>4. x.type = s /\ x.id = (IF Simple(s) THEN "" ELSE k) /\ x.loc = received[s][k] BY <1>1
<1>5. InputKey(x) = k BY <1>3, <1>4 DEF InputKey
<1>6. x \in Input BY EntitiesType DEF TypeInv
<1> QED BY <1>1, <1>2, <1>3, <1>4, <1>5, <1>6 DEF Fits, Current

\* An ID belongs to one stream.
LEMMA SameInput ==
    ASSUME TypeInv, NEW g, NEW h, NEW x \in Input, NEW y \in Input, Fits(x, g), Fits(y, h),
           x.id = y.id, x.id # ""
    PROVE  x.type = y.type /\ InputKey(x) = InputKey(y) /\ TypeOf[x.id] = x.type /\ InputKey(x) = x.id
<1>1. x.type \in Stream /\ y.type \in Stream BY DEF Input
<1>2. ~Simple(x.type) /\ ~Simple(y.type) BY DEF Fits
<1>3. InputKey(x) = x.id /\ InputKey(y) = x.id BY <1>2 DEF InputKey
<1>4. TypeOf[x.id] = x.type /\ TypeOf[x.id] = y.type
    BY <1>1, <1>2, <1>3 DEF Fits, TypeInv, KeysAreKept
<1> QED BY <1>3, <1>4

\* The input with the location that is registered by now.
LEMMA UpdatedInput ==
    ASSUME TypeInv, NEW g, Complete(g), NEW y \in Input, Fits(y, g)
    PROVE  /\ [y EXCEPT !.loc = received[y.type][InputKey(y)]] \in RelevantEntities(g)
           /\ [y EXCEPT !.loc = received[y.type][InputKey(y)]].id = y.id
           /\ [y EXCEPT !.loc = received[y.type][InputKey(y)]].type = y.type
           /\ [y EXCEPT !.loc = received[y.type][InputKey(y)]].loc = received[y.type][InputKey(y)]
<1> DEFINE l == received[y.type][InputKey(y)]
           k == InputKey(y)
           s == y.type
           z == [y EXCEPT !.loc = l]
<1>1. y = [type |-> y.type, id |-> y.id, loc |-> y.loc] BY DEF Input
<1>2. z = [type |-> y.type, id |-> y.id, loc |-> l] BY <1>1
<1>3. s \in subs /\ s \in Stream /\ k \in DOMAIN received[s] /\ k \in Ids /\ g[s] = Value(s, k)
    <2>1. s \in subs /\ s \in Stream /\ k \in DOMAIN received[s] /\ g[s] = Value(s, k) BY DEF Fits, TypeInv, TypeOK
    <2> QED BY <2>1, ReceivedType DEF TypeInv
<1>4. y.id = IF Simple(s) THEN "" ELSE k BY DEF Fits, InputKey
<1>5. z = [type |-> s, id |-> IF Simple(s) THEN "" ELSE k, loc |-> received[s][k]] BY <1>2, <1>4
<1>6. z.id = y.id /\ z.type = y.type /\ z.loc = l BY <1>2
<1> HIDE DEF z, l, s, k
<1>7. <<s, k>> \in subs \X Ids /\ k \in DOMAIN received[s] /\ (s \in DOMAIN g => g[s] = Value(s, k)) BY <1>3
<1>8. z \in RelevantEntities(g)
    <2>1. /\ <<s, k>> \in {q \in subs \X Ids : /\ q[2] \in DOMAIN received[q[1]]
                                               /\ q[1] \in DOMAIN g => g[q[1]] = Value(q[1], q[2])}
          /\ <<s, k>>[1] = s /\ <<s, k>>[2] = k
        BY <1>7
    <2> QED BY <1>5, <2>1 DEF RelevantEntities
<1> QED BY <1>6, <1>8 DEF z, l, s, k

\* Steps that change neither the flow nor the handler.
LEMMA InputsUnchanged ==
    ASSUME InputInv, UNCHANGED <<subs, received, uniqueKeys, plan, job>>
    PROVE  InputInv'
<1>1. GroupsFit'
    BY DEF InputInv, GroupsFit, AtWork, InputsAvailable, Complete, Fits, InputKey, RelevantEntities
<1>2. InputsDiffer' BY DEF InputInv, InputsDiffer
<1>3. StaleIsCompared' BY DEF InputInv, StaleIsCompared, Current, InputKey
<1> QED BY <1>1, <1>2, <1>3 DEF InputInv

\* Steps that take inputs, tasks and groups away when no input is stale.
LEMMA InputsShrink ==
    ASSUME InputInv, NoneIsStale, UNCHANGED <<subs, received, uniqueKeys>>,
           DOMAIN plan' \subseteq DOMAIN plan,
           \A g \in DOMAIN plan' : plan'[g].inputs \subseteq plan[g].inputs,
           job'.ents = {}, AtWork' => AtWork /\ job'.groups \subseteq job.groups
    PROVE  InputInv'
<1>1. \A y : Current(y)' = Current(y) BY DEF Current, InputKey
<1>2. \A y, g : Fits(y, g)' = Fits(y, g) BY DEF Fits, InputKey
<1>3. \A g : Complete(g)' = Complete(g) BY DEF Complete
<1>4. InputsAvailable(received)' = InputsAvailable(received) BY DEF InputsAvailable
<1>5. GroupsFit' BY <1>2, <1>3, <1>4 DEF InputInv, GroupsFit
<1>6. InputsDiffer' BY DEF InputInv, InputsDiffer
<1>7. StaleIsCompared' BY <1>1 DEF NoneIsStale, StaleIsCompared
<1> QED BY <1>5, <1>6, <1>7 DEF InputInv

LEMMA NothingStale ==
    ASSUME TypeInv, InputInv, job.pc # "expand" \/ (job.groups = {} /\ job.ents = {})
    PROVE  NoneIsStale
BY DEF NoneIsStale, InputInv, StaleIsCompared

LEMMA InstallInputs ==
    ASSUME TypeInv, NEW x \in setups, InstallFlow(x)
    PROVE  InputInv'
<1>1. DOMAIN plan' = {} /\ job' = Idle BY EmptyType DEF InstallFlow, At, TypeInv, JobIsSound
<1>2. ~AtWork' /\ job'.ents = {} BY <1>1, IdleType DEF AtWork
<1> QED BY <1>1, <1>2 DEF InputInv, GroupsFit, InputsDiffer, StaleIsCompared

\* The groups of a notification are the complete ones that have its key.
LEMMA GroupsOfKey ==
    ASSUME NEW S \in SUBSET Stream, NEW s \in S, NEW k, NEW keys \in [Stream -> SUBSET GroupValue],
           \A u \in Stream : keys[u] # {} <=> u \in S
    PROVE  /\ \A g \in RelevantGroups(s, k, keys) :
                 DOMAIN g = S /\ g[s] = Value(s, k) /\ \A u \in S \ {s} : g[u] \in keys[u]
           /\ \A g \in Group : DOMAIN g = S /\ g[s] = Value(s, k) /\ (\A u \in S : g[u] \in keys[u])
                 => g \in RelevantGroups(s, k, keys)
<1>1. {u \in Stream : keys[u] # {}} = S OBVIOUS
<1>2. RelevantGroups(s, k, keys) =
          {g \in [S -> GroupValue] : g[s] = Value(s, k) /\ \A u \in S \ {s} : g[u] \in keys[u]}
    BY <1>1 DEF RelevantGroups
<1>3. \A g \in Group : DOMAIN g = S => g \in [S -> GroupValue] BY DEF Group
<1> QED BY <1>2, <1>3

LEMMA NotifyUpdateInputs ==
    ASSUME TypeInv, InputInv, NEW e \in Entity, NEW l \in Loc, NotifyUpdate(e, l)
    PROVE  InputInv'
<1> DEFINE s == TypeOf[e]
           k == Key(e)
<1>0. s \in Stream /\ k \in Ids BY KeyType
<1>1. subs' = subs /\ plan' = plan /\ s \in subs /\ job = Idle BY NotifyUpdateEffect
<1>2. /\ DOMAIN received'[s] = DOMAIN received[s] \cup {k}
      /\ \A x \in DOMAIN received[s] : x # k => received'[s][x] = received[s][x]
    BY NotifyUpdateEffect
<1>3. \A u \in Stream : u # s => received'[u] = received[u] BY NotifyUpdateEffect
<1>4. TypeInv' BY NotifyUpdateTypes
<1>5. subs \subseteq Stream BY DEF TypeInv, TypeOK
<1>6. \A u \in Stream : uniqueKeys[u] \subseteq uniqueKeys'[u] /\ Value(s, k) \in uniqueKeys'[s]
    <2>1. uniqueKeys' = [uniqueKeys EXCEPT ![s] = @ \cup {Value(s, k)}] BY NotifyUpdateEffect
    <2> QED BY <1>0, <2>1 DEF TypeInv, TypeOK
<1>7. NoneIsStale BY <1>1, NothingStale, IdleType
<1>8. \A g \in DOMAIN plan : Complete(g)' BY <1>1, <1>5, <1>6 DEF InputInv, GroupsFit, Complete
<1>9. \A u \in Stream : DOMAIN received[u] \subseteq DOMAIN received'[u] BY <1>2, <1>3
<1>10. \A g \in DOMAIN plan : \A y \in plan[g].inputs : Fits(y, g)'
    BY <1>1, <1>5, <1>9 DEF InputInv, GroupsFit, Fits, InputKey
<1>11. InputsDiffer' BY <1>1 DEF InputInv, InputsDiffer
<1>12. DOMAIN plan # {} => InputsAvailable(received')
    BY <1>5, <1>9 DEF InputInv, GroupsFit, InputsAvailable
<1>12a. InputsAvailable(received)' <=> InputsAvailable(received') BY <1>1 DEF InputsAvailable
<1>13. CASE ~InputsAvailable(received')
    <2>1. DOMAIN plan' = {} /\ job' = Idle
        <3>1. job' = job BY <1>13, NotifyUpdateEffect
        <3> QED BY <1>1, <1>12, <1>13, <3>1
    <2>2. ~AtWork' /\ job'.ents = {} BY <2>1, IdleType DEF AtWork
    <2> QED BY <2>1, <2>2 DEF InputInv, GroupsFit, InputsDiffer, StaleIsCompared
<1>14. CASE InputsAvailable(received')
    <2> DEFINE G == RelevantGroups(s, k, uniqueKeys')
    <2>1. /\ job'.pc = "expand" /\ job'.stream = s /\ job'.key = k /\ job'.groups = G /\ job'.ents = {}
        <3>1. job' = [Idle EXCEPT !.pc = "expand", !.stream = s, !.key = k, !.groups = G]
            BY <1>14, NotifyUpdateEffect
        <3> HIDE DEF G
        <3> QED BY <3>1, IdleType DEF JobType
    <2>2. \A u \in Stream : uniqueKeys'[u] # {} <=> u \in subs
        <3>1. \A u \in Stream : uniqueKeys'[u] # {} => u \in subs BY <1>1, <1>4 DEF TypeInv, KeysAreKept
        <3>2. \A u \in subs : DOMAIN received'[u] # {} BY <1>1, <1>14 DEF InputsAvailable
        <3>3. \A u \in subs : uniqueKeys'[u] # {} BY <1>4, <1>5, <3>2 DEF TypeInv, KeysAreKept
        <3> QED BY <3>1, <3>3
    <2>3. uniqueKeys' \in [Stream -> SUBSET GroupValue] BY <1>4 DEF TypeInv, TypeOK
    <2>4. /\ \A g \in G : DOMAIN g = subs /\ g[s] = Value(s, k) /\ \A u \in subs \ {s} : g[u] \in uniqueKeys'[u]
          /\ \A g \in Group : DOMAIN g = subs /\ g[s] = Value(s, k) /\ (\A u \in subs : g[u] \in uniqueKeys'[u])
                 => g \in G
        BY <1>1, <1>5, <2>2, <2>3, GroupsOfKey
    <2> HIDE DEF G
    <2>5. \A g \in G : Complete(g)' BY <1>0, <1>1, <1>6, <2>4 DEF Complete
    <2>6. GroupsFit' BY <1>1, <1>8, <1>10, <1>12a, <1>14, <2>1, <2>5 DEF GroupsFit
    <2>7. StaleIsCompared'
        <3> SUFFICES ASSUME NEW g \in DOMAIN plan, NEW y \in plan[g].inputs, y.id # "", ~Current(y)'
                     PROVE  y.type = s /\ InputKey(y) = k /\ g \in G
            BY <1>1, <2>1 DEF StaleIsCompared, InputKey
        <3>1. y \in Input /\ y.type \in Stream /\ g \in Group BY PlannedInput DEF TypeInv
        <3>2. Current(y) BY <1>7 DEF NoneIsStale
        <3>3. y.type = s /\ InputKey(y) = k BY <1>2, <1>3, <3>1, <3>2 DEF Current, InputKey
        <3>4. g[s] = Value(s, k) BY <3>3 DEF InputInv, GroupsFit, Fits
        <3>5. DOMAIN g = subs /\ \A u \in subs : g[u] \in uniqueKeys'[u] BY <1>1, <1>8 DEF Complete
        <3> QED BY <2>4, <3>1, <3>3, <3>4, <3>5
    <2> QED BY <1>11, <2>6, <2>7 DEF InputInv
<1> QED BY <1>13, <1>14

LEMMA NotifyDeleteInputs ==
    ASSUME TypeInv, InputInv, NEW e \in Entity, NotifyDelete(e)
    PROVE  InputInv'
<1> DEFINE s == TypeOf[e]
           k == Key(e)
<1>0. s \in Stream /\ k \in Ids /\ subs \subseteq Stream BY KeyType DEF TypeInv, TypeOK
<1>1. UNCHANGED <<subs, uniqueKeys, plan>> /\ job = Idle /\ s \in subs /\ k \in DOMAIN received[s]
    BY DEF NotifyDelete, Note, At, TypeInv, JobIsSound
<1>2. NoneIsStale BY <1>1, NothingStale, IdleType
<1>3. CASE InputsAvailable(received)
    <2> DEFINE G == RelevantGroups(s, k, uniqueKeys)
    <2>1. UNCHANGED received /\ job' = [Idle EXCEPT !.pc = "reduce", !.stream = s, !.key = k, !.groups = G]
        BY <1>3 DEF NotifyDelete
    <2>2. \A u \in Stream : uniqueKeys[u] # {} <=> u \in subs
        BY <1>0, <1>3 DEF TypeInv, KeysAreKept, InputsAvailable
    <2>3. uniqueKeys \in [Stream -> SUBSET GroupValue] BY DEF TypeInv, TypeOK
    <2>4. \A g \in G : DOMAIN g = subs /\ g[s] = Value(s, k) /\ \A u \in subs \ {s} : g[u] \in uniqueKeys[u]
        BY <1>0, <1>1, <2>2, <2>3, GroupsOfKey
    <2> HIDE DEF G
    <2>5. job'.pc = "reduce" /\ job'.groups = G /\ job'.ents = {} BY <2>1, IdleType DEF JobType
    <2>6. Value(s, k) \in uniqueKeys[s] BY <1>0, <1>1 DEF TypeInv, KeysAreKept
    <2>7. \A g \in G : Complete(g)' BY <1>1, <2>4, <2>6 DEF Complete
    <2>8. GroupsFit'
        BY <1>1, <1>3, <2>1, <2>5, <2>7 DEF InputInv, GroupsFit, InputsAvailable, Complete, Fits, InputKey
    <2>9. StaleIsCompared' BY <1>1, <1>2, <2>1 DEF StaleIsCompared, NoneIsStale, Current, InputKey
    <2> QED BY <1>1, <2>8, <2>9 DEF InputInv, InputsDiffer
<1>4. CASE ~InputsAvailable(received)
    <2>1. job' = Idle /\ DOMAIN plan' = {} BY <1>1, <1>4 DEF NotifyDelete, InputInv, GroupsFit
    <2>2. ~AtWork' /\ job'.ents = {} BY <2>1, IdleType DEF AtWork
    <2> QED BY <2>1, <2>2 DEF InputInv, GroupsFit, InputsDiffer, StaleIsCompared
<1> QED BY <1>3, <1>4

\* What depends on the registrations only.
LEMMA SameRegistrations ==
    ASSUME UNCHANGED <<subs, received, uniqueKeys>>
    PROVE  /\ \A y : Current(y)' = Current(y)
           /\ \A y, g : Fits(y, g)' = Fits(y, g)
           /\ \A g : Complete(g)' = Complete(g)
           /\ \A g : RelevantEntities(g)' = RelevantEntities(g)
           /\ InputsAvailable(received)' = InputsAvailable(received)
BY DEF Current, Fits, InputKey, Complete, RelevantEntities, InputsAvailable

LEMMA ExpandGroupInputs ==
    ASSUME TypeInv, InputInv, NEW g \in job.groups, ExpandGroup(g)
    PROVE  InputInv'
<1>0. job \in JobType /\ plan \in [DOMAIN plan -> Task] /\ DOMAIN plan \subseteq Group
    BY DEF TypeInv, TypeOK, JobType
<1>1. /\ UNCHANGED <<subs, received, uniqueKeys>> /\ job.pc = "expand" /\ job.ents = {}
    BY DEF ExpandGroup, At
<1>2. AtWork /\ Complete(g) /\ InputsAvailable(received) BY <1>1 DEF AtWork, InputInv, GroupsFit
<1>3. \A h \in DOMAIN plan : \A y \in plan[h].inputs : y.id # "" /\ ~Current(y) =>
          y.type = job.stream /\ InputKey(y) = job.key /\ h \in job.groups
    BY <1>1 DEF InputInv, StaleIsCompared
<1>4. CASE g \in DOMAIN plan
    <2>1. UNCHANGED plan /\ job' = [job EXCEPT !.groups = @ \ {g}, !.cur = g, !.ents = RelevantEntities(g)]
        BY <1>4 DEF ExpandGroup
    <2>2. /\ job'.pc = "expand" /\ job'.groups = job.groups \ {g} /\ job'.cur = g
          /\ job'.ents = RelevantEntities(g) /\ job'.stream = job.stream /\ job'.key = job.key
        BY <1>0, <1>1, <2>1 DEF JobType
    <2>3. GroupsFit'
        BY <1>1, <1>2, <1>4, <2>1, <2>2, SameRegistrations DEF InputInv, GroupsFit
    <2>4. StaleIsCompared'
        <3> SUFFICES ASSUME NEW h \in DOMAIN plan, NEW y \in plan[h].inputs, y.id # "", ~Current(y)'
                     PROVE  /\ job'.pc = "expand" /\ y.type = job'.stream /\ InputKey(y) = job'.key
                            /\ \/ h \in job'.groups
                               \/ /\ h = job'.cur
                                  /\ [y EXCEPT !.loc = received'[y.type][InputKey(y)]] \in job'.ents
            BY <2>1 DEF StaleIsCompared, InputKey
        <3>1. ~Current(y) BY <1>1, SameRegistrations
        <3>2. y.type = job.stream /\ InputKey(y) = job.key /\ h \in job.groups BY <1>3, <3>1
        <3>3. y \in Input BY PlannedInput DEF TypeInv
        <3>4. Fits(y, h) BY DEF InputInv, GroupsFit
        <3>5. h = g => [y EXCEPT !.loc = received[y.type][InputKey(y)]] \in RelevantEntities(g)
            BY <1>2, <3>3, <3>4, UpdatedInput
        <3> QED BY <1>1, <2>2, <3>2, <3>5
    <2> QED BY <2>1, <2>3, <2>4 DEF InputInv, InputsDiffer
<1>5. CASE g \notin DOMAIN plan
    <2> DEFINE v == [inputs |-> RelevantEntities(g), worker |-> None]
    <2>1. /\ plan' = Put(plan, g, v)
          /\ job' = [job EXCEPT !.groups = @ \ {g}, !.acts = Append(@, Act("ADD_TASK", g, None))]
        BY <1>5 DEF ExpandGroup
    <2>2. job'.pc = "expand" /\ job'.groups = job.groups \ {g} /\ job'.ents = {}
          /\ job'.stream = job.stream /\ job'.key = job.key
        BY <1>0, <1>1, <2>1 DEF JobType
    <2>3. v.inputs = RelevantEntities(g) OBVIOUS
    <2> HIDE DEF v
    <2>4. /\ DOMAIN plan' = DOMAIN plan \cup {g} /\ plan'[g].inputs = RelevantEntities(g)
          /\ \A h \in DOMAIN plan : plan'[h].inputs = plan[h].inputs
        BY <1>0, <1>5, <2>1, <2>3 DEF Put
    <2>5. \A x \in RelevantEntities(g) : x \in Input /\ Fits(x, g) /\ Current(x) BY <1>2, RelevantFits
    <2>6. GroupsFit'
        <3>1. \A h \in DOMAIN plan' : Complete(h)' /\ \A y \in plan'[h].inputs : Fits(y, h)'
            BY <1>1, <1>2, <2>4, <2>5, SameRegistrations DEF InputInv, GroupsFit
        <3>2. AtWork' => \A h \in job'.groups : Complete(h)'
            BY <1>1, <1>2, <2>2, SameRegistrations DEF InputInv, GroupsFit
        <3>3. InputsAvailable(received)' BY <1>1, <1>2, SameRegistrations
        <3> QED BY <2>2, <3>1, <3>2, <3>3 DEF GroupsFit
    <2>7. InputsDiffer'
        <3>1. ASSUME NEW y \in RelevantEntities(g), NEW z \in RelevantEntities(g), y.id # "", y.id = z.id
              PROVE  y = z
            <4>1. y.type = z.type /\ InputKey(y) = InputKey(z) BY <2>5, <3>1, SameInput
            <4>2. y.loc = z.loc
                <5>1. Current(y) /\ Current(z) BY <2>5
                <5> QED BY <4>1, <5>1 DEF Current
            <4>3. y \in Input /\ z \in Input BY <2>5
            <4>4. /\ y = [type |-> y.type, id |-> y.id, loc |-> y.loc]
                  /\ z = [type |-> z.type, id |-> z.id, loc |-> z.loc]
                BY <4>3 DEF Input
            <4> QED BY <3>1, <4>1, <4>2, <4>4
        <3> QED BY <2>4, <3>1 DEF InputInv, InputsDiffer
    <2>8. StaleIsCompared'
        <3> SUFFICES ASSUME NEW h \in DOMAIN plan', NEW y \in plan'[h].inputs, y.id # "", ~Current(y)'
                     PROVE  y.type = job.stream /\ InputKey(y) = job.key /\ h \in job.groups \ {g}
            BY <1>1, <2>2 DEF StaleIsCompared, InputKey
        <3>1. ~Current(y) BY <1>1, SameRegistrations
        <3>2. h # g BY <2>4, <2>5, <3>1
        <3>3. h \in DOMAIN plan /\ y \in plan[h].inputs BY <2>4, <3>2
        <3> QED BY <1>3, <3>1, <3>2, <3>3
    <2> QED BY <2>6, <2>7, <2>8 DEF InputInv
<1> QED BY <1>4, <1>5

\* ExpandInput and ExpandMoved have the same effect on the inputs with an ID: x,
\* if it has one, takes the place of what has its ID.
LEMMA InputReplaced ==
    ASSUME TypeInv, InputInv, NEW x \in job.ents, job.pc = "expand",
           UNCHANGED <<subs, received, uniqueKeys>>, DOMAIN plan' = DOMAIN plan,
           \A y \in plan'[job.cur].inputs :
               /\ Fits(y, job.cur)
               /\ y.id # "" => y = x \/ (y \in plan[job.cur].inputs /\ y.id # x.id),
           \A g \in DOMAIN plan : g # job.cur => plan'[g].inputs = plan[g].inputs,
           job'.pc = "expand", job'.stream = job.stream, job'.key = job.key, job'.groups = job.groups,
           job'.cur = job.cur, job'.ents = job.ents \ {x}
    PROVE  InputInv'
<1> DEFINE c == job.cur
<1>1. c \in DOMAIN plan /\ job.ents \subseteq RelevantEntities(c) /\ Complete(c)
    BY DEF InputInv, GroupsFit
<1>2. x \in Input /\ Fits(x, c) /\ Current(x) BY <1>1, RelevantFits
<1>3. GroupsFit'
    <2>1. \A g \in DOMAIN plan' : Complete(g)' /\ \A y \in plan'[g].inputs : Fits(y, g)'
        <3> SUFFICES ASSUME NEW g \in DOMAIN plan
                     PROVE  Complete(g) /\ \A y \in plan'[g].inputs : Fits(y, g)
            BY SameRegistrations
        <3>1. CASE g = job.cur BY <1>1, <3>1
        <3>2. CASE g # job.cur BY <3>2 DEF InputInv, GroupsFit
        <3> QED BY <3>1, <3>2
    <2>2. AtWork => \A g \in job'.groups : Complete(g)' BY SameRegistrations DEF InputInv, GroupsFit
    <2>3. AtWork /\ InputsAvailable(received)' BY SameRegistrations DEF AtWork, InputInv, GroupsFit
    <2>4. job'.cur \in DOMAIN plan' /\ job'.ents \subseteq RelevantEntities(job.cur)' BY <1>1, SameRegistrations
    <2> QED BY <2>1, <2>2, <2>3, <2>4 DEF GroupsFit, AtWork
<1>4. InputsDiffer' BY <1>1 DEF InputInv, InputsDiffer
<1>5. StaleIsCompared'
    <2> SUFFICES ASSUME NEW g \in DOMAIN plan, NEW y \in plan'[g].inputs, y.id # "", ~Current(y)'
                 PROVE  /\ y.type = job.stream /\ InputKey(y) = job.key
                        /\ \/ g \in job.groups
                           \/ g = c /\ [y EXCEPT !.loc = received[y.type][InputKey(y)]] \in job.ents \ {x}
        BY DEF StaleIsCompared, InputKey
    <2>1. ~Current(y) BY SameRegistrations
    <2>2. y \in plan[g].inputs /\ (g = c => y.id # x.id) BY <1>2, <2>1
    <2>3. y \in Input BY <2>2, PlannedInput DEF TypeInv
    <2>4. Fits(y, g) /\ Complete(g) BY <2>2 DEF InputInv, GroupsFit
    <2>5. [y EXCEPT !.loc = received[y.type][InputKey(y)]].id = y.id BY <2>3, <2>4, UpdatedInput
    <2> QED BY <2>1, <2>2, <2>5 DEF InputInv, StaleIsCompared
<1> QED BY <1>3, <1>4, <1>5 DEF InputInv

LEMMA ExpandInputs ==
    ASSUME TypeInv, InputInv, NEW x \in job.ents,
           ExpandInput(x) \/ ExpandMoved(x) \/ ExpandKnown(x)
    PROVE  InputInv'
<1> DEFINE c == job.cur
<1>0. job \in JobType /\ plan \in [DOMAIN plan -> Task] /\ DOMAIN plan \subseteq Group
    BY DEF TypeInv, TypeOK, JobType
<1>1. /\ UNCHANGED <<subs, received, uniqueKeys>> /\ job.pc = "expand"
    BY DEF ExpandInput, ExpandMoved, ExpandKnown, At, flow
<1>2. c \in DOMAIN plan /\ job.ents \subseteq RelevantEntities(c) /\ Complete(c) BY DEF InputInv, GroupsFit
<1>3. x \in Input /\ Fits(x, c) /\ Current(x) BY <1>2, RelevantFits
<1>4. \A y \in plan[c].inputs : y \in Input /\ Fits(y, c) BY <1>2, PlannedInput DEF TypeInv, InputInv, GroupsFit
<1>5. CASE ExpandInput(x) /\ c \in DOMAIN deployed
    <2>1. /\ plan' = [plan EXCEPT ![c].inputs = @ \cup {x}]
          /\ job' = [job EXCEPT !.ents = @ \ {x}, !.acts = Append(@, Act("ADD_INPUT", c, deployed[c]))]
        BY <1>5 DEF ExpandInput
    <2>2. \A y \in plan[c].inputs : y.id # "" => y.id # x.id
        <3> SUFFICES ASSUME NEW y \in plan[c].inputs, y.id # "", y.id = x.id PROVE FALSE OBVIOUS
        <3>1. y.type = x.type BY <1>3, <1>4, SameInput
        <3> QED BY <1>5, <3>1 DEF ExpandInput, NewInput
    <2>3. /\ DOMAIN plan' = DOMAIN plan /\ plan'[c].inputs = plan[c].inputs \cup {x}
          /\ \A g \in DOMAIN plan : g # c => plan'[g].inputs = plan[g].inputs
        BY <1>0, <1>2, <2>1 DEF Task
    <2>4. /\ job'.pc = "expand" /\ job'.stream = job.stream /\ job'.key = job.key /\ job'.groups = job.groups
          /\ job'.cur = job.cur /\ job'.ents = job.ents \ {x}
        BY <1>0, <1>1, <2>1 DEF JobType
    <2>5. \A y \in plan'[c].inputs :
              /\ Fits(y, c)
              /\ y.id # "" => y = x \/ (y \in plan[c].inputs /\ y.id # x.id)
        BY <1>3, <1>4, <2>2, <2>3
    <2> QED BY <1>1, <2>3, <2>4, <2>5, InputReplaced
<1>6. CASE ExpandInput(x) /\ c \notin DOMAIN deployed
    BY <1>1, <1>6, InputsUnchanged DEF ExpandInput
<1>7. CASE ExpandMoved(x)
    <2>0. PICK y \in Moved(x, plan[c].inputs) : \E w, q :
              /\ plan' = [plan EXCEPT ![c] = [inputs |-> (plan[c].inputs \ {y}) \cup {Relocated(y, x.loc)},
                                              worker |-> w]]
              /\ job' = [job EXCEPT !.ents = @ \ {x}, !.acts = q]
        BY <1>7 DEF ExpandMoved
    <2>1. PICK w, q :
              /\ plan' = [plan EXCEPT ![c] = [inputs |-> (plan[c].inputs \ {y}) \cup {Relocated(y, x.loc)},
                                              worker |-> w]]
              /\ job' = [job EXCEPT !.ents = @ \ {x}, !.acts = q]
        BY <2>0
    <2>2. y \in plan[c].inputs /\ y.id = x.id BY DEF Moved
    <2> DEFINE z == Relocated(y, x.loc)
    <2>3. z.type = y.type /\ z.id = y.id /\ z.loc = x.loc BY <1>3, <1>4, <2>2 DEF Relocated, Input
    <2>4. x.id # "" => z = x
        <3>1. x.id # "" => y.type = x.type BY <1>3, <1>4, <2>2, SameInput
        <3> QED BY <1>3, <1>4, <2>2, <3>1 DEF Relocated, Input
    <2>5. Fits(z, c)
        <3>1. Fits(y, c) BY <1>4, <2>2
        <3> HIDE DEF z
        <3> QED BY <2>3, <3>1 DEF Fits, InputKey
    <2> HIDE DEF z
    <2>6. \A v \in plan[c].inputs \ {y} : v.id # "" => v.id # x.id
        BY <1>2, <2>2 DEF InputInv, InputsDiffer
    <2>7. /\ DOMAIN plan' = DOMAIN plan /\ plan'[c].inputs = (plan[c].inputs \ {y}) \cup {z}
          /\ \A g \in DOMAIN plan : g # c => plan'[g].inputs = plan[g].inputs
        BY <1>0, <1>2, <2>1 DEF z
    <2>8. /\ job'.pc = "expand" /\ job'.stream = job.stream /\ job'.key = job.key /\ job'.groups = job.groups
          /\ job'.cur = job.cur /\ job'.ents = job.ents \ {x}
        BY <1>0, <1>1, <2>1 DEF JobType
    <2>9. \A v \in plan'[c].inputs :
              /\ Fits(v, c)
              /\ v.id # "" => v = x \/ (v \in plan[c].inputs /\ v.id # x.id)
        BY <1>4, <2>2, <2>3, <2>4, <2>5, <2>6, <2>7
    <2> QED BY <1>1, <2>7, <2>8, <2>9, InputReplaced
<1>8. CASE ExpandKnown(x)
    <2>1. UNCHANGED plan /\ job' = [job EXCEPT !.ents = @ \ {x}] /\ Moved(x, plan[c].inputs) = {}
        BY <1>8 DEF ExpandKnown, flow
    <2>2. /\ job'.pc = "expand" /\ job'.stream = job.stream /\ job'.key = job.key /\ job'.groups = job.groups
          /\ job'.cur = job.cur /\ job'.ents = job.ents \ {x}
        BY <1>0, <1>1, <2>1 DEF JobType
    <2>3. GroupsFit'
        <3>1. \A g \in DOMAIN plan' : Complete(g)' /\ \A y \in plan'[g].inputs : Fits(y, g)'
            BY <1>1, <2>1, SameRegistrations DEF InputInv, GroupsFit
        <3>2. AtWork => \A g \in job'.groups : Complete(g)' BY <1>1, <2>2, SameRegistrations DEF InputInv, GroupsFit
        <3>3. AtWork /\ InputsAvailable(received)' BY <1>1, SameRegistrations DEF AtWork, InputInv, GroupsFit
        <3>4. job'.cur \in DOMAIN plan' /\ job'.ents \subseteq RelevantEntities(job.cur)'
            BY <1>1, <1>2, <2>1, <2>2, SameRegistrations
        <3> QED BY <3>1, <3>2, <3>3, <3>4 DEF GroupsFit, AtWork
    <2>4. StaleIsCompared'
        <3> SUFFICES ASSUME NEW g \in DOMAIN plan, NEW y \in plan[g].inputs, y.id # "", ~Current(y)'
                     PROVE  /\ y.type = job.stream /\ InputKey(y) = job.key
                            /\ \/ g \in job.groups
                               \/ g = c /\ [y EXCEPT !.loc = received[y.type][InputKey(y)]] \in job.ents \ {x}
            BY <1>1, <2>1, <2>2 DEF StaleIsCompared, InputKey
        <3>1. ~Current(y) BY <1>1, SameRegistrations
        <3> DEFINE z == [y EXCEPT !.loc = received[y.type][InputKey(y)]]
        <3>2. y \in Input /\ Fits(y, g) /\ Complete(g) BY PlannedInput DEF TypeInv, InputInv, GroupsFit
        <3>3. z.id = y.id /\ z.loc = received[y.type][InputKey(y)] BY <3>2, UpdatedInput
        <3> HIDE DEF z
        <3>4. g = c => z # x
            <4> SUFFICES ASSUME g = c, z = x PROVE FALSE OBVIOUS
            <4>1. y.loc = x.loc BY <2>1, <3>3 DEF Moved
            <4> QED BY <3>1, <3>2, <3>3, <4>1 DEF Current, Fits
        <3> QED BY <3>1, <3>4 DEF InputInv, StaleIsCompared, z
    <2> QED BY <2>1, <2>3, <2>4 DEF InputInv, InputsDiffer
<1> QED BY <1>5, <1>6, <1>7, <1>8

LEMMA ReduceGroupInputs ==
    ASSUME TypeInv, InputInv, NEW g \in job.groups, ReduceGroup(g)
    PROVE  InputInv'
<1>0. job \in JobType /\ plan \in [DOMAIN plan -> Task] BY DEF TypeInv, TypeOK, JobType
<1>1. UNCHANGED <<subs, received, uniqueKeys>> /\ job.pc = "reduce" BY DEF ReduceGroup, At
<1>2. NoneIsStale /\ AtWork /\ job.ents = {} BY <1>1, NothingStale DEF AtWork, TypeInv, JobIsSound
<1>3. job'.ents = {} /\ job'.groups \subseteq job.groups
    <2>1. job' = job \/ \E q : job' = [job EXCEPT !.groups = @ \ {g}, !.acts = q]
                     \/ job' = [job EXCEPT !.groups = @ \ {g}]
        BY DEF ReduceGroup
    <2> QED BY <1>0, <1>2, <2>1 DEF JobType
<1>4. /\ DOMAIN plan' \subseteq DOMAIN plan
      /\ \A h \in DOMAIN plan' : plan'[h].inputs \subseteq plan[h].inputs
    <2>1. CASE plan' = plan BY <2>1
    <2>2. CASE g \in DOMAIN plan /\ plan' = Del(plan, g) BY <2>2 DEF Del
    <2>3. CASE g \in DOMAIN plan /\ plan' = [plan EXCEPT ![g].inputs = removeInput(plan[g].inputs, job.key)]
        <3>1. removeInput(plan[g].inputs, job.key) \subseteq plan[g].inputs BY DEF removeInput
        <3> QED BY <1>0, <2>3, <3>1 DEF Task
    <2> QED BY <2>1, <2>2, <2>3 DEF ReduceGroup
<1> QED BY <1>1, <1>2, <1>3, <1>4, InputsShrink

\* The execution of the plan changes workers, not inputs.
LEMMA ExecutionInputs ==
    ASSUME TypeInv, InputInv, Execution
    PROVE  InputInv'
<1>0. job \in JobType /\ plan \in [DOMAIN plan -> Task] BY DEF TypeInv, TypeOK, JobType
<1>1. UNCHANGED <<subs, received, uniqueKeys>>
    BY DEF Execution, SelectForTask, DeployTask, RemoveTask, SendInput, NilAction, Return, flow
<1>2. AtWork /\ job.groups = {} /\ job.ents = {}
    BY DEF Execution, SelectForTask, DeployTask, RemoveTask, SendInput, NilAction, Return, Executing,
           Planned, At, AtWork, TypeInv, JobIsSound
<1>3. NoneIsStale BY <1>2, NothingStale
<1>4. job'.ents = {} /\ (AtWork' => job'.groups \subseteq job.groups)
    <2>1. CASE job' = job \/ job' = Idle BY <1>2, <2>1, IdleType
    <2>2. CASE \E w : job' = [job EXCEPT !.pc = "deploy", !.worker = w] BY <1>0, <1>2, <2>2 DEF JobType
    <2>3. CASE job' = NextAct BY <1>0, <1>2, <2>3 DEF JobType, NextAct
    <2>4. CASE job' = [NextAct EXCEPT !.pc = "expand", !.worker = None]
        BY <1>0, <1>2, <2>4 DEF JobType, NextAct
    <2> QED BY <2>1, <2>2, <2>3, <2>4
            DEF Execution, SelectForTask, DeployTask, RemoveTask, SendInput, NilAction, Return
<1>5. plan' = plan \/ \E t, w : plan' = [plan EXCEPT ![t].worker = w]
    BY DEF Execution, SelectForTask, DeployTask, RemoveTask, SendInput, NilAction, Return, flow
<1>6. /\ DOMAIN plan' \subseteq DOMAIN plan
      /\ \A h \in DOMAIN plan' : plan'[h].inputs \subseteq plan[h].inputs
    BY <1>0, <1>5 DEF Task
<1> QED BY <1>1, <1>2, <1>3, <1>4, <1>6, InputsShrink

LEMMA FlowInputs ==
    ASSUME TypeInv, InputInv,
           (\E i \in Intent : RemoveServiceIntent(i)) \/ (\E t \in DOMAIN deployed : EndTask(t)) \/ DeleteFlow
    PROVE  InputInv'
<1>0. job \in JobType BY DEF TypeInv, TypeOK, JobType
<1>1. UNCHANGED <<subs, received, uniqueKeys>> /\ (plan' = plan \/ plan' = Empty) /\ job.pc \in {"idle", "end"}
    BY DEF RemoveServiceIntent, EndTask, DeleteFlow, flow, At
<1>2. NoneIsStale /\ job.ents = {} /\ ~AtWork BY <1>1, NothingStale DEF TypeInv, JobIsSound, AtWork
<1>3. job'.ents = {} /\ ~AtWork'
    <2>1. CASE job' = job \/ job' = Idle BY <1>2, <2>1, IdleType DEF AtWork
    <2>2. CASE job' = [Idle EXCEPT !.pc = "end", !.groups = DOMAIN deployed]
        BY <2>2, IdleType DEF JobType, AtWork
    <2>3. CASE \E t : job' = [job EXCEPT !.groups = @ \ {t}]
        BY <1>0, <1>2, <2>3 DEF JobType, AtWork
    <2> QED BY <2>1, <2>2, <2>3 DEF RemoveServiceIntent, EndTask, DeleteFlow
<1>4. /\ DOMAIN plan' \subseteq DOMAIN plan
      /\ \A h \in DOMAIN plan' : plan'[h].inputs \subseteq plan[h].inputs
    BY <1>1, EmptyType
<1> QED BY <1>1, <1>2, <1>3, <1>4, InputsShrink

LEMMA InputStep ==
    ASSUME TypeInv, InputInv, [Next]_vars
    PROVE  InputInv'
<1>1. CASE UNCHANGED <<flow, job>> BY <1>1, InputsUnchanged DEF flow
<1>2. ASSUME NEW w \in Worker, WorkerJoin(w) \/ WorkerLost(w) PROVE InputInv'
    BY <1>1, <1>2 DEF WorkerJoin, WorkerLost
<1>3. ASSUME NEW a \in adding, PublishAddTask(a) PROVE InputInv' BY <1>1, <1>3 DEF PublishAddTask
<1>4. ASSUME NEW i \in Intent, HandleServiceIntent(i) PROVE InputInv'
    BY <1>1, <1>4 DEF HandleServiceIntent
<1>5. ASSUME NEW x \in setups, RecordIntent(x) PROVE InputInv' BY <1>1, <1>5 DEF RecordIntent
<1>6. ASSUME NEW x \in setups, InstallFlow(x) PROVE InputInv' BY <1>6, InstallInputs
<1>7. CASE Intents BY <1>4, <1>5, <1>6, <1>7, FlowInputs DEF Intents
<1>8. CASE Notifications BY <1>8, NotifyUpdateInputs, NotifyDeleteInputs DEF Notifications
<1>9. CASE Planning BY <1>9, ExpandGroupInputs, ReduceGroupInputs, ExpandInputs DEF Planning
<1>10. CASE Execution BY <1>10, ExecutionInputs
<1>11. CASE UNCHANGED vars BY <1>1, <1>11 DEF vars
<1> QED BY <1>2, <1>3, <1>7, <1>8, <1>9, <1>10, <1>11 DEF Next

LEMMA InputInit == Init => InputInv
<1> SUFFICES ASSUME Init PROVE InputInv OBVIOUS
<1>1. DOMAIN plan = {} /\ job.pc = "idle" /\ job.ents = {} BY EmptyType, IdleType DEF Init
<1> QED BY <1>1 DEF InputInv, GroupsFit, InputsDiffer, StaleIsCompared, AtWork

\* The last location given is that of the registration: a notification without
\* a location changes neither, and only a DELETE drops a registration.
LEMMA ToldStep ==
    ASSUME TypeInv, ToldIsReceived, [Next]_vars
    PROVE  ToldIsReceived'
<1>1. CASE UNCHANGED <<told, received>> BY <1>1 DEF ToldIsReceived
<1>2. ASSUME NEW e \in Entity, NEW l \in Loc, NotifyUpdate(e, l) PROVE ToldIsReceived'
    <2> DEFINE s == TypeOf[e]
    <2> SUFFICES ASSUME NEW f \in Entity, told'[f] # NoLoc, ~Simple(TypeOf[f])
                 PROVE  f \in DOMAIN received'[TypeOf[f]] /\ received'[TypeOf[f]][f] = told'[f]
        BY DEF ToldIsReceived
    <2>1. told' = IF l = NoLoc THEN told ELSE [told EXCEPT ![e] = l] BY <1>2 DEF NotifyUpdate
    <2>2. /\ DOMAIN received'[s] = DOMAIN received[s] \cup {Key(e)}
          /\ \A k \in DOMAIN received[s] : k # Key(e) => received'[s][k] = received[s][k]
          /\ \A u \in Stream : u # s => received'[u] = received[u]
        BY <1>2, NotifyUpdateEffect
    <2>3. TypeOf[f] \in Stream /\ s \in Stream /\ Key(f) = f BY KeyType
    <2>4. CASE f # e
        <3>1. told'[f] = told[f] BY <2>1, <2>4 DEF TypeInv, TypeOK
        <3>2. f \in DOMAIN received[TypeOf[f]] /\ received[TypeOf[f]][f] = told[f] BY <3>1 DEF ToldIsReceived
        <3>3. TypeOf[f] = s => Key(e) = e BY KeyType
        <3> QED BY <2>2, <2>3, <2>4, <3>1, <3>2, <3>3
    <2>5. CASE f = e /\ l = NoLoc
        <3>1. told'[f] = told[f] BY <2>1, <2>5
        <3>2. f \in DOMAIN received[s] /\ received[s][f] = told[f] BY <2>5, <3>1 DEF ToldIsReceived
        <3>3. received' = received BY <1>2, <2>3, <2>5, <3>2 DEF NotifyUpdate
        <3> QED BY <2>5, <3>1, <3>2, <3>3
    <2>6. CASE f = e /\ l # NoLoc
        <3>1. told'[f] = l BY <2>1, <2>6 DEF TypeInv, TypeOK
        <3>2. received' = [received EXCEPT ![s] = Put(received[s], e, l)]
            BY <1>2, <2>3, <2>6 DEF NotifyUpdate
        <3>3. received'[s] = Put(received[s], e, l) BY <2>3, <3>2 DEF TypeInv, TypeOK
        <3>4. e \in DOMAIN Put(received[s], e, l) /\ Put(received[s], e, l)[e] = l BY DEF Put
        <3> QED BY <2>6, <3>1, <3>3, <3>4
    <2> QED BY <2>4, <2>5, <2>6
<1>3. ASSUME NEW e \in Entity, NotifyDelete(e) PROVE ToldIsReceived'
    <2> DEFINE s == TypeOf[e]
    <2> SUFFICES ASSUME NEW f \in Entity, told'[f] # NoLoc, ~Simple(TypeOf[f])
                 PROVE  f \in DOMAIN received'[TypeOf[f]] /\ received'[TypeOf[f]][f] = told'[f]
        BY DEF ToldIsReceived
    <2>1. told' = [told EXCEPT ![e] = NoLoc] BY <1>3 DEF NotifyDelete
    <2>2. f # e /\ told'[f] = told[f] BY <2>1 DEF TypeInv, TypeOK
    <2>3. f \in DOMAIN received[TypeOf[f]] /\ received[TypeOf[f]][f] = told[f] BY <2>2 DEF ToldIsReceived
    <2>4. TypeOf[f] \in Stream /\ s \in Stream /\ (TypeOf[f] = s => Key(e) = e) BY KeyType
    <2>5. CASE received' = received BY <2>2, <2>3, <2>5
    <2>6. CASE received' = [received EXCEPT ![s] = Del(received[s], Key(e))]
        <3>1. CASE TypeOf[f] = s
            <4>1. received'[s] = Del(received[s], e) BY <2>4, <2>6, <3>1 DEF TypeInv, TypeOK
            <4>2. f \in DOMAIN Del(received[s], e) /\ Del(received[s], e)[f] = received[s][f]
                BY <2>2, <2>3, <3>1 DEF Del
            <4> QED BY <2>2, <2>3, <3>1, <4>1, <4>2
        <3>2. CASE TypeOf[f] # s
            <4>1. received'[TypeOf[f]] = received[TypeOf[f]] BY <2>4, <2>6, <3>2 DEF TypeInv, TypeOK
            <4> QED BY <2>2, <2>3, <4>1
        <3> QED BY <3>1, <3>2
    <2> QED BY <1>3, <2>5, <2>6 DEF NotifyDelete
<1>4. ASSUME NEW x \in setups, InstallFlow(x) PROVE ToldIsReceived'
    BY <1>4 DEF InstallFlow, ToldIsReceived
<1>5. CASE Intents
    BY <1>1, <1>4, <1>5 DEF Intents, HandleServiceIntent, RemoveServiceIntent, RecordIntent, EndTask,
                            DeleteFlow, flow, heard
<1>6. CASE Notifications BY <1>2, <1>3, <1>6 DEF Notifications
<1>7. CASE Planning
    BY <1>1, <1>7 DEF Planning, ExpandGroup, ReduceGroup, ExpandInput, ExpandMoved, ExpandKnown, flow, heard
<1>8. CASE Execution
    BY <1>1, <1>8 DEF Execution, SelectForTask, DeployTask, RemoveTask, SendInput, NilAction, Return, flow, heard
<1>9. CASE \/ \E w \in Worker : WorkerJoin(w) \/ WorkerLost(w)
           \/ \E a \in adding : PublishAddTask(a)
           \/ UNCHANGED vars
    BY <1>1, <1>9 DEF WorkerJoin, WorkerLost, PublishAddTask, vars, flow, heard
<1> QED BY <1>5, <1>6, <1>7, <1>8, <1>9 DEF Next

\* When no handler is at work, an input with an ID is where the registration of
\* its entity is, and that is the location last given.
LEMMA NoneIsOutdated ==
    ASSUME TypeInv, InputInv, ToldIsReceived, job.pc = "idle",
           NEW g \in DOMAIN plan, NEW y \in plan[g].inputs
    PROVE  ~Outdated(y)
<1> SUFFICES ASSUME y.id # "", told[y.id] # NoLoc PROVE y.loc = told[y.id] BY DEF Outdated
<1>1. y \in Input /\ y.type \in Stream /\ y.id \in Entity BY PlannedInput DEF TypeInv, Input
<1>2. Fits(y, g) BY DEF InputInv, GroupsFit
<1>3. Current(y) BY NothingStale DEF NoneIsStale
<1>4. TypeOf[y.id] = y.type /\ InputKey(y) = y.id BY <1>1, <1>2, SameInput
<1>5. ~Simple(y.type) BY <1>2 DEF Fits
<1> QED BY <1>1, <1>3, <1>4, <1>5 DEF Current, ToldIsReceived

\* HandleContextAvailabilityUpdate: whatever the streams of the topology, no input
\* of a planned task that has an ID keeps a location that a later notification
\* of its entity has replaced, whenever no handler is at work.
THEOREM InputsFollowTheirEntities == Spec => []InputsAreUpToDate
<1> DEFINE I == TypeInv /\ InputInv /\ ToldIsReceived
<1>1. I => InputsAreUpToDate BY NoneIsOutdated DEF InputsAreUpToDate
<1>2. Init => I
    <2>1. Init => ToldIsReceived BY DEF Init, ToldIsReceived
    <2> QED BY <2>1, TypeInit, InputInit
<1>3. I /\ [Next]_vars => I' BY TypeStep, InputStep, ToldStep
<1> QED BY <1>1, <1>2, <1>3, PTL DEF Spec

-----------------------------------------------------------------------------
(* The plan follows the available entities                                 *)

OneStream == \A s \in Stream : Stream = {s} /\ GroupBy[s] = "EntityID"
Instances(E) == {[s \in Stream |-> e] : e \in E}

\* A notification is about the one task instance of its entity.
LEMMA OneGroup ==
    ASSUME OneStream, NEW e \in Entity, NEW keys \in [Stream -> SUBSET GroupValue],
           keys[TypeOf[e]] # {}
    PROVE  Key(e) = e /\ RelevantGroups(TypeOf[e], e, keys) = {[s \in Stream |-> e]}
<1> DEFINE s == TypeOf[e]
<1>1. s \in Stream /\ Stream = {s} /\ GroupBy[s] = "EntityID" BY FogFlowAssumption DEF OneStream
<1>2. Key(e) = e /\ Value(s, e) = e BY <1>1 DEF Key, Simple, Value
<1>3. {u \in Stream : keys[u] # {}} = {s} BY <1>1
<1>4. RelevantGroups(s, e, keys) = {g \in [{s} -> GroupValue] : g[s] = e}
    BY <1>1, <1>2, <1>3 DEF RelevantGroups
<1>5. [u \in Stream |-> e] \in [{s} -> GroupValue] /\ [u \in Stream |-> e][s] = e BY <1>1 DEF GroupValue
<1>6. \A g \in [{s} -> GroupValue] : g[s] = e => g = [u \in Stream |-> e] BY <1>1
<1> HIDE DEF s
<1>7. RelevantGroups(s, e, keys) = {[u \in Stream |-> e]} BY <1>4, <1>5, <1>6
<1> QED BY <1>2, <1>7 DEF s

LEMMA WayUpdate ==
    ASSUME OneStream, TypeInv, PlanIsOnItsWay, NEW e \in Entity, NEW l \in Loc, NotifyUpdate(e, l)
    PROVE  PlanIsOnItsWay'
<1> DEFINE s == TypeOf[e]
           k == Key(e)
<1>1. /\ subs' = subs /\ plan' = plan /\ s \in subs /\ job = Idle
      /\ DOMAIN received'[s] = DOMAIN received[s] \cup {k}
      /\ uniqueKeys' = [uniqueKeys EXCEPT ![s] = @ \cup {Value(s, k)}]
      /\ InputsAvailable(received') =>
            job' = [Idle EXCEPT !.pc = "expand", !.stream = s, !.key = k,
                                !.groups = RelevantGroups(s, k, uniqueKeys')]
    BY NotifyUpdateEffect
<1>2. fid' = fid /\ fid # 0 /\ available' = available \cup {e} BY DEF NotifyUpdate, Note
<1>3. s \in Stream /\ Stream = {s} /\ subs \subseteq Stream BY KeyType DEF OneStream, TypeInv, TypeOK
<1>4. InputsAvailable(received') BY <1>1, <1>3 DEF InputsAvailable
<1>5. uniqueKeys' \in [Stream -> SUBSET GroupValue] BY NotifyUpdateTypes DEF TypeInv, TypeOK
<1>6. uniqueKeys'[s] # {} BY <1>1, <1>3 DEF TypeInv, TypeOK
<1>7. k = e /\ RelevantGroups(s, e, uniqueKeys') = {[u \in Stream |-> e]} BY <1>5, <1>6, OneGroup
<1>8. job'.pc = "expand" /\ job'.groups = {[u \in Stream |-> e]}
    <2>1. job' = [Idle EXCEPT !.pc = "expand", !.stream = s, !.key = k, !.groups = {[u \in Stream |-> e]}]
        BY <1>1, <1>4, <1>7
    <2> QED BY <2>1, IdleType DEF JobType
<1>9. DOMAIN plan = Instances(available) BY <1>1, <1>2, IdleType DEF PlanIsOnItsWay, Instances
<1>10. Instances(available') = Instances(available) \cup {[u \in Stream |-> e]} BY <1>2 DEF Instances
<1> QED BY <1>1, <1>8, <1>9, <1>10 DEF PlanIsOnItsWay, Instances

LEMMA WayDelete ==
    ASSUME OneStream, TypeInv, PlanIsOnItsWay, NEW e \in Entity, NotifyDelete(e)
    PROVE  PlanIsOnItsWay'
<1> DEFINE s == TypeOf[e]
           k == Key(e)
<1>1. UNCHANGED <<subs, plan, fid>> /\ job = Idle /\ s \in subs /\ k \in DOMAIN received[s] /\ fid # 0
    BY DEF NotifyDelete, Note, At, TypeInv, JobIsSound
<1>2. available' = available \ {e} /\ available \subseteq Entity BY DEF NotifyDelete, TypeInv, TypeOK
<1>3. s \in Stream /\ Stream = {s} /\ subs \subseteq Stream BY KeyType DEF OneStream, TypeInv, TypeOK
<1>4. InputsAvailable(received) BY <1>1, <1>3 DEF InputsAvailable
<1>5. uniqueKeys \in [Stream -> SUBSET GroupValue] /\ uniqueKeys[s] # {}
    BY <1>1, <1>3 DEF TypeInv, TypeOK, KeysAreKept
<1>6. k = e /\ RelevantGroups(s, e, uniqueKeys) = {[u \in Stream |-> e]} BY <1>5, OneGroup
<1>7. job'.pc = "reduce" /\ job'.stream = s /\ job'.key = e /\ job'.groups = {[u \in Stream |-> e]}
    <2>1. job' = [Idle EXCEPT !.pc = "reduce", !.stream = s, !.key = e, !.groups = {[u \in Stream |-> e]}]
        BY <1>4, <1>6 DEF NotifyDelete
    <2> QED BY <2>1, IdleType DEF JobType
<1>8. DOMAIN plan = Instances(available) BY <1>1, IdleType DEF PlanIsOnItsWay, Instances
<1>9. \A x : [u \in Stream |-> x] = [u \in Stream |-> e] => x = e BY <1>3
<1>10. Instances(available') = Instances(available) \ {[u \in Stream |-> e]}
    BY <1>2, <1>9 DEF Instances
<1>11. \A g \in job'.groups, u \in Stream : g[u] = job'.key BY <1>7
<1> QED BY <1>1, <1>3, <1>7, <1>8, <1>10, <1>11 DEF PlanIsOnItsWay, Instances

LEMMA WayExpand ==
    ASSUME TypeInv, InputInv, PlanIsOnItsWay,
           \/ \E g \in job.groups : ExpandGroup(g)
           \/ \E x \in job.ents : ExpandInput(x) \/ ExpandMoved(x) \/ ExpandKnown(x)
    PROVE  PlanIsOnItsWay'
<1>0. job \in JobType /\ plan \in [DOMAIN plan -> Task] BY DEF TypeInv, TypeOK, JobType
<1>1. job.pc = "expand" /\ UNCHANGED <<fid, available>>
    BY DEF ExpandGroup, ExpandInput, ExpandMoved, ExpandKnown, At, flow, heard
<1>2. ASSUME NEW g \in job.groups, ExpandGroup(g)
      PROVE  job'.pc = "expand" /\ DOMAIN plan' \cup job'.groups = DOMAIN plan \cup job.groups
    <2>1. CASE g \in DOMAIN plan
        <3>1. job'.pc = "expand" /\ job'.groups = job.groups \ {g} /\ plan' = plan
            BY <1>0, <1>1, <1>2, <2>1 DEF ExpandGroup, JobType
        <3> QED BY <2>1, <3>1
    <2>2. CASE g \notin DOMAIN plan
        <3>1. DOMAIN plan' = DOMAIN plan \cup {g} BY <1>2, <2>2 DEF ExpandGroup, Put
        <3>2. job'.pc = "expand" /\ job'.groups = job.groups \ {g}
            BY <1>0, <1>1, <1>2, <2>2 DEF ExpandGroup, JobType
        <3> QED BY <3>1, <3>2
    <2> QED BY <2>1, <2>2
<1>3. ASSUME NEW x \in job.ents, ExpandInput(x) \/ ExpandMoved(x) \/ ExpandKnown(x)
      PROVE  job'.pc = "expand" /\ DOMAIN plan' = DOMAIN plan /\ job'.groups = job.groups
    <2>1. DOMAIN plan' = DOMAIN plan
        <3>1. CASE ExpandInput(x) BY <1>0, <3>1 DEF ExpandInput
        <3>2. CASE ExpandMoved(x)
            <4>1. PICK v : plan' = [plan EXCEPT ![job.cur] = v] BY <3>2 DEF ExpandMoved
            <4> QED BY <1>0, <4>1
        <3>3. CASE ExpandKnown(x) BY <3>3 DEF ExpandKnown, flow
        <3> QED BY <1>3, <3>1, <3>2, <3>3
    <2>2. job' = job \/ (\E v, q : job' = [job EXCEPT !.ents = v, !.acts = q])
                     \/ job' = [job EXCEPT !.ents = @ \ {x}]
        BY <1>3 DEF ExpandInput, ExpandMoved, ExpandKnown
    <2> QED BY <1>0, <1>1, <2>1, <2>2 DEF JobType
<1> QED BY <1>1, <1>2, <1>3 DEF PlanIsOnItsWay

\* A task instance whose only stream loses its entity is removed: no other
\* input of it is left.
LEMMA WayReduce ==
    ASSUME OneStream, TypeInv, InputInv, PlanIsOnItsWay, fid # 0, NEW g \in job.groups, ReduceGroup(g)
    PROVE  PlanIsOnItsWay'
<1>0. job \in JobType /\ plan \in [DOMAIN plan -> Task] BY DEF TypeInv, TypeOK, JobType
<1>1. job.pc = "reduce" /\ UNCHANGED <<fid, available>> BY DEF ReduceGroup, At, heard
<1>2. g \in DOMAIN plan => ~checkInputsOfTaskInstance(removeInput(plan[g].inputs, job.key))
    <2> SUFFICES ASSUME g \in DOMAIN plan, checkInputsOfTaskInstance(removeInput(plan[g].inputs, job.key))
                 PROVE  FALSE
        OBVIOUS
    <2>1. AtWork /\ InputsAvailable(received) BY <1>1 DEF AtWork, InputInv, GroupsFit
    <2>2. Stream # {} BY <1>1 DEF PlanIsOnItsWay
    <2>3. PICK s \in Stream : TRUE BY <2>2
    <2>4. PICK y \in plan[g].inputs : y.type = s /\ y.id # job.key
        BY DEF checkInputsOfTaskInstance, removeInput
    <2>5. ~Simple(s) /\ GroupBy[s] = "EntityID" BY DEF OneStream, Simple
    <2>6. InputKey(y) = y.id /\ Value(s, y.id) = y.id BY <2>4, <2>5 DEF InputKey, Value
    <2>7. g[s] = y.id BY <2>4, <2>6 DEF InputInv, GroupsFit, Fits
    <2>8. g[s] = job.key BY <1>1 DEF PlanIsOnItsWay
    <2> QED BY <2>4, <2>7, <2>8
<1>3. job'.pc = "reduce" /\ job'.key = job.key /\ job'.stream = job.stream /\ job'.groups = job.groups \ {g}
    <2>1. job' = [job EXCEPT !.groups = @ \ {g}] \/ \E q : job' = [job EXCEPT !.groups = @ \ {g}, !.acts = q]
        BY <1>2 DEF ReduceGroup
    <2> QED BY <1>0, <1>1, <2>1 DEF JobType
<1>4. DOMAIN plan' = DOMAIN plan \ {g}
    <2>1. CASE g \in DOMAIN plan
        <3>1. plan' = Del(plan, g) BY <1>2, <2>1 DEF ReduceGroup
        <3> QED BY <3>1 DEF Del
    <2>2. CASE g \notin DOMAIN plan BY <2>2 DEF ReduceGroup
    <2> QED BY <2>1, <2>2
<1> QED BY <1>1, <1>3, <1>4 DEF PlanIsOnItsWay

LEMMA WayExecution ==
    ASSUME TypeInv, PlanIsOnItsWay, Execution
    PROVE  PlanIsOnItsWay'
<1>0. job \in JobType /\ plan \in [DOMAIN plan -> Task] BY DEF TypeInv, TypeOK, JobType
<1>1. UNCHANGED <<fid, available>>
    BY DEF Execution, SelectForTask, DeployTask, RemoveTask, SendInput, NilAction, Return, flow, heard
<1>2. job.pc \in {"expand", "reduce", "deploy"} /\ job.groups = {}
    BY DEF Execution, SelectForTask, DeployTask, RemoveTask, SendInput, NilAction, Return, Executing,
           Planned, At, TypeInv, JobIsSound
<1>3. /\ job'.pc \in {"idle", "expand", "deploy"} \/ (job'.pc = "reduce" /\ job.pc = "reduce")
      /\ job'.groups = {} /\ (job'.pc # "idle" => job'.stream = job.stream)
    <2>1. CASE job' = job \/ job' = Idle BY <1>2, <2>1, IdleType
    <2>2. CASE \E w : job' = [job EXCEPT !.pc = "deploy", !.worker = w] BY <1>0, <1>2, <2>2 DEF JobType
    <2>3. CASE job' = NextAct BY <1>0, <1>2, <2>3 DEF JobType, NextAct
    <2>4. CASE job' = [NextAct EXCEPT !.pc = "expand", !.worker = None]
        BY <1>0, <1>2, <2>4 DEF JobType, NextAct
    <2> QED BY <2>1, <2>2, <2>3, <2>4
            DEF Execution, SelectForTask, DeployTask, RemoveTask, SendInput, NilAction, Return
<1>4. DOMAIN plan' = DOMAIN plan
    <2>1. plan' = plan \/ \E t, w : plan' = [plan EXCEPT ![t].worker = w]
        BY DEF Execution, SelectForTask, DeployTask, RemoveTask, SendInput, NilAction, Return, flow
    <2> QED BY <1>0, <2>1
<1>5. fid # 0 => DOMAIN plan = Instances(available) BY <1>2 DEF PlanIsOnItsWay, Instances
<1> QED BY <1>1, <1>2, <1>3, <1>4, <1>5 DEF PlanIsOnItsWay, Instances

LEMMA WayFlow ==
    ASSUME TypeInv, PlanIsOnItsWay,
           \/ \E i \in Intent : RemoveServiceIntent(i)
           \/ \E x \in setups : InstallFlow(x)
           \/ \E t \in DOMAIN deployed : EndTask(t)
           \/ DeleteFlow
    PROVE  PlanIsOnItsWay'
<1>0. job \in JobType BY DEF TypeInv, TypeOK, JobType
<1>1. ASSUME NEW i \in Intent, RemoveServiceIntent(i) PROVE PlanIsOnItsWay'
    <2>1. UNCHANGED <<plan, fid, available>> BY <1>1 DEF RemoveServiceIntent, flow, heard
    <2>2. CASE fid = 0 BY <2>1, <2>2 DEF PlanIsOnItsWay
    <2>3. CASE fid # 0
        <3>1. job' = [Idle EXCEPT !.pc = "end", !.groups = DOMAIN deployed]
            BY <1>1, <2>3 DEF RemoveServiceIntent
        <3>2. job'.pc = "end" BY <3>1, IdleType DEF JobType
        <3> QED BY <3>2 DEF PlanIsOnItsWay
    <2> QED BY <2>2, <2>3
<1>2. ASSUME NEW x \in setups, InstallFlow(x) PROVE PlanIsOnItsWay'
    <2>1. plan' = Empty /\ available' = {} /\ job' = job /\ job.pc = "idle" BY <1>2 DEF InstallFlow, At
    <2> QED BY <2>1, EmptyType DEF PlanIsOnItsWay
<1>3. ASSUME NEW t \in DOMAIN deployed, EndTask(t) PROVE PlanIsOnItsWay'
    <2>1. job'.pc = "end" BY <1>0, <1>3 DEF EndTask, At, JobType
    <2> QED BY <2>1 DEF PlanIsOnItsWay
<1>4. CASE DeleteFlow BY <1>4 DEF DeleteFlow, PlanIsOnItsWay
<1> QED BY <1>1, <1>2, <1>3, <1>4

LEMMA WayStep ==
    ASSUME OneStream, TypeInv, InputInv, PlanIsOnItsWay, [Next]_vars
    PROVE  PlanIsOnItsWay'
<1>1. CASE UNCHANGED <<flow, job, heard>> BY <1>1 DEF flow, heard, PlanIsOnItsWay
<1>2. ASSUME NEW w \in Worker, WorkerJoin(w) \/ WorkerLost(w) PROVE PlanIsOnItsWay'
    BY <1>1, <1>2 DEF WorkerJoin, WorkerLost
<1>3. ASSUME NEW a \in adding, PublishAddTask(a) PROVE PlanIsOnItsWay' BY <1>1, <1>3 DEF PublishAddTask
<1>4. ASSUME NEW i \in Intent, HandleServiceIntent(i) PROVE PlanIsOnItsWay'
    BY <1>1, <1>4 DEF HandleServiceIntent
<1>5. ASSUME NEW x \in setups, RecordIntent(x) PROVE PlanIsOnItsWay' BY <1>1, <1>5 DEF RecordIntent
<1>6. CASE Intents BY <1>4, <1>5, <1>6, WayFlow DEF Intents
<1>7. CASE Notifications BY <1>7, WayUpdate, WayDelete DEF Notifications
<1>8. ASSUME NEW g \in job.groups, ReduceGroup(g) PROVE PlanIsOnItsWay'
    <2>1. CASE fid # 0 BY <1>8, <2>1, WayReduce
    <2>2. CASE fid = 0 BY <1>8, <2>2 DEF ReduceGroup, PlanIsOnItsWay
    <2> QED BY <2>1, <2>2
<1>9. CASE Planning BY <1>8, <1>9, WayExpand DEF Planning
<1>10. CASE Execution BY <1>10, WayExecution
<1>11. CASE UNCHANGED vars BY <1>1, <1>11 DEF vars
<1> QED BY <1>2, <1>3, <1>6, <1>7, <1>9, <1>10, <1>11 DEF Next

\* HandleContextAvailabilityUpdate, expandExecutionPlan and removeExecutionPlan:
\* with one stream that is grouped by entity ID, the planned task instances are
\* those of the available entities whenever no handler is at work, although
\* neither registrations nor keys are ever dropped.
THEOREM TasksFollowAvailability == Spec => []PlanFollowsAvailability
<1>1. CASE OneStream
    <2> DEFINE I == TypeInv /\ InputInv /\ PlanIsOnItsWay
    <2>1. Init => PlanIsOnItsWay BY DEF Init, PlanIsOnItsWay
    <2>2. Init => I BY <2>1, TypeInit, InputInit
    <2>3. I /\ [Next]_vars => I' BY <1>1, TypeStep, InputStep, WayStep
    <2>4. I => PlanFollowsAvailability BY DEF PlanIsOnItsWay, PlanFollowsAvailability
    <2> HIDE DEF I
    <2> QED BY <2>2, <2>3, <2>4, PTL DEF Spec
<1>2. CASE ~OneStream
    <2>1. PlanFollowsAvailability BY <1>2 DEF OneStream, PlanFollowsAvailability
    <2> QED BY <2>1, PTL
<1> QED BY <1>1, <1>2

-----------------------------------------------------------------------------
(* A task is in one place                                                  *)

Places == FlowsEnd /\ WorkersWereListed /\ ActsAreSound /\ NowhereElse /\ OnePlace

\* The list of actions: what it holds is typed, and an empty one leaves nothing.
LEMMA ActsType ==
    ASSUME TypeInv
    PROVE  job.acts \in Seq(Action) /\ DOMAIN job.acts = 1..Len(job.acts)
<1>1. job \in JobType BY DEF TypeInv, TypeOK, JobType
<1> QED BY <1>1 DEF JobType

LEMMA NothingLeaves ==
    ASSUME TypeInv, NEW t, job.acts = <<>> \/ Adds(1, t)
    PROVE  ~Leaves(t)
<1> SUFFICES ASSUME Leaves(t) PROVE FALSE OBVIOUS
<1>1. PICK n \in DOMAIN job.acts : \A m \in 1..n : ~Adds(m, t) BY DEF Leaves
<1>2. DOMAIN job.acts # {} /\ n \in 1..Len(job.acts) BY <1>1, ActsType
<1>3. job.acts # <<>> BY <1>2
<1>4. Adds(1, t) /\ 1 \in 1..n BY <1>2, <1>3, ActsType
<1> QED BY <1>1, <1>4

LEMMA LeavesKept ==
    ASSUME TypeInv, deployed' = deployed,
           \A n \in DOMAIN job.acts : n \in DOMAIN job'.acts /\ job'.acts[n] = job.acts[n],
           NEW t, Leaves(t)
    PROVE  Leaves(t)'
<1>1. PICK n \in DOMAIN job.acts : /\ job.acts[n] = Act("REMOVE_TASK", t, deployed[t])
                                   /\ t \in DOMAIN deployed /\ \A m \in 1..n : ~Adds(m, t)
    BY DEF Leaves
<1>2. n \in 1..Len(job.acts) /\ 1..n \subseteq DOMAIN job.acts BY <1>1, ActsType
<1>3. n \in DOMAIN job'.acts /\ job'.acts[n] = Act("REMOVE_TASK", t, deployed'[t]) /\ t \in DOMAIN deployed'
    BY <1>1
<1>4. \A m \in 1..n : ~Adds(m, t)' BY <1>1, <1>2 DEF Adds
<1> QED BY <1>3, <1>4 DEF Leaves, Act

\* The rest of a list of actions.
LEMMA RestOfActs ==
    ASSUME TypeInv, job.acts # <<>>, job'.acts = Tail(job.acts)
    PROVE  /\ Head(job.acts) = job.acts[1] /\ 1 \in DOMAIN job.acts
           /\ DOMAIN job'.acts = 1..(Len(job.acts) - 1)
           /\ \A n \in DOMAIN job'.acts : n + 1 \in DOMAIN job.acts /\ job'.acts[n] = job.acts[n + 1]
<1>1. job.acts \in Seq(Action) BY ActsType
<1> QED BY <1>1, HeadTailProperties

LEMMA AddsNext ==
    ASSUME TypeInv, job.acts # <<>>, job'.acts = Tail(job.acts), NEW n, NEW t, Adds(n, t)'
    PROVE  n \in 1..(Len(job.acts) - 1) /\ n + 1 \in DOMAIN job.acts /\ Adds(n + 1, t)
<1>1. n \in DOMAIN job'.acts /\ job'.acts[n].op = "ADD_TASK" /\ job'.acts[n].task = t BY DEF Adds
<1>2. n \in 1..(Len(job.acts) - 1) /\ n + 1 \in DOMAIN job.acts /\ job'.acts[n] = job.acts[n + 1]
    BY <1>1, RestOfActs
<1> QED BY <1>1, <1>2 DEF Adds

LEMMA LeavesNext ==
    ASSUME TypeInv, job.acts # <<>>, job'.acts = Tail(job.acts), NEW t,
           t \in DOMAIN deployed => t \in DOMAIN deployed' /\ deployed'[t] = deployed[t],
           Leaves(t), Head(job.acts) # Act("REMOVE_TASK", t, deployed[t])
    PROVE  Leaves(t)'
<1>1. PICK n \in DOMAIN job.acts : /\ job.acts[n] = Act("REMOVE_TASK", t, deployed[t])
                                   /\ t \in DOMAIN deployed /\ \A m \in 1..n : ~Adds(m, t)
    BY DEF Leaves
<1>2. n # 1 /\ n \in 1..Len(job.acts) BY <1>1, RestOfActs, ActsType
<1>3. n - 1 \in DOMAIN job'.acts /\ job'.acts[n - 1] = job.acts[n] BY <1>2, RestOfActs, ActsType
<1>4. \A m \in 1..(n - 1) : ~Adds(m, t)'
    <2> SUFFICES ASSUME NEW m \in 1..(n - 1), Adds(m, t)' PROVE FALSE OBVIOUS
    <2>1. Adds(m + 1, t) BY AddsNext
    <2>2. m + 1 \in 1..n BY <1>2
    <2> QED BY <1>1, <2>1, <2>2
<1> QED BY <1>1, <1>3, <1>4 DEF Leaves, Act

\* What is held is deployed.
LEMMA HeldIsDeployed ==
    ASSUME TypeInv, ~crashed, OnePlace, NEW t \in Tracked, NEW w, Holds(t, w)
    PROVE  t \in DOMAIN deployed /\ deployed[t] = w
<1> DEFINE p == <<t, w>>
<1>1. p \in issued /\ p[1] = t /\ p[2] = w /\ w \notin lost /\ t \notin astray BY DEF Holds, Tracked
<1> HIDE DEF p
<1> QED BY <1>1 DEF OnePlace

\* TerminateTask: the task is then nowhere.
LEMMA TerminateGoes ==
    ASSUME TypeInv, ~crashed, WorkersWereListed, OnePlace, lost' = lost,
           NEW t \in DOMAIN deployed, t \in Tracked, TerminateTask(t, deployed[t])
    PROVE  Gone(t)'
<1> SUFFICES ASSUME NEW w \in Worker, Holds(t, w)' PROVE FALSE BY DEF Gone
<1>1. <<t, w>> \in issued' /\ w \notin lost BY DEF Holds
<1>2. <<t, w>> \in issued BY <1>1 DEF TerminateTask
<1>3. deployed[t] = w BY <1>1, <1>2, HeldIsDeployed DEF Holds
<1>4. w \in workers BY <1>1, <1>3 DEF WorkersWereListed
<1> QED BY <1>1, <1>3, <1>4 DEF TerminateTask

LEMMA TerminateOnly ==
    ASSUME NEW t, NEW w, TerminateTask(t, w)
    PROVE  issued' \subseteq issued
BY DEF TerminateTask

LEMMA AllGone ==
    ASSUME TypeInv, \A t \in Tracked : Gone(t)
    PROVE  \A p \in issued : p[2] \in lost \/ p[1] \in astray
<1> SUFFICES ASSUME NEW p \in issued PROVE p[2] \in lost \/ p[1] \in astray OBVIOUS
<1>1. PICK t \in Group, w \in Worker : p = <<t, w>> BY DEF TypeInv, TypeOK
<1>2. t \in Tracked => ~Holds(t, w) BY DEF Gone
<1> QED BY <1>1, <1>2 DEF Holds, Tracked

\* Steps that issue nothing new and leave the deployment plan.
LEMMA PlacesKept ==
    ASSUME ~crashed, WorkersWereListed, OnePlace, UNCHANGED <<workers, deployed, lost>>,
           astray \subseteq astray', issued' \subseteq issued
    PROVE  /\ WorkersWereListed' /\ OnePlace'
           /\ \A t, w : Holds(t, w)' => Holds(t, w)
           /\ \A t : Gone(t) => Gone(t)'
           /\ Tracked' \subseteq Tracked
BY DEF WorkersWereListed, OnePlace, Holds, Gone, Tracked

\* Steps after which the handler has no action to execute.
LEMMA PlaceReset ==
    ASSUME TypeInv, Places, ~crashed, fid # 0, job'.acts = <<>>,
           UNCHANGED <<workers, fid, plan, deployed, issued, lost>>, astray \subseteq astray',
           job'.pc \in {"idle", "expand", "reduce", "end"},
           \A t \in Tracked' : t \notin DOMAIN plan \/ plan[t].worker = None => Gone(t),
           job'.pc = "end" => \A t \in Tracked' : Gone(t) \/ t \in job'.groups
    PROVE  Places'
<1>1. WorkersWereListed' /\ OnePlace' /\ \A t : Gone(t) => Gone(t)' BY PlacesKept DEF Places
<1>2. FlowsEnd' BY DEF FlowsEnd
<1>3. DOMAIN job'.acts = {} OBVIOUS
<1>4. \A n, t : ~Adds(n, t)' BY <1>3 DEF Adds
<1>5. ActsAreSound' BY <1>3, <1>4 DEF ActsAreSound
<1>6. \A t \in Tracked' : Unplaced(t)' => Gone(t) BY <1>4 DEF Unplaced
<1>7. NowhereElse' BY <1>1, <1>6 DEF NowhereElse
<1> QED BY <1>1, <1>2, <1>5, <1>7 DEF Places

\* A handler that has nothing to do leaves nothing behind.
LEMMA IdleUnplaced ==
    ASSUME TypeInv, Places, job.acts = <<>>, NEW t \in Tracked, t \notin DOMAIN plan \/ plan[t].worker = None
    PROVE  Gone(t)
<1>1. Gone(t) \/ Leaves(t) BY DEF Places, NowhereElse, Unplaced
<1> QED BY <1>1, NothingLeaves

\* The worker list changes; commands and results of intents pass.
LEMMA PlaceOutside ==
    ASSUME TypeInv, Places, ~crashed,
           \/ \E w \in Worker : WorkerJoin(w) \/ WorkerLost(w)
           \/ \E a \in adding : PublishAddTask(a)
           \/ \E i \in Intent : HandleServiceIntent(i)
           \/ \E x \in setups : RecordIntent(x)
           \/ UNCHANGED vars
    PROVE  Places'
<1>1. UNCHANGED <<fid, plan, deployed, job, issued, crashed, astray>>
      /\ lost \subseteq lost' /\ workers \cup lost \subseteq workers' \cup lost'
    BY DEF WorkerJoin, WorkerLost, PublishAddTask, HandleServiceIntent, RecordIntent, vars, flow, bus, strays
<1>2. \A t, w : Holds(t, w)' => Holds(t, w) BY <1>1 DEF Holds
<1>3. \A t : Gone(t) => Gone(t)' BY <1>2 DEF Gone
<1>4. \A t : Leaves(t)' = Leaves(t) BY <1>1 DEF Leaves, Adds, Act
<1>5. Tracked' = Tracked BY <1>1 DEF Tracked
<1>6. FlowsEnd' BY <1>1, <1>3, <1>5 DEF Places, FlowsEnd
<1>7. WorkersWereListed' BY <1>1 DEF Places, WorkersWereListed
<1>8. \A n, t : Adds(n, t)' = Adds(n, t) BY <1>1 DEF Adds
<1>9. ActsAreSound' BY <1>1, <1>5, <1>8 DEF Places, ActsAreSound, AtWork
<1>10. \A t : Unplaced(t)' = Unplaced(t) BY <1>1, <1>8 DEF Unplaced
<1>11. NowhereElse' BY <1>1, <1>3, <1>4, <1>5, <1>10 DEF Places, NowhereElse
<1>12. OnePlace' BY <1>1 DEF Places, OnePlace
<1> QED BY <1>6, <1>7, <1>9, <1>11, <1>12 DEF Places

\* A flow is installed: what an earlier one has issued is astray.
LEMMA PlaceInstall ==
    ASSUME TypeInv, Places, ~crashed, NEW x \in setups, InstallFlow(x)
    PROVE  Places'
<1>0. x \in [fid : 1..MaxFlows, intent : Intent, subs : SUBSET Stream, pc : {"install", "record"}]
    BY DEF TypeInv, TypeOK
<1>1. /\ UNCHANGED <<workers, job, issued, lost>> /\ job = Idle
      /\ plan' = Empty /\ deployed' = Empty /\ fid' = x.fid
      /\ astray' = IF fid = 0 THEN astray ELSE astray \cup {p[1] : p \in issued}
    BY DEF InstallFlow, At, bus, TypeInv, JobIsSound
<1>2. fid' # 0 BY <1>0, <1>1, TaskMgrAssumption
<1>3. \A t \in Tracked' : Gone(t)'
    <2> SUFFICES ASSUME NEW t \in Tracked', NEW w \in Worker, Holds(t, w)' PROVE FALSE BY DEF Gone
    <2>1. <<t, w>> \in issued /\ Holds(t, w) BY <1>1 DEF Holds
    <2>2. CASE fid = 0
        <3>1. t \in Tracked BY <1>1, <2>2 DEF Tracked
        <3> QED BY <2>1, <2>2, <3>1 DEF Places, FlowsEnd, Gone
    <2>3. CASE fid # 0
        <3>1. PICK p \in issued : p = <<t, w>> BY <2>1
        <3>2. p[1] = t BY <3>1
        <3>3. t \in astray' BY <1>1, <2>3, <3>2
        <3> QED BY <3>3 DEF Tracked
    <2> QED BY <2>2, <2>3
<1>4. job' = Idle /\ job'.pc = "idle" /\ job'.acts = <<>> BY <1>1, IdleType
<1>5. FlowsEnd' BY <1>2, <1>4 DEF FlowsEnd
<1>6. DOMAIN deployed' = {} BY <1>1, EmptyType
<1>7. WorkersWereListed' BY <1>1, <1>6 DEF Places, WorkersWereListed
<1>8. DOMAIN job'.acts = {} BY <1>4
<1>9. \A n, t : ~Adds(n, t)' BY <1>8 DEF Adds
<1>10. ActsAreSound' BY <1>4, <1>8, <1>9 DEF ActsAreSound
<1>11. NowhereElse' BY <1>3 DEF NowhereElse
<1>12. OnePlace'
    <2> SUFFICES ASSUME NEW p \in issued', p[2] \notin lost', p[1] \notin astray' PROVE FALSE BY DEF OnePlace
    <2>1. p \in issued BY <1>1
    <2>2. PICK t \in Group, w \in Worker : p = <<t, w>> BY <2>1 DEF TypeInv, TypeOK
    <2>3. t \in Tracked' /\ Holds(t, w)' BY <2>2 DEF Tracked, Holds
    <2> QED BY <1>3, <2>3 DEF Gone
<1> QED BY <1>5, <1>7, <1>10, <1>11, <1>12 DEF Places

\* removeTaskIntent: when all its tasks have been ended the flow is nowhere.
LEMMA PlaceRemove ==
    ASSUME TypeInv, Places, ~crashed, ~crashed', NEW i \in Intent, RemoveServiceIntent(i)
    PROVE  Places'
<1>1. /\ UNCHANGED <<workers, fid, plan, deployed, issued, lost, astray>> /\ job = Idle /\ fid # 0
      /\ job' = [Idle EXCEPT !.pc = "end", !.groups = DOMAIN deployed]
    BY DEF RemoveServiceIntent, At, flow, bus, strays, TypeInv, JobIsSound
<1>2. job'.pc = "end" /\ job'.groups = DOMAIN deployed /\ job'.acts = <<>>
    BY <1>1, IdleType DEF JobType
<1>3. Tracked' = Tracked BY <1>1 DEF Tracked
<1>4. \A t \in Tracked : t \notin DOMAIN plan \/ plan[t].worker = None => Gone(t)
    BY <1>1, IdleType, IdleUnplaced
<1>5. \A t \in Tracked : Gone(t) \/ t \in job'.groups BY <1>2, HeldIsDeployed DEF Places, Gone
<1> QED BY <1>1, <1>2, <1>3, <1>4, <1>5, PlaceReset

LEMMA PlaceEnd ==
    ASSUME TypeInv, Places, ~crashed, NEW t \in DOMAIN deployed, EndTask(t)
    PROVE  Places'
<1>0. job \in JobType BY DEF TypeInv, TypeOK, JobType
<1>1. /\ UNCHANGED <<workers, fid, plan, deployed, lost, astray>> /\ job.pc = "end"
      /\ TerminateTask(t, deployed[t]) /\ job' = [job EXCEPT !.groups = @ \ {t}]
    BY DEF EndTask, At, flow, strays
<1>2. /\ job'.pc = "end" /\ job'.groups = job.groups \ {t} /\ job'.acts = job.acts
      /\ job.acts = <<>> /\ fid # 0
    BY <1>0, <1>1 DEF JobType, Places, ActsAreSound, AtWork, FlowsEnd
<1>3. issued' \subseteq issued BY <1>1, TerminateOnly
<1>4. t \in Tracked => Gone(t)' BY <1>1, TerminateGoes DEF Places
<1>5. WorkersWereListed' /\ OnePlace' /\ \A u : Gone(u) => Gone(u)' BY <1>1, <1>3, PlacesKept DEF Places
<1>6. Tracked' = Tracked BY <1>1 DEF Tracked
<1>7. DOMAIN job'.acts = {} BY <1>2
<1>8. \A n, u : ~Adds(n, u)' BY <1>7 DEF Adds
<1>9. ActsAreSound' BY <1>2, <1>7, <1>8 DEF ActsAreSound
<1>10. \A u \in Tracked : Unplaced(u)' => Gone(u)'
    <2> SUFFICES ASSUME NEW u \in Tracked, Unplaced(u)' PROVE Gone(u)' OBVIOUS
    <2>1. u \notin DOMAIN plan \/ plan[u].worker = None BY <1>1, <1>8 DEF Unplaced
    <2> QED BY <1>2, <1>5, <2>1, IdleUnplaced
<1>11. \A u \in Tracked : Gone(u)' \/ u \in job'.groups BY <1>1, <1>2, <1>4, <1>5 DEF Places, NowhereElse
<1>12. NowhereElse' BY <1>6, <1>10, <1>11 DEF NowhereElse
<1>13. FlowsEnd' BY <1>1, <1>2 DEF FlowsEnd
<1> QED BY <1>5, <1>9, <1>12, <1>13 DEF Places

LEMMA PlaceDeleteFlow ==
    ASSUME TypeInv, Places, ~crashed, DeleteFlow
    PROVE  Places'
<1>1. /\ UNCHANGED <<workers, issued, lost, astray>> /\ job.pc = "end" /\ job.groups = {}
      /\ job' = Idle /\ fid' = 0 /\ plan' = Empty /\ deployed' = Empty
    BY DEF DeleteFlow, At, bus, strays
<1>2. Tracked' = Tracked BY <1>1 DEF Tracked
<1>3. \A t \in Tracked : Gone(t) /\ Gone(t)' BY <1>1 DEF Places, NowhereElse, Gone, Holds
<1>4. job'.pc = "idle" /\ job'.acts = <<>> BY <1>1, IdleType
<1>5. FlowsEnd' BY <1>2, <1>3, <1>4 DEF FlowsEnd
<1>6. DOMAIN deployed' = {} BY <1>1, EmptyType
<1>7. WorkersWereListed' BY <1>1, <1>6 DEF Places, WorkersWereListed
<1>8. DOMAIN job'.acts = {} BY <1>4
<1>9. \A n, t : ~Adds(n, t)' BY <1>8 DEF Adds
<1>10. ActsAreSound' BY <1>4, <1>8, <1>9 DEF ActsAreSound
<1>11. NowhereElse' BY <1>2, <1>3, <1>4 DEF NowhereElse
<1>12. \A p \in issued : p[2] \in lost \/ p[1] \in astray BY <1>3, AllGone
<1>13. OnePlace' BY <1>1, <1>12 DEF OnePlace
<1> QED BY <1>5, <1>7, <1>10, <1>11, <1>13 DEF Places

\* A handler begins to plan, or changes nothing but registrations.
LEMMA PlaceNote ==
    ASSUME TypeInv, Places, ~crashed,
           \E e \in Entity : NotifyDelete(e) \/ \E l \in Loc : NotifyUpdate(e, l)
    PROVE  Places'
<1>1. /\ UNCHANGED <<workers, fid, plan, deployed, issued, lost, astray>> /\ fid # 0 /\ job = Idle
    BY DEF NotifyUpdate, NotifyDelete, Note, At, bus, strays, TypeInv, JobIsSound
<1>2. job'.acts = <<>> /\ job'.pc \in {"idle", "expand", "reduce"}
    <2>1. ASSUME NEW e \in Entity, NotifyDelete(e)
          PROVE  job'.acts = <<>> /\ job'.pc \in {"idle", "expand", "reduce"}
        <3> DEFINE G == RelevantGroups(TypeOf[e], Key(e), uniqueKeys)
        <3>1. CASE InputsAvailable(received)
            <4>1. job' = [Idle EXCEPT !.pc = "reduce", !.stream = TypeOf[e], !.key = Key(e), !.groups = G]
                BY <2>1, <3>1 DEF NotifyDelete
            <4> HIDE DEF G
            <4> QED BY <4>1, IdleType DEF JobType
        <3>2. CASE ~InputsAvailable(received) BY <1>1, <2>1, <3>2, IdleType DEF NotifyDelete
        <3> QED BY <3>1, <3>2
    <2>2. ASSUME NEW e \in Entity, NEW l \in Loc, NotifyUpdate(e, l)
          PROVE  job'.acts = <<>> /\ job'.pc \in {"idle", "expand", "reduce"}
        <3> DEFINE G == RelevantGroups(TypeOf[e], Key(e), uniqueKeys')
        <3>1. CASE InputsAvailable(received')
            <4>1. job' = [Idle EXCEPT !.pc = "expand", !.stream = TypeOf[e], !.key = Key(e), !.groups = G]
                BY <2>2, <3>1, NotifyUpdateEffect
            <4> HIDE DEF G
            <4> QED BY <4>1, IdleType DEF JobType
        <3>2. CASE ~InputsAvailable(received')
            <4>1. job' = job BY <2>2, <3>2, NotifyUpdateEffect
            <4> QED BY <1>1, <4>1, IdleType
        <3> QED BY <3>1, <3>2
    <2> QED BY <2>1, <2>2
<1>3. Tracked' = Tracked BY <1>1 DEF Tracked
<1>4. \A t \in Tracked : t \notin DOMAIN plan \/ plan[t].worker = None => Gone(t)
    BY <1>1, IdleType, IdleUnplaced
<1> QED BY <1>1, <1>2, <1>3, <1>4, PlaceReset

\* Steps of planning: the list of actions grows at its end, and a task that is
\* unplaced by the step is nowhere or is removed first.
LEMMA PlacePlanned ==
    ASSUME TypeInv, Places, ~crashed, job.pc \in {"expand", "reduce"}, job'.pc = job.pc,
           UNCHANGED <<workers, fid, deployed, issued, lost>>, astray \subseteq astray',
           \A n \in DOMAIN job.acts : n \in DOMAIN job'.acts /\ job'.acts[n] = job.acts[n],
           job.pc = "expand" => \A n \in DOMAIN job'.acts : job'.acts[n].task \in DOMAIN plan',
           job.pc = "reduce" => \A n, t : Adds(n, t)' => Adds(n, t),
           \A t \in Tracked' : \A m, n : Adds(m, t)' /\ Adds(n, t)' => m = n,
           \A t \in Tracked' : Unplaced(t)' => Unplaced(t) \/ Gone(t) \/ Leaves(t)'
    PROVE  Places'
<1>1. /\ WorkersWereListed' /\ OnePlace' /\ (\A t : Gone(t) => Gone(t)') /\ Tracked' \subseteq Tracked
    BY PlacesKept DEF Places
<1>2. FlowsEnd' BY DEF Places, FlowsEnd
<1>3. \A t : Leaves(t) => Leaves(t)' BY LeavesKept
<1>4. ActsAreSound'
    <2>1. job'.pc = "reduce" => \A t \in Group, n \in DOMAIN job'.acts : ~Adds(n, t)'
        BY DEF Places, ActsAreSound, Adds
    <2> QED BY <2>1 DEF ActsAreSound, AtWork
<1>5. NowhereElse' BY <1>1, <1>3 DEF Places, NowhereElse
<1> QED BY <1>1, <1>2, <1>4, <1>5 DEF Places

\* Steps of planning that add no task.
LEMMA PlaceCompared ==
    ASSUME TypeInv, Places, ~crashed, job.pc \in {"expand", "reduce"}, job'.pc = job.pc,
           UNCHANGED <<workers, fid, deployed, issued, lost>>, astray \subseteq astray',
           \A n \in DOMAIN job.acts : n \in DOMAIN job'.acts /\ job'.acts[n] = job.acts[n],
           \A n \in DOMAIN job'.acts :
               n \in DOMAIN job.acts \/ (job'.acts[n].op # "ADD_TASK" /\ job'.acts[n].task \in DOMAIN plan'),
           DOMAIN plan' = DOMAIN plan, \A t \in DOMAIN plan : plan'[t].worker = plan[t].worker
    PROVE  Places'
<1>1. \A n, t : Adds(n, t)' = Adds(n, t) BY DEF Adds
<1>2. \A t : Unplaced(t)' => Unplaced(t)
    <2> SUFFICES ASSUME NEW t, Unplaced(t)' PROVE Unplaced(t) OBVIOUS
    <2>1. CASE t \notin DOMAIN plan' \/ plan'[t].worker = None BY <2>1 DEF Unplaced
    <2>2. ASSUME NEW n, Adds(n, t)' PROVE Unplaced(t)
        <3>1. Adds(n, t) BY <1>1, <2>2
        <3> QED BY <3>1 DEF Adds, Unplaced
    <2> QED BY <2>1, <2>2 DEF Unplaced
<1>3. job.pc = "expand" => \A n \in DOMAIN job'.acts : job'.acts[n].task \in DOMAIN plan'
    BY DEF Places, ActsAreSound
<1>4. Tracked' \subseteq Tracked BY DEF Tracked
<1>5. \A t \in Tracked' : \A m, n : Adds(m, t)' /\ Adds(n, t)' => m = n
    <2> SUFFICES ASSUME NEW t \in Tracked', NEW m, NEW n, Adds(m, t)', Adds(n, t)' PROVE m = n OBVIOUS
    <2>1. Adds(m, t) /\ Adds(n, t) BY <1>1
    <2>2. m \in DOMAIN job.acts /\ n \in DOMAIN job.acts BY <2>1 DEF Adds
    <2> QED BY <1>4, <2>1, <2>2 DEF Places, ActsAreSound
<1> QED BY <1>1, <1>2, <1>3, <1>5, PlacePlanned

\* An action at the end of the list.
LEMMA OneAppended ==
    ASSUME TypeInv, NEW a \in Action, job'.acts = Append(job.acts, a)
    PROVE  /\ DOMAIN job'.acts = DOMAIN job.acts \cup {Len(job.acts) + 1}
           /\ Len(job.acts) + 1 \notin DOMAIN job.acts /\ job'.acts[Len(job.acts) + 1] = a
           /\ \A n \in DOMAIN job.acts : n \in DOMAIN job'.acts /\ job'.acts[n] = job.acts[n]
           /\ Len(job.acts) \in Nat
BY ActsType

LEMMA PlaceExpandGroup ==
    ASSUME TypeInv, Places, ~crashed, NEW g \in job.groups, ExpandGroup(g)
    PROVE  Places'
<1>0. job \in JobType /\ plan \in [DOMAIN plan -> Task] /\ g \in Group BY DEF TypeInv, TypeOK, JobType
<1>1. UNCHANGED <<workers, fid, deployed, issued, lost, astray>> /\ job.pc = "expand"
    BY DEF ExpandGroup, At, bus, strays
<1>2. CASE g \in DOMAIN plan
    <2>1. UNCHANGED plan /\ job' = [job EXCEPT !.groups = @ \ {g}, !.cur = g, !.ents = RelevantEntities(g)]
        BY <1>2 DEF ExpandGroup
    <2>2. job'.pc = job.pc /\ job'.acts = job.acts BY <1>0, <1>1, <2>1 DEF JobType
    <2> QED BY <1>1, <2>1, <2>2, PlaceCompared
<1>3. CASE g \notin DOMAIN plan
    <2> DEFINE v == [inputs |-> RelevantEntities(g), worker |-> None]
               a == Act("ADD_TASK", g, None)
    <2>1. plan' = Put(plan, g, v) /\ job' = [job EXCEPT !.groups = @ \ {g}, !.acts = Append(@, a)]
        BY <1>3 DEF ExpandGroup
    <2>2. a \in Action /\ a.op = "ADD_TASK" /\ a.task = g BY <1>0, ActType
    <2> HIDE DEF v, a
    <2>3. job'.pc = job.pc /\ job'.acts = Append(job.acts, a)
        BY <1>0, <1>1, <2>1 DEF JobType
    <2>N. PICK N : N = Len(job.acts) + 1 OBVIOUS
    <2>4. /\ DOMAIN job'.acts = DOMAIN job.acts \cup {N} /\ N \notin DOMAIN job.acts /\ job'.acts[N] = a
          /\ \A n \in DOMAIN job.acts : n \in DOMAIN job'.acts /\ job'.acts[n] = job.acts[n]
        BY <2>2, <2>3, <2>N, OneAppended
    <2>5. DOMAIN plan' = DOMAIN plan \cup {g} /\ \A t \in DOMAIN plan : plan'[t] = plan[t]
        BY <1>3, <2>1 DEF Put
    <2>6. \A n \in DOMAIN job.acts : job.acts[n].task \in DOMAIN plan BY <1>1 DEF Places, ActsAreSound
    <2>7. \A n, t : Adds(n, t)' => (Adds(n, t) /\ t # g) \/ (n = N /\ t = g)
        <3> SUFFICES ASSUME NEW n, NEW t, Adds(n, t)' PROVE (Adds(n, t) /\ t # g) \/ (n = N /\ t = g) OBVIOUS
        <3>1. n \in DOMAIN job'.acts /\ job'.acts[n].op = "ADD_TASK" /\ job'.acts[n].task = t BY DEF Adds
        <3>2. CASE n = N BY <2>2, <2>4, <3>1, <3>2
        <3>3. CASE n # N
            <4>1. n \in DOMAIN job.acts /\ job'.acts[n] = job.acts[n] BY <2>4, <3>1, <3>3
            <4> QED BY <1>3, <2>6, <3>1, <4>1 DEF Adds
        <3> QED BY <3>2, <3>3
    <2>8. \A n \in DOMAIN job'.acts : job'.acts[n].task \in DOMAIN plan' BY <2>2, <2>4, <2>5, <2>6
    <2>9. Tracked' = Tracked BY <1>1 DEF Tracked
    <2>10. \A t \in Tracked' : \A m, n : Adds(m, t)' /\ Adds(n, t)' => m = n
        <3> SUFFICES ASSUME NEW t \in Tracked, NEW m, NEW n, Adds(m, t)', Adds(n, t)' PROVE m = n BY <2>9
        <3>1. CASE t = g BY <2>7, <3>1
        <3>2. CASE t # g
            <4>1. Adds(m, t) /\ Adds(n, t) BY <2>7, <3>2
            <4>2. m \in DOMAIN job.acts /\ n \in DOMAIN job.acts BY <4>1 DEF Adds
            <4> QED BY <4>1, <4>2 DEF Places, ActsAreSound
        <3> QED BY <3>1, <3>2
    <2>11. \A t : Unplaced(t)' => Unplaced(t)
        <3> SUFFICES ASSUME NEW t, t # g, Unplaced(t)' PROVE Unplaced(t) BY <1>3 DEF Unplaced
        <3>1. CASE t \notin DOMAIN plan' \/ plan'[t].worker = None BY <2>5, <3>1 DEF Unplaced
        <3>2. ASSUME NEW n, Adds(n, t)' PROVE Unplaced(t)
            <4>1. Adds(n, t) BY <2>7, <3>2
            <4> QED BY <4>1 DEF Adds, Unplaced
        <3> QED BY <3>1, <3>2 DEF Unplaced
    <2> QED BY <1>1, <2>3, <2>4, <2>8, <2>10, <2>11, PlacePlanned
<1> QED BY <1>2, <1>3

LEMMA PlaceInput ==
    ASSUME TypeInv, InputInv, Places, ~crashed, ~crashed', NEW x \in job.ents, ExpandInput(x) \/ ExpandKnown(x)
    PROVE  Places'
<1> DEFINE c == job.cur
<1>0. job \in JobType /\ plan \in [DOMAIN plan -> Task] BY DEF TypeInv, TypeOK, JobType
<1>1. UNCHANGED <<workers, fid, deployed, issued, lost, astray>> /\ job.pc = "expand"
    BY DEF ExpandInput, ExpandKnown, At, flow, bus, strays
<1>2. c \in DOMAIN plan BY DEF InputInv, GroupsFit
<1>3. CASE ExpandKnown(x)
    <2>1. UNCHANGED plan /\ job' = [job EXCEPT !.ents = @ \ {x}] BY <1>3 DEF ExpandKnown, flow
    <2>2. job'.pc = job.pc /\ job'.acts = job.acts BY <1>0, <1>1, <2>1 DEF JobType
    <2> QED BY <1>1, <2>1, <2>2, PlaceCompared
<1>4. CASE ExpandInput(x)
    <2> DEFINE a == Act("ADD_INPUT", c, deployed[c])
    <2>0. c \in DOMAIN deployed BY <1>4 DEF ExpandInput
    <2>1. plan' = [plan EXCEPT ![c].inputs = @ \cup {x}] /\ job' = [job EXCEPT !.ents = @ \ {x}, !.acts = Append(@, a)]
        BY <1>4, <2>0 DEF ExpandInput
    <2>2. a.op = "ADD_INPUT" /\ a.task = c /\ a \in Action
        <3>1. c \in Group /\ deployed[c] \in Worker BY <1>0, <2>0 DEF TypeInv, TypeOK, JobType
        <3> QED BY <3>1, ActType
    <2> HIDE DEF a
    <2>3. job'.pc = job.pc /\ job'.acts = Append(job.acts, a)
        BY <1>0, <1>1, <2>1 DEF JobType
    <2>4. DOMAIN plan' = DOMAIN plan /\ \A t \in DOMAIN plan : plan'[t].worker = plan[t].worker
        BY <1>0, <1>2, <2>1 DEF Task
    <2>5. /\ \A n \in DOMAIN job.acts : n \in DOMAIN job'.acts /\ job'.acts[n] = job.acts[n]
          /\ \A n \in DOMAIN job'.acts :
                n \in DOMAIN job.acts \/ (job'.acts[n].op # "ADD_TASK" /\ job'.acts[n].task \in DOMAIN plan')
        BY <1>2, <2>2, <2>3, <2>4, OneAppended
    <2> QED BY <1>1, <2>3, <2>4, <2>5, PlaceCompared
<1> QED BY <1>3, <1>4

\* At most one action, and then another one, after a list of actions.
Appended(q, r, a) == Append(q \o r, a)
LEMMA TwoAppended ==
    ASSUME NEW q \in Seq(Action), NEW r \in Seq(Action), Len(r) \in 0..1, NEW a \in Action,
           NEW p, NEW N \in Nat, p = Appended(q, r, a), N = Len(q) + Len(r) + 1
    PROVE  /\ DOMAIN p = 1..N /\ p[N] = a /\ N \in Nat \ {0} /\ DOMAIN q = 1..Len(q)
           /\ \A n \in DOMAIN q : n \in 1..(N - 1) /\ p[n] = q[n]
           /\ Len(r) = 1 => p[Len(q) + 1] = r[1] /\ N = Len(q) + 2
           /\ Len(r) = 0 => N = Len(q) + 1
<1> DEFINE c == q \o r
<1>1. /\ c \in Seq(Action) /\ Len(c) = Len(q) + Len(r) /\ DOMAIN q = 1..Len(q) /\ DOMAIN r = 1..Len(r)
      /\ \A n \in 1..Len(q) : c[n] = q[n]
      /\ Len(r) = 1 => c[Len(q) + 1] = r[1]
    <2>1. /\ c \in Seq(Action) /\ Len(c) = Len(q) + Len(r)
          /\ \A n \in 1..(Len(q) + Len(r)) : c[n] = IF n <= Len(q) THEN q[n] ELSE r[n - Len(q)]
        BY ConcatProperties
    <2>2. Len(q) \in Nat /\ Len(r) \in Nat /\ DOMAIN q = 1..Len(q) /\ DOMAIN r = 1..Len(r) OBVIOUS
    <2> HIDE DEF c
    <2>3. \A n \in 1..Len(q) : c[n] = q[n] BY <2>1, <2>2
    <2>4. Len(r) = 1 => c[Len(q) + 1] = r[1]
        <3> SUFFICES ASSUME Len(r) = 1 PROVE c[Len(q) + 1] = r[1] OBVIOUS
        <3>1. Len(q) + 1 \in 1..(Len(q) + Len(r)) /\ ~(Len(q) + 1 <= Len(q)) /\ Len(q) + 1 - Len(q) = 1
            BY <2>2
        <3> QED BY <2>1, <3>1
    <2> QED BY <2>1, <2>2, <2>3, <2>4
<1>2. p = Append(c, a) BY DEF Appended
<1> HIDE DEF c
<1>3. DOMAIN p = 1..(Len(c) + 1) /\ p[Len(c) + 1] = a /\ \A n \in 1..Len(c) : p[n] = c[n] BY <1>1, <1>2
<1>4. Len(q) \in Nat /\ Len(r) \in Nat /\ N = Len(c) + 1 /\ N \in Nat \ {0} /\ N - 1 = Len(c) BY <1>1
<1>5. \A n \in 1..Len(q) : n \in 1..Len(c) BY <1>1, <1>4
<1>6. Len(r) = 1 => Len(q) + 1 \in 1..Len(c) BY <1>1, <1>4
<1>7. \A n \in DOMAIN q : n \in 1..(N - 1) /\ p[n] = q[n] BY <1>1, <1>3, <1>4, <1>5
<1>8. Len(r) = 1 => p[Len(q) + 1] = r[1] /\ N = Len(q) + 2 BY <1>1, <1>3, <1>4, <1>6
<1>9. Len(r) = 0 => N = Len(q) + 1 BY <1>4
<1> QED BY <1>1, <1>3, <1>4, <1>7, <1>8, <1>9

\* A task that migrates is removed, if it is anywhere, before it is added; one
\* that is added already is astray.
LEMMA PlaceMoved ==
    ASSUME TypeInv, InputInv, Places, ~crashed, NEW x \in job.ents, ExpandMoved(x)
    PROVE  Places'
<1>c. PICK c : c = job.cur OBVIOUS
<1> DEFINE old == plan[c]
           a == Act("ADD_TASK", c, None)
           end == IF old.worker = None THEN <<>>
                  ELSE IF removeExistingTask(c) = <<>> THEN <<Act("nil", c, None)>> ELSE removeExistingTask(c)
<1>0. job \in JobType /\ plan \in [DOMAIN plan -> Task] /\ c \in Group BY <1>c DEF TypeInv, TypeOK, JobType
<1>1. UNCHANGED <<workers, fid, deployed, issued, lost>> /\ job.pc = "expand" BY DEF ExpandMoved, At, bus
<1>2. c \in DOMAIN plan BY <1>c DEF InputInv, GroupsFit
<1>3. PICK v, w :
          /\ plan' = [plan EXCEPT ![c] = [inputs |-> v, worker |-> w]]
          /\ job' = [job EXCEPT !.ents = @ \ {x},
                       !.acts = IF w = old.worker THEN @ ELSE Append(@ \o end, a)]
          /\ astray' = IF w # old.worker /\ Plans("ADD_TASK", c) THEN astray \cup {c} ELSE astray
    <2> DEFINE V(y) == (old.inputs \ {y}) \cup {Relocated(y, x.loc)}
    <2>1. PICK y \in Moved(x, old.inputs) : \E w \in SelectWorker(V(y)) :
              /\ plan' = [plan EXCEPT ![c] = [inputs |-> V(y), worker |-> w]]
              /\ job' = [job EXCEPT !.ents = @ \ {x},
                           !.acts = IF w = old.worker THEN @ ELSE Append(@ \o end, a)]
              /\ astray' = IF w # old.worker /\ Plans("ADD_TASK", c) THEN astray \cup {c} ELSE astray
        BY <1>c, Zenon DEF ExpandMoved
    <2>2. PICK w \in SelectWorker(V(y)) :
              /\ plan' = [plan EXCEPT ![c] = [inputs |-> V(y), worker |-> w]]
              /\ job' = [job EXCEPT !.ents = @ \ {x},
                           !.acts = IF w = old.worker THEN @ ELSE Append(@ \o end, a)]
              /\ astray' = IF w # old.worker /\ Plans("ADD_TASK", c) THEN astray \cup {c} ELSE astray
        BY <2>1, Zenon
    <2> HIDE DEF V, end, a, old
    <2> QED BY <2>2
<1>4. astray \subseteq astray' BY <1>3
<1>5. /\ DOMAIN plan' = DOMAIN plan /\ plan'[c].worker = w
      /\ \A t \in DOMAIN plan : t # c => plan'[t].worker = plan[t].worker
    BY <1>0, <1>2, <1>3
<1>6. CASE w = old.worker
    <2>1. job' = [job EXCEPT !.ents = @ \ {x}, !.acts = @] BY <1>3, <1>6
    <2>2. job'.pc = job.pc /\ job'.acts = job.acts BY <1>0, <1>1, <2>1 DEF JobType
    <2>3. \A t \in DOMAIN plan : plan'[t].worker = plan[t].worker BY <1>5, <1>6
    <2> QED BY <1>1, <1>4, <1>5, <2>2, <2>3, PlaceCompared
<1>7. CASE w # old.worker
    <2>1. a.op = "ADD_TASK" /\ a.task = c /\ a \in Action BY <1>0, ActType
    <2>2. /\ end \in Seq(Action) /\ Len(end) \in 0..1
          /\ Len(end) = 1 => end[1].op # "ADD_TASK" /\ end[1].task = c
          /\ c \in Tracked => \/ Gone(c) \/ Leaves(c)
                              \/ /\ Len(end) = 1 /\ end[1] = Act("REMOVE_TASK", c, deployed[c])
                                 /\ c \in DOMAIN deployed
        <3>1. CASE old.worker = None
            <4>1. end = <<>> /\ Len(end) = 0 BY <3>1
            <4>2. c \in Tracked => Gone(c) \/ Leaves(c) BY <3>1 DEF Places, NowhereElse, Unplaced
            <4> QED BY <4>1, <4>2
        <3>2. CASE old.worker # None /\ c \in DOMAIN deployed
            <4>1. deployed[c] \in Worker BY <3>2 DEF TypeInv, TypeOK
            <4>2. removeExistingTask(c) = <<Act("REMOVE_TASK", c, deployed[c])>> BY <3>2 DEF removeExistingTask
            <4>3. end = <<Act("REMOVE_TASK", c, deployed[c])>> BY <3>2, <4>2
            <4>4. <<Act("REMOVE_TASK", c, deployed[c])>> \in Seq(Action)
                  /\ Act("REMOVE_TASK", c, deployed[c]).op = "REMOVE_TASK"
                  /\ Act("REMOVE_TASK", c, deployed[c]).task = c
                BY <1>0, <4>1, ActType
            <4> HIDE DEF end
            <4> QED BY <3>2, <4>3, <4>4
        <3>3. CASE old.worker # None /\ c \notin DOMAIN deployed
            <4>1. removeExistingTask(c) = <<>> BY <3>3 DEF removeExistingTask
            <4>2. end = <<Act("nil", c, None)>> BY <3>3, <4>1
            <4>3. <<Act("nil", c, None)>> \in Seq(Action) /\ Act("nil", c, None).op = "nil"
                  /\ Act("nil", c, None).task = c
                BY <1>0, ActType
            <4>4. c \in Tracked => Gone(c) BY <3>3, HeldIsDeployed DEF Gone, Places
            <4> HIDE DEF end
            <4> QED BY <4>2, <4>3, <4>4
        <3> QED BY <3>1, <3>2, <3>3
    <2> HIDE DEF a, end
    <2>3. job' = [job EXCEPT !.ents = @ \ {x}, !.acts = Append(@ \o end, a)] BY <1>3, <1>7
    <2>4. job'.pc = job.pc /\ job'.acts = Append(job.acts \o end, a)
        BY <1>0, <1>1, <2>3 DEF JobType
    <2>N. PICK N : N = Len(job.acts) + Len(end) + 1 OBVIOUS
    <2>5. /\ DOMAIN job'.acts = 1..N /\ job'.acts[N] = a /\ N \in Nat \ {0}
          /\ \A n \in DOMAIN job.acts : n \in 1..(N - 1) /\ job'.acts[n] = job.acts[n]
          /\ Len(end) = 1 => job'.acts[Len(job.acts) + 1] = end[1] /\ N = Len(job.acts) + 2
          /\ Len(end) = 0 => N = Len(job.acts) + 1
        <3>1. job.acts \in Seq(Action) /\ end \in Seq(Action) /\ Len(end) \in 0..1 /\ a \in Action
            BY <2>1, <2>2, ActsType
        <3>2. job'.acts = Appended(job.acts, end, a) BY <2>4 DEF Appended
        <3>3. PICK q, r, b, p : q = job.acts /\ r = end /\ b = a /\ p = job'.acts OBVIOUS
        <3>4. q \in Seq(Action) /\ r \in Seq(Action) /\ Len(r) \in 0..1 /\ b \in Action BY <3>1, <3>3
        <3>5. p = Appended(q, r, b) /\ N = Len(q) + Len(r) + 1 /\ N \in Nat BY <2>N, <3>2, <3>3, <3>4
        <3>6. /\ DOMAIN p = 1..N /\ p[N] = b /\ N \in Nat \ {0} /\ DOMAIN q = 1..Len(q)
              /\ \A n \in DOMAIN q : n \in 1..(N - 1) /\ p[n] = q[n]
              /\ Len(r) = 1 => p[Len(q) + 1] = r[1] /\ N = Len(q) + 2
              /\ Len(r) = 0 => N = Len(q) + 1
            BY <3>4, <3>5, TwoAppended
        <3> QED BY <3>3, <3>6
    <2>6. \A n \in DOMAIN job.acts : n \in DOMAIN job'.acts /\ job'.acts[n] = job.acts[n] BY <2>5
    <2>7. \A n \in DOMAIN job'.acts :
              \/ n \in DOMAIN job.acts /\ n # N
              \/ n = N
              \/ n # N /\ job'.acts[n] = end[1] /\ Len(end) = 1
        BY <2>2, <2>5, ActsType
    <2>8. \A n, t : Adds(n, t)' => Adds(n, t) \/ (n = N /\ t = c)
        <3> SUFFICES ASSUME NEW n, NEW t, Adds(n, t)' PROVE Adds(n, t) \/ (n = N /\ t = c) OBVIOUS
        <3>1. n \in DOMAIN job'.acts /\ job'.acts[n].op = "ADD_TASK" /\ job'.acts[n].task = t BY DEF Adds
        <3> QED BY <2>1, <2>2, <2>5, <2>6, <2>7, <3>1 DEF Adds
    <2>9. \A n \in DOMAIN job'.acts : job'.acts[n].task \in DOMAIN plan'
        <3>1. \A n \in DOMAIN job.acts : job.acts[n].task \in DOMAIN plan BY <1>1 DEF Places, ActsAreSound
        <3> QED BY <1>2, <1>5, <2>1, <2>2, <2>5, <2>6, <2>7, <3>1
    <2>10. Tracked' \subseteq Tracked /\ (c \in Tracked' => \A n : ~Adds(n, c))
        <3>1. Tracked' \subseteq Tracked BY <1>4 DEF Tracked
        <3>2. ASSUME NEW n, Adds(n, c) PROVE c \notin Tracked'
            <4>1. Plans("ADD_TASK", c) BY <3>2 DEF Adds, Plans
            <4>2. c \in astray' BY <1>3, <1>7, <4>1
            <4> QED BY <4>2 DEF Tracked
        <3> QED BY <3>1, <3>2
    <2>11. \A t \in Tracked' : \A m, n : Adds(m, t)' /\ Adds(n, t)' => m = n
        <3> SUFFICES ASSUME NEW t \in Tracked', NEW m, NEW n, Adds(m, t)', Adds(n, t)' PROVE m = n OBVIOUS
        <3>1. CASE t = c
            <4>1. m = N /\ n = N BY <2>8, <2>10, <3>1
            <4> QED BY <4>1
        <3>2. CASE t # c
            <4>1. Adds(m, t) /\ Adds(n, t) BY <2>8, <3>2
            <4>2. m \in DOMAIN job.acts /\ n \in DOMAIN job.acts /\ t \in Tracked BY <2>10, <4>1 DEF Adds
            <4> QED BY <4>1, <4>2 DEF Places, ActsAreSound
        <3> QED BY <3>1, <3>2
    <2>12. c \in Tracked' => Gone(c) \/ Leaves(c)'
        <3> SUFFICES ASSUME c \in Tracked' PROVE Gone(c) \/ Leaves(c)' OBVIOUS
        <3>0. c \in Tracked BY <2>10
        <3>1. CASE Leaves(c) BY <1>1, <2>6, <3>1, LeavesKept
        <3>2. CASE Len(end) = 1 /\ end[1] = Act("REMOVE_TASK", c, deployed[c]) /\ c \in DOMAIN deployed
            <4> DEFINE n == Len(job.acts) + 1
            <4>1. n \in DOMAIN job'.acts /\ job'.acts[n] = Act("REMOVE_TASK", c, deployed[c]) /\ N = n + 1
                BY <2>5, <3>2, ActsType
            <4>2. \A m \in 1..n : m # N BY <4>1, ActsType
            <4>3. \A m \in 1..n : ~Adds(m, c)' BY <2>8, <2>10, <4>2
            <4> HIDE DEF n
            <4>4. \E m \in DOMAIN job'.acts : /\ job'.acts[m] = Act("REMOVE_TASK", c, deployed[c])
                                             /\ c \in DOMAIN deployed /\ \A l \in 1..m : ~Adds(l, c)'
                BY <3>2, <4>1, <4>3
            <4> QED BY <1>1, <4>4 DEF Leaves, Act
        <3> QED BY <2>2, <3>0, <3>1, <3>2
    <2>13. \A t : t # c /\ Unplaced(t)' => Unplaced(t)
        <3> SUFFICES ASSUME NEW t, t # c, Unplaced(t)' PROVE Unplaced(t) OBVIOUS
        <3>1. CASE t \notin DOMAIN plan' \/ plan'[t].worker = None BY <1>5, <3>1 DEF Unplaced
        <3>2. ASSUME NEW n, Adds(n, t)' PROVE Unplaced(t)
            <4>1. Adds(n, t) BY <2>8, <3>2
            <4> QED BY <4>1 DEF Adds, Unplaced
        <3> QED BY <3>1, <3>2 DEF Unplaced
    <2>14. \A t \in Tracked' : Unplaced(t)' => Unplaced(t) \/ Gone(t) \/ Leaves(t)' BY <2>12, <2>13
    <2> QED BY <1>1, <1>4, <2>4, <2>6, <2>9, <2>11, <2>14, PlacePlanned
<1> QED BY <1>6, <1>7

\* A task that lost its inputs is removed from where it is, if it is anywhere.
LEMMA PlaceReduce ==
    ASSUME TypeInv, Places, ~crashed, ~crashed', NEW g \in job.groups, ReduceGroup(g)
    PROVE  Places'
<1>0. job \in JobType /\ plan \in [DOMAIN plan -> Task] /\ g \in Group BY DEF TypeInv, TypeOK, JobType
<1>1. UNCHANGED <<workers, fid, deployed, issued, lost, astray>> /\ job.pc = "reduce"
    BY DEF ReduceGroup, At, bus, strays
<1>2. CASE g \notin DOMAIN plan
    <2>1. UNCHANGED plan /\ job' = [job EXCEPT !.groups = @ \ {g}] BY <1>2 DEF ReduceGroup
    <2>2. job'.pc = job.pc /\ job'.acts = job.acts BY <1>0, <1>1, <2>1 DEF JobType
    <2> QED BY <1>1, <2>1, <2>2, PlaceCompared
<1> DEFINE kept == removeInput(plan[g].inputs, job.key)
<1>3. CASE g \in DOMAIN plan /\ checkInputsOfTaskInstance(kept)
    <2> DEFINE a == Act("REMOVE_INPUT", g, deployed[g])
    <2>0. g \in DOMAIN deployed BY <1>3 DEF ReduceGroup
    <2>1. /\ plan' = [plan EXCEPT ![g].inputs = kept]
          /\ job' = [job EXCEPT !.groups = @ \ {g}, !.acts = Append(@, a)]
        BY <1>3, <2>0 DEF ReduceGroup
    <2>2. a.op = "REMOVE_INPUT" /\ a.task = g /\ a \in Action
        <3>1. deployed[g] \in Worker BY <2>0 DEF TypeInv, TypeOK
        <3> QED BY <1>0, <3>1, ActType
    <2> HIDE DEF a, kept
    <2>3. job'.pc = job.pc /\ job'.acts = Append(job.acts, a) BY <1>0, <1>1, <2>1 DEF JobType
    <2>4. DOMAIN plan' = DOMAIN plan /\ \A t \in DOMAIN plan : plan'[t].worker = plan[t].worker
        BY <1>0, <1>3, <2>1 DEF Task
    <2>5. /\ \A n \in DOMAIN job.acts : n \in DOMAIN job'.acts /\ job'.acts[n] = job.acts[n]
          /\ \A n \in DOMAIN job'.acts :
                n \in DOMAIN job.acts \/ (job'.acts[n].op # "ADD_TASK" /\ job'.acts[n].task \in DOMAIN plan')
        BY <1>3, <2>2, <2>3, <2>4, OneAppended
    <2> QED BY <1>1, <2>3, <2>4, <2>5, PlaceCompared
<1>4. CASE g \in DOMAIN plan /\ ~checkInputsOfTaskInstance(kept)
    <2>1. plan' = Del(plan, g) /\ job' = [job EXCEPT !.groups = @ \ {g}, !.acts = @ \o removeExistingTask(g)]
        BY <1>4 DEF ReduceGroup
    <2>2. job'.pc = job.pc /\ job'.acts = job.acts \o removeExistingTask(g) BY <1>0, <1>1, <2>1 DEF JobType
    <2>3. DOMAIN plan' = DOMAIN plan \ {g} /\ \A t \in DOMAIN plan : t # g => plan'[t] = plan[t]
        BY <2>1 DEF Del
    <2>4. \A n, t : ~Adds(n, t)
        <3> SUFFICES ASSUME NEW n, NEW t, Adds(n, t) PROVE FALSE OBVIOUS
        <3>1. n \in DOMAIN job.acts /\ job.acts[n].task = t BY DEF Adds
        <3>2. job.acts[n] \in Action BY <3>1, ActsType
        <3>3. t \in Group BY <3>1, <3>2 DEF Action
        <3> QED BY <1>1, <3>1, <3>3 DEF Places, ActsAreSound
    <2>5. ASSUME \A n \in DOMAIN job.acts : n \in DOMAIN job'.acts /\ job'.acts[n] = job.acts[n],
                 \A n, t : ~Adds(n, t)', g \in Tracked => Gone(g) \/ Leaves(g)'
          PROVE  Places'
        <3>1. Tracked' = Tracked BY <1>1 DEF Tracked
        <3>2. \A t \in Tracked' : Unplaced(t)' => Unplaced(t) \/ Gone(t) \/ Leaves(t)'
            BY <2>3, <2>5, <3>1 DEF Unplaced
        <3> QED BY <1>1, <2>2, <2>5, <3>2, PlacePlanned
    <2>6. CASE g \in DOMAIN deployed
        <3> DEFINE a == Act("REMOVE_TASK", g, deployed[g])
        <3>1. removeExistingTask(g) = <<a>> BY <2>6 DEF removeExistingTask
        <3>2. a.op = "REMOVE_TASK" /\ a \in Action
            <4>1. deployed[g] \in Worker BY <2>6 DEF TypeInv, TypeOK
            <4> QED BY <1>0, <4>1, ActType
        <3>3. a = Act("REMOVE_TASK", g, deployed'[g]) BY <1>1
        <3> HIDE DEF a
        <3>4. job'.acts = Append(job.acts, a) BY <2>2, <3>1, <3>2, ActsType
        <3>N. PICK N : N = Len(job.acts) + 1 OBVIOUS
        <3>5. /\ DOMAIN job'.acts = DOMAIN job.acts \cup {N} /\ job'.acts[N] = a
              /\ \A n \in DOMAIN job.acts : n \in DOMAIN job'.acts /\ job'.acts[n] = job.acts[n]
            BY <3>2, <3>4, <3>N, OneAppended
        <3>6. \A n, t : ~Adds(n, t)' BY <2>4, <3>2, <3>5 DEF Adds
        <3>7. Leaves(g)' BY <1>1, <2>6, <3>3, <3>5, <3>6 DEF Leaves, Act
        <3> QED BY <2>5, <3>5, <3>6, <3>7
    <2>7. CASE g \notin DOMAIN deployed
        <3>1. removeExistingTask(g) = <<>> BY <2>7 DEF removeExistingTask
        <3>2. job'.acts = job.acts BY <2>2, <3>1, ActsType
        <3>3. g \in Tracked => Gone(g) BY <2>7, HeldIsDeployed DEF Gone, Places
        <3>4. \A n, t : ~Adds(n, t)' BY <2>4, <3>2 DEF Adds
        <3> QED BY <2>5, <3>2, <3>3, <3>4
    <2> QED BY <2>6, <2>7
<1> QED BY <1>2, <1>3, <1>4

\* Without a worker the handler returns: what it has not removed yet is astray.
LEMMA PlaceSelect ==
    ASSUME TypeInv, Places, ~crashed, SelectForTask
    PROVE  Places'
<1>0. job \in JobType BY DEF TypeInv, TypeOK, JobType
<1>1. /\ UNCHANGED <<workers, fid, plan, deployed, issued, lost>> /\ job.pc \in {"expand", "reduce"}
      /\ job.acts # <<>> /\ Head(job.acts).op = "ADD_TASK"
    BY DEF SelectForTask, Executing, Planned, At, flow, bus
<1>t. PICK t : t = Head(job.acts).task OBVIOUS
<1>2. Adds(1, t) /\ t \in Group /\ 1 \in DOMAIN job.acts
    <2>1. Head(job.acts) = job.acts[1] /\ 1 \in DOMAIN job.acts /\ job.acts[1] \in Action BY <1>1, ActsType
    <2> QED BY <1>1, <1>t, <2>1 DEF Adds, Action
<1>3. job.pc = "expand" /\ fid # 0 /\ \A n \in DOMAIN job.acts : job.acts[n].task \in DOMAIN plan
    BY <1>1, <1>2 DEF Places, ActsAreSound, FlowsEnd
<1>4. CASE job' = Idle /\ astray' = astray \cup ToRemove
    <2>1. job'.pc = "idle" /\ job'.acts = <<>> BY <1>4, IdleType
    <2>2. ASSUME NEW u \in Tracked', u \notin DOMAIN plan \/ plan[u].worker = None PROVE Gone(u)
        <3>1. u \in Tracked /\ u \notin ToRemove BY <1>4 DEF Tracked
        <3> SUFFICES ASSUME Leaves(u) PROVE FALSE BY <2>2, <3>1 DEF Places, NowhereElse, Unplaced
        <3>2. PICK n \in DOMAIN job.acts : job.acts[n] = Act("REMOVE_TASK", u, deployed[u]) BY DEF Leaves
        <3>3. job.acts[n].op = "REMOVE_TASK" /\ job.acts[n].task = u BY <3>2 DEF Act
        <3>4. u \in DOMAIN plan BY <1>3, <3>3
        <3>5. Plans("REMOVE_TASK", u) BY <3>3 DEF Plans
        <3> QED BY <2>2, <3>1, <3>4, <3>5 DEF ToRemove
    <2> QED BY <1>1, <1>3, <1>4, <2>1, <2>2, PlaceReset
<1>5. ASSUME NEW w, job' = [job EXCEPT !.pc = "deploy", !.worker = w], astray' = astray PROVE Places'
    <2>1. job'.pc = "deploy" /\ job'.acts = job.acts BY <1>0, <1>1, <1>5 DEF JobType
    <2>2. WorkersWereListed' /\ OnePlace' /\ \A u : Gone(u) => Gone(u)' BY <1>1, <1>5, PlacesKept DEF Places
    <2>3. \A u : Leaves(u)' = Leaves(u) BY <1>1, <2>1 DEF Leaves, Adds, Act
    <2>4. \A n, u : Adds(n, u)' = Adds(n, u) BY <2>1 DEF Adds
    <2>5. Tracked' = Tracked BY <1>5 DEF Tracked
    <2>6. ActsAreSound' BY <1>1, <1>2, <1>3, <2>1, <2>4, <2>5 DEF Places, ActsAreSound, AtWork
    <2>7. \A u : Unplaced(u)' = Unplaced(u) BY <1>1, <2>1, <2>4 DEF Unplaced
    <2>8. NowhereElse' BY <2>1, <2>2, <2>3, <2>5, <2>7 DEF Places, NowhereElse
    <2>9. FlowsEnd' BY <1>1, <1>3 DEF FlowsEnd
    <2> QED BY <2>2, <2>6, <2>8, <2>9 DEF Places
<1> QED BY <1>4, <1>5 DEF SelectForTask

\* DeployTask: the task that is added was nowhere, and is now where the
\* deployment plan says.
LEMMA PlaceDeploy ==
    ASSUME TypeInv, Places, ~crashed, ~crashed', DeployTask
    PROVE  Places'
<1>0. job \in JobType /\ plan \in [DOMAIN plan -> Task] /\ deployed \in [DOMAIN deployed -> Worker]
    BY DEF TypeInv, TypeOK, JobType
<1>1. job.pc = "deploy" /\ job.acts # <<>> /\ job.worker # None /\ fid # 0
    BY DEF DeployTask, At, TypeInv, JobIsSound, Places, FlowsEnd
<1>2. Head(job.acts) = job.acts[1] /\ 1 \in DOMAIN job.acts /\ job.acts[1] \in Action BY <1>1, ActsType
<1>t. PICK t, w : t = job.acts[1].task /\ w = job.worker OBVIOUS
<1>3. Adds(1, t) /\ t \in DOMAIN plan BY <1>1, <1>2, <1>t DEF Places, ActsAreSound, Adds
<1>4. t \in Group /\ w \in Worker
    <2>1. t \in Group BY <1>2, <1>t DEF Action
    <2> QED BY <1>0, <1>1, <1>t, <2>1 DEF JobType
<1>5. /\ UNCHANGED <<workers, fid, lost, astray>>
      /\ issued' = issued \cup {<<t, w>>} /\ w \in workers
      /\ deployed' = Put(deployed, t, w) /\ plan' = [plan EXCEPT ![t].worker = w]
      /\ job' = [NextAct EXCEPT !.pc = "expand", !.worker = None]
    BY <1>2, <1>t DEF DeployTask, strays
<1>6. job'.pc = "expand" /\ job'.acts = Tail(job.acts) BY <1>0, <1>1, <1>5 DEF NextAct, JobType
<1>7. Tracked' = Tracked BY <1>5 DEF Tracked
<1>8. t \in Tracked => Gone(t)
    <2>1. ~Leaves(t) BY <1>3, NothingLeaves
    <2>2. Unplaced(t) BY <1>2, <1>3 DEF Unplaced
    <2> QED BY <2>1, <2>2 DEF Places, NowhereElse
<1>9. /\ DOMAIN deployed' = DOMAIN deployed \cup {t} /\ deployed'[t] = w
      /\ \A u \in DOMAIN deployed : u # t => deployed'[u] = deployed[u]
    BY <1>5 DEF Put
<1>10. DOMAIN plan' = DOMAIN plan /\ plan'[t].worker = w /\ \A u \in DOMAIN plan : u # t => plan'[u] = plan[u]
    BY <1>0, <1>3, <1>5 DEF Task
<1>11. \A n, u : Adds(n, u)' => n \in Int /\ n + 1 \in DOMAIN job.acts /\ Adds(n + 1, u) BY <1>1, <1>6, AddsNext
<1>12. t \in Tracked => \A n : ~Adds(n, t)'
    <2> SUFFICES ASSUME t \in Tracked, NEW n, Adds(n, t)' PROVE FALSE OBVIOUS
    <2>1. n \in 1..(Len(job.acts) - 1) /\ n + 1 \in DOMAIN job.acts /\ Adds(n + 1, t) BY <1>1, <1>6, AddsNext
    <2>2. n + 1 = 1 BY <1>2, <1>3, <2>1 DEF Places, ActsAreSound
    <2> QED BY <2>1, <2>2
<1>13. FlowsEnd' BY <1>1, <1>5 DEF FlowsEnd
<1>14. WorkersWereListed' BY <1>5, <1>9 DEF Places, WorkersWereListed
<1>15. ActsAreSound'
    <2>1. \A n \in DOMAIN job'.acts : job'.acts[n].task \in DOMAIN plan'
        <3>1. \A n \in DOMAIN job.acts : job.acts[n].task \in DOMAIN plan BY <1>1 DEF Places, ActsAreSound
        <3>2. \A n \in DOMAIN job'.acts : n + 1 \in DOMAIN job.acts /\ job'.acts[n] = job.acts[n + 1]
            BY <1>1, <1>6, RestOfActs
        <3> QED BY <1>10, <3>1, <3>2
    <2>2. \A u \in Tracked : \A m, n \in DOMAIN job'.acts : Adds(m, u)' /\ Adds(n, u)' => m = n
        <3> SUFFICES ASSUME NEW u \in Tracked, NEW m, NEW n, Adds(m, u)', Adds(n, u)' PROVE m = n OBVIOUS
        <3>1. /\ m \in Int /\ m + 1 \in DOMAIN job.acts /\ Adds(m + 1, u)
              /\ n \in Int /\ n + 1 \in DOMAIN job.acts /\ Adds(n + 1, u)
            BY <1>11
        <3>2. m + 1 = n + 1 BY <3>1 DEF Places, ActsAreSound
        <3> QED BY <3>1, <3>2
    <2> QED BY <1>6, <1>7, <2>1, <2>2 DEF ActsAreSound, AtWork
<1>16. \A u : u # t => (Gone(u) => Gone(u)') BY <1>5 DEF Gone, Holds
<1>17. NowhereElse'
    <2>1. ASSUME NEW u \in Tracked, Unplaced(u)' PROVE Gone(u)' \/ Leaves(u)'
        <3>1. u # t BY <1>3, <1>4, <1>10, <1>12, <2>1, FogFlowAssumption DEF Unplaced
        <3>2. Unplaced(u)
            <4>1. CASE u \notin DOMAIN plan' \/ plan'[u].worker = None BY <1>10, <3>1, <4>1 DEF Unplaced
            <4>2. ASSUME NEW n, Adds(n, u)' PROVE Unplaced(u)
                <5>1. n + 1 \in DOMAIN job.acts /\ Adds(n + 1, u) BY <1>11, <4>2
                <5> QED BY <5>1 DEF Unplaced
            <4> QED BY <2>1, <4>1, <4>2 DEF Unplaced
        <3>3. Gone(u) \/ Leaves(u) BY <3>2 DEF Places, NowhereElse
        <3>4. ASSUME Leaves(u) PROVE Leaves(u)'
            <4>1. u \in DOMAIN deployed => u \in DOMAIN deployed' /\ deployed'[u] = deployed[u] BY <1>9, <3>1
            <4>2. Head(job.acts) # Act("REMOVE_TASK", u, deployed[u]) BY <1>2, <1>3 DEF Adds, Act
            <4> QED BY <1>1, <1>6, <3>4, <4>1, <4>2, LeavesNext
        <3> QED BY <1>16, <3>1, <3>3, <3>4
    <2> QED BY <1>6, <1>7, <2>1 DEF NowhereElse
<1>18. OnePlace'
    <2> SUFFICES ASSUME NEW p \in issued', p[2] \notin lost, p[1] \notin astray
                 PROVE  p[1] \in DOMAIN deployed' /\ deployed'[p[1]] = p[2]
        BY <1>5 DEF OnePlace
    <2>1. CASE p = <<t, w>> BY <1>9, <2>1
    <2>2. CASE p # <<t, w>>
        <3>1. p \in issued BY <1>5, <2>2
        <3>2. PICK u \in Group, v \in Worker : p = <<u, v>> BY <3>1 DEF TypeInv, TypeOK
        <3>3. Holds(u, v) /\ u \in Tracked BY <3>1, <3>2 DEF Holds, Tracked
        <3>4. u # t BY <1>8, <3>2, <3>3 DEF Gone
        <3>5. u \in DOMAIN deployed /\ deployed[u] = v BY <3>3, HeldIsDeployed DEF Places
        <3> QED BY <1>9, <3>2, <3>4, <3>5
    <2> QED BY <2>1, <2>2
<1> QED BY <1>13, <1>14, <1>15, <1>17, <1>18 DEF Places

\* The next action: a REMOVE_TASK leaves its task nowhere, the others leave all
\* where it is.
LEMMA PlaceNext ==
    ASSUME TypeInv, Places, ~crashed, RemoveTask \/ SendInput
    PROVE  Places'
<1>0. job \in JobType BY DEF TypeInv, TypeOK, JobType
<1>1. /\ UNCHANGED <<workers, fid, plan, deployed, lost, astray>>
      /\ job.pc \in {"expand", "reduce"} /\ job.acts # <<>> /\ job' = NextAct
    BY DEF RemoveTask, SendInput, Executing, Planned, At, flow, strays
<1>2. issued' \subseteq issued BY TerminateOnly DEF RemoveTask, SendInput, bus
<1>3. job'.pc = job.pc /\ job'.acts = Tail(job.acts) BY <1>0, <1>1 DEF NextAct, JobType
<1>4. WorkersWereListed' /\ OnePlace' /\ \A t : Gone(t) => Gone(t)' BY <1>1, <1>2, PlacesKept DEF Places
<1>5. FlowsEnd' BY <1>1, <1>3 DEF Places, FlowsEnd
<1>6. Tracked' = Tracked BY <1>1 DEF Tracked
<1>7. ASSUME NEW t \in Tracked, Leaves(t) PROVE Leaves(t)' \/ Gone(t)'
    <2>1. CASE Head(job.acts) # Act("REMOVE_TASK", t, deployed[t])
        BY <1>1, <1>3, <1>7, <2>1, LeavesNext
    <2>2. CASE Head(job.acts) = Act("REMOVE_TASK", t, deployed[t])
        <3>1. t \in DOMAIN deployed /\ deployed[t] \in Worker BY <1>7 DEF Leaves, TypeInv, TypeOK
        <3>2. Head(job.acts).op = "REMOVE_TASK" /\ Head(job.acts).task = t /\ Head(job.acts).worker = deployed[t]
            BY <2>2 DEF Act
        <3>3. RemoveTask BY <3>2 DEF SendInput, Executing
        <3>4. TerminateTask(t, deployed[t]) BY <3>2, <3>3 DEF RemoveTask
        <3> QED BY <1>1, <3>1, <3>4, TerminateGoes DEF Places
    <2> QED BY <2>1, <2>2
<1>8. \A n, t : Adds(n, t)' => n \in Int /\ n + 1 \in DOMAIN job.acts /\ Adds(n + 1, t) BY <1>1, <1>3, AddsNext
<1>9. ActsAreSound'
    <2>1. \A n \in DOMAIN job'.acts : n + 1 \in DOMAIN job.acts /\ job'.acts[n] = job.acts[n + 1]
        BY <1>1, <1>3, RestOfActs
    <2>2. job'.pc = "reduce" => \A t \in Group, n \in DOMAIN job'.acts : ~Adds(n, t)'
        BY <1>3, <1>8 DEF Places, ActsAreSound
    <2>3. job'.pc = "expand" => \A n \in DOMAIN job'.acts : job'.acts[n].task \in DOMAIN plan'
        BY <1>1, <1>3, <2>1 DEF Places, ActsAreSound
    <2>4. \A u \in Tracked : \A m, n \in DOMAIN job'.acts : Adds(m, u)' /\ Adds(n, u)' => m = n
        <3> SUFFICES ASSUME NEW u \in Tracked, NEW m, NEW n, Adds(m, u)', Adds(n, u)' PROVE m = n OBVIOUS
        <3>1. /\ m \in Int /\ m + 1 \in DOMAIN job.acts /\ Adds(m + 1, u)
              /\ n \in Int /\ n + 1 \in DOMAIN job.acts /\ Adds(n + 1, u)
            BY <1>8
        <3>2. m + 1 = n + 1 BY <3>1 DEF Places, ActsAreSound
        <3> QED BY <3>1, <3>2
    <2> QED BY <1>1, <1>3, <1>6, <2>2, <2>3, <2>4 DEF ActsAreSound, AtWork
<1>10. ASSUME NEW t \in Tracked, Unplaced(t)' PROVE Unplaced(t)
    <2>1. CASE t \notin DOMAIN plan' \/ plan'[t].worker = None BY <1>1, <2>1 DEF Unplaced
    <2>2. ASSUME NEW n, Adds(n, t)' PROVE Unplaced(t)
        <3>1. n + 1 \in DOMAIN job.acts /\ Adds(n + 1, t) BY <1>8, <2>2
        <3> QED BY <3>1 DEF Unplaced
    <2> QED BY <1>10, <2>1, <2>2 DEF Unplaced
<1>11. NowhereElse' BY <1>1, <1>3, <1>4, <1>6, <1>7, <1>10 DEF Places, NowhereElse
<1> QED BY <1>4, <1>5, <1>9, <1>11 DEF Places

LEMMA PlaceReturn ==
    ASSUME TypeInv, Places, ~crashed, Return
    PROVE  Places'
<1>1. /\ UNCHANGED <<workers, fid, plan, deployed, issued, lost, astray>> /\ fid # 0
      /\ job.acts = <<>> /\ job' = Idle
    BY DEF Return, Planned, At, flow, bus, strays, Places, FlowsEnd
<1>2. job'.pc = "idle" /\ job'.acts = <<>> BY <1>1, IdleType
<1>3. Tracked' = Tracked BY <1>1 DEF Tracked
<1>4. \A t \in Tracked : t \notin DOMAIN plan \/ plan[t].worker = None => Gone(t) BY <1>1, IdleUnplaced
<1> QED BY <1>1, <1>2, <1>3, <1>4, PlaceReset

LEMMA PlaceStep ==
    ASSUME TypeInv, InputInv, PlaceInv, [Next]_vars
    PROVE  PlaceInv'
<1> SUFFICES ASSUME ~crashed' PROVE Places' BY DEF PlaceInv, Places
<1>1. ~crashed
    BY DEF vars, Next, WorkerJoin, WorkerLost, PublishAddTask, Intents, HandleServiceIntent, RemoveServiceIntent,
           InstallFlow, RecordIntent, EndTask, DeleteFlow, Notifications, NotifyDelete, NotifyUpdate, Note,
           Planning, ExpandGroup, ReduceGroup, ExpandInput, ExpandMoved, ExpandKnown,
           Execution, SelectForTask, DeployTask, RemoveTask, SendInput, NilAction, Return, Executing, Planned, At
<1>2. Places BY <1>1 DEF PlaceInv, Places
<1>3. CASE Intents
    BY <1>1, <1>2, <1>3, PlaceOutside, PlaceInstall, PlaceRemove, PlaceEnd, PlaceDeleteFlow DEF Intents
<1>4. CASE Notifications BY <1>1, <1>2, <1>4, PlaceNote DEF Notifications
<1>5. CASE Planning
    BY <1>1, <1>2, <1>5, PlaceExpandGroup, PlaceReduce, PlaceInput, PlaceMoved DEF Planning
<1>6. CASE Execution
    BY <1>1, <1>2, <1>6, PlaceSelect, PlaceDeploy, PlaceNext, PlaceReturn DEF Execution, NilAction
<1> QED BY <1>1, <1>2, <1>3, <1>4, <1>5, <1>6, PlaceOutside DEF Next

LEMMA PlaceInit == Init => PlaceInv
<1> SUFFICES ASSUME Init PROVE PlaceInv OBVIOUS
<1>1. job.pc = "idle" /\ job.acts = <<>> /\ DOMAIN deployed = {} /\ issued = {}
    BY IdleType, EmptyType DEF Init
<1>2. DOMAIN job.acts = {} BY <1>1
<1>3. \A t : Gone(t) BY <1>1 DEF Gone, Holds
<1>4. FlowsEnd /\ WorkersWereListed /\ OnePlace BY <1>1, <1>3 DEF FlowsEnd, WorkersWereListed, OnePlace
<1>5. ActsAreSound BY <1>1, <1>2 DEF ActsAreSound
<1>6. NowhereElse BY <1>3 DEF NowhereElse
<1> QED BY <1>4, <1>5, <1>6 DEF PlaceInv

\* DeployTask, TerminateTask and the two plans, for any topology, intents and
\* order of the handlers: a task is issued to no worker but the one of the
\* deployment plan, except to workers that were lost, and except the tasks that
\* went astray because their intent was submitted again, because the handler
\* gave up before it removed them, or because it planned their migration twice.
THEOREM TasksAreInOnePlace == Spec => []OnePlace
<1> DEFINE I == TypeInv /\ InputInv /\ PlaceInv
<1>1. Init => I BY TypeInit, InputInit, PlaceInit
<1>2. I /\ [Next]_vars => I' BY TypeStep, InputStep, PlaceStep
<1>3. I => OnePlace BY DEF PlaceInv, OnePlace
<1> HIDE DEF I
<1> QED BY <1>1, <1>2, <1>3, PTL DEF Spec
=============================================================================
