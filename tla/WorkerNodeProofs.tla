-------------------------- MODULE WorkerNodeProofs --------------------------
(***************************************************************************)
(* Proofs about a worker process.  First the task list, for every set of   *)
(* tasks and every assignment of priorities, several for the same task     *)
(* included; then the executor, for every set of tasks and inputs and any  *)
(* number of commands, whatever calls fail; last, that the process as a    *)
(* whole implements the task list.                                         *)
(***************************************************************************)
EXTENDS WorkerNode, TLAPS, WellFoundedInduction

-----------------------------------------------------------------------------
(* The task list                                                           *)

\* No exclusive task runs while a more urgent one is paused.
NoneIsPassedOver ==
    \A t \in Running \cap Excl, u \in Paused \cap Excl : allTasks[u].level <= allTasks[t].level

\* The inductive invariant.
IInv == TypeOK /\ NoneIsOutranked /\ NoneIsPassedOver

-----------------------------------------------------------------------------
\* The type of what the handlers compare.
LEMMA Comparable ==
    ASSUME TypeOK
    PROVE  \A u \in Known : /\ allTasks[u].level \in Int /\ allTasks[u].excl \in BOOLEAN
                            /\ allTasks[u].status \in Status
BY LevelAssumption DEF TypeOK, TaskType, Level

\* A nonempty set of known tasks has one of the largest level: the scan of
\* onTerminateTask ends with a level some task has.
LEMMA LargestLevel ==
    ASSUME TypeOK, NEW S \in SUBSET Known, S # {}
    PROVE  \E t \in S : \A u \in S : allTasks[u].level <= allTasks[t].level
<1> DEFINE D == {MaxLevel - allTasks[u].level : u \in S}
<1>1. D \subseteq Nat /\ D # {}
  BY LevelAssumption DEF TypeOK, TaskType, Level
<1>2. PICK x \in D : \A y \in D : <<y, x>> \notin OpToRel(<, Nat)
  BY <1>1, WFMin, NatLessThanWellFounded
<1>3. \A y \in D : ~(y < x)
  BY <1>1, <1>2 DEF OpToRel
<1>4. PICK t \in S : x = MaxLevel - allTasks[t].level
  OBVIOUS
<1>5. ASSUME NEW u \in S
      PROVE  allTasks[u].level <= allTasks[t].level
  <2>1. ~(MaxLevel - allTasks[u].level < MaxLevel - allTasks[t].level)
    BY <1>3, <1>4
  <2> QED
    BY <2>1, LevelAssumption DEF TypeOK, TaskType, Level
<1> QED
  BY <1>5

\* The task list after ADD_TASK.
LEMMA AfterAdd ==
    ASSUME TypeOK, NEW t \in TaskId, NEW p \in Priorities[t], onScheduledTask(t, p)
    PROVE  /\ TypeOK'
           /\ p.level \in Int /\ p.excl \in BOOLEAN
           /\ Known' = Known \cup {t}
           /\ allTasks'[t].excl = p.excl /\ allTasks'[t].level = p.level
           /\ \A u \in Known \ {t} : /\ allTasks'[u].excl = allTasks[u].excl
                                    /\ allTasks'[u].level = allTasks[u].level
           /\ Excl' = {u \in Excl : u # t} \cup {u \in {t} : p.excl}
           /\ t \in Running' <=> Runnable(p)
           /\ \A u \in Known \ {t} : u \in Running' <=> u \in Running /\ u \notin Overtaken(p)
<1>1. p \in PriorityType /\ Level \subseteq Int
  BY PrioritiesAssumption, LevelAssumption DEF Level
<1>2. /\ DOMAIN allTasks' = Known \cup {t}
      /\ allTasks' = [u \in DOMAIN allTasks' |-> allTasks'[u]]
  BY DEF onScheduledTask
<1>3. Known' = Known \cup {t}
  BY <1>2 DEF Known
<1>4. /\ allTasks'[t].excl = p.excl /\ allTasks'[t].level = p.level
      /\ allTasks'[t].status = "running" <=> Runnable(p)
      /\ allTasks'[t] \in TaskType
  BY <1>1 DEF onScheduledTask, TaskType, PriorityType, Status
<1>5. ASSUME NEW u \in Known \ {t}
      PROVE  /\ allTasks'[u].excl = allTasks[u].excl
             /\ allTasks'[u].level = allTasks[u].level
             /\ allTasks'[u].status = "running" <=> u \in Running /\ u \notin Overtaken(p)
             /\ allTasks'[u] \in TaskType
  BY DEF onScheduledTask, TypeOK, TaskType, Status, Running, Known
<1>6. TypeOK'
  BY <1>2, <1>3, <1>4, <1>5 DEF TypeOK, Known
<1>7. Excl' = {u \in Excl : u # t} \cup {u \in {t} : p.excl}
  BY <1>3, <1>4, <1>5 DEF Excl
<1>8. \A u \in Known' : u \in Running' <=> allTasks'[u].status = "running"
  BY DEF Running
<1> QED
  BY <1>1, <1>3, <1>4, <1>5, <1>6, <1>7, <1>8 DEF PriorityType

\* The task list after REMOVE_TASK.
LEMMA AfterRemove ==
    ASSUME TypeOK, NEW t \in TaskId, onTerminateTask(t)
    PROVE  /\ TypeOK'
           /\ t \in Known /\ Known' = Known \ {t}
           /\ \A u \in Known \ {t} : /\ allTasks'[u].excl = allTasks[u].excl
                                    /\ allTasks'[u].level = allTasks[u].level
           /\ Excl' = Excl \ {t}
           /\ \A u \in Known \ {t} : u \in Running' <=> u \in Running \cup Restarted(t)
<1>1. /\ t \in Known /\ DOMAIN allTasks' = Known \ {t}
      /\ allTasks' = [u \in DOMAIN allTasks' |-> allTasks'[u]]
  BY DEF onTerminateTask
<1>2. Known' = Known \ {t}
  BY <1>1 DEF Known
<1>3. ASSUME NEW u \in Known \ {t}
      PROVE  /\ allTasks'[u].excl = allTasks[u].excl
             /\ allTasks'[u].level = allTasks[u].level
             /\ allTasks'[u].status = "running" <=> u \in Running \cup Restarted(t)
             /\ allTasks'[u] \in TaskType
  BY DEF onTerminateTask, TypeOK, TaskType, Status, Running, Known
<1>4. TypeOK'
  BY <1>1, <1>2, <1>3 DEF TypeOK, Known
<1>5. Excl' = Excl \ {t}
  BY <1>2, <1>3 DEF Excl
<1>6. \A u \in Known' : u \in Running' <=> allTasks'[u].status = "running"
  BY DEF Running
<1> QED
  BY <1>1, <1>2, <1>3, <1>4, <1>5, <1>6

\* What REMOVE_TASK restarts is not outranked by what it leaves paused.
LEMMA RestartedAreTop ==
    ASSUME TypeOK, NEW t \in TaskId, NEW u \in Restarted(t), NEW v \in Excl \ {t}
    PROVE  /\ allTasks[v].level <= 0 \/ allTasks[v].level <= allTasks[u].level
           /\ v \in Paused
           /\ v \notin Restarted(t) => allTasks[v].level <= allTasks[u].level
<1>1. \A x \in Known : allTasks[x].level \in Int
  BY Comparable
<1>2. t \in Excl /\ (Excl \cap Running) \ {t} = {}
  BY DEF Restarted
<1>3. v \in Known /\ v \in Paused
  BY <1>2 DEF Excl, Paused
<1>4. allTasks[v].level > 0 => v \in Contenders(t)
  BY <1>3 DEF Contenders
<1>5. CASE Contenders(t) # {}
  <2>1. u \in Known /\ allTasks[u].level \in TopLevel(t)
    BY <1>2, <1>5 DEF Restarted
  <2>2. /\ \A x \in Contenders(t) : allTasks[x].level <= allTasks[u].level
        /\ \E x \in Contenders(t) : allTasks[u].level = allTasks[x].level
    BY <2>1 DEF TopLevel
  <2>3. allTasks[u].level > 0
    BY <2>2 DEF Contenders
  <2> QED
    BY <1>1, <1>3, <1>4, <2>1, <2>2, <2>3
<1>6. CASE Contenders(t) = {}
  BY <1>1, <1>2, <1>3, <1>4, <1>6 DEF Restarted
<1> QED
  BY <1>5, <1>6

\* ADD_TASK keeps the invariant: an incoming task runs only if no exclusive task
\* is more urgent, and pauses the exclusive tasks that it outranks.
LEMMA AddKeepsInv ==
    ASSUME IInv, NEW t \in TaskId, NEW p \in Priorities[t], onScheduledTask(t, p)
    PROVE  IInv'
<1>1. TypeOK
  BY DEF IInv
<1>2. \A u \in Known : allTasks[u].level \in Int /\ allTasks[u].excl \in BOOLEAN
  BY <1>1, Comparable
<1>3. /\ TypeOK'
      /\ p.level \in Int /\ p.excl \in BOOLEAN
      /\ Known' = Known \cup {t}
      /\ allTasks'[t].excl = p.excl /\ allTasks'[t].level = p.level
      /\ \A u \in Known \ {t} : /\ allTasks'[u].excl = allTasks[u].excl
                               /\ allTasks'[u].level = allTasks[u].level
      /\ Excl' = {u \in Excl : u # t} \cup {u \in {t} : p.excl}
      /\ t \in Running' <=> Runnable(p)
      /\ \A u \in Known \ {t} : u \in Running' <=> u \in Running /\ u \notin Overtaken(p)
  BY <1>1, AfterAdd
<1>4. ASSUME NEW u \in Running', NEW v \in Excl'
      PROVE  allTasks'[v].level <= 0 \/ allTasks'[v].level <= allTasks'[u].level
  <2>1. u \in Known' /\ v \in Known'
    BY DEF Running, Excl
  <2>2. CASE u = t
    <3>1. v # t => v \in Excl /\ allTasks[v].level <= p.level
      BY <1>3, <2>2 DEF Runnable
    <3> QED
      BY <1>2, <1>3, <2>1, <2>2, <3>1
  <2>3. CASE u # t /\ v = t
    <3>1. u \in Known /\ u \notin Overtaken(p) /\ p.excl
      BY <1>3, <2>1, <2>3
    <3>2. p.level <= allTasks[u].level
      BY <1>2, <1>3, <3>1 DEF Overtaken
    <3> QED
      BY <1>3, <2>3, <3>1, <3>2
  <2>4. CASE u # t /\ v # t
    <3>1. u \in Running /\ v \in Excl /\ u \in Known /\ v \in Known
      BY <1>3, <2>1, <2>4
    <3> QED
      BY <1>3, <2>4, <3>1 DEF IInv, NoneIsOutranked
  <2> QED
    BY <2>2, <2>3, <2>4
<1>5. ASSUME NEW u \in Running' \cap Excl', NEW v \in Paused' \cap Excl'
      PROVE  allTasks'[v].level <= allTasks'[u].level
  <2>1. u \in Known' /\ v \in Known' /\ v \notin Running' /\ u # v
    BY DEF Running, Excl, Paused
  <2>2. CASE u = t
    <3>1. v \in Excl /\ allTasks[v].level <= p.level
      BY <1>3, <2>1, <2>2 DEF Runnable
    <3> QED
      BY <1>3, <2>1, <2>2, <3>1
  <2>3. CASE u # t
    <3>1. u \in Known /\ u \notin Overtaken(p) /\ u \in Running /\ u \in Excl
      BY <1>3, <2>1, <2>3
    <3>2. p.excl => p.level <= allTasks[u].level
      BY <1>2, <1>3, <3>1 DEF Overtaken, Excl
    <3>3. CASE v = t
      BY <1>3, <2>3, <3>1, <3>2, <3>3
    <3>4. CASE v # t
      <4>1. v \in Known /\ v \in Excl
        BY <1>3, <2>1, <3>4
      <4>2. v \in Overtaken(p) => p.excl /\ allTasks[v].level < p.level
        BY <4>1 DEF Overtaken, Excl
      <4>3. v \notin Overtaken(p) => v \in Paused
        BY <1>3, <2>1, <3>4, <4>1 DEF Paused
      <4>4. v \in Paused => allTasks[v].level <= allTasks[u].level
        BY <3>1, <4>1 DEF IInv, NoneIsPassedOver
      <4>5. allTasks[v].level <= allTasks[u].level
        BY <1>2, <1>3, <3>1, <3>2, <4>1, <4>2, <4>3, <4>4
      <4> QED
        BY <1>3, <2>3, <3>1, <3>4, <4>1, <4>5
    <3> QED
      BY <3>3, <3>4
  <2> QED
    BY <2>2, <2>3
<1> QED
  BY <1>3, <1>4, <1>5 DEF IInv, NoneIsOutranked, NoneIsPassedOver

\* REMOVE_TASK keeps the invariant.
LEMMA RemoveKeepsInv ==
    ASSUME IInv, NEW t \in TaskId, onTerminateTask(t)
    PROVE  IInv'
<1>1. TypeOK
  BY DEF IInv
<1>2. /\ TypeOK'
      /\ t \in Known /\ Known' = Known \ {t}
      /\ \A u \in Known \ {t} : /\ allTasks'[u].excl = allTasks[u].excl
                               /\ allTasks'[u].level = allTasks[u].level
      /\ Excl' = Excl \ {t}
      /\ \A u \in Known \ {t} : u \in Running' <=> u \in Running \cup Restarted(t)
  BY <1>1, AfterRemove
<1>3. Excl \subseteq Known /\ Running' \subseteq Known' /\ Paused' = Known' \ Running'
  BY DEF Excl, Running, Paused
<1>4. ASSUME NEW u \in Running', NEW v \in Excl'
      PROVE  allTasks'[v].level <= 0 \/ allTasks'[v].level <= allTasks'[u].level
  <2>1. u \in Known \ {t} /\ v \in Excl \ {t} /\ v \in Known
    BY <1>2, <1>3
  <2>2. u \in Running \/ u \in Restarted(t)
    BY <1>2, <2>1
  <2>3. allTasks[v].level <= 0 \/ allTasks[v].level <= allTasks[u].level
    BY <1>1, <2>1, <2>2, RestartedAreTop DEF IInv, NoneIsOutranked
  <2> QED
    BY <1>2, <2>1, <2>3
<1>5. ASSUME NEW u \in Running' \cap Excl', NEW v \in Paused' \cap Excl'
      PROVE  allTasks'[v].level <= allTasks'[u].level
  <2>1. u \in Excl \ {t} /\ v \in Excl \ {t} /\ u \in Known /\ v \in Known
    BY <1>2, <1>3
  <2>2. u \in Running \/ u \in Restarted(t)
    BY <1>2, <2>1
  <2>3. v \in Paused /\ v \notin Restarted(t)
    BY <1>2, <1>3, <2>1 DEF Paused
  <2>4. allTasks[v].level <= allTasks[u].level
    BY <1>1, <2>1, <2>2, <2>3, RestartedAreTop DEF IInv, NoneIsPassedOver
  <2> QED
    BY <1>2, <2>1, <2>4
<1> QED
  BY <1>2, <1>4, <1>5 DEF IInv, NoneIsOutranked, NoneIsPassedOver

\* ADD_TASK strands no paused task unless it makes a known exclusive task less
\* urgent: what outranks a task that is not runnable is another task.
LEMMA AddStrandsNone ==
    ASSUME IInv, PausedIsOutranked, ~Demotion,
           NEW t \in TaskId, NEW p \in Priorities[t], onScheduledTask(t, p)
    PROVE  PausedIsOutranked'
<1>1. TypeOK
  BY DEF IInv
<1>2. \A u \in Known : allTasks[u].level \in Int /\ allTasks[u].excl \in BOOLEAN
  BY <1>1, Comparable
<1>3. /\ p.level \in Int /\ p.excl \in BOOLEAN
      /\ Known' = Known \cup {t}
      /\ allTasks'[t].excl = p.excl /\ allTasks'[t].level = p.level
      /\ \A u \in Known \ {t} : /\ allTasks'[u].excl = allTasks[u].excl
                               /\ allTasks'[u].level = allTasks[u].level
      /\ Excl' = {u \in Excl : u # t} \cup {u \in {t} : p.excl}
      /\ t \in Running' <=> Runnable(p)
      /\ \A u \in Known \ {t} : u \in Running' <=> u \in Running /\ u \notin Overtaken(p)
  BY <1>1, AfterAdd
<1>4. Excl \subseteq Known /\ Paused = Known \ Running /\ Paused' = Known' \ Running'
  BY DEF Excl, Paused
<1>5. t \in Excl => p.excl /\ allTasks[t].level <= p.level
  <2>1. t \in DOMAIN allTasks'
    BY <1>3 DEF Known
  <2> QED
    BY <1>2, <1>3, <1>4, <2>1 DEF Demotion
<1>6. ASSUME NEW u \in Known \ {t}, u \in Overtaken(p)
      PROVE  p.excl /\ (allTasks[u].excl => allTasks[u].level < p.level)
  BY <1>6 DEF Overtaken
<1>7. ASSUME NEW u \in Paused
      PROVE  \E w \in Running \cap Excl :
                allTasks[u].excl => allTasks[u].level < allTasks[w].level \/ allTasks[u].level < 0
  BY DEF PausedIsOutranked
<1>8. ASSUME NEW u \in Paused'
      PROVE  \E w \in Running' \cap Excl' :
                allTasks'[u].excl => allTasks'[u].level < allTasks'[w].level \/ allTasks'[u].level < 0
  <2>0. u \in Known' /\ u \notin Running'
    BY <1>4
  <2>1. CASE Runnable(p) /\ p.excl
    <3>1. t \in Running' \cap Excl' /\ allTasks'[t].level = p.level /\ u # t /\ u \in Known
      BY <1>3, <2>0, <2>1
    <3>2. allTasks[u].excl => allTasks[u].level <= p.level
      BY <2>1, <3>1 DEF Runnable, Excl
    <3>3. CASE u \in Overtaken(p)
      BY <1>3, <1>6, <3>1, <3>3
    <3>4. CASE u \notin Overtaken(p)
      <4>1. u \in Paused
        BY <1>3, <1>4, <2>0, <3>1, <3>4
      <4>2. PICK w \in Running \cap Excl :
               allTasks[u].excl => allTasks[u].level < allTasks[w].level \/ allTasks[u].level < 0
        BY <1>7, <4>1
      <4>3. allTasks[w].level <= p.level /\ w \in Known
        BY <1>4, <2>1 DEF Runnable
      <4>4. allTasks[u].excl => p.level <= allTasks[u].level
        BY <1>2, <1>3, <2>1, <3>1, <3>4 DEF Overtaken
      <4>5. allTasks[u].excl => allTasks[u].level < 0
        BY <1>2, <1>3, <3>1, <4>2, <4>3, <4>4
      <4> QED
        BY <1>3, <3>1, <4>5
    <3> QED
      BY <3>3, <3>4
  <2>2. CASE Runnable(p) /\ ~p.excl
    <3>1. Excl = {} /\ u # t /\ u \in Known /\ u \notin Overtaken(p)
      BY <1>3, <2>0, <2>2 DEF Runnable, Overtaken
    <3>2. u \in Paused
      BY <1>3, <1>4, <2>0, <3>1
    <3> QED
      BY <1>7, <3>1, <3>2
  <2>3. CASE ~Runnable(p) /\ p.excl
    <3>1. PICK v \in Excl : ~(allTasks[v].level <= p.level)
      BY <2>3 DEF Runnable
    <3>2. PICK x \in Running \cap Excl : allTasks[v].level <= allTasks[x].level
      <4>1. CASE v \in Running
        BY <1>2, <1>4, <4>1
      <4>2. CASE v \notin Running
        BY <1>4, <1>7, <4>2 DEF IInv, NoneIsPassedOver
      <4> QED
        BY <4>1, <4>2
    <3>3. x \in Known /\ p.level < allTasks[x].level /\ x # t
      BY <1>2, <1>3, <1>4, <1>5, <3>1, <3>2
    <3>4. allTasks[x].excl
      BY <3>2 DEF Excl
    <3>5. x \in Running' \cap Excl' /\ allTasks'[x].level = allTasks[x].level
      BY <1>2, <1>3, <1>6, <3>2, <3>3, <3>4
    <3>6. CASE u = t
      BY <1>3, <3>3, <3>5, <3>6
    <3>7. CASE u # t /\ u \in Overtaken(p)
      <4>1. u \in Known \ {t}
        BY <1>3, <2>0, <3>7
      <4>2. allTasks[u].excl => allTasks[u].level < allTasks[x].level
        BY <1>2, <1>3, <1>6, <3>3, <3>7, <4>1
      <4> QED
        BY <1>3, <3>5, <4>1, <4>2
    <3>8. CASE u # t /\ u \notin Overtaken(p)
      <4>1. u \in Known \ {t} /\ u \in Paused
        BY <1>3, <1>4, <2>0, <3>8
      <4>2. PICK w \in Running \cap Excl :
               allTasks[u].excl => allTasks[u].level < allTasks[w].level \/ allTasks[u].level < 0
        BY <1>7, <4>1
      <4>3. w \in Known /\ allTasks[w].excl
        BY <1>4, <4>2 DEF Excl
      <4>4. CASE w = t
        <5>1. allTasks[w].level < allTasks[x].level
          BY <1>2, <1>3, <1>5, <3>3, <4>2, <4>3, <4>4
        <5> QED
          BY <1>2, <1>3, <3>3, <3>5, <4>1, <4>2, <4>3, <5>1
      <4>5. CASE w # t /\ w \in Overtaken(p)
        <5>1. allTasks[w].level < allTasks[x].level
          BY <1>2, <1>3, <1>6, <3>3, <4>3, <4>5
        <5> QED
          BY <1>2, <1>3, <3>3, <3>5, <4>1, <4>2, <4>3, <5>1
      <4>6. CASE w # t /\ w \notin Overtaken(p)
        <5>1. w \in Running' \cap Excl' /\ allTasks'[w].level = allTasks[w].level
          BY <1>3, <4>2, <4>3, <4>6
        <5> QED
          BY <1>3, <4>1, <4>2, <5>1
      <4> QED
        BY <4>4, <4>5, <4>6
    <3> QED
      BY <3>6, <3>7, <3>8
  <2>4. CASE ~Runnable(p) /\ ~p.excl
    <3>1. t \notin Excl /\ Excl # {} /\ Overtaken(p) = {}
      BY <1>5, <2>4 DEF Runnable, Overtaken
    <3>2. ASSUME NEW w \in Running \cap Excl
          PROVE  w \in Running' \cap Excl' /\ allTasks'[w].level = allTasks[w].level
      BY <1>3, <1>4, <3>1
    <3>3. CASE u = t
      <4>1. PICK w \in Running : w \in Excl
        BY <1>4, <1>7, <3>1
      <4> QED
        BY <1>3, <2>4, <3>2, <3>3, <4>1
    <3>4. CASE u # t
      <4>1. u \in Known \ {t} /\ u \in Paused
        BY <1>3, <1>4, <2>0, <3>1, <3>4
      <4>2. PICK w \in Running \cap Excl :
               allTasks[u].excl => allTasks[u].level < allTasks[w].level \/ allTasks[u].level < 0
        BY <1>7, <4>1
      <4> QED
        BY <1>3, <3>2, <4>1, <4>2
    <3> QED
      BY <3>3, <3>4
  <2> QED
    BY <1>3, <2>1, <2>2, <2>3, <2>4
<1> QED
  BY <1>8 DEF PausedIsOutranked

\* REMOVE_TASK strands no paused task: another exclusive task runs that is as
\* urgent as the one that leaves, or the most urgent ones are restarted.
LEMMA RemoveStrandsNone ==
    ASSUME IInv, PausedIsOutranked \/ LastExclusiveLeaves,
           NEW t \in TaskId, onTerminateTask(t)
    PROVE  PausedIsOutranked'
<1>1. TypeOK
  BY DEF IInv
<1>2. \A u \in Known : allTasks[u].level \in Int /\ allTasks[u].excl \in BOOLEAN
  BY <1>1, Comparable
<1>3. /\ t \in Known /\ Known' = Known \ {t}
      /\ \A u \in Known \ {t} : /\ allTasks'[u].excl = allTasks[u].excl
                               /\ allTasks'[u].level = allTasks[u].level
      /\ Excl' = Excl \ {t}
      /\ \A u \in Known \ {t} : u \in Running' <=> u \in Running \cup Restarted(t)
  BY <1>1, AfterRemove
<1>4. Excl \subseteq Known /\ Paused = Known \ Running /\ Paused' = Known' \ Running'
  BY DEF Excl, Paused
<1>5. ASSUME NEW u \in Paused'
      PROVE  \E w \in Running' \cap Excl' :
                allTasks'[u].excl => allTasks'[u].level < allTasks'[w].level \/ allTasks'[u].level < 0
  <2>1. u \in Known \ {t} /\ u \in Paused /\ u \notin Restarted(t)
    BY <1>3, <1>4
  <2>2. CASE t \in Excl /\ (Excl \cap Running) \ {t} = {}
    <3>1. Contenders(t) # {}
      BY <2>1, <2>2 DEF Restarted
    <3>2. Contenders(t) \in SUBSET Known
      BY <1>4 DEF Contenders
    <3>3. PICK w \in Contenders(t) : \A v \in Contenders(t) : allTasks[v].level <= allTasks[w].level
      BY <1>1, <3>1, <3>2, LargestLevel
    <3>4. w \in Known \ {t} /\ w \in Excl /\ allTasks[w].level > 0
      BY <3>2, <3>3 DEF Contenders
    <3>5. allTasks[w].level \in TopLevel(t)
      BY <3>3 DEF TopLevel
    <3>6. w \in Restarted(t)
      BY <2>2, <3>1, <3>4, <3>5 DEF Restarted
    <3>7. allTasks[u].level # allTasks[w].level
      BY <2>1, <2>2, <3>1, <3>5 DEF Restarted
    <3>8. allTasks[u].excl => u \in Contenders(t) \/ ~(allTasks[u].level > 0)
      BY <1>4, <2>1 DEF Contenders, Excl
    <3>9. allTasks[u].excl => allTasks[u].level < allTasks[w].level
      BY <1>2, <2>1, <3>3, <3>4, <3>7, <3>8
    <3>10. w \in Running' \cap Excl' /\ allTasks'[w].level = allTasks[w].level
      BY <1>3, <3>4, <3>6
    <3> QED
      BY <1>3, <2>1, <3>9, <3>10
  <2>3. CASE ~(t \in Excl /\ (Excl \cap Running) \ {t} = {})
    <3>1. ~LastExclusiveLeaves
      <4>1. DOMAIN allTasks' = Known \ {t}
        BY <1>3 DEF Known
      <4> QED
        BY <1>4, <2>3, <4>1 DEF LastExclusiveLeaves
    <3>2. PICK w \in Running \cap Excl :
             allTasks[u].excl => allTasks[u].level < allTasks[w].level \/ allTasks[u].level < 0
      BY <2>1, <3>1 DEF PausedIsOutranked
    <3>3. ASSUME NEW x \in Running \cap Excl, x # t
          PROVE  x \in Known /\ x \in Running' \cap Excl' /\ allTasks'[x].level = allTasks[x].level
      BY <1>3, <1>4, <3>3
    <3>4. CASE w # t
      BY <1>3, <2>1, <3>2, <3>3, <3>4
    <3>5. CASE w = t
      <4>1. PICK x \in Running \cap Excl : x # t
        BY <2>3, <3>2, <3>5
      <4>2. allTasks[t].level <= 0 \/ allTasks[t].level <= allTasks[x].level
        BY <3>2, <3>5, <4>1 DEF IInv, NoneIsOutranked
      <4>3. allTasks[u].excl => allTasks[u].level < allTasks[x].level \/ allTasks[u].level < 0
        BY <1>2, <1>3, <2>1, <3>2, <3>3, <3>5, <4>1, <4>2
      <4> QED
        BY <1>3, <2>1, <3>3, <4>1, <4>3
    <3> QED
      BY <3>4, <3>5
  <2> QED
    BY <2>2, <2>3
<1> QED
  BY <1>5 DEF PausedIsOutranked

-----------------------------------------------------------------------------
\* The task list of onScheduledTask and onTerminateTask is well typed in every
\* reachable state, whatever priorities the intents carry.
THEOREM TypeCorrect == Spec => []TypeOK
<1>1. Init => TypeOK
  BY DEF Init, TypeOK, Known
<1>2. TypeOK /\ [Next]_allTasks => TypeOK'
  <2>1. TypeOK /\ UNCHANGED allTasks => TypeOK'
    BY DEF TypeOK, Known
  <2> QED
    BY <2>1, AfterAdd, AfterRemove DEF Next
<1> QED
  BY <1>1, <1>2, PTL DEF Spec

\* IInv is an inductive invariant.
LEMMA InductiveInvariant == Spec => []IInv
<1>1. Init => IInv
  BY DEF Init, IInv, TypeOK, NoneIsOutranked, NoneIsPassedOver, Known, Running, Paused
<1>2. IInv /\ [Next]_allTasks => IInv'
  <2>1. IInv /\ UNCHANGED allTasks => IInv'
    BY DEF IInv, TypeOK, NoneIsOutranked, NoneIsPassedOver, Known, Running, Paused, Excl
  <2> QED
    BY <2>1, AddKeepsInv, RemoveKeepsInv DEF Next
<1> QED
  BY <1>1, <1>2, PTL DEF Spec

\* Whatever priorities arrive and in whatever order the commands of the master
\* are handled, the worker of worker.go runs no task, exclusive or shared, while
\* it knows an exclusive task of a positive and higher level.
THEOREM NoTaskIsOutranked == Spec => []NoneIsOutranked
<1>1. IInv => NoneIsOutranked
  BY DEF IInv
<1> QED
  BY <1>1, InductiveInvariant, PTL

\* Whatever priorities arrive, no command of the master strands a paused task,
\* but for the ADD_TASK that makes a known exclusive task less urgent, and
\* onTerminateTask puts that right when it finds no exclusive task running.
THEOREM PausedTasksAreStrandedByDemotionOnly == Spec => OnlyDemotionStrands
<1>1. IInv /\ [Next]_allTasks
         => [(PausedIsOutranked /\ ~Demotion) \/ LastExclusiveLeaves => PausedIsOutranked']_allTasks
  <2> SUFFICES ASSUME IInv, Next, (PausedIsOutranked /\ ~Demotion) \/ LastExclusiveLeaves
               PROVE  PausedIsOutranked'
    OBVIOUS
  <2>1. ASSUME NEW t \in TaskId, NEW p \in Priorities[t], onScheduledTask(t, p)
        PROVE  PausedIsOutranked'
    <3>1. ~LastExclusiveLeaves
      <4>1. DOMAIN allTasks' = Known \cup {t}
        BY <2>1 DEF onScheduledTask
      <4> QED
        BY <4>1 DEF LastExclusiveLeaves, Excl
    <3> QED
      BY <2>1, <3>1, AddStrandsNone
  <2>2. ASSUME NEW t \in TaskId, onTerminateTask(t)
        PROVE  PausedIsOutranked'
    BY <2>2, RemoveStrandsNone
  <2> QED
    BY <2>1, <2>2 DEF Next
<1> QED
  BY <1>1, InductiveInvariant, PTL DEF Spec, OnlyDemotionStrands

-----------------------------------------------------------------------------
(* The executor                                                            *)

\* What the input and context invariants depend on.
coreVars == <<routines, fresh, containers, stopping, taskInstances, delayed>>

Launches(r) == r.op = "launch"
Terminates(r) == r.op = "terminate"

\* Names are drawn from fresh: whatever carries one got it earlier.
NamesAreOld ==
    /\ \A r \in routines : r.ctr < fresh /\ r.n < fresh
    /\ \A t \in Instances : taskInstances[t].ctr < fresh
    /\ \A c \in containers \cup stopping : c < fresh

\* Until LaunchTask stores its context, nobody else knows its container, so
\* the container is up and no one stops it.
StartedIsPrivate ==
    \A r \in routines : Launches(r) /\ r.pc = "started" =>
        /\ r.ctr \in containers \ stopping
        /\ \A t \in Instances : taskInstances[t].ctr # r.ctr
        /\ \A q \in routines : q # r => q.ctr # r.ctr

\* A container belongs to one task: no two contexts share one, and a
\* TerminateTask stops no container of another task.
OneOwner ==
    /\ \A t, u \in Instances : taskInstances[t].ctr = taskInstances[u].ctr => t = u
    /\ \A r \in routines, t \in Instances :
          Terminates(r) /\ taskInstances[t].ctr = r.ctr => r.task = t

\* The inductive invariant of the executor.
ExecInv ==
    ExecTypeOK /\ NamesAreOld /\ StartedIsPrivate /\ OneOwner
        /\ ContextIsUp /\ NoStrandedInput

-----------------------------------------------------------------------------
\* Storing a context keeps the map of contexts well formed.
LEMMA StoreType ==
    ASSUME ExecTypeOK, NEW t \in TaskId, NEW ctx \in Context,
           taskInstances' = Store(t, ctx)
    PROVE  /\ Instances' = Instances \cup {t}
           /\ Instances' \subseteq TaskId
           /\ taskInstances' \in [Instances' -> Context]
           /\ taskInstances'[t] = ctx
           /\ \A u \in Instances \ {t} : taskInstances'[u] = taskInstances[u]
  BY DEF ExecTypeOK, Store, Instances

\* Subscribing to or unsubscribing from inputs keeps the container.
LEMMA StoreSubsType ==
    ASSUME ExecTypeOK, NEW t \in Instances, NEW S \in SUBSET Input,
           taskInstances' = StoreSubs(t, S)
    PROVE  /\ Instances' = Instances
           /\ taskInstances' \in [Instances -> Context]
           /\ \A u \in Instances : taskInstances'[u].ctr = taskInstances[u].ctr
<1> DEFINE ctx == [ctr |-> taskInstances[t].ctr, subs |-> S]
<1>1. ctx \in Context /\ t \in TaskId
  BY DEF ExecTypeOK, Context
<1>2. taskInstances' = Store(t, ctx)
  BY DEF StoreSubs
<1> HIDE DEF ctx
<1>3. /\ Instances' = Instances \cup {t}
      /\ taskInstances' \in [Instances' -> Context]
      /\ taskInstances'[t] = ctx
      /\ \A u \in Instances \ {t} : taskInstances'[u] = taskInstances[u]
  BY <1>1, <1>2, StoreType
<1> QED
  BY <1>3 DEF ctx

\* Every step of a handler or goroutine keeps the executor's state typed.
LEMMA ExecTyping ==
    ASSUME ExecTypeOK, [NodeNext]_vars
    PROVE  ExecTypeOK'
<1> USE DEF ExecTypeOK, pendingVars
<1>1. CASE UNCHANGED vars
  BY <1>1 DEF vars, execVars, Instances
<1>2. ASSUME NEW L, NEW T, Spawn(L, T)
      PROVE  ExecTypeOK'
  BY <1>2 DEF Spawn, Instances
<1>3. ASSUME NEW t \in TaskId, NEW i \in Input, onAddInput(t, i)
      PROVE  ExecTypeOK'
  <2>1. CASE t \in Instances
    <3>1. PICK S \in SUBSET Input : taskInstances' = StoreSubs(t, S)
      BY <1>3, <2>1 DEF onAddInput, Subscribed, Context
    <3>2. taskInstances' \in [Instances -> Context] /\ Instances' = Instances
      BY <2>1, <3>1, StoreSubsType
    <3> QED
      BY <1>3, <2>1, <3>2 DEF onAddInput
  <2>2. CASE t \notin Instances
    BY <1>3, <2>2 DEF onAddInput, Instances
  <2> QED
    BY <2>1, <2>2
<1>4. ASSUME NEW t \in TaskId, NEW i \in Input, onRemoveInput(t, i)
      PROVE  ExecTypeOK'
  <2>1. CASE t \in Instances
    <3>1. PICK S \in SUBSET Input : taskInstances' = StoreSubs(t, S)
      BY <1>4, <2>1 DEF onRemoveInput, Context
    <3>2. taskInstances' \in [Instances -> Context] /\ Instances' = Instances
      BY <2>1, <3>1, StoreSubsType
    <3> QED
      BY <1>4, <2>1, <3>2 DEF onRemoveInput
  <2>2. CASE t \notin Instances
    BY <1>4, <2>2 DEF onRemoveInput, Instances
  <2> QED
    BY <2>1, <2>2
<1>5. CASE Quit
  BY <1>5 DEF Quit, Instances
<1>6. CASE Exit
  BY <1>6 DEF Exit, execVars, Instances
<1>7. ASSUME NEW t \in TaskId, StartTask(t)
      PROVE  ExecTypeOK'
  <2> DEFINE new == [op |-> "launch", task |-> t, ctr |-> fresh, n |-> fresh,
                     pc |-> "started", quit |-> FALSE]
  <2>0. new \in Routine
    BY DEF Routine
  <2>1. routines' \subseteq Routine /\ containers' \subseteq Nat /\ fresh' \in Nat
    <3>1. CASE UNCHANGED <<routines, containers, fresh>>
      BY <3>1
    <3>2. CASE /\ routines' = routines \cup {new}
               /\ containers' = containers \cup {fresh}
               /\ fresh' = fresh + 1
      <4> HIDE DEF new
      <4> QED
        BY <2>0, <3>2
    <3> QED
      BY <1>7, <3>1, <3>2 DEF StartTask
  <2>2. pendingLaunch' \in [TaskId -> Nat]
    BY <1>7 DEF StartTask
  <2> QED
    BY <1>7, <2>1, <2>2 DEF StartTask, Instances
<1>8. ASSUME NEW t \in TaskId, NEW quit \in BOOLEAN, BeginTerminate(t, quit)
      PROVE  ExecTypeOK'
  <2>1. routines' \subseteq Routine /\ fresh' \in Nat
    <3>1. CASE t \in Instances
      <4>1. taskInstances[t].ctr \in Nat
        BY <3>1 DEF Context
      <4> DEFINE new == [op |-> "terminate", task |-> t, ctr |-> taskInstances[t].ctr,
                         n |-> fresh, pc |-> "stop", quit |-> quit]
      <4>2. new \in Routine
        BY <4>1 DEF Routine
      <4> QED
        BY <1>8, <3>1, <4>2 DEF BeginTerminate
    <3>2. CASE t \notin Instances
      BY <1>8, <3>2 DEF BeginTerminate
    <3> QED
      BY <3>1, <3>2
  <2>2. pendingTerminate' \in [TaskId -> Nat] /\ pendingQuit' \subseteq TaskId
    BY <1>8 DEF BeginTerminate
  <2> QED
    BY <1>8, <2>1, <2>2 DEF BeginTerminate, Instances
<1>9. ASSUME NEW r \in routines, StoreContext(r)
      PROVE  ExecTypeOK'
  <2>1. r.task \in TaskId /\ [ctr |-> r.ctr, subs |-> {}] \in Context
    BY DEF Routine, Context
  <2>2. Instances' \subseteq TaskId /\ taskInstances' \in [Instances' -> Context]
    BY <1>9, <2>1, StoreType DEF StoreContext
  <2>3. routines' \subseteq Routine
    BY <1>9 DEF StoreContext, Advance, Routine
  <2> QED
    BY <1>9, <2>2, <2>3 DEF StoreContext
<1>10. ASSUME NEW r \in routines, HandleDelayed(r)
       PROVE  ExecTypeOK'
  <2>1. r.task \in TaskId
    BY DEF Routine
  <2>2. CASE r.task \in Instances
    <3>1. delayed[r.task] \subseteq Input
      BY <2>1
    <3>2. PICK S \in SUBSET Input : taskInstances' = StoreSubs(r.task, S)
      BY <1>10, <2>2, <3>1 DEF HandleDelayed, Subscribed, Context
    <3>3. taskInstances' \in [Instances -> Context] /\ Instances' = Instances
      BY <2>2, <3>2, StoreSubsType
    <3> QED
      BY <1>10, <2>2, <3>3 DEF HandleDelayed
  <2>3. CASE r.task \notin Instances
    BY <1>10, <2>3 DEF HandleDelayed, Instances
  <2> QED
    BY <2>2, <2>3
<1>11. ASSUME NEW r \in routines, StopTask(r)
       PROVE  ExecTypeOK'
  BY <1>11 DEF StopTask, Advance, Routine, Instances
<1>12. ASSUME NEW r \in routines, Cleanup(r)
       PROVE  ExecTypeOK'
  BY <1>12 DEF Cleanup, Drop, Instances
<1>13. ASSUME NEW c \in stopping, StopContainer(c)
       PROVE  ExecTypeOK'
  BY <1>13 DEF StopContainer, Instances
<1> QED
  BY <1>1, <1>2, <1>3, <1>4, <1>5, <1>6, <1>7, <1>8, <1>9, <1>10, <1>11, <1>12, <1>13
     DEF NodeNext, ExecStep, AddTask, RemoveTask, AddInput, RemoveInput

-----------------------------------------------------------------------------
\* A step that touches neither goroutines nor contexts keeps the invariants.
LEMMA Frame ==
    ASSUME ExecInv, ExecTypeOK', UNCHANGED coreVars
    PROVE  ExecInv'
  BY DEF ExecInv, coreVars, NamesAreOld, StartedIsPrivate, OneOwner, ContextIsUp,
         NoStrandedInput, Instances, Launches, Terminates

\* A change of the subscriptions of a stored context keeps the invariants as
\* long as no command is put in the queue of a task that is up.
LEMMA SubsFrame ==
    ASSUME ExecInv, ExecTypeOK', NEW t \in Instances, NEW S \in SUBSET Input,
           taskInstances' = StoreSubs(t, S),
           UNCHANGED <<routines, fresh, containers, stopping, delayed>>
    PROVE  ExecInv'
<1>1. Instances' = Instances /\ \A u \in Instances : taskInstances'[u].ctr = taskInstances[u].ctr
  BY StoreSubsType DEF ExecInv
<1>2. NamesAreOld' /\ StartedIsPrivate' /\ OneOwner' /\ ContextIsUp'
  BY <1>1 DEF ExecInv, NamesAreOld, StartedIsPrivate, OneOwner, ContextIsUp, Launches, Terminates
<1>3. NoStrandedInput'
  BY <1>1 DEF ExecInv, NoStrandedInput
<1> QED
  BY <1>2, <1>3 DEF ExecInv

\* onAddInput queues a command only for a task without a context.
LEMMA AddInputKeeps ==
    ASSUME ExecInv, ExecTypeOK', NEW t \in TaskId, NEW i \in Input, onAddInput(t, i)
    PROVE  ExecInv'
<1>1. CASE t \in Instances
  <2>1. PICK S \in SUBSET Input : taskInstances' = StoreSubs(t, S)
    BY <1>1 DEF onAddInput, Subscribed, Context, ExecInv, ExecTypeOK
  <2> QED
    BY <1>1, <2>1, SubsFrame DEF onAddInput
<1>2. CASE t \notin Instances
  <2>1. UNCHANGED <<routines, fresh, containers, stopping, taskInstances>>
    BY <1>2 DEF onAddInput
  <2>2. \A u \in Instances : delayed'[u] = delayed[u]
    BY <1>2 DEF onAddInput, ExecInv, ExecTypeOK
  <2> QED
    BY <2>1, <2>2 DEF ExecInv, NamesAreOld, StartedIsPrivate, OneOwner, ContextIsUp,
                      NoStrandedInput, Instances, Launches, Terminates
<1> QED
  BY <1>1, <1>2

LEMMA RemoveInputKeeps ==
    ASSUME ExecInv, ExecTypeOK', NEW t \in TaskId, NEW i \in Input, onRemoveInput(t, i)
    PROVE  ExecInv'
<1>1. CASE t \in Instances
  <2>1. PICK S \in SUBSET Input : taskInstances' = StoreSubs(t, S)
    BY <1>1 DEF onRemoveInput, Context, ExecInv, ExecTypeOK
  <2> QED
    BY <1>1, <2>1, SubsFrame DEF onRemoveInput
<1>2. CASE t \notin Instances
  BY <1>2, Frame DEF onRemoveInput, coreVars
<1> QED
  BY <1>1, <1>2

\* The new container has a name nobody knows.
LEMMA StartTaskKeeps ==
    ASSUME ExecInv, ExecTypeOK', NEW t \in TaskId, StartTask(t)
    PROVE  ExecInv'
<1> DEFINE new == [op |-> "launch", task |-> t, ctr |-> fresh, n |-> fresh,
                   pc |-> "started", quit |-> FALSE]
<1>0. UNCHANGED <<stopping, taskInstances, delayed>>
  BY DEF StartTask
<1>1. CASE UNCHANGED <<routines, containers, fresh>>
  BY <1>0, <1>1, Frame DEF coreVars
<1>2. CASE /\ routines' = routines \cup {new}
           /\ containers' = containers \cup {fresh}
           /\ fresh' = fresh + 1
  <2>1. /\ new.op = "launch" /\ new.task = t /\ new.ctr = fresh /\ new.n = fresh
        /\ new.pc = "started"
    OBVIOUS
  <2> HIDE DEF new
  <2>2. Instances' = Instances
    BY <1>0 DEF Instances
  <2>3. /\ fresh \in Nat
        /\ \A r \in routines : r.ctr \in Nat /\ r.n \in Nat
        /\ \A u \in Instances : taskInstances[u].ctr \in Nat
        /\ \A c \in containers \cup stopping : c \in Nat
    BY DEF ExecInv, ExecTypeOK, Routine, Context
  <2>4. NamesAreOld'
    BY <1>0, <1>2, <2>1, <2>2, <2>3 DEF ExecInv, NamesAreOld
  <2>5. StartedIsPrivate'
    BY <1>0, <1>2, <2>1, <2>2, <2>3 DEF ExecInv, NamesAreOld, StartedIsPrivate, Launches
  <2>6. OneOwner'
    BY <1>0, <1>2, <2>1, <2>2 DEF ExecInv, OneOwner, Terminates
  <2>7. ContextIsUp'
    BY <1>0, <1>2, <2>2, <2>3 DEF ExecInv, ContextIsUp, NamesAreOld
  <2>8. NoStrandedInput'
    BY <1>0, <1>2, <2>2 DEF ExecInv, NoStrandedInput
  <2> QED
    BY <2>4, <2>5, <2>6, <2>7, <2>8 DEF ExecInv
<1> QED
  BY <1>1, <1>2 DEF StartTask

\* A launch that stores its context also promises to drain the queue.
LEMMA StoreContextKeeps ==
    ASSUME ExecInv, ExecTypeOK', NEW r \in routines, StoreContext(r)
    PROVE  ExecInv'
<1> DEFINE new == [r EXCEPT !.pc = "stored"]
           ctx == [ctr |-> r.ctr, subs |-> {}]
<1>1. /\ new.op = "launch" /\ new.task = r.task /\ new.ctr = r.ctr /\ new.n = r.n
      /\ new.pc = "stored"
  BY DEF ExecInv, ExecTypeOK, Routine, StoreContext
<1>2. /\ routines' = (routines \ {r}) \cup {new}
      /\ r.op = "launch" /\ r.pc = "started"
      /\ UNCHANGED <<fresh, containers, stopping, delayed>>
  BY DEF StoreContext, Advance
<1> HIDE DEF new
<1>3. /\ Instances' = Instances \cup {r.task}
      /\ taskInstances'[r.task].ctr = r.ctr
      /\ \A u \in Instances \ {r.task} : taskInstances'[u] = taskInstances[u]
  <2>1. r.task \in TaskId /\ ctx \in Context
    BY DEF ExecInv, ExecTypeOK, Routine, Context
  <2>2. taskInstances' = Store(r.task, ctx)
    BY DEF StoreContext
  <2>3. taskInstances'[r.task] = ctx
    BY <2>1, <2>2, StoreType DEF ExecInv
  <2>4. /\ Instances' = Instances \cup {r.task}
        /\ \A u \in Instances \ {r.task} : taskInstances'[u] = taskInstances[u]
    <3> HIDE DEF ctx
    <3> QED
      BY <2>1, <2>2, StoreType DEF ExecInv
  <2> QED
    BY <2>3, <2>4
<1>4. /\ r.ctr \in containers \ stopping
      /\ \A u \in Instances : taskInstances[u].ctr # r.ctr
      /\ \A q \in routines : q # r => q.ctr # r.ctr
  BY <1>2 DEF ExecInv, StartedIsPrivate, Launches
<1>5. NamesAreOld'
  BY <1>1, <1>2, <1>3 DEF ExecInv, NamesAreOld
<1>6. StartedIsPrivate'
  BY <1>1, <1>2, <1>3, <1>4 DEF ExecInv, StartedIsPrivate, Launches
<1>7. OneOwner'
  BY <1>1, <1>2, <1>3, <1>4 DEF ExecInv, OneOwner, Terminates
<1>8. ContextIsUp'
  BY <1>1, <1>2, <1>3, <1>4 DEF ExecInv, ContextIsUp
<1>9. NoStrandedInput'
  BY <1>1, <1>2, <1>3 DEF ExecInv, NoStrandedInput
<1> QED
  BY <1>5, <1>6, <1>7, <1>8, <1>9 DEF ExecInv

\* Draining empties the queue of the one task whose promise ends here.
LEMMA HandleDelayedKeeps ==
    ASSUME ExecInv, ExecTypeOK', NEW r \in routines, HandleDelayed(r)
    PROVE  ExecInv'
<1>1. /\ routines' = routines \ {r}
      /\ r.op = "launch" /\ r.task \in TaskId
      /\ UNCHANGED <<fresh, containers, stopping>>
  BY DEF HandleDelayed, ExecInv, ExecTypeOK, Routine
<1>2. /\ Instances' = Instances
      /\ \A u \in Instances : taskInstances'[u].ctr = taskInstances[u].ctr
  <2>1. CASE r.task \in Instances
    <3>1. delayed[r.task] \subseteq Input /\ taskInstances[r.task].subs \subseteq Input
      BY <1>1, <2>1 DEF ExecInv, ExecTypeOK, Context
    <3>2. PICK S \in SUBSET Input : taskInstances' = StoreSubs(r.task, S)
      BY <2>1, <3>1 DEF HandleDelayed, Subscribed
    <3> QED
      BY <2>1, <3>2, StoreSubsType DEF ExecInv
  <2>2. CASE r.task \notin Instances
    BY <2>2 DEF HandleDelayed, Instances
  <2> QED
    BY <2>1, <2>2
<1>3. \A u \in Instances : IF u = r.task THEN delayed'[u] = {} ELSE delayed'[u] = delayed[u]
  BY <1>1 DEF HandleDelayed, ExecInv, ExecTypeOK
<1>4. NamesAreOld' /\ StartedIsPrivate' /\ OneOwner'
  BY <1>1, <1>2 DEF ExecInv, NamesAreOld, StartedIsPrivate, OneOwner, Launches, Terminates
<1>5. ContextIsUp'
  BY <1>1, <1>2 DEF ExecInv, ContextIsUp
<1>6. NoStrandedInput'
  BY <1>1, <1>2, <1>3 DEF ExecInv, NoStrandedInput
<1> QED
  BY <1>4, <1>5, <1>6 DEF ExecInv

\* TerminateTask takes the container of the task it was called for.
LEMMA BeginTerminateKeeps ==
    ASSUME ExecInv, ExecTypeOK', NEW t \in TaskId, NEW quit \in BOOLEAN,
           BeginTerminate(t, quit)
    PROVE  ExecInv'
<1> DEFINE new == [op |-> "terminate", task |-> t, ctr |-> taskInstances[t].ctr,
                   n |-> fresh, pc |-> "stop", quit |-> quit]
<1>1. UNCHANGED <<containers, stopping, taskInstances, delayed>> /\ Instances' = Instances
  BY DEF BeginTerminate, Instances
<1>2. CASE t \notin Instances
  BY <1>1, <1>2, Frame DEF BeginTerminate, coreVars
<1>3. CASE t \in Instances
  <2>1. routines' = routines \cup {new} /\ fresh' = fresh + 1
    BY <1>3 DEF BeginTerminate
  <2>2. /\ new.op = "terminate" /\ new.task = t /\ new.n = fresh
        /\ new.ctr = taskInstances[t].ctr
    OBVIOUS
  <2> HIDE DEF new
  <2>3. /\ fresh \in Nat
        /\ \A r \in routines : r.ctr \in Nat /\ r.n \in Nat
        /\ \A u \in Instances : taskInstances[u].ctr \in Nat
        /\ \A c \in containers \cup stopping : c \in Nat
    BY DEF ExecInv, ExecTypeOK, Routine, Context
  <2>4. NamesAreOld'
    BY <1>1, <1>3, <2>1, <2>2, <2>3 DEF ExecInv, NamesAreOld
  <2>5. StartedIsPrivate'
    BY <1>1, <1>3, <2>1, <2>2 DEF ExecInv, StartedIsPrivate, Launches
  <2>6. OneOwner'
    BY <1>1, <1>3, <2>1, <2>2 DEF ExecInv, OneOwner, Terminates
  <2>7. ContextIsUp'
    BY <1>1, <2>1 DEF ExecInv, ContextIsUp
  <2>8. NoStrandedInput'
    BY <1>1, <2>1 DEF ExecInv, NoStrandedInput
  <2> QED
    BY <2>4, <2>5, <2>6, <2>7, <2>8 DEF ExecInv
<1> QED
  BY <1>2, <1>3

\* The container that is being stopped is at most the one of its own task, and
\* the goroutine that stops it will drop the context.
LEMMA StopTaskKeeps ==
    ASSUME ExecInv, ExecTypeOK', NEW r \in routines, StopTask(r)
    PROVE  ExecInv'
<1> DEFINE new == [r EXCEPT !.pc = "cleanup"]
<1>1. /\ new.op = "terminate" /\ new.task = r.task /\ new.ctr = r.ctr /\ new.n = r.n
      /\ new.pc = "cleanup"
  BY DEF ExecInv, ExecTypeOK, Routine, StopTask
<1>2. /\ routines' = (routines \ {r}) \cup {new}
      /\ r.op = "terminate" /\ r.pc = "stop"
      /\ stopping' = stopping \cup {r.ctr}
      /\ UNCHANGED <<fresh, containers, taskInstances, delayed>>
      /\ Instances' = Instances
  BY DEF StopTask, Advance, Instances
<1> HIDE DEF new
<1>3. NamesAreOld'
  BY <1>1, <1>2 DEF ExecInv, NamesAreOld
<1>4. StartedIsPrivate'
  BY <1>1, <1>2 DEF ExecInv, StartedIsPrivate, Launches
<1>5. OneOwner'
  BY <1>1, <1>2 DEF ExecInv, OneOwner, Terminates
<1>6. ContextIsUp'
  BY <1>1, <1>2 DEF ExecInv, ContextIsUp, OneOwner, Terminates
<1>7. NoStrandedInput'
  BY <1>1, <1>2 DEF ExecInv, NoStrandedInput
<1> QED
  BY <1>3, <1>4, <1>5, <1>6, <1>7 DEF ExecInv

\* Cleanup drops the context it is needed for, whichever container it has.
LEMMA CleanupKeeps ==
    ASSUME ExecInv, ExecTypeOK', NEW r \in routines, Cleanup(r)
    PROVE  ExecInv'
<1>1. /\ routines' = routines \ {r}
      /\ r.op = "terminate"
      /\ UNCHANGED <<fresh, containers, stopping, delayed>>
  BY DEF Cleanup
<1>2. /\ Instances' = Instances \ {r.task}
      /\ \A u \in Instances' : taskInstances'[u] = taskInstances[u]
  <2>1. CASE r.task \in Instances
    BY <2>1 DEF Cleanup, Drop, Instances
  <2>2. CASE r.task \notin Instances
    BY <2>2 DEF Cleanup, Instances
  <2> QED
    BY <2>1, <2>2
<1>3. NamesAreOld' /\ StartedIsPrivate' /\ OneOwner'
  BY <1>1, <1>2 DEF ExecInv, NamesAreOld, StartedIsPrivate, OneOwner, Launches, Terminates
<1>4. ContextIsUp'
  BY <1>1, <1>2 DEF ExecInv, ContextIsUp
<1>5. NoStrandedInput'
  BY <1>1, <1>2 DEF ExecInv, NoStrandedInput
<1> QED
  BY <1>3, <1>4, <1>5 DEF ExecInv

LEMMA StopContainerKeeps ==
    ASSUME ExecInv, ExecTypeOK', NEW c \in stopping, StopContainer(c)
    PROVE  ExecInv'
<1>1. /\ stopping' = stopping \ {c}
      /\ containers' = containers \ {c}
      /\ UNCHANGED <<routines, fresh, taskInstances, delayed>>
      /\ Instances' = Instances
  BY DEF StopContainer, Instances
<1>2. NamesAreOld' /\ StartedIsPrivate' /\ OneOwner'
  BY <1>1 DEF ExecInv, NamesAreOld, StartedIsPrivate, OneOwner, Launches, Terminates
<1>3. ContextIsUp'
  BY <1>1 DEF ExecInv, ContextIsUp
<1>4. NoStrandedInput'
  BY <1>1 DEF ExecInv, NoStrandedInput
<1> QED
  BY <1>2, <1>3, <1>4 DEF ExecInv

-----------------------------------------------------------------------------
\* ExecInv is an inductive invariant of the worker process.
LEMMA ExecInvariant == NodeSpec => []ExecInv
<1>1. NodeInit => ExecInv
  <2> SUFFICES ASSUME NodeInit
               PROVE  ExecInv
    OBVIOUS
  <2>1. /\ routines = {} /\ containers = {} /\ stopping = {} /\ Instances = {}
        /\ taskInstances = [t \in {} |-> [ctr |-> 0, subs |-> {}]]
    BY DEF NodeInit, ExecInit, Instances
  <2>2. ExecTypeOK
    BY <2>1 DEF NodeInit, ExecInit, ExecTypeOK
  <2> QED
    BY <2>1, <2>2 DEF ExecInv, NamesAreOld, StartedIsPrivate, OneOwner, ContextIsUp,
                      NoStrandedInput
<1>2. ExecInv /\ [NodeNext]_vars => ExecInv'
  <2> SUFFICES ASSUME ExecInv, [NodeNext]_vars
               PROVE  ExecInv'
    OBVIOUS
  <2>1. ExecTypeOK'
    BY ExecTyping DEF ExecInv
  <2>2. CASE UNCHANGED coreVars
    BY <2>1, <2>2, Frame
  <2>3. ASSUME NEW t \in TaskId, NEW i \in Input, AddInput(t, i) \/ RemoveInput(t, i)
        PROVE  ExecInv'
    BY <2>1, <2>3, AddInputKeeps, RemoveInputKeeps DEF AddInput, RemoveInput
  <2>4. CASE ExecStep
    BY <2>1, <2>4, StartTaskKeeps, BeginTerminateKeeps, StoreContextKeeps,
       HandleDelayedKeeps, StopTaskKeeps, CleanupKeeps, StopContainerKeeps DEF ExecStep
  <2>5. ASSUME NEW t \in TaskId, NEW p \in Priorities[t], AddTask(t, p)
        PROVE  UNCHANGED coreVars
    BY <2>5 DEF AddTask, Spawn, coreVars
  <2>6. ASSUME NEW t \in TaskId, RemoveTask(t)
        PROVE  UNCHANGED coreVars
    BY <2>6 DEF RemoveTask, Spawn, coreVars
  <2>7. Quit \/ Exit \/ UNCHANGED vars => UNCHANGED coreVars
    BY DEF Quit, Exit, vars, execVars, coreVars
  <2> QED
    BY <2>2, <2>3, <2>4, <2>5, <2>6, <2>7 DEF NodeNext
<1> QED
  BY <1>1, <1>2, PTL DEF NodeSpec

\* The executor's state is well typed in every reachable state.
THEOREM ExecTypeCorrect == NodeSpec => []ExecTypeOK
<1>1. ExecInv => ExecTypeOK
  BY DEF ExecInv
<1> QED
  BY <1>1, ExecInvariant, PTL

\* No ADD_INPUT is left behind in delayedAddInputCommands of a task that has a
\* context, however the handlers interleave with LaunchTask and TerminateTask.
THEOREM InputsAreNotStranded == NodeSpec => []NoStrandedInput
<1>1. ExecInv => NoStrandedInput
  BY DEF ExecInv
<1> QED
  BY <1>1, ExecInvariant, PTL

\* The executor never keeps a context for a container that is gone, but while
\* the goroutine that stopped it is about to drop that context.
THEOREM ContextsAreUp == NodeSpec => []ContextIsUp
<1>1. ExecInv => ContextIsUp
  BY DEF ExecInv
<1> QED
  BY <1>1, ExecInvariant, PTL

-----------------------------------------------------------------------------
(* The process                                                             *)

\* Every step of the process is a step of the task list or leaves it alone:
\* what the executor's goroutines do, in whatever order, and what fails, never
\* changes which tasks are to run.
THEOREM NodeImplementsTaskList == NodeSpec => Spec
<1>1. NodeInit => Init
  BY DEF NodeInit
<1>2. [NodeNext]_vars => [Next]_allTasks
  <2> SUFFICES ASSUME [NodeNext]_vars PROVE Next \/ UNCHANGED allTasks
    OBVIOUS
  <2>1. ASSUME NEW t \in TaskId, NEW p \in Priorities[t], AddTask(t, p) PROVE Next
    BY <2>1 DEF AddTask, Next
  <2>2. ASSUME NEW t \in TaskId, RemoveTask(t) PROVE Next
    BY <2>2 DEF RemoveTask, Next
  <2>3. ASSUME NEW t \in TaskId, NEW i \in Input, AddInput(t, i) \/ RemoveInput(t, i)
        PROVE  UNCHANGED allTasks
    BY <2>3 DEF AddInput, RemoveInput
  <2>4. CASE Quit \/ Exit
    BY <2>4 DEF Quit, Exit
  <2>5. CASE Alive /\ ExecStep /\ UNCHANGED <<allTasks, phase, handled>>
    BY <2>5
  <2>6. CASE UNCHANGED vars
    BY <2>6 DEF vars
  <2> QED
    BY <2>1, <2>2, <2>3, <2>4, <2>5, <2>6 DEF NodeNext
<1> QED
  BY <1>1, <1>2, PTL DEF NodeSpec, Spec

\* So the promises of the task list hold in the process too: while its
\* goroutines run, fail and crash, no task runs that a known exclusive task of a
\* positive level outranks, and only a demotion strands a paused one.
THEOREM NodeKeepsTheRanks == NodeSpec => []NoneIsOutranked /\ OnlyDemotionStrands
<1>1. NodeSpec => Spec
  BY NodeImplementsTaskList
<1>2. Spec => []NoneIsOutranked
  BY NoTaskIsOutranked
<1>3. Spec => OnlyDemotionStrands
  BY PausedTasksAreStrandedByDemotionOnly
<1> QED
  BY <1>1, <1>2, <1>3, PTL
=============================================================================
