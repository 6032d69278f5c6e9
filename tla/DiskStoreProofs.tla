-------------------------- MODULE DiskStoreProofs ---------------------------
(***************************************************************************)
(* Proofs about the file kept by IoT Discovery, for any number of          *)
(* goroutines, any list, any number of changes, failed writes and crashes. *)
(***************************************************************************)
EXTENDS DiskStore, TLAPS

\* dbLock is held by one writer, from LockDb to UnlockDb.
DbLockHolder ==
    /\ \A w \in Writer : w \in dbLock <=> pc[w] \in {"flag", "delay", "write", "clear", "unlockDb"}
    /\ \A v, w \in dbLock : v = w

\* The flag is up only while its writer has not cleared it.
ScheduledByWriter ==
    scheduled => \E w \in Writer : pc[w] \in {"delay", "write", "clear"}

\* Before a writer clears the flag the file is the list, unless it failed: the
\* read lock it still holds keeps changes away, dbLock keeps other writers away.
WrittenIsCurrent ==
    \A w \in Writer : pc[w] = "clear" /\ ~failed => list = disk /\ ~torn

IInv == TypeOK /\ DbLockHolder /\ ScheduledByWriter /\ WrittenIsCurrent
            /\ ChangeHasWriter

-----------------------------------------------------------------------------
\* Every step keeps the store well typed.
LEMMA Typing ==
    ASSUME TypeOK, [Next]_vars
    PROVE  TypeOK'
<1> USE StoreAssumption DEF TypeOK, Step, Goto, faults
<1>1. ASSUME NEW w \in Writer, Change(w)
      PROVE  TypeOK'
  BY <1>1 DEF Change
<1>2. ASSUME NEW w \in Writer, WriterStep(w)
      PROVE  TypeOK'
  <2>1. CASE CheckScheduled(w) \/ LockDb(w) \/ SetScheduled(w) \/ Snapshot(w) \/ WriteFile(w)
    BY <2>1 DEF CheckScheduled, LockDb, SetScheduled, Snapshot, WriteFile
  <2>2. CASE OpenFails(w) \/ WriteFails(w)
    <3>1. failed' = TRUE /\ torn' = torn /\ scheduled' = scheduled
      BY <2>2 DEF OpenFails, WriteFails, Fails
    <3>2. failed' \in BOOLEAN /\ torn' \in BOOLEAN /\ scheduled' \in BOOLEAN
      BY <3>1, Zenon
    <3>3. /\ failures' \in 0..MaxFailures /\ crashes' \in 0..MaxCrashes
          /\ changes' \in 0..MaxChanges
      BY <2>2 DEF OpenFails, WriteFails, Fails
    <3>4. list' \subseteq Item /\ disk' \subseteq Item /\ dbLock' \subseteq Writer
      BY <2>2 DEF OpenFails, WriteFails, Fails
    <3>5. pc' \in [Writer -> Step]
      BY <2>2 DEF OpenFails, WriteFails
    <3> QED
      BY <3>2, <3>3, <3>4, <3>5
  <2>3. CASE ClearScheduled(w) \/ UnlockDb(w) \/ UnlockList(w)
    BY <2>3 DEF ClearScheduled, UnlockDb, UnlockList
  <2> QED
    BY <1>2, <2>1, <2>2, <2>3 DEF WriterStep
<1>3. CASE CrashAndRestart
  <2>1. ReadFromDisk \subseteq Item
    BY DEF ReadFromDisk
  <2>2. list' \subseteq Item
    BY <1>3, <2>1 DEF CrashAndRestart
  <2>3. pc' \in [Writer -> {"idle"}]
    BY <1>3 DEF CrashAndRestart
  <2>4. pc' \in [Writer -> Step]
    BY <2>3
  <2>5. torn' \in BOOLEAN /\ scheduled' \in BOOLEAN /\ failed' \in BOOLEAN
    BY <1>3, Zenon DEF CrashAndRestart
  <2>6. /\ disk' \subseteq Item /\ dbLock' \subseteq Writer
        /\ changes' \in 0..MaxChanges /\ crashes' \in 0..MaxCrashes
        /\ failures' \in 0..MaxFailures
    BY <1>3 DEF CrashAndRestart
  <2> QED
    BY <2>2, <2>4, <2>5, <2>6
<1>4. CASE UNCHANGED vars
  BY <1>4 DEF vars
<1> QED
  BY <1>1, <1>2, <1>3, <1>4 DEF Next

\* The locks and the flag do what the file needs them for, step by step.
LEMMA Inductive ==
    ASSUME IInv, [Next]_vars
    PROVE  IInv'
<1> USE DEF TypeOK, Goto, ReadFromDisk, faults
<1>0. TypeOK /\ TypeOK'
  BY Typing DEF IInv
<1>1. ASSUME NEW w \in Writer, Change(w)
      PROVE  IInv'
  <2>1. /\ pc' = [pc EXCEPT ![w] = "check"] /\ pc[w] = "idle"
        /\ UNCHANGED <<disk, torn, scheduled, dbLock, faults>>
    BY <1>1 DEF Change
  <2>2. \A v \in Writer : pc[v] \notin {"write", "clear", "unlockDb", "unlock"}
    BY <1>1 DEF Change, Readers
  <2>3. DbLockHolder' /\ ScheduledByWriter'
    BY <1>0, <2>1 DEF IInv, DbLockHolder, ScheduledByWriter
  <2>4. WrittenIsCurrent'
    BY <1>0, <2>1, <2>2 DEF IInv, WrittenIsCurrent
  <2>5. ChangeHasWriter'
    BY <1>0, <2>1 DEF ChangeHasWriter, Pending
  <2> QED
    BY <1>0, <2>3, <2>4, <2>5 DEF IInv
<1>2. ASSUME NEW w \in Writer, CheckScheduled(w)
      PROVE  IInv'
  <2>1. /\ pc' = [pc EXCEPT ![w] = IF scheduled THEN "idle" ELSE "lock"] /\ pc[w] = "check"
        /\ UNCHANGED <<list, disk, torn, scheduled, dbLock, faults>>
    BY <1>2 DEF CheckScheduled
  <2>2. DbLockHolder' /\ ScheduledByWriter' /\ WrittenIsCurrent'
    BY <1>0, <2>1 DEF IInv, DbLockHolder, ScheduledByWriter, WrittenIsCurrent
  <2>3. ChangeHasWriter'
    <3>1. CASE ~scheduled
      BY <1>0, <2>1, <3>1 DEF ChangeHasWriter, Pending
    <3>2. CASE scheduled
      <4>1. PICK h \in Writer : pc[h] \in {"delay", "write", "clear"}
        BY <3>2 DEF IInv, ScheduledByWriter
      <4>2. h # w /\ pc'[h] = pc[h]
        BY <1>0, <2>1, <4>1
      <4>3. CASE pc[h] = "clear"
        BY <2>1, <4>3 DEF IInv, WrittenIsCurrent, ChangeHasWriter
      <4>4. CASE pc[h] # "clear"
        BY <4>1, <4>2, <4>4 DEF ChangeHasWriter, Pending
      <4> QED
        BY <4>3, <4>4
    <3> QED
      BY <3>1, <3>2
  <2> QED
    BY <1>0, <2>2, <2>3 DEF IInv
<1>3. ASSUME NEW w \in Writer, LockDb(w)
      PROVE  IInv'
  <2>1. /\ pc' = [pc EXCEPT ![w] = "flag"] /\ pc[w] = "lock"
        /\ dbLock = {} /\ dbLock' = {w}
        /\ UNCHANGED <<list, disk, torn, scheduled, faults>>
    BY <1>3 DEF LockDb
  <2> QED
    BY <1>0, <2>1 DEF IInv, DbLockHolder, ScheduledByWriter, WrittenIsCurrent,
                      ChangeHasWriter, Pending
<1>4. ASSUME NEW w \in Writer, SetScheduled(w)
      PROVE  IInv'
  <2>1. /\ pc' = [pc EXCEPT ![w] = "delay"] /\ pc[w] = "flag"
        /\ UNCHANGED <<list, disk, torn, dbLock, faults>>
    BY <1>4 DEF SetScheduled
  <2> QED
    BY <1>0, <2>1 DEF IInv, DbLockHolder, ScheduledByWriter, WrittenIsCurrent,
                      ChangeHasWriter, Pending
<1>5. ASSUME NEW w \in Writer, Snapshot(w)
      PROVE  IInv'
  <2>1. /\ pc' = [pc EXCEPT ![w] = "write"] /\ pc[w] = "delay"
        /\ torn' = TRUE
        /\ UNCHANGED <<list, disk, scheduled, dbLock, faults>>
    BY <1>5 DEF Snapshot
  <2>2. \A v \in Writer : pc[v] # "clear"
    BY <2>1 DEF IInv, DbLockHolder
  <2> QED
    BY <1>0, <2>1, <2>2 DEF IInv, DbLockHolder, ScheduledByWriter, WrittenIsCurrent,
                            ChangeHasWriter, Pending
<1>6. ASSUME NEW w \in Writer, WriteFile(w)
      PROVE  IInv'
  <2>1. /\ pc' = [pc EXCEPT ![w] = "clear"] /\ pc[w] = "write"
        /\ disk' = list /\ torn' = FALSE
        /\ failed' = FALSE
        /\ UNCHANGED <<list, scheduled, dbLock>>
    BY <1>6 DEF WriteFile
  <2> QED
    BY <1>0, <2>1 DEF IInv, DbLockHolder, ScheduledByWriter, WrittenIsCurrent,
                      ChangeHasWriter, Pending
<1>7. ASSUME NEW w \in Writer, ClearScheduled(w)
      PROVE  IInv'
  <2>1. /\ pc' = [pc EXCEPT ![w] = "unlockDb"] /\ pc[w] = "clear"
        /\ scheduled' = FALSE
        /\ UNCHANGED <<list, disk, torn, dbLock, faults>>
    BY <1>7 DEF ClearScheduled
  <2> QED
    BY <1>0, <2>1 DEF IInv, DbLockHolder, ScheduledByWriter, WrittenIsCurrent,
                      ChangeHasWriter, Pending
<1>8. ASSUME NEW w \in Writer, UnlockDb(w)
      PROVE  IInv'
  <2>1. /\ pc' = [pc EXCEPT ![w] = "unlock"] /\ pc[w] = "unlockDb"
        /\ dbLock' = {}
        /\ UNCHANGED <<list, disk, torn, scheduled, faults>>
    BY <1>8 DEF UnlockDb
  <2>2. \A v \in Writer : v # w => pc[v] \notin {"flag", "delay", "write", "clear", "unlockDb"}
    BY <2>1 DEF IInv, DbLockHolder
  <2> QED
    BY <1>0, <2>1, <2>2 DEF IInv, DbLockHolder, ScheduledByWriter, WrittenIsCurrent,
                            ChangeHasWriter, Pending
<1>9. ASSUME NEW w \in Writer, UnlockList(w)
      PROVE  IInv'
  <2>1. /\ pc' = [pc EXCEPT ![w] = "idle"] /\ pc[w] = "unlock"
        /\ UNCHANGED <<list, disk, torn, scheduled, dbLock, faults>>
    BY <1>9 DEF UnlockList
  <2> QED
    BY <1>0, <2>1 DEF IInv, DbLockHolder, ScheduledByWriter, WrittenIsCurrent,
                      ChangeHasWriter, Pending
<1>10. CASE CrashAndRestart
  <2>1. /\ pc' = [w \in Writer |-> "idle"] /\ scheduled' = FALSE /\ dbLock' = {}
        /\ list' = ReadFromDisk /\ failed' = FALSE
        /\ UNCHANGED <<disk, torn>>
    BY <1>10 DEF CrashAndRestart
  <2> QED
    BY <1>0, <2>1 DEF IInv, DbLockHolder, ScheduledByWriter, WrittenIsCurrent,
                      ChangeHasWriter, Pending
<1>11. ASSUME NEW w \in Writer, OpenFails(w) \/ WriteFails(w)
      PROVE  IInv'
  <2>1. /\ pc' = [pc EXCEPT ![w] = "clear"] /\ pc[w] \in {"delay", "write"}
        /\ failed' = TRUE
        /\ UNCHANGED <<list, disk, torn, scheduled, dbLock>>
    BY <1>11 DEF OpenFails, WriteFails, Fails
  <2> QED
    BY <1>0, <2>1 DEF IInv, DbLockHolder, ScheduledByWriter, WrittenIsCurrent,
                      ChangeHasWriter, Pending
<1>12. CASE UNCHANGED vars
  BY <1>0, <1>12 DEF vars, IInv, DbLockHolder, ScheduledByWriter, WrittenIsCurrent,
                     ChangeHasWriter, Pending
<1> QED
  BY <1>1, <1>2, <1>3, <1>4, <1>5, <1>6, <1>7, <1>8, <1>9, <1>10, <1>11, <1>12
     DEF Next, WriterStep

\* IInv is an inductive invariant of the store.
LEMMA Invariance == Spec => []IInv
<1>1. Init => IInv
  <2> SUFFICES ASSUME Init PROVE IInv
    OBVIOUS
  <2>1. TypeOK
    <3>1. torn \in BOOLEAN /\ scheduled \in BOOLEAN /\ failed \in BOOLEAN
      BY Zenon DEF Init
    <3>2. pc \in [Writer -> Step]
      BY DEF Init, Step
    <3>3. changes \in 0..MaxChanges /\ crashes \in 0..MaxCrashes /\ failures \in 0..MaxFailures
      BY StoreAssumption DEF Init
    <3>4. list \subseteq Item /\ disk \subseteq Item /\ dbLock \subseteq Writer
      BY DEF Init
    <3> QED
      BY <3>1, <3>2, <3>3, <3>4 DEF TypeOK
  <2>2. DbLockHolder /\ ScheduledByWriter /\ WrittenIsCurrent
    BY DEF Init, DbLockHolder, ScheduledByWriter, WrittenIsCurrent
  <2>3. ChangeHasWriter
    BY DEF Init, ChangeHasWriter, ReadFromDisk
  <2> QED
    BY <2>1, <2>2, <2>3 DEF IInv
<1> QED
  BY <1>1, Inductive, PTL DEF Spec

-----------------------------------------------------------------------------
\* The store is well typed in every reachable state.
THEOREM TypeCorrect == Spec => []TypeOK
<1>1. IInv => TypeOK
  BY DEF IInv
<1> QED
  BY <1>1, Invariance, PTL

\* No change of the list is lost on its way to the file: when no write is
\* under way any more, what a restart would read is the list, unless the last
\* call of ioutil.WriteFile failed.
THEOREM NoChangeIsLost == Spec => []ChangeHasWriter
<1>1. IInv => ChangeHasWriter
  BY DEF IInv
<1> QED
  BY <1>1, Invariance, PTL
=============================================================================
