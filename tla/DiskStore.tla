----------------------------- MODULE DiskStore ------------------------------
(***************************************************************************)
(* How IoT Discovery keeps a list on disk: the registrations               *)
(* (discovery/repository.go), and in the same way the subscriptions and    *)
(* the brokers (discovery/fastDiscovery.go).                               *)
(*                                                                         *)
(* A request changes the list under its lock and then runs                 *)
(* updateRegistrationsOnDisk, which returns at once when a write is        *)
(* scheduled and otherwise waits and writes the whole list.  The flag is   *)
(* read without a lock; dbLock serialises the writers; the list is read-   *)
(* locked from the snapshot until after the flag is cleared and dbLock     *)
(* released.  Steps below are the accesses other goroutines can tell       *)
(* apart.  ioutil.WriteFile truncates the file before it writes it, and    *)
(* its errors are only logged.                                             *)
(***************************************************************************)
EXTENDS Naturals, FiniteSets

CONSTANTS
    Writer,        \* goroutines that serve requests
    Item,          \* what the list may contain
    MaxChanges,    \* bound: changes of the list
    MaxFailures,   \* bound: calls of WriteFile that fail
    MaxCrashes     \* bound: crashes of the process

ASSUME StoreAssumption ==
    MaxChanges \in Nat /\ MaxFailures \in Nat /\ MaxCrashes \in Nat

VARIABLES
    list,          \* ctxRegistrationList
    disk,          \* what was last written to dbFile
    torn,          \* dbFile is truncated
    scheduled,     \* storeToFileScheduled
    dbLock,        \* the set of writers that hold dbLock
    pc,            \* where each writer is
    changes,       \* number of changes so far
    failures,      \* number of failed writes so far
    failed,        \* history: the last write failed
    crashes        \* number of crashes so far

faults == <<failures, failed, crashes>>
vars == <<list, disk, torn, scheduled, dbLock, pc, changes, faults>>

Step == {"idle", "check", "lock", "flag", "delay", "write", "clear", "unlockDb", "unlock"}

\* Variant: the read lock is released before the flag is cleared.
Readers_early == {w \in Writer : pc[w] = "write"}

\* Writers that hold the read lock of the list.
Readers == {w \in Writer : pc[w] \in {"write", "clear", "unlockDb", "unlock"}}

Goto(w, s) == pc' = [pc EXCEPT ![w] = s]

-----------------------------------------------------------------------------
\* updateEntity, deleteEntity, ProviderLeft: the list changes under its write
\* lock, then the same goroutine turns to the file.
Change(w) ==
    /\ pc[w] = "idle" /\ Readers = {}
    /\ changes < MaxChanges
    /\ changes' = changes + 1
    /\ \E l \in SUBSET Item : list' = l
    /\ Goto(w, "check")
    /\ UNCHANGED <<disk, torn, scheduled, dbLock, faults>>

\* if er.storeToFileScheduled { return }
CheckScheduled(w) ==
    /\ pc[w] = "check"
    /\ Goto(w, IF scheduled THEN "idle" ELSE "lock")
    /\ UNCHANGED <<list, disk, torn, scheduled, dbLock, changes, faults>>

LockDb(w) ==
    /\ pc[w] = "lock" /\ dbLock = {}
    /\ dbLock' = {w}
    /\ Goto(w, "flag")
    /\ UNCHANGED <<list, disk, torn, scheduled, changes, faults>>

SetScheduled(w) ==
    /\ pc[w] = "flag"
    /\ scheduled' = TRUE
    /\ Goto(w, "delay")
    /\ UNCHANGED <<list, disk, torn, dbLock, changes, faults>>

\* WriteFile returns an error, which is logged.
Fails ==
    /\ failures < MaxFailures
    /\ failures' = failures + 1
    /\ failed' = TRUE
    /\ UNCHANGED crashes

\* After the delay: read-lock the list, marshal it and open the file.
Snapshot(w) ==
    /\ pc[w] = "delay"
    /\ torn' = TRUE
    /\ Goto(w, "write")
    /\ UNCHANGED <<list, disk, scheduled, dbLock, changes, faults>>

\* The file cannot be opened and stays as it is.
OpenFails(w) ==
    /\ pc[w] = "delay" /\ Fails
    /\ Goto(w, "clear")
    /\ UNCHANGED <<list, disk, torn, scheduled, dbLock, changes>>

\* The content, which is the list still: its lock is held.
WriteFile(w) ==
    /\ pc[w] = "write"
    /\ disk' = list /\ torn' = FALSE
    /\ failed' = FALSE
    /\ Goto(w, "clear")
    /\ UNCHANGED <<list, scheduled, dbLock, changes, failures, crashes>>

\* The content is not written, or not all of it: the file stays truncated.
WriteFails(w) ==
    /\ pc[w] = "write" /\ Fails
    /\ Goto(w, "clear")
    /\ UNCHANGED <<list, disk, torn, scheduled, dbLock, changes>>

\* Variant: the flag stays up.
ClearScheduled_forget(w) ==
    /\ pc[w] = "clear"
    /\ Goto(w, "unlockDb")
    /\ UNCHANGED <<list, disk, torn, scheduled, dbLock, changes, faults>>

ClearScheduled(w) ==
    /\ pc[w] = "clear"
    /\ scheduled' = FALSE
    /\ Goto(w, "unlockDb")
    /\ UNCHANGED <<list, disk, torn, dbLock, changes, faults>>

\* The deferred calls, last one first: dbLock.Unlock, then RUnlock.
UnlockDb(w) ==
    /\ pc[w] = "unlockDb"
    /\ dbLock' = {}
    /\ Goto(w, "unlock")
    /\ UNCHANGED <<list, disk, torn, scheduled, changes, faults>>

UnlockList(w) ==
    /\ pc[w] = "unlock"
    /\ Goto(w, "idle")
    /\ UNCHANGED <<list, disk, torn, scheduled, dbLock, changes, faults>>

\* Variant: what can be parsed of a truncated file is kept.
ReadFromDisk_partial == IF torn THEN {"truncated"} ELSE disk

\* What readRegistrationsFromDisk makes of the file: json.Unmarshal rejects a
\* truncated one and the list stays empty.
ReadFromDisk == IF torn THEN {} ELSE disk

\* The process dies at any point and Init reads the file back.
CrashAndRestart ==
    /\ crashes < MaxCrashes
    /\ crashes' = crashes + 1
    /\ list' = ReadFromDisk
    /\ scheduled' = FALSE
    /\ dbLock' = {}
    /\ pc' = [w \in Writer |-> "idle"]
    /\ failed' = FALSE
    /\ UNCHANGED <<disk, torn, changes, failures>>

-----------------------------------------------------------------------------
Init ==
    /\ list = {} /\ disk = {} /\ torn = FALSE
    /\ scheduled = FALSE
    /\ dbLock = {}
    /\ pc = [w \in Writer |-> "idle"]
    /\ changes = 0 /\ failures = 0 /\ crashes = 0
    /\ failed = FALSE

WriterStep(w) ==
    \/ CheckScheduled(w)
    \/ LockDb(w)
    \/ SetScheduled(w)
    \/ Snapshot(w) \/ OpenFails(w)
    \/ WriteFile(w) \/ WriteFails(w)
    \/ ClearScheduled(w)
    \/ UnlockDb(w)
    \/ UnlockList(w)

Next ==
    \/ \E w \in Writer : Change(w) \/ WriterStep(w)
    \/ CrashAndRestart

\* Goroutines that can run do run, and sync.RWMutex.Lock starves no one.
Fairness == \A w \in Writer : WF_vars(WriterStep(w)) /\ SF_vars(LockDb(w))

Spec == Init /\ [][Next]_vars /\ Fairness

-----------------------------------------------------------------------------
\* Type correctness of the store.
TypeOK ==
    /\ list \subseteq Item
    /\ disk \subseteq Item /\ torn \in BOOLEAN
    /\ scheduled \in BOOLEAN
    /\ dbLock \subseteq Writer
    /\ pc \in [Writer -> Step]
    /\ changes \in 0..MaxChanges
    /\ failures \in 0..MaxFailures /\ failed \in BOOLEAN
    /\ crashes \in 0..MaxCrashes

\* Writers whose write is still to come.
Pending == {w \in Writer : pc[w] \in {"check", "lock", "flag", "delay", "write"}}

\* Wherever the file lags behind the list, a writer is on its way: returning
\* because "the new subscription will be written by the already scheduled
\* write to file" never loses a change, although the flag is read unlocked.  An
\* error of WriteFile, which nobody retries, leaves the file behind or truncated
\* until the next write that succeeds: that one makes up for all before it.
ChangeHasWriter == Pending = {} /\ ~failed => list = ReadFromDisk

\* Once requests stop, the file catches up with the list, unless the last write
\* failed.
FileCatchesUp == <>[](failed \/ list = ReadFromDisk)
=============================================================================
