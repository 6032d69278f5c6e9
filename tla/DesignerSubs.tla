---------------------------- MODULE DesignerSubs ----------------------------
(***************************************************************************)
(* The task designer as the keeper of subscriptions and devices: it makes  *)
(* them known to the cloud broker, records them in its database, and, when *)
(* its process starts, tells a broker that has lost them again             *)
(* (entityrestore in designer/main.js).                                    *)
(*                                                                         *)
(* Every call of the broker is answered by a callback of its own, in any   *)
(* order.  The database is written without waiting.  The broker keeps its  *)
(* subscriptions in memory only.  A subscription that a user asks for is   *)
(* known by a name of its own, whatever ID the broker gives it.  The       *)
(* broker takes longer to start than an answer of the old one needs to     *)
(* arrive, and a broker that is there does not answer with an error.       *)
(***************************************************************************)
EXTENDS LowDb

CONSTANTS
    Sub,           \* subscriptions that users ask for
    Device,        \* devices, by ID
    SubId,         \* bound: IDs that the broker gives, a set of numbers
    Recreate,      \* ~config.notRecreateSubscriptions
    None,          \* no record
    MaxRequests,   \* bound: requests of users
    MaxCrashes,    \* bound: times that the broker ends
    MaxRestarts    \* bound: times that the designer ends

ASSUME SubsAssumption ==
    /\ SubId \subseteq Nat /\ Recreate \in BOOLEAN
    /\ Sub \cap Device = {} /\ SubId \cap Device = {}
    /\ None \notin Sub \cup Device \cup SubId
    /\ MaxRequests \in Nat /\ MaxCrashes \in Nat /\ MaxRestarts \in Nat

Key == SubId \cup Device
Thing == Sub \cup Device
Store == [Key -> Thing \cup {None}]
Empty == [k \in Key |-> None]

VARIABLES
    records,   \* db.data: subscriptions and devices
    calls,     \* calls of the broker that are under way or to be sent
    restore,   \* how far entityrestore is
    listed,    \* the broker's answer to the request for its subscriptions
    broker,    \* what the broker knows
    up,        \* whether the broker runs
    current,   \* history: the broker has not ended since that answer
    asked,     \* history: subscriptions that were asked for
    dropped,   \* history: things with a DELETE that was accepted
    requests, crashes, restarts

bounds == <<requests, crashes, restarts>>
vars == <<records, file, calls, restore, listed, broker, up, current, asked, dropped, bounds>>

Call(op, k, t) == [op |-> op, key |-> k, thing |-> t, answer |-> None, number |-> requests]

Open(c) == c \in calls /\ c.answer = None

\* IDs that nothing refers to stand for the new ones of the broker.
Unused ==
    {n \in SubId : /\ \A s \in {records, disk, broker} : s[n] = None
                   /\ cur # <<>> => cur[1][n] = None
                   /\ next # <<>> => next[1][n] = None
                   /\ \A c \in calls : n # c.key /\ n # c.answer
                   /\ n \notin listed}
NewIds == {n \in Unused : \A m \in Unused : n <= m}

-----------------------------------------------------------------------------
(* Requests of users                                                       *)

Request(c) ==
    /\ requests < MaxRequests
    /\ requests' = requests + 1
    /\ calls' = calls \cup {c}
    /\ UNCHANGED <<records, file, restore, listed, broker, up, current, crashes, restarts>>

\* POST /subscription
PostSubscription(u) ==
    /\ u \notin asked
    /\ asked' = asked \cup {u}
    /\ Request(Call("post", None, u))
    /\ UNCHANGED dropped

\* POST /device
PostDevice(d) ==
    /\ Request(Call("post", d, d))
    /\ UNCHANGED <<asked, dropped>>

\* Variant: nobody looks whether there is a record.
Delete_unknown(k) ==
    /\ dropped' = dropped \cup {records[k]}
    /\ Request(Call("delete", k, records[k]))
    /\ UNCHANGED asked

\* DELETE /subscription/:id and DELETE /device/:id
Delete(k) ==
    /\ records[k] # None
    /\ dropped' = dropped \cup {records[k]}
    /\ Request(Call("delete", k, records[k]))
    /\ UNCHANGED asked

-----------------------------------------------------------------------------
(* Calls and their answers                                                 *)

\* The broker handles call c: subscribeContext, updateContext with UPDATE or
\* DELETE, unsubscribeContext.  The answer to an update from entityrestore is
\* only logged.
BrokerHandles(c) ==
    /\ Open(c) /\ up
    /\ \E k \in (IF c.op # "delete" /\ c.thing \in Sub THEN NewIds ELSE {c.key}) :
          /\ broker' = [broker EXCEPT ![k] = IF c.op = "delete" THEN None ELSE c.thing]
          /\ calls' = (calls \ {c}) \cup (IF c.op = "refresh" THEN {} ELSE {[c EXCEPT !.answer = k]})
    /\ UNCHANGED <<records, file, restore, listed, up, current, asked, dropped, bounds>>

\* The broker cannot be reached: the user gets 500, entityrestore logs it.
CallFails(c) ==
    /\ Open(c) /\ ~up
    /\ calls' = calls \ {c}
    /\ UNCHANGED <<records, file, restore, listed, broker, up, current, asked, dropped, bounds>>

\* Variant: a subscription that was renewed keeps the record of its old ID.
Recorded_oldId(c) ==
    CASE c.op = "post"   -> [records EXCEPT ![c.answer] = c.thing]
      [] c.op = "renew"  -> records
      [] c.op = "delete" -> [records EXCEPT ![c.key] = None]

\* db.data after the answer to call c.
Recorded(c) ==
    CASE c.op = "post"   -> [records EXCEPT ![c.answer] = c.thing]
      [] c.op = "renew"  -> [records EXCEPT ![c.key] = None, ![c.answer] = c.thing]
      [] c.op = "delete" -> [records EXCEPT ![c.key] = None]

\* The callback of a call that succeeded.
Answered(c) ==
    /\ c \in calls /\ c.answer # None
    /\ calls' = calls \ {c}
    /\ records' = Recorded(c)
    /\ Write(records')
    /\ UNCHANGED <<restore, listed, broker, up, current, asked, dropped, bounds>>

-----------------------------------------------------------------------------
(* entityrestore                                                           *)

\* Variant: one attempt has to do.
CheckVersion_once ==
    /\ restore = "wait"
    /\ restore' = IF ~up THEN "done" ELSE IF Recreate THEN "list" ELSE "done"
    /\ calls' = IF ~up THEN calls
                ELSE calls \cup {Call("refresh", d, d) : d \in {x \in Device : records[x] # None}}
    /\ UNCHANGED <<records, file, listed, broker, up, current, asked, dropped, bounds>>

\* The broker is asked for its version, and again after recheck_interval if
\* it cannot be reached.  If it answers it is told all devices, and asked for
\* its subscriptions.
CheckVersion ==
    /\ restore = "wait"
    /\ restore' = IF ~up THEN "wait" ELSE IF Recreate THEN "list" ELSE "done"
    /\ calls' = IF ~up THEN calls
                ELSE calls \cup {Call("refresh", d, d) : d \in {x \in Device : records[x] # None}}
    /\ UNCHANGED <<records, file, listed, broker, up, current, asked, dropped, bounds>>

\* The broker answers with its subscriptions.
BrokerLists ==
    /\ restore = "list" /\ up
    /\ restore' = "listed"
    /\ listed' = {k \in SubId : broker[k] # None}
    /\ current' = TRUE
    /\ UNCHANGED <<records, file, calls, broker, up, asked, dropped, bounds>>

\* Variant: the records of subscriptions that the broker has lost are removed
\* at once, and written with their new IDs when these are known.
RestoreSubscriptions_removeFirst ==
    /\ restore = "listed"
    /\ restore' = "done"
    /\ LET lost == {k \in SubId \ listed : records[k] # None}
       IN  /\ calls' = calls \cup {Call("renew", k, records[k]) : k \in lost}
           /\ records' = [k \in Key |-> IF k \in lost THEN None ELSE records[k]]
           /\ Write(records')
    /\ listed' = {}
    /\ UNCHANGED <<broker, up, current, asked, dropped, bounds>>

\* Every recorded subscription that is not in the list is issued again, after
\* a delay of its own.
RestoreSubscriptions ==
    /\ restore = "listed"
    /\ restore' = "done"
    /\ calls' = calls \cup {Call("renew", k, records[k]) : k \in {x \in SubId \ listed : records[x] # None}}
    /\ listed' = {}
    /\ UNCHANGED <<records, file, broker, up, current, asked, dropped, bounds>>

-----------------------------------------------------------------------------
(* Faults                                                                  *)

WriteDone ==
    /\ Written
    /\ UNCHANGED <<records, calls, restore, listed, broker, up, current, asked, dropped, bounds>>

\* The broker ends and forgets everything.
BrokerEnds ==
    /\ up /\ crashes < MaxCrashes
    /\ crashes' = crashes + 1
    /\ up' = FALSE
    /\ broker' = Empty
    /\ current' = FALSE
    /\ UNCHANGED <<records, file, calls, restore, listed, asked, dropped, requests, restarts>>

\* The broker is started again; by then answers of the old one have arrived.
BrokerStarts ==
    /\ ~up /\ restore # "listed" /\ \A c \in calls : c.answer = None
    /\ up' = TRUE
    /\ UNCHANGED <<records, file, calls, restore, listed, broker, current, asked, dropped, bounds>>

\* A new process of the designer.
Start ==
    /\ records' = disk
    /\ WritesLost
    /\ calls' = {}
    /\ restore' = "wait"
    /\ listed' = {}
    /\ current' = FALSE
    /\ UNCHANGED <<broker, up, asked, dropped>>

\* The designer ends, for whatever reason, and is started again.
Restart ==
    /\ restarts < MaxRestarts
    /\ restarts' = restarts + 1
    /\ Start
    /\ UNCHANGED <<requests, crashes>>

\* The request for the list fails: nothing catches it and the process ends.
ListFails ==
    /\ restore = "list" /\ ~up
    /\ Start
    /\ UNCHANGED bounds

-----------------------------------------------------------------------------
Init ==
    /\ records = Empty /\ FileInit(Empty)
    /\ calls = {}
    /\ restore = "wait" /\ listed = {}
    /\ broker = Empty /\ up \in BOOLEAN /\ current = FALSE
    /\ asked = {} /\ dropped = {}
    /\ requests = 0 /\ crashes = 0 /\ restarts = 0

Next ==
    \/ CheckVersion \/ BrokerLists \/ RestoreSubscriptions
    \/ WriteDone \/ BrokerEnds \/ BrokerStarts \/ Restart \/ ListFails
    \/ \E u \in Sub : PostSubscription(u)
    \/ \E d \in Device : PostDevice(d)
    \/ \E k \in Key : Delete(k)
    \/ \E c \in calls : BrokerHandles(c) \/ CallFails(c) \/ Answered(c)

\* Timers fire, calls are answered or fail, writes end, the broker comes back
\* and the container of the designer is restarted always.
Fairness ==
    /\ WF_vars(CheckVersion) /\ WF_vars(BrokerLists) /\ WF_vars(RestoreSubscriptions)
    /\ WF_vars(WriteDone) /\ WF_vars(BrokerStarts) /\ WF_vars(ListFails)
    /\ WF_vars(\E c \in calls : BrokerHandles(c)) /\ WF_vars(\E c \in calls : CallFails(c))
    /\ WF_vars(\E c \in calls : Answered(c))

Spec == Init /\ [][Next]_vars /\ Fairness

-----------------------------------------------------------------------------
\* Subscriptions are stored under IDs, devices under themselves.
Stores ==
    {s \in Store : /\ \A n \in SubId : s[n] \in Sub \cup {None}
                   /\ \A d \in Device : s[d] \in {d, None}}
Calls ==
    {c \in [op : {"post", "delete", "renew", "refresh"}, key : Key \cup {None},
            thing : Thing, answer : Key \cup {None}, number : Nat] :
        /\ c.thing \in Device => c.key = c.thing /\ c.op # "renew" /\ c.answer \in {c.key, None}
        /\ c.thing \in Sub =>
              /\ c.key \in (IF c.op = "post" THEN {None} ELSE SubId)
              /\ c.answer \in (IF c.op = "delete" THEN {c.key, None} ELSE SubId \cup {None})
              /\ c.op # "refresh"
        /\ c.op = "refresh" => c.answer = None}

\* Shapes of the state.
TypeOK ==
    /\ records \in Stores /\ disk \in Stores /\ broker \in Stores
    /\ cur # <<>> => cur[1] \in Stores
    /\ next # <<>> => next[1] \in Stores
    /\ calls \subseteq Calls
    /\ restore \in {"wait", "list", "listed", "done"} /\ listed \subseteq SubId
    /\ up \in BOOLEAN /\ current \in BOOLEAN
    /\ asked \subseteq Sub /\ dropped \subseteq Thing
    /\ requests \in Nat /\ crashes \in Nat /\ restarts \in Nat

Has(s, t) == \E k \in Key : s[k] = t

\* What is in the file stays there, under its old ID or a new one, until a
\* user deletes it, although a restore replaces records while processes end
\* and calls fail.
FileKeepsRecords ==
    [][\A t \in Thing \ dropped' : Has(disk, t) => Has(disk', t)]_vars

\* After a restore every recorded subscription is one of the broker, under
\* the ID of its record, whatever users did meanwhile.
RecordedIsSubscribed ==
    (restore = "done" /\ calls = {} /\ current) =>
        \A k \in SubId : records[k] # None => broker[k] = records[k]

\* A process that starts gets the broker's list in the end, however often the
\* broker ends, and all that it records reaches the file.
Restores ==
    /\ restore = "wait" ~> restore = "listed"
    /\ <>[](restore = "done" /\ calls = {} /\ disk = records)

\* The inductive invariant behind the first two.  Call c waits with a new ID
\* that the broker gave: no record has it yet, and no other call.
Creates(c) == c \in calls /\ c.op \in {"post", "renew"} /\ c.thing \in Sub /\ c.answer # None

NewIdsAreFree ==
    \A c \in calls : Creates(c) =>
        /\ records[c.answer] = None
        /\ \A e \in calls : e.key # c.answer /\ (e # c /\ Creates(e) => e.answer # c.answer)

\* A call that removes or replaces a record was made for that record.
RecordIsOfCall ==
    \A c \in calls :
        /\ c.op \in {"renew", "delete"} => records[c.key] \in {c.thing, None}
        /\ c.op = "delete" => c.thing \in dropped

\* What is in the file, or will be, is in what replaces it.
Follows(s, w) == \A t \in Thing \ dropped : Has(s, t) => Has(w, t)
FileFollows ==
    /\ Follows(disk, records)
    /\ cur = <<>> => next = <<>>
    /\ cur # <<>> => Follows(disk, cur[1]) /\ Follows(cur[1], records)
    /\ next # <<>> => Follows(cur[1], next[1]) /\ Follows(next[1], records)

KeepInv == TypeOK /\ NewIdsAreFree /\ RecordIsOfCall /\ FileFollows

\* One thing per ID, at the broker and in all that is recorded.
Agrees(s) == \A k \in SubId : s[k] # None /\ broker[k] # None => s[k] = broker[k]
IdsAgree ==
    /\ Agrees(records) /\ Agrees(disk)
    /\ cur # <<>> => Agrees(cur[1])
    /\ next # <<>> => Agrees(next[1])
    /\ ~up => broker = Empty
    /\ up => \A c \in calls : Creates(c) => broker[c.answer] = c.thing

\* Since the broker's list every record is known to the broker, or about to be
\* renewed or removed.
Settled(k) ==
    \/ broker[k] = records[k]
    \/ \E c \in calls : c.key = k /\ (c.op = "renew" \/ (c.op = "delete" /\ c.answer # None))
    \/ restore = "listed" /\ k \notin listed
ListIsCurrent ==
    current => /\ up /\ restore \in {"listed", "done"}
               /\ \A k \in SubId : records[k] # None => Settled(k)

SubsInv == KeepInv /\ IdsAgree /\ ListIsCurrent
=============================================================================
