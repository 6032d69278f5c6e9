------------------------- MODULE DesignerSubsProofs -------------------------
(***************************************************************************)
(* Proofs about module DesignerSubs.                                       *)
(***************************************************************************)
EXTENDS DesignerSubs, TLAPS

USE SubsAssumption

-----------------------------------------------------------------------------
(* Types                                                                   *)

LEMMA EmptyType == Empty \in Stores
BY DEF Empty, Stores, Store, Key, Thing

\* What a change of one key makes of a store.
LEMMA StoreSub ==
    ASSUME NEW s \in Stores, NEW n \in SubId, NEW t \in Sub \cup {None}
    PROVE  [s EXCEPT ![n] = t] \in Stores
BY DEF Stores, Store, Key, Thing

LEMMA StoreDevice ==
    ASSUME NEW s \in Stores, NEW d \in Device, NEW t \in {d, None}
    PROVE  [s EXCEPT ![d] = t] \in Stores
BY DEF Stores, Store, Key, Thing

LEMMA StoreParts ==
    ASSUME NEW s \in Stores
    PROVE  /\ \A k \in Key : s[k] \in Thing \cup {None}
           /\ \A n \in SubId : s[n] \in Sub \cup {None}
           /\ \A d \in Device : s[d] \in {d, None}
BY DEF Stores, Store

LEMMA CallParts ==
    ASSUME NEW c \in Calls
    PROVE  /\ c.op \in {"post", "delete", "renew", "refresh"}
           /\ c.thing \in Thing
           /\ c.thing \in Device => c.key = c.thing /\ c.op # "renew" /\ c.answer \in {c.key, None}
           /\ c.thing \in Sub =>
                 /\ c.op = "post" => c.key = None
                 /\ c.op # "post" => c.key \in SubId
                 /\ c.op = "delete" => c.answer \in {c.key, None}
                 /\ c.answer \in SubId \cup {None}
                 /\ c.op # "refresh"
           /\ c.op = "refresh" => c.answer = None
BY DEF Calls

LEMMA NewCallType ==
    ASSUME TypeOK
    PROVE  /\ \A u \in Sub : Call("post", None, u) \in Calls
           /\ \A d \in Device, op \in {"post", "refresh"} : Call(op, d, d) \in Calls
           /\ \A k \in Key : records[k] # None => Call("delete", k, records[k]) \in Calls
           /\ \A n \in SubId : records[n] # None => Call("renew", n, records[n]) \in Calls
<1>1. requests \in Nat /\ records \in Stores BY DEF TypeOK
<1>2. \A u \in Sub : Call("post", None, u) \in Calls BY <1>1 DEF Call, Calls, Thing
<1>3. \A d \in Device, op \in {"post", "refresh"} : Call(op, d, d) \in Calls BY <1>1 DEF Call, Calls, Thing, Key
<1>4. \A n \in SubId, op \in {"delete", "renew"} : records[n] # None => Call(op, n, records[n]) \in Calls
    BY <1>1, StoreParts DEF Call, Calls, Thing, Key
<1>5. \A d \in Device : records[d] # None => Call("delete", d, records[d]) \in Calls
    BY <1>1, StoreParts DEF Call, Calls, Thing, Key
<1> QED BY <1>2, <1>3, <1>4, <1>5 DEF Key

LEMMA AnswerType ==
    ASSUME NEW c \in Calls, c.op # "refresh",
           NEW k \in (IF c.op # "delete" /\ c.thing \in Sub THEN SubId ELSE {c.key})
    PROVE  [c EXCEPT !.answer = k] \in Calls
<1>1. k \in Key BY CallParts DEF Key, Thing
<1> QED BY <1>1 DEF Calls

\* The records after an answer.
LEMMA RecordedType ==
    ASSUME TypeOK, NEW c \in calls, c.answer # None, c.op # "refresh"
    PROVE  Recorded(c) \in Stores
<1>1. c \in Calls /\ records \in Stores BY DEF TypeOK
<1>2. CASE c.thing \in Device
    <2>1. c.key = c.thing /\ c.answer = c.thing /\ c.op \in {"post", "delete"} BY <1>1, <1>2, CallParts
    <2> QED BY <1>1, <1>2, <2>1, StoreDevice DEF Recorded
<1>3. CASE c.thing \in Sub
    <2>1. c.answer \in SubId /\ (c.op # "post" => c.key \in SubId) BY <1>1, <1>3, CallParts
    <2>2. CASE c.op = "post" BY <1>1, <1>3, <2>1, <2>2, StoreSub DEF Recorded
    <2>3. CASE c.op = "delete" BY <1>1, <1>3, <2>1, <2>3, StoreSub DEF Recorded
    <2>4. CASE c.op = "renew"
        <3>1. Recorded(c) = [k \in Key |-> IF k = c.answer THEN c.thing ELSE IF k = c.key THEN None ELSE records[k]]
            BY <1>1, <2>1, <2>4 DEF Recorded, Stores, Store, Key
        <3>2. \A k \in Key : records[k] \in Thing \cup {None} BY <1>1, StoreParts
        <3>3. Recorded(c) \in Store BY <1>3, <3>1, <3>2 DEF Store, Thing
        <3>4. \A n \in SubId : Recorded(c)[n] \in Sub \cup {None}
            BY <1>1, <1>3, <3>1, StoreParts DEF Key
        <3>5. \A d \in Device : Recorded(c)[d] \in {d, None}
            BY <1>1, <2>1, <2>4, <3>1, StoreParts DEF Key
        <3> QED BY <3>3, <3>4, <3>5 DEF Stores
    <2> QED BY <1>1, <2>2, <2>3, <2>4, CallParts
<1> QED BY <1>1, <1>2, <1>3, CallParts DEF Thing

LEMMA StartType == ASSUME TypeOK, Start, UNCHANGED <<requests, crashes>>, restarts' \in Nat PROVE TypeOK'
BY DEF TypeOK, Start, WritesLost

LEMMA InitTyped == Init => TypeOK
<1> SUFFICES ASSUME Init PROVE TypeOK OBVIOUS
<1>1. records \in Stores /\ disk \in Stores /\ broker \in Stores BY EmptyType DEF Init, FileInit
<1>2. cur = <<>> /\ next = <<>> BY DEF Init, FileInit
<1> QED BY <1>1, <1>2 DEF Init, TypeOK

LEMMA TypeStep ==
    ASSUME TypeOK, [Next]_vars
    PROVE  TypeOK'
<1> USE DEF bounds, file
<1>1. ASSUME NEW u \in Sub, PostSubscription(u) PROVE TypeOK'
    <2>1. calls' \subseteq Calls BY <1>1, NewCallType DEF TypeOK, PostSubscription, Request
    <2>2. requests' \in Nat BY <1>1 DEF TypeOK, PostSubscription, Request
    <2> QED BY <1>1, <2>1, <2>2 DEF TypeOK, PostSubscription, Request
<1>2. ASSUME NEW d \in Device, PostDevice(d) PROVE TypeOK'
    <2>1. calls' \subseteq Calls BY <1>2, NewCallType DEF TypeOK, PostDevice, Request
    <2>2. requests' \in Nat BY <1>2 DEF TypeOK, PostDevice, Request
    <2> QED BY <1>2, <2>1, <2>2 DEF TypeOK, PostDevice, Request
<1>3. ASSUME NEW k \in Key, Delete(k) PROVE TypeOK'
    <2>1. calls' \subseteq Calls BY <1>3, NewCallType DEF TypeOK, Delete, Request
    <2>2. requests' \in Nat BY <1>3 DEF TypeOK, Delete, Request
    <2>3. records[k] \in Thing BY <1>3, StoreParts DEF TypeOK, Delete
    <2> QED BY <1>3, <2>1, <2>2, <2>3 DEF TypeOK, Delete, Request
<1>4. ASSUME NEW c \in calls, BrokerHandles(c) PROVE TypeOK'
    <2>1. c \in Calls BY DEF TypeOK
    <2>2. PICK k \in (IF c.op # "delete" /\ c.thing \in Sub THEN NewIds ELSE {c.key}) :
              /\ broker' = [broker EXCEPT ![k] = IF c.op = "delete" THEN None ELSE c.thing]
              /\ calls' = (calls \ {c}) \cup (IF c.op = "refresh" THEN {} ELSE {[c EXCEPT !.answer = k]})
        BY <1>4 DEF BrokerHandles
    <2>3. k \in (IF c.op # "delete" /\ c.thing \in Sub THEN SubId ELSE {c.key}) BY DEF NewIds, Unused
    <2>4. calls' \subseteq Calls BY <2>1, <2>2, <2>3, AnswerType DEF TypeOK
    <2>5. broker' \in Stores
        <3>1. CASE c.thing \in Device BY <2>1, <2>2, <2>3, <3>1, CallParts, StoreDevice DEF TypeOK
        <3>2. CASE c.thing \in Sub BY <2>1, <2>2, <2>3, <3>2, CallParts, StoreSub DEF TypeOK
        <3> QED BY <2>1, <3>1, <3>2, CallParts DEF Thing
    <2> QED BY <1>4, <2>4, <2>5 DEF TypeOK, BrokerHandles
<1>5. ASSUME NEW c \in calls, CallFails(c) PROVE TypeOK'
    BY <1>5 DEF TypeOK, CallFails
<1>6. ASSUME NEW c \in calls, Answered(c) PROVE TypeOK'
    <2>1. c.op # "refresh" BY <1>6, CallParts DEF TypeOK, Answered
    <2> QED BY <1>6, <2>1, RecordedType DEF TypeOK, Answered, Write
<1>7. CASE CheckVersion
    <2>1. calls' \subseteq Calls BY <1>7, NewCallType DEF TypeOK, CheckVersion
    <2> QED BY <1>7, <2>1 DEF TypeOK, CheckVersion
<1>8. CASE BrokerLists BY <1>8 DEF TypeOK, BrokerLists
<1>9. CASE RestoreSubscriptions
    <2>1. calls' \subseteq Calls BY <1>9, NewCallType DEF TypeOK, RestoreSubscriptions
    <2> QED BY <1>9, <2>1 DEF TypeOK, RestoreSubscriptions
<1>10. CASE WriteDone
    <2>1. cur # <<>> /\ disk' = cur[1] /\ cur' = next /\ next' = <<>> BY <1>10 DEF WriteDone, Written
    <2>2. disk' \in Stores BY <2>1 DEF TypeOK
    <2>3. cur' # <<>> => cur'[1] \in Stores BY <2>1 DEF TypeOK
    <2> QED BY <1>10, <2>1, <2>2, <2>3 DEF TypeOK, WriteDone
<1>11. CASE BrokerEnds
    <2>1. crashes' \in Nat BY <1>11 DEF TypeOK, BrokerEnds
    <2>2. broker' \in Stores BY <1>11, EmptyType DEF BrokerEnds
    <2> QED BY <1>11, <2>1, <2>2 DEF TypeOK, BrokerEnds
<1>12. CASE BrokerStarts BY <1>12 DEF TypeOK, BrokerStarts
<1>13. CASE Restart
    <2>1. restarts' \in Nat BY <1>13 DEF TypeOK, Restart
    <2> QED BY <1>13, <2>1, StartType DEF Restart
<1>14. CASE ListFails BY <1>14, StartType DEF TypeOK, ListFails
<1>15. CASE UNCHANGED vars BY <1>15 DEF TypeOK, vars
<1> QED BY <1>1, <1>2, <1>3, <1>4, <1>5, <1>6, <1>7, <1>8, <1>9, <1>10, <1>11, <1>12, <1>13, <1>14,
           <1>15 DEF Next

\* Records, calls and the broker's state are well typed: what is stored under
\* an ID of a subscription is a subscription, and a device under its own.
THEOREM TypeCorrect == Spec => []TypeOK
<1>1. Init => TypeOK BY InitTyped
<1>2. TypeOK /\ [Next]_vars => TypeOK' BY TypeStep
<1> QED BY <1>1, <1>2, PTL DEF Spec

-----------------------------------------------------------------------------
(* Records in the file                                                     *)

\* A call that creates has a subscription's ID, which is no device.
LEMMA CreatesId ==
    ASSUME TypeOK, NEW c \in calls, Creates(c)
    PROVE  c.answer \in SubId /\ c.answer \notin Device /\ c.answer # None
BY CallParts DEF TypeOK, Creates

\* New calls that have no answer yet, and a record if they remove or replace.
LEMMA CallsAdded ==
    ASSUME TypeOK, NewIdsAreFree, RecordIsOfCall, dropped \subseteq dropped', UNCHANGED records,
           NEW N, calls' = calls \cup N,
           \A n \in N : /\ n.answer = None
                        /\ n.key = None \/ n.key \in Device \/ records[n.key] # None
                        /\ n.op \in {"renew", "delete"} => records[n.key] = n.thing
                        /\ n.op = "delete" => n.thing \in dropped'
    PROVE  NewIdsAreFree' /\ RecordIsOfCall'
<1>1. \A c \in calls' : Creates(c)' => c \in calls /\ Creates(c) BY DEF Creates
<1>2. \A c \in calls, n \in N : Creates(c) => n.key # c.answer
    BY CreatesId DEF NewIdsAreFree
<1>3. NewIdsAreFree' BY <1>1, <1>2 DEF NewIdsAreFree
<1>4. RecordIsOfCall' BY DEF RecordIsOfCall
<1> QED BY <1>3, <1>4

LEMMA CallsRemoved ==
    ASSUME NewIdsAreFree, RecordIsOfCall, calls' \subseteq calls, UNCHANGED <<records, dropped>>
    PROVE  NewIdsAreFree' /\ RecordIsOfCall'
BY DEF NewIdsAreFree, RecordIsOfCall, Creates

\* What the broker's answer does to the calls.
LEMMA CallHandled ==
    ASSUME TypeOK, NewIdsAreFree, RecordIsOfCall, NEW c \in calls, BrokerHandles(c)
    PROVE  NewIdsAreFree' /\ RecordIsOfCall'
<1>1. PICK k \in (IF c.op # "delete" /\ c.thing \in Sub THEN NewIds ELSE {c.key}) :
          calls' = (calls \ {c}) \cup (IF c.op = "refresh" THEN {} ELSE {[c EXCEPT !.answer = k]})
    BY DEF BrokerHandles
<1> DEFINE d == [c EXCEPT !.answer = k]
<1>2. UNCHANGED <<records, dropped>> BY DEF BrokerHandles
<1>3. c \in Calls /\ calls \subseteq Calls BY DEF TypeOK
<1>4. d.op = c.op /\ d.key = c.key /\ d.thing = c.thing /\ d.answer = k BY <1>3 DEF Calls
<1>5. calls' \subseteq calls \cup {d} BY <1>1
<1> HIDE DEF d
<1>6. Creates(d)' => k \in Unused BY <1>1, <1>4 DEF Creates, NewIds
<1>7. k \in Unused => records[k] = None /\ \A e \in calls : k # e.key /\ k # e.answer BY DEF Unused
<1>8. \A e \in calls : e # d => (Creates(e)' => Creates(e)) BY DEF Creates
<1>9. \A e \in calls' : e.key \in {b.key : b \in calls} BY <1>4, <1>5
<1>10. \A e \in calls' : Creates(e)' => records[e.answer] = None /\ \A b \in calls' : b.key # e.answer
    BY <1>4, <1>5, <1>6, <1>7, <1>8, <1>9 DEF NewIdsAreFree
<1>11. \A e, b \in calls' : Creates(e)' /\ Creates(b)' /\ e # b => e.answer # b.answer
    BY <1>4, <1>5, <1>6, <1>7, <1>8 DEF NewIdsAreFree
<1>12. NewIdsAreFree' BY <1>2, <1>10, <1>11 DEF NewIdsAreFree
<1>13. RecordIsOfCall' BY <1>2, <1>4, <1>5 DEF RecordIsOfCall
<1> QED BY <1>12, <1>13

\* The records after an answer, key by key.
LEMMA RecordedAt ==
    ASSUME TypeOK, NEW c \in calls, c.answer # None
    PROVE  /\ c.op \in {"post", "renew", "delete"}
           /\ Recorded(c) \in Stores
           /\ c.op \in {"post", "renew"} => Recorded(c)[c.answer] = c.thing /\ c.answer \in Key
           /\ c.op = "renew" => c.key \in Key /\ c.thing \in Sub /\ (c.key # c.answer => Recorded(c)[c.key] = None)
           /\ c.op = "delete" => c.key \in Key /\ Recorded(c)[c.key] = None
           /\ \A k \in Key : Recorded(c)[k] = records[k]
                             \/ (k = c.answer /\ c.op \in {"post", "renew"})
                             \/ (k = c.key /\ c.op \in {"renew", "delete"} /\ Recorded(c)[k] = None)
<1>1. c \in Calls /\ records \in [Key -> Thing \cup {None}] BY DEF TypeOK, Stores, Store
<1>2. c.op \in {"post", "renew", "delete"} /\ c.answer \in Key BY <1>1, CallParts DEF Calls
<1>3. c.op \in {"renew", "delete"} => c.key \in Key BY <1>1, CallParts DEF Key, Thing
<1>4. c.op = "renew" => c.thing \in Sub BY <1>1, CallParts DEF Thing
<1>5. Recorded(c) \in Stores BY <1>2, RecordedType
<1>6. CASE c.op = "post"
    <2>1. Recorded(c) = [records EXCEPT ![c.answer] = c.thing] BY <1>6 DEF Recorded
    <2> QED BY <1>1, <1>2, <1>5, <1>6, <2>1
<1>7. CASE c.op = "renew"
    <2>1. Recorded(c) = [k \in Key |-> IF k = c.answer THEN c.thing ELSE IF k = c.key THEN None ELSE records[k]]
        BY <1>1, <1>2, <1>3, <1>7 DEF Recorded
    <2> QED BY <1>2, <1>3, <1>4, <1>5, <1>7, <2>1
<1>8. CASE c.op = "delete"
    <2>1. Recorded(c) = [records EXCEPT ![c.key] = None] BY <1>8 DEF Recorded
    <2> QED BY <1>1, <1>2, <1>3, <1>5, <1>8, <2>1
<1> QED BY <1>2, <1>6, <1>7, <1>8

\* A device's answer is itself, a subscription's one that it creates.
LEMMA AnswerOf ==
    ASSUME TypeOK, NEW c \in calls, c.answer # None, c.op \in {"post", "renew"}
    PROVE  Creates(c) \/ (c.thing \in Device /\ c.answer = c.thing /\ c.key = c.thing)
BY CallParts DEF TypeOK, Creates, Thing

LEMMA AnswerApplied ==
    ASSUME TypeOK, NewIdsAreFree, RecordIsOfCall, NEW c \in calls, Answered(c)
    PROVE  NewIdsAreFree' /\ RecordIsOfCall'
<1>1. /\ c.answer # None /\ records' = Recorded(c) /\ calls' = calls \ {c} /\ UNCHANGED dropped
    BY DEF Answered
<1>2. \A e \in calls' : Creates(e)' => Creates(e) BY <1>1 DEF Creates
<1>3. ASSUME NEW e \in calls', Creates(e) PROVE records'[e.answer] = None
    <2>1. records[e.answer] = None /\ c.key # e.answer BY <1>1, <1>3 DEF NewIdsAreFree
    <2>2. e.answer \in SubId /\ e.answer \notin Device /\ e.answer \in Key BY <1>1, <1>3, CreatesId DEF Key
    <2>3. c.op \in {"post", "renew"} => c.answer # e.answer
        BY <1>1, <1>3, <2>2, AnswerOf DEF NewIdsAreFree
    <2> QED BY <1>1, <2>1, <2>2, <2>3, RecordedAt
<1>4. NewIdsAreFree' BY <1>1, <1>2, <1>3 DEF NewIdsAreFree
<1>5. ASSUME NEW e \in calls', e.op \in {"renew", "delete"} PROVE records'[e.key] \in {e.thing, None}
    <2>1. e \in Calls /\ records[e.key] \in {e.thing, None} BY <1>1, <1>5 DEF TypeOK, RecordIsOfCall
    <2>2. e.key \in Key BY <1>5, <2>1, CallParts DEF Key, Thing
    <2>3. CASE c.op \in {"post", "renew"} /\ e.key = c.answer
        <3>1. ~Creates(c) BY <1>1, <2>3 DEF NewIdsAreFree
        <3>2. c.thing \in Device /\ c.answer = c.thing BY <1>1, <2>3, <3>1, AnswerOf
        <3>3. e.thing \notin Sub BY <1>5, <2>1, <2>3, <3>2, CallParts
        <3>4. e.thing = e.key BY <2>1, <3>3, CallParts DEF Thing
        <3> QED BY <1>1, <2>3, <3>2, <3>4, RecordedAt
    <2>4. CASE ~(c.op \in {"post", "renew"} /\ e.key = c.answer) BY <1>1, <2>1, <2>2, <2>4, RecordedAt
    <2> QED BY <2>3, <2>4
<1>6. RecordIsOfCall' BY <1>1, <1>5 DEF RecordIsOfCall
<1> QED BY <1>4, <1>6

\* No answer takes a thing from the records that nobody asked to delete.
LEMMA AnswerKeeps ==
    ASSUME KeepInv, NEW c \in calls, c.answer # None
    PROVE  Follows(records, Recorded(c))
<1> USE DEF KeepInv
<1> SUFFICES ASSUME NEW t \in Thing \ dropped, NEW k \in Key, records[k] = t
             PROVE  Has(Recorded(c), t)
    BY DEF Follows, Has
<1>1. t # None BY DEF Thing
<1>2. CASE Recorded(c)[k] = records[k] BY <1>2 DEF Has
<1>3. CASE k = c.answer /\ c.op \in {"post", "renew"}
    <2>1. ~Creates(c) BY <1>1, <1>3 DEF NewIdsAreFree
    <2>2. c.thing \in Device /\ c.answer = c.thing BY <1>3, <2>1, AnswerOf
    <2>3. t = c.thing BY <1>1, <1>3, <2>2, StoreParts DEF TypeOK
    <2> QED BY <1>3, <2>3, RecordedAt DEF Has
<1>4. CASE k = c.key /\ c.op \in {"renew", "delete"}
    <2>1. t = c.thing /\ c.op # "delete" BY <1>1, <1>4 DEF RecordIsOfCall
    <2> QED BY <1>4, <2>1, RecordedAt DEF Has
<1> QED BY <1>2, <1>3, <1>4, RecordedAt

LEMMA FollowsOn ==
    ASSUME NEW s, NEW v, NEW w, Follows(s, v), Follows(v, w)
    PROVE  Follows(s, w)
BY DEF Follows

LEMMA FileSame ==
    ASSUME FileFollows, UNCHANGED <<records, file>>, dropped \subseteq dropped'
    PROVE  FileFollows'
<1>1. UNCHANGED <<records, disk, cur, next>> BY DEF file
<1>2. \A s, w : Follows(s, w) => \A t \in Thing \ dropped' : Has(s, t) => Has(w, t) BY DEF Follows
<1> QED BY <1>1, <1>2 DEF FileFollows, Follows, Has

\* What a write does to the contents that are on their way.
LEMMA FileWrite ==
    ASSUME FileFollows, Follows(records, records'), Write(records'), UNCHANGED dropped
    PROVE  FileFollows'
<1>2. disk' = disk BY DEF Write
<1>3. Follows(disk, records') BY FollowsOn DEF FileFollows
<1>4. CASE cur = <<>>
    <2>1. cur' = <<records'>> /\ next' = <<>> BY <1>4 DEF Write, FileFollows
    <2>2. cur' # <<>> /\ cur'[1] = records' BY <2>1
    <2>3. Follows(records', records') BY DEF Follows
    <2> QED BY <1>2, <1>3, <2>1, <2>2, <2>3 DEF FileFollows, Follows, Has
<1>5. CASE cur # <<>>
    <2>1. cur' = cur /\ next' = <<records'>> BY <1>5 DEF Write
    <2>2. next' # <<>> /\ next'[1] = records' BY <2>1
    <2>3. Follows(disk, cur[1]) /\ Follows(cur[1], records') BY <1>5, FollowsOn DEF FileFollows
    <2>4. Follows(records', records') BY DEF Follows
    <2> QED BY <1>2, <1>3, <1>5, <2>1, <2>2, <2>3, <2>4 DEF FileFollows, Follows, Has
<1> QED BY <1>4, <1>5

\* The write that was under way has replaced the file.
LEMMA FileWritten ==
    ASSUME FileFollows, Written, UNCHANGED <<records, dropped>>
    PROVE  FileFollows'
<1>1. cur # <<>> /\ disk' = cur[1] /\ cur' = next /\ next' = <<>> BY DEF Written
<1>2. Follows(cur[1], records) BY <1>1 DEF FileFollows
<1>3. next # <<>> => Follows(cur[1], next[1]) /\ Follows(next[1], records) BY DEF FileFollows
<1> QED BY <1>1, <1>2, <1>3 DEF FileFollows, Follows, Has

LEMMA StartKeeps ==
    ASSUME KeepInv, Start, TypeOK'
    PROVE  KeepInv'
<1>1. calls' = {} /\ records' = disk /\ disk' = disk /\ cur' = <<>> /\ next' = <<>> BY DEF Start, WritesLost
<1>2. NewIdsAreFree' /\ RecordIsOfCall' BY <1>1 DEF NewIdsAreFree, RecordIsOfCall
<1>3. FileFollows' BY <1>1 DEF FileFollows, Follows
<1> QED BY <1>2, <1>3 DEF KeepInv

LEMMA InitKept == Init => KeepInv
<1> SUFFICES ASSUME Init PROVE KeepInv OBVIOUS
<1>1. calls = {} /\ records = disk /\ cur = <<>> /\ next = <<>> BY DEF Init, FileInit
<1> QED BY <1>1, InitTyped DEF KeepInv, NewIdsAreFree, RecordIsOfCall, FileFollows, Follows

LEMMA KeepStep ==
    ASSUME KeepInv, [Next]_vars
    PROVE  KeepInv'
<1>0. TypeOK' BY TypeStep DEF KeepInv
<1> USE DEF KeepInv
<1> SUFFICES NewIdsAreFree' /\ RecordIsOfCall' /\ FileFollows' BY <1>0
<1>1. ASSUME NEW u \in Sub, PostSubscription(u) PROVE NewIdsAreFree' /\ RecordIsOfCall' /\ FileFollows'
    <2> DEFINE c == Call("post", None, u)
    <2>1. calls' = calls \cup {c} /\ UNCHANGED <<records, file, dropped>> BY <1>1 DEF PostSubscription, Request
    <2>2. c.answer = None /\ c.key = None /\ c.op = "post" BY DEF Call
    <2> HIDE DEF c
    <2>3. \A n \in {c} : /\ n.answer = None
                         /\ n.key = None \/ n.key \in Device \/ records[n.key] # None
                         /\ n.op \in {"renew", "delete"} => records[n.key] = n.thing
                         /\ n.op = "delete" => n.thing \in dropped'
        BY <2>1, <2>2
    <2>4. NewIdsAreFree' /\ RecordIsOfCall' BY <2>1, <2>3, CallsAdded
    <2> QED BY <2>1, <2>4, FileSame
<1>2. ASSUME NEW d \in Device, PostDevice(d) PROVE NewIdsAreFree' /\ RecordIsOfCall' /\ FileFollows'
    <2> DEFINE c == Call("post", d, d)
    <2>1. calls' = calls \cup {c} /\ UNCHANGED <<records, file, dropped>> BY <1>2 DEF PostDevice, Request
    <2>2. c.answer = None /\ c.key \in Device /\ c.op = "post" BY DEF Call
    <2> HIDE DEF c
    <2>3. \A n \in {c} : /\ n.answer = None
                         /\ n.key = None \/ n.key \in Device \/ records[n.key] # None
                         /\ n.op \in {"renew", "delete"} => records[n.key] = n.thing
                         /\ n.op = "delete" => n.thing \in dropped'
        BY <2>1, <2>2
    <2>4. NewIdsAreFree' /\ RecordIsOfCall' BY <2>1, <2>3, CallsAdded
    <2> QED BY <2>1, <2>4, FileSame
<1>3. ASSUME NEW k \in Key, Delete(k) PROVE NewIdsAreFree' /\ RecordIsOfCall' /\ FileFollows'
    <2> DEFINE c == Call("delete", k, records[k])
    <2>1. /\ calls' = calls \cup {c} /\ UNCHANGED <<records, file>>
          /\ records[k] # None /\ dropped' = dropped \cup {records[k]}
        BY <1>3 DEF Delete, Request
    <2>2. c.answer = None /\ c.key = k /\ c.op = "delete" /\ c.thing = records[k] BY DEF Call
    <2> HIDE DEF c
    <2>3. \A n \in {c} : /\ n.answer = None
                         /\ n.key = None \/ n.key \in Device \/ records[n.key] # None
                         /\ n.op \in {"renew", "delete"} => records[n.key] = n.thing
                         /\ n.op = "delete" => n.thing \in dropped'
        BY <2>1, <2>2
    <2>4. NewIdsAreFree' /\ RecordIsOfCall' BY <2>1, <2>3, CallsAdded
    <2> QED BY <2>1, <2>4, FileSame
<1>4. ASSUME NEW c \in calls, BrokerHandles(c) PROVE NewIdsAreFree' /\ RecordIsOfCall' /\ FileFollows'
    BY <1>4, CallHandled, FileSame DEF BrokerHandles
<1>5. ASSUME NEW c \in calls, CallFails(c) PROVE NewIdsAreFree' /\ RecordIsOfCall' /\ FileFollows'
    <2>1. calls' \subseteq calls /\ UNCHANGED <<records, file, dropped>> BY <1>5 DEF CallFails
    <2> QED BY <2>1, CallsRemoved, FileSame
<1>6. ASSUME NEW c \in calls, Answered(c) PROVE NewIdsAreFree' /\ RecordIsOfCall' /\ FileFollows'
    <2>1. c.answer # None /\ records' = Recorded(c) /\ Write(records') /\ UNCHANGED dropped BY <1>6 DEF Answered
    <2>2. Follows(records, records') BY <2>1, AnswerKeeps
    <2> QED BY <1>6, <2>1, <2>2, AnswerApplied, FileWrite
<1>7. CASE CheckVersion
    <2> DEFINE N == IF up THEN {Call("refresh", d, d) : d \in {x \in Device : records[x] # None}} ELSE {}
    <2>1. calls' = calls \cup N /\ UNCHANGED <<records, file, dropped>> BY <1>7 DEF CheckVersion
    <2>2. \A n \in N : n.answer = None /\ n.key \in Device /\ n.op = "refresh" BY DEF Call
    <2> HIDE DEF N
    <2>3. NewIdsAreFree' /\ RecordIsOfCall' BY <2>1, <2>2, CallsAdded
    <2> QED BY <2>1, <2>3, FileSame
<1>8. CASE BrokerLists
    <2>1. calls' \subseteq calls /\ UNCHANGED <<records, file, dropped>> BY <1>8 DEF BrokerLists
    <2> QED BY <2>1, CallsRemoved, FileSame
<1>9. CASE RestoreSubscriptions
    <2> DEFINE N == {Call("renew", k, records[k]) : k \in {x \in SubId \ listed : records[x] # None}}
    <2>1. calls' = calls \cup N /\ UNCHANGED <<records, file, dropped>> BY <1>9 DEF RestoreSubscriptions
    <2>2. \A n \in N : n.answer = None /\ records[n.key] # None /\ n.op = "renew" /\ records[n.key] = n.thing
        BY DEF Call
    <2> HIDE DEF N
    <2>3. NewIdsAreFree' /\ RecordIsOfCall' BY <2>1, <2>2, CallsAdded
    <2> QED BY <2>1, <2>3, FileSame
<1>10. CASE WriteDone
    <2>1. calls' \subseteq calls /\ UNCHANGED <<records, dropped>> /\ Written BY <1>10 DEF WriteDone
    <2> QED BY <2>1, CallsRemoved, FileWritten
<1>11. CASE BrokerEnds
    <2>1. calls' \subseteq calls /\ UNCHANGED <<records, file, dropped>> BY <1>11 DEF BrokerEnds
    <2> QED BY <2>1, CallsRemoved, FileSame
<1>12. CASE BrokerStarts
    <2>1. calls' \subseteq calls /\ UNCHANGED <<records, file, dropped>> BY <1>12 DEF BrokerStarts
    <2> QED BY <2>1, CallsRemoved, FileSame
<1>13. CASE Restart BY <1>0, <1>13, StartKeeps DEF Restart
<1>14. CASE ListFails BY <1>0, <1>14, StartKeeps DEF ListFails
<1>15. CASE UNCHANGED vars
    <2>1. calls' \subseteq calls /\ UNCHANGED <<records, file, dropped>> BY <1>15 DEF vars
    <2> QED BY <2>1, CallsRemoved, FileSame
<1> QED BY <1>1, <1>2, <1>3, <1>4, <1>5, <1>6, <1>7, <1>8, <1>9, <1>10, <1>11, <1>12, <1>13, <1>14,
           <1>15 DEF Next

\* The file changes only when a write ends.
LEMMA FileStep ==
    ASSUME [Next]_vars
    PROVE  disk' = disk \/ (Written /\ UNCHANGED dropped)
BY DEF Next, vars, file, Request, PostSubscription, PostDevice, Delete, BrokerHandles, CallFails, Answered, Write,
       CheckVersion, BrokerLists, RestoreSubscriptions, WriteDone, BrokerEnds, BrokerStarts, Start, WritesLost,
       Restart, ListFails

\* What the database file holds stays in it until a user deletes it, whatever
\* calls fail and processes end while a restore replaces the records.
THEOREM RecordsAreKept == Spec => FileKeepsRecords
<1>1. KeepInv /\ [Next]_vars => [\A t \in Thing \ dropped' : Has(disk, t) => Has(disk', t)]_vars
    <2> SUFFICES ASSUME KeepInv, [Next]_vars, NEW t \in Thing \ dropped', Has(disk, t)
                 PROVE  Has(disk', t)
        OBVIOUS
    <2>1. CASE disk' = disk BY <2>1
    <2>2. CASE Written /\ UNCHANGED dropped
        BY <2>2 DEF Written, KeepInv, FileFollows, Follows
    <2> QED BY <2>1, <2>2, FileStep
<1>2. KeepInv /\ [Next]_vars => KeepInv' BY KeepStep
<1> QED BY <1>1, <1>2, InitKept, PTL DEF Spec, FileKeepsRecords

-----------------------------------------------------------------------------
(* Records and the broker                                                  *)

LEMMA IdsSame ==
    ASSUME IdsAgree, UNCHANGED <<records, file, broker, up>>, \A c \in calls' : c.answer # None => c \in calls
    PROVE  IdsAgree'
<1>1. \A c \in calls' : Creates(c)' => c \in calls /\ Creates(c) BY DEF Creates
<1>2. UNCHANGED <<disk, cur, next>> BY DEF file
<1> QED BY <1>1, <1>2 DEF IdsAgree, Agrees

\* What a call changes at the broker, and among the calls.
LEMMA Handled ==
    ASSUME TypeOK, NEW c \in calls, BrokerHandles(c)
    PROVE  \E k \in Key : \E d :
              /\ d.op = c.op /\ d.key = c.key /\ d.thing = c.thing /\ d.answer = k
              /\ calls' = (calls \ {c}) \cup (IF c.op = "refresh" THEN {} ELSE {d})
              /\ \A n \in Key : n # k => broker'[n] = broker[n]
              /\ c.op # "delete" => broker'[k] = c.thing
              /\ c.op = "delete" => broker'[k] = None
              /\ \/ c.op # "delete" /\ c.thing \in Sub /\ k \in Unused
                 \/ c.op = "delete" /\ c.thing \in Sub /\ k = c.key /\ k \in SubId
                 \/ k = c.key /\ k \in Device /\ c.thing \in Device
<1>1. PICK k \in (IF c.op # "delete" /\ c.thing \in Sub THEN NewIds ELSE {c.key}) :
          /\ broker' = [broker EXCEPT ![k] = IF c.op = "delete" THEN None ELSE c.thing]
          /\ calls' = (calls \ {c}) \cup (IF c.op = "refresh" THEN {} ELSE {[c EXCEPT !.answer = k]})
    BY DEF BrokerHandles
<1>2. c \in Calls /\ broker \in [Key -> Thing \cup {None}] BY DEF TypeOK, Stores, Store
<1>3. \/ c.op # "delete" /\ c.thing \in Sub /\ k \in Unused
      \/ c.op = "delete" /\ c.thing \in Sub /\ k = c.key /\ k \in SubId
      \/ k = c.key /\ k \in Device /\ c.thing \in Device
    BY <1>2, CallParts DEF NewIds, Thing
<1>4. k \in Key BY <1>3 DEF Unused, Key
<1> DEFINE d == [c EXCEPT !.answer = k]
<1>5. d.op = c.op /\ d.key = c.key /\ d.thing = c.thing /\ d.answer = k BY <1>2 DEF Calls
<1>6. \A n \in Key : n # k => broker'[n] = broker[n] BY <1>1, <1>2
<1>7. broker'[k] = IF c.op = "delete" THEN None ELSE c.thing BY <1>1, <1>2, <1>4
<1>8. calls' = (calls \ {c}) \cup (IF c.op = "refresh" THEN {} ELSE {d}) BY <1>1
<1> HIDE DEF d
<1> QED BY <1>3, <1>4, <1>5, <1>6, <1>7, <1>8

\* The broker's new ID is in no record, and a removed one in no new call.
LEMMA IdsHandled ==
    ASSUME KeepInv, IdsAgree, NEW c \in calls, BrokerHandles(c)
    PROVE  IdsAgree'
<1> USE DEF KeepInv
<1>1. PICK k \in Key : \E d :
              /\ d.op = c.op /\ d.key = c.key /\ d.thing = c.thing /\ d.answer = k
              /\ calls' = (calls \ {c}) \cup (IF c.op = "refresh" THEN {} ELSE {d})
              /\ \A n \in Key : n # k => broker'[n] = broker[n]
              /\ c.op # "delete" => broker'[k] = c.thing
              /\ c.op = "delete" => broker'[k] = None
              /\ \/ c.op # "delete" /\ c.thing \in Sub /\ k \in Unused
                 \/ c.op = "delete" /\ c.thing \in Sub /\ k = c.key /\ k \in SubId
                 \/ k = c.key /\ k \in Device /\ c.thing \in Device
    BY Handled
<1>2. PICK d :
              /\ d.op = c.op /\ d.key = c.key /\ d.thing = c.thing /\ d.answer = k
              /\ calls' = (calls \ {c}) \cup (IF c.op = "refresh" THEN {} ELSE {d})
    BY <1>1
<1>3. up /\ UNCHANGED <<records, disk, cur, next, up>> BY DEF BrokerHandles, file
<1>4. ASSUME NEW s, Agrees(s), k \in Unused => s[k] = None
      PROVE  \A n \in SubId : s[n] # None /\ broker'[n] # None => s[n] = broker'[n]
    BY <1>1, <1>4 DEF Agrees, Key
<1>5. k \in Unused => /\ records[k] = None /\ disk[k] = None
                      /\ cur # <<>> => cur[1][k] = None
                      /\ next # <<>> => next[1][k] = None
                      /\ \A e \in calls : k # e.answer
    BY DEF Unused
<1>6. ASSUME NEW e \in calls', Creates(e)' PROVE broker'[e.answer] = e.thing
    <2>1. CASE e = d
        <3>1. d.op \in {"post", "renew"} /\ d.thing \in Sub BY <1>6, <2>1 DEF Creates
        <3> QED BY <1>1, <1>2, <2>1, <3>1
    <2>2. CASE e # d
        <3>1. e \in calls /\ Creates(e) BY <1>2, <1>6, <2>2 DEF Creates
        <3>2. e.answer \in SubId /\ e.answer \notin Device BY <3>1, CreatesId
        <3>3. c.key # e.answer BY <3>1 DEF NewIdsAreFree
        <3>4. e.answer # k BY <1>1, <1>5, <3>1, <3>2, <3>3
        <3>5. broker[e.answer] = e.thing BY <1>3, <3>1 DEF IdsAgree
        <3> QED BY <1>1, <3>2, <3>4, <3>5 DEF Key
    <2> QED BY <2>1, <2>2
<1>7. \A n \in SubId : records[n] # None /\ broker'[n] # None => records[n] = broker'[n] BY <1>4, <1>5 DEF IdsAgree
<1>8. \A n \in SubId : disk[n] # None /\ broker'[n] # None => disk[n] = broker'[n] BY <1>4, <1>5 DEF IdsAgree
<1>9. cur # <<>> => \A n \in SubId : cur[1][n] # None /\ broker'[n] # None => cur[1][n] = broker'[n]
    BY <1>4, <1>5 DEF IdsAgree
<1>10. next # <<>> => \A n \in SubId : next[1][n] # None /\ broker'[n] # None => next[1][n] = broker'[n]
    BY <1>4, <1>5 DEF IdsAgree
<1> QED BY <1>3, <1>6, <1>7, <1>8, <1>9, <1>10 DEF IdsAgree, Agrees

\* A record with a new ID is of what the broker knows by that ID.
LEMMA IdsAnswered ==
    ASSUME KeepInv, IdsAgree, NEW c \in calls, Answered(c)
    PROVE  IdsAgree'
<1> USE DEF KeepInv
<1>1. /\ c.answer # None /\ records' = Recorded(c) /\ calls' \subseteq calls /\ Write(records')
      /\ UNCHANGED <<broker, up>>
    BY DEF Answered
<1>2. \A e \in calls' : Creates(e)' => Creates(e) BY <1>1 DEF Creates
<1>3. ASSUME NEW n \in SubId, records'[n] # None, broker[n] # None PROVE records'[n] = broker[n]
    <2>1. n \in Key BY DEF Key
    <2>2. up
        <3>1. ~up => broker[n] = None BY <2>1 DEF IdsAgree, Empty
        <3> QED BY <1>3, <3>1
    <2>3. CASE records'[n] = records[n] BY <1>3, <2>3 DEF IdsAgree, Agrees
    <2>4. CASE n = c.answer /\ c.op \in {"post", "renew"}
        <3>1. Creates(c) BY <1>1, <2>4, AnswerOf
        <3> QED BY <1>1, <2>2, <2>4, <3>1, RecordedAt DEF IdsAgree
    <2> QED BY <1>1, <1>3, <2>1, <2>3, <2>4, RecordedAt
<1>4. Agrees(records)' BY <1>1, <1>3 DEF Agrees
<1>5. Agrees(disk)' BY <1>1 DEF IdsAgree, Agrees, Write
<1>6. (cur # <<>> => Agrees(cur[1]))'
    <2>1. cur' = <<records'>> => cur'[1] = records' OBVIOUS
    <2>2. cur' = <<records'>> \/ (cur # <<>> /\ cur' = cur) BY <1>1 DEF Write
    <2> QED BY <1>1, <1>4, <2>1, <2>2 DEF IdsAgree, Agrees
<1>7. (next # <<>> => Agrees(next[1]))'
    <2>1. next' = <<records'>> => next'[1] = records' OBVIOUS
    <2>2. next' = <<records'>> \/ next' = next BY <1>1 DEF Write
    <2> QED BY <1>1, <1>4, <2>1, <2>2 DEF IdsAgree, Agrees
<1>8. (~up => broker = Empty)' BY <1>1 DEF IdsAgree, Empty
<1> QED BY <1>1, <1>2, <1>4, <1>5, <1>6, <1>7, <1>8 DEF IdsAgree

LEMMA IdsStarted ==
    ASSUME IdsAgree, Start
    PROVE  IdsAgree'
<1>1. calls' = {} /\ records' = disk /\ disk' = disk /\ cur' = <<>> /\ next' = <<>> /\ UNCHANGED <<broker, up>>
    BY DEF Start, WritesLost
<1> QED BY <1>1 DEF IdsAgree, Agrees, Empty

LEMMA IdsStep ==
    ASSUME KeepInv, IdsAgree, [Next]_vars
    PROVE  IdsAgree'
<1>1. ASSUME NEW u \in Sub, PostSubscription(u) PROVE IdsAgree'
    <2>1. UNCHANGED <<records, file, broker, up>> /\ calls' = calls \cup {Call("post", None, u)}
        BY <1>1 DEF PostSubscription, Request
    <2> QED BY <2>1, IdsSame DEF Call
<1>2. ASSUME NEW d \in Device, PostDevice(d) PROVE IdsAgree'
    <2>1. UNCHANGED <<records, file, broker, up>> /\ calls' = calls \cup {Call("post", d, d)}
        BY <1>2 DEF PostDevice, Request
    <2> QED BY <2>1, IdsSame DEF Call
<1>3. ASSUME NEW k \in Key, Delete(k) PROVE IdsAgree'
    <2>1. UNCHANGED <<records, file, broker, up>> /\ calls' = calls \cup {Call("delete", k, records[k])}
        BY <1>3 DEF Delete, Request
    <2> QED BY <2>1, IdsSame DEF Call
<1>4. ASSUME NEW c \in calls, BrokerHandles(c) PROVE IdsAgree' BY <1>4, IdsHandled
<1>5. ASSUME NEW c \in calls, CallFails(c) PROVE IdsAgree' BY <1>5, IdsSame DEF CallFails
<1>6. ASSUME NEW c \in calls, Answered(c) PROVE IdsAgree' BY <1>6, IdsAnswered
<1>7. CASE CheckVersion
    <2>1. UNCHANGED <<records, file, broker, up>> BY <1>7 DEF CheckVersion
    <2>2. \A c \in calls' : c.answer # None => c \in calls BY <1>7 DEF CheckVersion, Call
    <2> QED BY <2>1, <2>2, IdsSame
<1>8. CASE BrokerLists BY <1>8, IdsSame DEF BrokerLists
<1>9. CASE RestoreSubscriptions
    <2>1. UNCHANGED <<records, file, broker, up>> BY <1>9 DEF RestoreSubscriptions
    <2>2. \A c \in calls' : c.answer # None => c \in calls BY <1>9 DEF RestoreSubscriptions, Call
    <2> QED BY <2>1, <2>2, IdsSame
<1>10. CASE WriteDone
    <2>1. /\ cur # <<>> /\ disk' = cur[1] /\ cur' = next /\ next' = <<>>
          /\ UNCHANGED <<records, calls, broker, up>>
        BY <1>10 DEF WriteDone, Written
    <2> QED BY <2>1 DEF IdsAgree, Agrees, Empty, Creates
<1>11. CASE BrokerEnds
    <2>1. ~up' /\ broker' = Empty BY <1>11 DEF BrokerEnds
    <2>2. \A n \in SubId : broker'[n] = None BY <2>1 DEF Empty, Key
    <2> QED BY <2>1, <2>2 DEF IdsAgree, Agrees, Empty
<1>12. CASE BrokerStarts
    <2>1. /\ up' /\ UNCHANGED <<records, disk, cur, next, broker, calls>>
          /\ \A c \in calls' : c.answer = None
        BY <1>12 DEF BrokerStarts, file
    <2>2. \A c \in calls' : ~Creates(c)' BY <2>1 DEF Creates
    <2> QED BY <2>1, <2>2 DEF IdsAgree, Agrees
<1>13. CASE Restart BY <1>13, IdsStarted DEF Restart
<1>14. CASE ListFails BY <1>14, IdsStarted DEF ListFails
<1>15. CASE UNCHANGED vars BY <1>15, IdsSame DEF vars
<1> QED BY <1>1, <1>2, <1>3, <1>4, <1>5, <1>6, <1>7, <1>8, <1>9, <1>10, <1>11, <1>12, <1>13, <1>14,
           <1>15 DEF Next

\* Steps that leave the records and the broker alone, and take no call away.
LEMMA ListSame ==
    ASSUME ListIsCurrent, UNCHANGED <<records, broker, up, restore, listed, current>>, calls \subseteq calls'
    PROVE  ListIsCurrent'
BY DEF ListIsCurrent, Settled

LEMMA ListHandled ==
    ASSUME KeepInv, ListIsCurrent, NEW c \in calls, BrokerHandles(c)
    PROVE  ListIsCurrent'
<1> USE DEF KeepInv
<1>1. PICK k \in Key : \E d :
              /\ d.op = c.op /\ d.key = c.key /\ d.thing = c.thing /\ d.answer = k
              /\ calls' = (calls \ {c}) \cup (IF c.op = "refresh" THEN {} ELSE {d})
              /\ \A n \in Key : n # k => broker'[n] = broker[n]
              /\ c.op # "delete" => broker'[k] = c.thing
              /\ c.op = "delete" => broker'[k] = None
              /\ \/ c.op # "delete" /\ c.thing \in Sub /\ k \in Unused
                 \/ c.op = "delete" /\ c.thing \in Sub /\ k = c.key /\ k \in SubId
                 \/ k = c.key /\ k \in Device /\ c.thing \in Device
    BY Handled
<1>2. PICK d :
              /\ d.op = c.op /\ d.key = c.key /\ d.thing = c.thing /\ d.answer = k
              /\ calls' = (calls \ {c}) \cup (IF c.op = "refresh" THEN {} ELSE {d})
    BY <1>1
<1>3. c.answer = None /\ UNCHANGED <<records, up, restore, listed, current>> BY DEF BrokerHandles, Open
<1>4. k \in SubId => k # None OBVIOUS
<1> SUFFICES ASSUME current, NEW n \in SubId, records[n] # None PROVE Settled(n)'
    BY <1>3 DEF ListIsCurrent
<1>5. Settled(n) /\ n \in Key BY DEF ListIsCurrent, Key
<1>6. CASE broker[n] = records[n]
    <2>1. CASE n # k BY <1>1, <1>3, <1>5, <1>6, <2>1 DEF Settled
    <2>2. CASE n = k
        <3>1. c.op = "delete" /\ k = c.key BY <1>1, <2>2 DEF Unused
        <3>2. d \in calls' /\ d.key = n /\ d.op = "delete" /\ d.answer # None BY <1>2, <1>4, <2>2, <3>1
        <3> QED BY <3>2 DEF Settled
    <2> QED BY <2>1, <2>2
<1>7. CASE \E e \in calls : e.key = n /\ (e.op = "renew" \/ (e.op = "delete" /\ e.answer # None))
    <2>1. PICK e \in calls : e.key = n /\ (e.op = "renew" \/ (e.op = "delete" /\ e.answer # None)) BY <1>7
    <2>2. CASE e # c BY <1>2, <2>1, <2>2 DEF Settled
    <2>3. CASE e = c
        <3>1. d \in calls' /\ d.key = n /\ d.op = "renew" BY <1>2, <1>3, <2>1, <2>3
        <3> QED BY <3>1 DEF Settled
    <2> QED BY <2>2, <2>3
<1>8. CASE restore = "listed" /\ n \notin listed BY <1>3, <1>8 DEF Settled
<1> QED BY <1>5, <1>6, <1>7, <1>8 DEF Settled

LEMMA ListAnswered ==
    ASSUME KeepInv, IdsAgree, ListIsCurrent, NEW c \in calls, Answered(c)
    PROVE  ListIsCurrent'
<1> USE DEF KeepInv
<1>1. /\ c.answer # None /\ records' = Recorded(c) /\ calls' = calls \ {c}
      /\ UNCHANGED <<broker, up, restore, listed, current>>
    BY DEF Answered
<1> SUFFICES ASSUME current, NEW n \in SubId, records'[n] # None PROVE Settled(n)'
    BY <1>1 DEF ListIsCurrent
<1>2. up /\ n \in Key /\ n \notin Device BY DEF ListIsCurrent, Key
<1>3. CASE n = c.answer /\ c.op \in {"post", "renew"}
    <2>1. Creates(c) BY <1>1, <1>2, <1>3, AnswerOf
    <2>2. broker[n] = c.thing BY <1>2, <1>3, <2>1 DEF IdsAgree
    <2> QED BY <1>1, <1>3, <2>2, RecordedAt DEF Settled
<1>4. CASE ~(n = c.answer /\ c.op \in {"post", "renew"})
    <2>1. /\ records'[n] = records[n]
          /\ ~(n = c.key /\ c.op \in {"renew", "delete"})
        BY <1>1, <1>2, <1>4, RecordedAt
    <2>2. Settled(n) BY <2>1 DEF ListIsCurrent
    <2> QED BY <1>1, <2>1, <2>2 DEF Settled
<1> QED BY <1>3, <1>4

LEMMA ListStep ==
    ASSUME KeepInv, IdsAgree, ListIsCurrent, [Next]_vars
    PROVE  ListIsCurrent'
<1>1. ASSUME NEW u \in Sub, PostSubscription(u) PROVE ListIsCurrent'
    BY <1>1, ListSame DEF PostSubscription, Request
<1>2. ASSUME NEW d \in Device, PostDevice(d) PROVE ListIsCurrent'
    BY <1>2, ListSame DEF PostDevice, Request
<1>3. ASSUME NEW k \in Key, Delete(k) PROVE ListIsCurrent'
    BY <1>3, ListSame DEF Delete, Request
<1>4. ASSUME NEW c \in calls, BrokerHandles(c) PROVE ListIsCurrent' BY <1>4, ListHandled
<1>5. ASSUME NEW c \in calls, CallFails(c) PROVE ListIsCurrent' BY <1>5 DEF CallFails, ListIsCurrent
<1>6. ASSUME NEW c \in calls, Answered(c) PROVE ListIsCurrent' BY <1>6, ListAnswered
<1>7. CASE CheckVersion BY <1>7 DEF CheckVersion, ListIsCurrent
<1>8. CASE BrokerLists
    <2>1. /\ restore' = "listed" /\ listed' = {k \in SubId : broker[k] # None}
          /\ up /\ UNCHANGED <<records, broker, up>>
        BY <1>8 DEF BrokerLists
    <2>2. \A k \in SubId : records[k] # None => Settled(k)' BY <2>1 DEF IdsAgree, Agrees, Settled
    <2> QED BY <2>1, <2>2 DEF ListIsCurrent
<1>9. CASE RestoreSubscriptions
    <2>1. /\ restore = "listed" /\ restore' = "done" /\ calls \subseteq calls'
          /\ UNCHANGED <<records, broker, up, current>>
        BY <1>9 DEF RestoreSubscriptions
    <2>2. ASSUME NEW k \in SubId \ listed, records[k] # None
          PROVE  \E c \in calls' : c.key = k /\ c.op = "renew"
        <3>1. Call("renew", k, records[k]) \in calls' BY <1>9, <2>2 DEF RestoreSubscriptions
        <3> QED BY <3>1 DEF Call
    <2>3. ASSUME NEW k \in SubId, records[k] # None, Settled(k) PROVE Settled(k)'
        BY <2>1, <2>2, <2>3 DEF Settled
    <2> QED BY <2>1, <2>3 DEF ListIsCurrent
<1>10. CASE WriteDone BY <1>10, ListSame DEF WriteDone
<1>11. CASE BrokerEnds BY <1>11 DEF BrokerEnds, ListIsCurrent
<1>12. CASE BrokerStarts BY <1>12 DEF BrokerStarts, ListIsCurrent
<1>13. CASE Restart BY <1>13 DEF Restart, Start, ListIsCurrent
<1>14. CASE ListFails BY <1>14 DEF ListFails, Start, ListIsCurrent
<1>15. CASE UNCHANGED vars BY <1>15, ListSame DEF vars
<1> QED BY <1>1, <1>2, <1>3, <1>4, <1>5, <1>6, <1>7, <1>8, <1>9, <1>10, <1>11, <1>12, <1>13, <1>14,
           <1>15 DEF Next

\* Once a restore has ended, every recorded subscription is one of the broker
\* under its recorded ID, whatever users asked for while it went on.
THEOREM RestoredIsSubscribed == Spec => []RecordedIsSubscribed
<1>1. Init => SubsInv
    <2> SUFFICES ASSUME Init PROVE SubsInv OBVIOUS
    <2>1. /\ broker = Empty /\ calls = {} /\ ~current /\ cur = <<>> /\ next = <<>>
          /\ records = Empty /\ disk = Empty
        BY DEF Init, FileInit
    <2> QED BY <2>1, InitKept DEF SubsInv, IdsAgree, Agrees, ListIsCurrent
<1>2. SubsInv /\ [Next]_vars => SubsInv' BY KeepStep, IdsStep, ListStep DEF SubsInv
<1>3. SubsInv => RecordedIsSubscribed
    BY DEF SubsInv, ListIsCurrent, Settled, RecordedIsSubscribed
<1> QED BY <1>1, <1>2, <1>3, PTL DEF Spec
=============================================================================
