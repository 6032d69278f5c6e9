--------------------------- MODULE DesignerProofs ---------------------------
(***************************************************************************)
(* Theorems about Designer: its type invariant; that a request that was    *)
(* answered with 200 is kept over restarts; and that what the master was   *)
(* told last agrees with what is stored.  The second one needs an          *)
(* invariant that relates the memory, the write in progress, the one that  *)
(* waits, and the file to what the handlers that wait will vouch for.  The *)
(* third one follows the last message about each intent through the queue, *)
(* the wire and the restarts (WordsInv).                                   *)
(***************************************************************************)
EXTENDS Designer, SequenceTheorems, TLAPS

-----------------------------------------------------------------------------
(* Types                                                                   *)

LEMMA ObjId == ASSUME NEW o \in Obj PROVE IdOf(o) \in Id
BY DEF Obj, IdOf

LEMMA StoredObj ==
    ASSUME db \in Store, NEW k \in Key, db[k] # Absent
    PROVE  db[k].obj \in Obj /\ db[k].status \in {"enabled", "disabled"}
BY DEF Store, Entry

LEMMA MessageType ==
    ASSUME NEW ids \in SUBSET Id, ids # {}, NEW a \in Action
    PROVE  Message(ids, a) \in Messages
BY DEF Message, Messages

LEMMA MessageParts ==
    ASSUME NEW m \in Messages
    PROVE  m.ids \in SUBSET Id /\ m.ids # {} /\ m.act \in Action
BY DEF Messages

LEMMA PublishType ==
    ASSUME TypeOK, NEW o \in Obj, NEW a \in Action, Publish(o, a)
    PROVE  /\ action' \in [Obj -> Action]
           /\ wire' \in Seq(Messages)
           /\ pendingMessages' \in Seq(Obj)
           /\ overtaken' \subseteq Id /\ crossed' \subseteq Id
           /\ isReady' \in BOOLEAN /\ isConnecting' \in BOOLEAN /\ reconnectTimer' \in BOOLEAN
           /\ loaded' \in BOOLEAN /\ draining' \in BOOLEAN
<1> USE DEF TypeOK, Publish
<1>1. IdOf(o) \in Id BY ObjId
<1>2. Message({IdOf(o)}, a) \in Messages BY <1>1, MessageType
<1>3. action' \in [Obj -> Action] OBVIOUS
<1>4. wire' \in Seq(Messages) BY <1>2
<1>5. pendingMessages' \in Seq(Obj) OBVIOUS
<1>6. overtaken' \subseteq Id /\ crossed' \subseteq Id BY <1>1
<1>7. isConnecting' \in BOOLEAN BY Zenon
<1> QED BY <1>3, <1>4, <1>5, <1>6, <1>7

LEMMA TextsType ==
    ASSUME action \in [Obj -> Action], NEW s \in Seq(Obj)
    PROVE  Texts(s) \in Seq(Messages)
<1>1. \A n \in DOMAIN s : s[n] \in Obj OBVIOUS
<1>2. \A n \in DOMAIN s : Message({IdOf(s[n])}, action[s[n]]) \in Messages
    BY <1>1, ObjId, MessageType
<1>3. DOMAIN s = 1..Len(s) /\ Len(s) \in Nat OBVIOUS
<1>4. Texts(s) \in [1..Len(s) -> Messages] BY <1>2, <1>3 DEF Texts, TextsBy
<1>5. Seq(Messages) = UNION {[1..n -> Messages] : n \in Nat} BY SeqDef
<1> QED BY <1>3, <1>4, <1>5

LEMMA FlushType ==
    ASSUME action \in [Obj -> Action],
           NEW w \in Seq(Messages),
           NEW s \in Seq(Obj), Flush(w, s)
    PROVE  /\ wire' \in Seq(Messages)
           /\ pendingMessages' \in Seq(Obj)
           /\ draining' \in BOOLEAN
<1>1. CASE wire' = w \o Texts(s) /\ pendingMessages' = <<>> /\ draining' = FALSE
    BY <1>1, TextsType, ConcatProperties, EmptySeq
<1>2. CASE /\ \E k \in DOMAIN s : /\ wire' = w \o Texts(SubSeq(s, 1, k))
                                  /\ pendingMessages' = SubSeq(s, k, Len(s))
           /\ draining' = TRUE
    <2>1. PICK k \in DOMAIN s : /\ wire' = w \o Texts(SubSeq(s, 1, k))
                                /\ pendingMessages' = SubSeq(s, k, Len(s))
        BY <1>2
    <2>2. k \in 1..Len(s) /\ Len(s) \in Nat OBVIOUS
    <2>3. SubSeq(s, 1, k) \in Seq(Obj) /\ SubSeq(s, k, Len(s)) \in Seq(Obj) BY <2>2
    <2>4. Texts(SubSeq(s, 1, k)) \in Seq(Messages) BY <2>3, TextsType
    <2> QED BY <1>2, <2>1, <2>3, <2>4, ConcatProperties
<1> QED BY <1>1, <1>2 DEF Flush

LEMMA PromotedType ==
    ASSUME NEW h \in Handler
    PROVE  /\ Promoted(h) \in Handler
           /\ Promoted(h).op = h.op /\ Promoted(h).obj = h.obj
           /\ Promoted(h).key = h.key /\ Promoted(h).makes = h.makes /\ Promoted(h).last = h.last
           /\ Promoted(h).at = IF h.at = "next" THEN "cur" ELSE "done"
BY DEF Handler, Promoted

LEMMA SupersededType ==
    ASSUME NEW h \in Handler, NEW k \in Key
    PROVE  /\ Superseded(h, k) \in Handler
           /\ Superseded(h, k).op = h.op /\ Superseded(h, k).obj = h.obj
           /\ Superseded(h, k).key = h.key /\ Superseded(h, k).makes = h.makes
           /\ Superseded(h, k).at = h.at
           /\ Superseded(h, k).last <=> (h.last /\ h.key # k)
<1>1. (h.last /\ h.key # k) \in BOOLEAN BY Zenon
<1> QED BY <1>1 DEF Handler, Superseded

LEMMA ChangeType ==
    ASSUME TypeOK, NEW op \in {"post", "end"}, NEW k \in Key, NEW o \in Obj,
           NEW status \in Status, Change(op, k, o, status)
    PROVE  /\ db' \in Store /\ disk' \in Store
           /\ cur' = <<>> \/ (Len(cur') = 1 /\ cur'[1] \in Store)
           /\ next' = <<>> \/ (Len(next') = 1 /\ next'[1] \in Store)
           /\ \A h \in handlers' : h \in Handler
           /\ heard' \in [Id -> Action \cup {"none"}]
           /\ dropped' \in [Id -> {"no", "break", "restart"}]
           /\ promised' \in [Key -> Status \cup {"open"}]
           /\ requests' \in Nat /\ breaks' \in Nat /\ restarts' \in Nat
<1> USE DEF TypeOK, Change
<1>1. (IF status = "absent" THEN Absent ELSE [obj |-> o, status |-> status]) \in Entry
    BY DEF Entry, Status
<1>2. db' \in Store BY <1>1 DEF Store
<1>3. Len(<<db'>>) = 1 /\ <<db'>>[1] = db' OBVIOUS
<1>4. /\ disk' \in Store
      /\ cur' = <<>> \/ (Len(cur') = 1 /\ cur'[1] \in Store)
      /\ next' = <<>> \/ (Len(next') = 1 /\ next'[1] \in Store)
    BY <1>2, <1>3 DEF Write
<1>5. \A h \in handlers' : h \in Handler
    <2>1. \A h \in handlers : Superseded(h, k) \in Handler BY SupersededType
    <2>2. [op |-> op, key |-> k, obj |-> o, makes |-> status, last |-> TRUE,
           at |-> IF cur = <<>> THEN "cur" ELSE "next"] \in Handler
        BY DEF Handler
    <2> QED BY <2>1, <2>2 DEF Await
<1>6. promised' \in [Key -> Status \cup {"open"}] OBVIOUS
<1>7. requests' \in Nat OBVIOUS
<1> QED BY <1>2, <1>4, <1>5, <1>6, <1>7

LEMMA PublishAndChangeType ==
    ASSUME TypeOK, NEW k \in Key, NEW o \in Obj, NEW a \in Action, NEW status \in Status,
           Publish(o, a), Change("end", k, o, status)
    PROVE  TypeOK'
<1>1. "end" \in {"post", "end"} OBVIOUS
<1> QED BY <1>1, PublishType, ChangeType DEF TypeOK

LEMMA TypeStep == TypeOK /\ [Next]_vars => TypeOK'
<1> SUFFICES ASSUME TypeOK, [Next]_vars PROVE TypeOK' OBVIOUS
<1>1. CASE WriteDone
    <2>1. \A h \in handlers : Promoted(h) \in Handler BY PromotedType DEF TypeOK
    <2>2. disk' \in Store BY <1>1 DEF TypeOK, WriteDone, Written
    <2>3. \A h \in handlers' : h \in Handler BY <1>1, <2>1 DEF WriteDone
    <2> QED BY <1>1, <2>2, <2>3 DEF TypeOK, WriteDone, Written, link, order, bounds
<1>2. CASE Connected
    <2>1. action' \in [Obj -> Action] BY <1>2 DEF TypeOK, Connected, Action
    <2>2. Loaded \subseteq Obj BY StoredObj DEF TypeOK, Loaded, Absent
    <2>3. Loaded # {} => Message({IdOf(o) : o \in Loaded}, "ADD") \in Messages
        BY <2>2, ObjId, MessageType DEF Action
    <2>4. (IF Loaded = {} THEN wire ELSE Append(wire, Message({IdOf(o) : o \in Loaded}, "ADD")))
              \in Seq(Messages)
        BY <2>3 DEF TypeOK
    <2>5. /\ wire' \in Seq(Messages)
          /\ pendingMessages' \in Seq(Obj)
          /\ draining' \in BOOLEAN
        BY <1>2, <2>4, FlushType DEF TypeOK, Connected
    <2> QED BY <1>2, <2>1, <2>5 DEF TypeOK, Connected, file, order, bounds
<1>3. CASE Drain
    <2>1. Tail(pendingMessages) \in Seq(Obj) BY <1>3 DEF TypeOK, Drain
    <2>2. /\ wire' \in Seq(Messages)
          /\ pendingMessages' \in Seq(Obj)
          /\ draining' \in BOOLEAN
        BY <1>3, <2>1, FlushType DEF TypeOK, Drain
    <2> QED BY <1>3, <2>2 DEF TypeOK, Drain, file, order, bounds
<1>4. CASE ConnectFails
    <2>1. breaks' \in Nat BY <1>4 DEF TypeOK, ConnectFails
    <2> QED BY <1>4, <2>1 DEF TypeOK, ConnectFails, file, order
<1>5. CASE Break
    <2>1. dropped' \in [Id -> {"no", "break", "restart"}] BY <1>5 DEF TypeOK, Break
    <2>2. breaks' \in Nat BY <1>5 DEF TypeOK, Break
    <2> QED BY <1>5, <2>1, <2>2, EmptySeq DEF TypeOK, Break, file, order
<1>6. CASE TimerFires
    BY <1>6 DEF TypeOK, TimerFires, file, order, bounds
<1>7. CASE Restart
    <2>1. dropped' \in [Id -> {"no", "break", "restart"}] BY <1>7 DEF TypeOK, Restart
    <2>2. restarts' \in Nat BY <1>7 DEF TypeOK, Restart
    <2> QED BY <1>7, <2>1, <2>2, EmptySeq DEF TypeOK, Restart, Start, WritesLost
<1>8. ASSUME NEW i \in Id, Deliver(i) PROVE TypeOK'
    <2>1. wire # <<>> /\ wire \in Seq(Messages) BY <1>8 DEF TypeOK, Deliver
    <2>2. Head(wire) \in Messages /\ Head(wire) = wire[1] /\ 1 \in DOMAIN wire BY <2>1
    <2>3. heard' \in [Id -> Action \cup {"none"}]
        BY <1>8, <2>2, MessageParts DEF TypeOK, Deliver
    <2>4. dropped' \in [Id -> {"no", "break", "restart"}] BY <1>8 DEF TypeOK, Deliver
    <2>5. wire' \in Seq(Messages)
        <3>1. CASE Head(wire).ids = {i} BY <1>8, <2>1, <3>1 DEF Deliver
        <3>2. CASE Head(wire).ids # {i}
            <4>1. wire[1].ids \ {i} \in SUBSET Id /\ wire[1].ids \ {i} # {}
                BY <1>8, <2>2, <3>2, MessageParts DEF Deliver
            <4>2. Message(wire[1].ids \ {i}, wire[1].act) \in Messages
                BY <2>2, <4>1, MessageParts, MessageType
            <4>3. wire' = [wire EXCEPT ![1] = Message(wire[1].ids \ {i}, wire[1].act)]
                BY <1>8, <3>2 DEF Deliver
            <4> QED BY <2>1, <2>2, <4>2, <4>3
        <3> QED BY <3>1, <3>2
    <2> QED BY <1>8, <2>3, <2>4, <2>5 DEF TypeOK, Deliver, file, link, order, bounds
<1>9. ASSUME NEW i \in Intent, DeleteIntent(i) PROVE TypeOK'
    <2>1. i \in Key /\ db[i] # Absent BY <1>9 DEF DeleteIntent, Key
    <2>2. db[i].obj \in Obj BY <2>1, StoredObj DEF TypeOK
    <2> QED BY <1>9, <2>1, <2>2, PublishAndChangeType DEF DeleteIntent, Action, Status
<1>10. ASSUME NEW i \in Intent, NEW o \in Obj, PostIntent(i, o) PROVE TypeOK'
    <2>1. i \in Key /\ "post" \in {"post", "end"} /\ "enabled" \in Status
        BY DEF Key, Status
    <2>2. Change("post", i, o, "enabled") BY <1>10 DEF PostIntent
    <2> QED BY <1>10, <2>1, <2>2, ChangeType DEF TypeOK, PostIntent, link, order
<1>11. ASSUME NEW f \in Function,
              EnableFunction(f) \/ DisableFunction(f) \/ DeleteFunction(f)
       PROVE  TypeOK'
    <2>1. f \in Key /\ db[f] # Absent
        BY <1>11 DEF EnableFunction, DisableFunction, DeleteFunction, Key
    <2>2. db[f].obj \in Obj BY <2>1, StoredObj DEF TypeOK
    <2> QED BY <1>11, <2>1, <2>2, PublishAndChangeType
            DEF EnableFunction, DisableFunction, DeleteFunction, Action, Status
<1>12. ASSUME NEW f \in Function, NEW o \in Obj, PostFunction(f, o) PROVE TypeOK'
    <2>1. f \in Key BY DEF Key
    <2> QED BY <1>12, <2>1, PublishAndChangeType DEF PostFunction, Action, Status
<1>13. ASSUME NEW h \in handlers, Resume(h) PROVE TypeOK'
    <2>1. h \in Handler BY DEF TypeOK
    <2>2. h.obj \in Obj /\ h.key \in Key /\ h.makes \in Status BY <2>1 DEF Handler
    <2>3. promised' \in [Key -> Status \cup {"open"}] BY <1>13, <2>2 DEF TypeOK, Resume
    <2>4. \A g \in handlers' : g \in Handler BY <1>13 DEF TypeOK, Resume
    <2>5. CASE h.op = "post"
        <3>1. Publish(h.obj, "ADD") BY <1>13, <2>5 DEF Resume
        <3>2. "ADD" \in Action BY DEF Action
        <3> QED BY <1>13, <2>2, <2>3, <2>4, <3>1, <3>2, PublishType DEF TypeOK, Resume, file, order, bounds
    <2>6. CASE h.op # "post"
        BY <1>13, <2>3, <2>4, <2>6 DEF TypeOK, Resume, file, link, order, bounds
    <2> QED BY <2>5, <2>6
<1>14. CASE UNCHANGED vars
    BY <1>14 DEF TypeOK, vars, file, link, order, bounds
<1> QED BY <1>1, <1>2, <1>3, <1>4, <1>5, <1>6, <1>7, <1>8, <1>9, <1>10, <1>11, <1>12, <1>13, <1>14
        DEF Next

LEMMA TypeInit == Init => TypeOK
<1> SUFFICES ASSUME Init PROVE TypeOK OBVIOUS
<1>1. Nothing \in Store BY DEF Nothing, Store, Entry
<1>2. action \in [Obj -> Action] BY DEF Init, FileInit, Action
<1>3. promised \in [Key -> Status \cup {"open"}] BY DEF Init, FileInit, Status
<1> QED BY <1>1, <1>2, <1>3, EmptySeq DEF Init, FileInit, TypeOK

\* The designer is well typed, for any intents, functions and bounds.
THEOREM TypeCorrect == Spec => []TypeOK
<1>1. Init => TypeOK BY TypeInit
<1>2. TypeOK /\ [Next]_vars => TypeOK' BY TypeStep
<1> QED BY <1>1, <1>2, PTL DEF Spec

-----------------------------------------------------------------------------
(* Answered requests                                                       *)

LEMMA ChangeKeeps ==
    ASSUME IInv, NEW op \in {"post", "end"}, NEW k \in Key, NEW o \in Obj,
           NEW status \in Status, Change(op, k, o, status)
    PROVE  NoGap' /\ Kept' /\ Waiting'
<1> USE DEF IInv
<1> DEFINE e == IF status = "absent" THEN Absent ELSE [obj |-> o, status |-> status]
<1>1. e.status = status BY DEF Absent
<1>2. db' = [db EXCEPT ![k] = e] /\ Write(db') /\ Await(op, k, o, status)
    BY DEF Change
<1> HIDE DEF e
<1>3. /\ db'[k].status = status
      /\ \A x \in Key : x # k => db'[x] = db[x]
    BY <1>1, <1>2 DEF TypeOK, Store
<1>4. <<db'>> # <<>> /\ <<db'>>[1] = db' OBVIOUS
<1>5. NoGap' BY <1>2, <1>4 DEF NoGap, Write
<1>6. Kept'
    <2> SUFFICES ASSUME NEW x \in Key, promised'[x] # "open"
                 PROVE  /\ db'[x].status = promised'[x] /\ disk'[x].status = promised'[x]
                        /\ Agrees(cur', x, promised'[x]) /\ Agrees(next', x, promised'[x])
        BY DEF Kept, Agrees
    <2>1. x # k /\ promised'[x] = promised[x] BY DEF Change, TypeOK
    <2>2. db'[x].status = promised[x] BY <1>3, <2>1 DEF Kept
    <2> QED BY <1>2, <1>4, <2>1, <2>2 DEF Kept, Agrees, Write
<1>7. Waiting'
    <2> SUFFICES ASSUME NEW g \in handlers', g.last
                 PROVE  /\ db'[g.key].status = g.makes
                        /\ Agrees(next', g.key, g.makes)
                        /\ g.at = "next" => next' # <<>>
                        /\ g.at = "cur" => cur' # <<>>
                        /\ g.at # "next" => Agrees(cur', g.key, g.makes)
                        /\ g.at = "done" => disk'[g.key].status = g.makes
        BY DEF Waiting, Agrees
    <2>1. CASE \E h \in handlers : g = Superseded(h, k)
        <3>1. PICK h \in handlers : g = Superseded(h, k) BY <2>1
        <3>2. h \in Handler BY DEF TypeOK
        <3>3. /\ g.key = h.key /\ g.makes = h.makes /\ g.at = h.at
              /\ h.last /\ h.key # k
            BY <3>1, <3>2, SupersededType
        <3>4. h.key \in Key BY <3>2 DEF Handler
        <3>5. db'[h.key].status = h.makes BY <1>3, <3>3, <3>4 DEF Waiting
        <3> QED BY <1>2, <1>4, <3>3, <3>5 DEF Waiting, Agrees, Write
    <2>2. CASE g = [op |-> op, key |-> k, obj |-> o, makes |-> status, last |-> TRUE,
                    at |-> IF cur = <<>> THEN "cur" ELSE "next"]
        <3>1. g.key = k /\ g.makes = status /\ g.at = IF cur = <<>> THEN "cur" ELSE "next"
            BY <2>2
        <3> QED BY <1>2, <1>3, <1>4, <3>1 DEF NoGap, Agrees, Write
    <2> QED BY <1>2, <2>1, <2>2 DEF Await
<1> QED BY <1>5, <1>6, <1>7

LEMMA KeptStep == IInv /\ [Next]_vars => (NoGap /\ Kept /\ Waiting)'
<1> SUFFICES ASSUME IInv, [Next]_vars PROVE (NoGap /\ Kept /\ Waiting)' OBVIOUS
<1>1. CASE WriteDone
    <2>1. NoGap' BY <1>1 DEF IInv, WriteDone, Written, NoGap
    <2>2. Kept' BY <1>1 DEF IInv, WriteDone, Written, Kept, Agrees
    <2>3. Waiting'
        <3> SUFFICES ASSUME NEW g \in handlers', g.last
                     PROVE  /\ db'[g.key].status = g.makes
                            /\ Agrees(next', g.key, g.makes)
                            /\ g.at = "next" => next' # <<>>
                            /\ g.at = "cur" => cur' # <<>>
                            /\ g.at # "next" => Agrees(cur', g.key, g.makes)
                            /\ g.at = "done" => disk'[g.key].status = g.makes
            BY DEF Waiting, Agrees
        <3>1. PICK h \in handlers : g = Promoted(h) BY <1>1 DEF WriteDone
        <3>2. h \in Handler BY DEF IInv, TypeOK
        <3>3. /\ g.key = h.key /\ g.makes = h.makes /\ h.last
              /\ g.at = IF h.at = "next" THEN "cur" ELSE "done"
            BY <3>1, <3>2, PromotedType
        <3> QED BY <1>1, <3>3 DEF IInv, Waiting, Agrees, WriteDone, Written
    <2> QED BY <2>1, <2>2, <2>3
<1>2. CASE Restart
    BY <1>2 DEF IInv, Restart, Start, WritesLost, NoGap, Kept, Waiting, Agrees
<1>3. ASSUME NEW h \in handlers, Resume(h) PROVE (NoGap /\ Kept /\ Waiting)'
    <2>1. UNCHANGED <<db, disk, cur, next>> /\ handlers' = handlers \ {h}
        BY <1>3 DEF Resume, file
    <2>2. NoGap' /\ Waiting' BY <2>1 DEF IInv, NoGap, Waiting, Agrees
    <2>3. Kept'
        <3>1. CASE h.last
            <4>1. h \in Handler /\ h.key \in Key BY DEF IInv, TypeOK, Handler
            <4>2. promised' = [promised EXCEPT ![h.key] = h.makes] /\ h.at = "done"
                BY <1>3, <3>1 DEF Resume
            <4> QED BY <2>1, <3>1, <4>1, <4>2 DEF IInv, TypeOK, Kept, Waiting, Agrees
        <3>2. CASE ~h.last
            BY <1>3, <2>1, <3>2 DEF IInv, Kept, Agrees, Resume
        <3> QED BY <3>1, <3>2
    <2> QED BY <2>2, <2>3
<1>4. ASSUME NEW i \in Intent, DeleteIntent(i) PROVE (NoGap /\ Kept /\ Waiting)'
    <2>1. i \in Key /\ db[i] # Absent BY <1>4 DEF DeleteIntent, Key
    <2>2. db[i].obj \in Obj BY <2>1, StoredObj DEF IInv, TypeOK
    <2> QED BY <1>4, <2>1, <2>2, ChangeKeeps DEF DeleteIntent, Status
<1>5. ASSUME NEW i \in Intent, NEW o \in Obj, PostIntent(i, o) PROVE (NoGap /\ Kept /\ Waiting)'
    <2>1. i \in Key BY DEF Key
    <2> QED BY <1>5, <2>1, ChangeKeeps DEF PostIntent, Status
<1>6. ASSUME NEW f \in Function,
             EnableFunction(f) \/ DisableFunction(f) \/ DeleteFunction(f)
      PROVE  (NoGap /\ Kept /\ Waiting)'
    <2>1. f \in Key /\ db[f] # Absent
        BY <1>6 DEF EnableFunction, DisableFunction, DeleteFunction, Key
    <2>2. db[f].obj \in Obj BY <2>1, StoredObj DEF IInv, TypeOK
    <2> QED BY <1>6, <2>1, <2>2, ChangeKeeps
            DEF EnableFunction, DisableFunction, DeleteFunction, Status
<1>7. ASSUME NEW f \in Function, NEW o \in Obj, PostFunction(f, o)
      PROVE  (NoGap /\ Kept /\ Waiting)'
    <2>1. f \in Key BY DEF Key
    <2> QED BY <1>7, <2>1, ChangeKeeps DEF PostFunction, Status
<1>8. CASE UNCHANGED <<db, disk, cur, next, handlers, promised>>
    BY <1>8 DEF IInv, NoGap, Kept, Waiting, Agrees
<1> QED BY <1>1, <1>2, <1>3, <1>4, <1>5, <1>6, <1>7, <1>8
        DEF Next, Connected, Drain, ConnectFails, Break, TimerFires, Deliver, vars, file

LEMMA InvInit == Init => IInv
<1> SUFFICES ASSUME Init PROVE IInv OBVIOUS
<1>1. TypeOK BY TypeInit
<1>2. Kept BY DEF Init, FileInit, Kept, Agrees, Nothing, Absent
<1>3. NoGap /\ Waiting BY DEF Init, FileInit, NoGap, Waiting
<1> QED BY <1>1, <1>2, <1>3 DEF IInv

\* A request that was answered with 200 holds until the next one for the same
\* key, over any number of restarts and merged writes.
THEOREM AnswersAreKept == Spec => []AckedIsKept
<1>1. Init => IInv BY InvInit
<1>2. IInv /\ [Next]_vars => IInv' BY TypeStep, KeptStep DEF IInv
<1>3. IInv => AckedIsKept BY DEF IInv, Kept, AckedIsKept
<1> QED BY <1>1, <1>2, <1>3, PTL DEF Spec

-----------------------------------------------------------------------------
(* Words: what a queue of messages says about an intent                    *)

LEMMA NoWords == ASSUME NEW i \in Id, NEW a \in Action PROVE ~Mentions(<<>>, i) /\ Ends(<<>>, i, a)
BY DEF Mentions, Ends

LEMMA WordsOfConcat ==
    ASSUME NEW q \in Seq(Messages), NEW r \in Seq(Messages), NEW i \in Id, NEW a \in Action
    PROVE  /\ Mentions(q \o r, i) <=> Mentions(q, i) \/ Mentions(r, i)
           /\ Ends(q \o r, i, a) <=> Ends(r, i, a) /\ (~Mentions(r, i) => Ends(q, i, a))
<1>1. /\ DOMAIN (q \o r) = 1..(Len(q) + Len(r)) /\ DOMAIN q = 1..Len(q) /\ DOMAIN r = 1..Len(r)
      /\ Len(q) \in Nat /\ Len(r) \in Nat
    OBVIOUS
<1>2. \A n \in DOMAIN q : n \in DOMAIN (q \o r) /\ (q \o r)[n] = q[n] BY <1>1
<1>3. \A n \in DOMAIN r : n + Len(q) \in DOMAIN (q \o r) /\ (q \o r)[n + Len(q)] = r[n] BY <1>1
<1>4. \A n \in DOMAIN (q \o r) : n \in DOMAIN q \/ (n - Len(q) \in DOMAIN r /\ n = (n - Len(q)) + Len(q))
    BY <1>1
<1> DEFINE qr == q \o r
<1> HIDE DEF qr
<1>5. /\ \A n \in DOMAIN q : n \in DOMAIN qr /\ qr[n] = q[n] /\ n \in 1..Len(q)
      /\ \A n \in DOMAIN r : n + Len(q) \in DOMAIN qr /\ qr[n + Len(q)] = r[n] /\ n \in 1..Len(r)
      /\ \A n \in DOMAIN qr : n \in DOMAIN q \/ (n - Len(q) \in DOMAIN r /\ n = (n - Len(q)) + Len(q))
    BY <1>1, <1>2, <1>3, <1>4 DEF qr
<1>6. Mentions(qr, i) <=> Mentions(q, i) \/ Mentions(r, i) BY <1>5 DEF Mentions
<1>7. ASSUME Ends(qr, i, a) PROVE Ends(r, i, a)
    <2> SUFFICES ASSUME NEW n \in DOMAIN r, i \in r[n].ids, \A m \in DOMAIN r : m > n => i \notin r[m].ids
                 PROVE  r[n].act = a
        BY DEF Ends
    <2>1. \A m \in DOMAIN qr : m > n + Len(q) => i \notin qr[m].ids
        <3> SUFFICES ASSUME NEW m \in DOMAIN qr, m > n + Len(q) PROVE i \notin qr[m].ids OBVIOUS
        <3>1. m \notin DOMAIN q BY <1>1, <1>5
        <3>2. m - Len(q) \in DOMAIN r /\ m = (m - Len(q)) + Len(q) BY <1>5, <3>1
        <3>3. m - Len(q) > n BY <1>1, <1>5, <3>2
        <3> QED BY <1>5, <3>2, <3>3
    <2> QED BY <1>5, <1>7, <2>1 DEF Ends
<1>8. ASSUME Ends(qr, i, a), ~Mentions(r, i) PROVE Ends(q, i, a)
    <2> SUFFICES ASSUME NEW n \in DOMAIN q, i \in q[n].ids, \A m \in DOMAIN q : m > n => i \notin q[m].ids
                 PROVE  q[n].act = a
        BY DEF Ends
    <2>1. \A m \in DOMAIN qr : m > n => i \notin qr[m].ids BY <1>5, <1>8 DEF Mentions
    <2> QED BY <1>5, <1>8, <2>1 DEF Ends
<1>9. ASSUME Ends(r, i, a), ~Mentions(r, i) => Ends(q, i, a) PROVE Ends(qr, i, a)
    <2> SUFFICES ASSUME NEW n \in DOMAIN qr, i \in qr[n].ids, \A m \in DOMAIN qr : m > n => i \notin qr[m].ids
                 PROVE  qr[n].act = a
        BY DEF Ends
    <2>1. CASE n \in DOMAIN q
        <3>1. \A m \in DOMAIN r : m + Len(q) > n BY <1>1, <2>1
        <3>2. ~Mentions(r, i) BY <1>5, <3>1 DEF Mentions
        <3> QED BY <1>5, <1>9, <2>1, <3>2 DEF Ends
    <2>2. CASE n - Len(q) \in DOMAIN r /\ n = (n - Len(q)) + Len(q)
        <3>1. \A m \in DOMAIN r : m > n - Len(q) => m + Len(q) > n BY <1>1, <2>2
        <3> QED BY <1>5, <1>9, <2>2, <3>1 DEF Ends
    <2> QED BY <1>5, <2>1, <2>2
<1>10. Ends(qr, i, a) <=> Ends(r, i, a) /\ (~Mentions(r, i) => Ends(q, i, a)) BY <1>7, <1>8, <1>9
<1> QED BY <1>6, <1>10 DEF qr

LEMMA WordsOfAppend ==
    ASSUME NEW q \in Seq(Messages), NEW m \in Messages, NEW i \in Id, NEW a \in Action
    PROVE  /\ Mentions(Append(q, m), i) <=> i \in m.ids \/ Mentions(q, i)
           /\ Ends(Append(q, m), i, a) <=> IF i \in m.ids THEN m.act = a ELSE Ends(q, i, a)
<1>1. <<m>> \in Seq(Messages) /\ Append(q, m) = q \o <<m>> OBVIOUS
<1>2. DOMAIN <<m>> = {1} /\ <<m>>[1] = m OBVIOUS
<1>3. Mentions(<<m>>, i) <=> i \in m.ids BY <1>2 DEF Mentions
<1>4. Ends(<<m>>, i, a) <=> (i \in m.ids => m.act = a) BY <1>2 DEF Ends
<1>5. /\ Mentions(q \o <<m>>, i) <=> Mentions(q, i) \/ Mentions(<<m>>, i)
      /\ Ends(q \o <<m>>, i, a) <=> Ends(<<m>>, i, a) /\ (~Mentions(<<m>>, i) => Ends(q, i, a))
    BY <1>1, WordsOfConcat
<1> QED BY <1>1, <1>3, <1>4, <1>5

LEMMA TextsByType ==
    ASSUME NEW act \in [Obj -> Action], NEW s \in Seq(Obj)
    PROVE  /\ TextsBy(s, act) \in Seq(Messages)
           /\ DOMAIN TextsBy(s, act) = DOMAIN s
           /\ \A n \in DOMAIN s : TextsBy(s, act)[n].ids = {IdOf(s[n])} /\ TextsBy(s, act)[n].act = act[s[n]]
<1>1. \A n \in DOMAIN s : s[n] \in Obj OBVIOUS
<1>2. \A n \in DOMAIN s : Message({IdOf(s[n])}, act[s[n]]) \in Messages
    BY <1>1, ObjId, MessageType
<1>3. DOMAIN s = 1..Len(s) /\ Len(s) \in Nat OBVIOUS
<1>4. TextsBy(s, act) \in [1..Len(s) -> Messages] BY <1>2, <1>3 DEF TextsBy
<1>5. Seq(Messages) = UNION {[1..n -> Messages] : n \in Nat} BY SeqDef
<1>6. TextsBy(s, act) \in Seq(Messages) BY <1>3, <1>4, <1>5
<1>7. DOMAIN TextsBy(s, act) = DOMAIN s BY DEF TextsBy
<1>8. \A n \in DOMAIN s : TextsBy(s, act)[n] = Message({IdOf(s[n])}, act[s[n]]) BY DEF TextsBy
<1> QED BY <1>6, <1>7, <1>8 DEF Message

LEMMA WordsOfTexts ==
    ASSUME NEW act \in [Obj -> Action], NEW s \in Seq(Obj), NEW i \in Id, NEW a \in Action
    PROVE  /\ Mentions(TextsBy(s, act), i) <=> \E n \in DOMAIN s : IdOf(s[n]) = i
           /\ Ends(TextsBy(s, act), i, a) <=>
                \A n \in DOMAIN s :
                    (IdOf(s[n]) = i /\ \A m \in DOMAIN s : m > n => IdOf(s[m]) # i) => act[s[n]] = a
<1> DEFINE t == TextsBy(s, act)
<1>1. DOMAIN t = DOMAIN s /\ \A n \in DOMAIN s : t[n].ids = {IdOf(s[n])} /\ t[n].act = act[s[n]]
    BY TextsByType
<1> HIDE DEF t
<1>2. Mentions(t, i) <=> \E n \in DOMAIN s : IdOf(s[n]) = i BY <1>1 DEF Mentions
<1>3. Ends(t, i, a) <=>
                \A n \in DOMAIN s :
                    (IdOf(s[n]) = i /\ \A m \in DOMAIN s : m > n => IdOf(s[m]) # i) => act[s[n]] = a
    BY <1>1 DEF Ends
<1> QED BY <1>2, <1>3 DEF t

\* Sending the first k messages and keeping the last of them changes no word.
LEMMA WordsOfSplit ==
    ASSUME NEW act \in [Obj -> Action], NEW s \in Seq(Obj), NEW k \in DOMAIN s, NEW i \in Id, NEW a \in Action
    PROVE  LET t == TextsBy(s, act)
               u == TextsBy(SubSeq(s, 1, k), act)
               v == TextsBy(SubSeq(s, k, Len(s)), act)
           IN  /\ Mentions(t, i) <=> Mentions(u, i) \/ Mentions(v, i)
               /\ Ends(t, i, a) <=> Ends(v, i, a) /\ (~Mentions(v, i) => Ends(u, i, a))
               /\ i = IdOf(s[k]) => Mentions(u, i) /\ Ends(u, i, act[s[k]])
<1> DEFINE x == SubSeq(s, 1, k)
           y == SubSeq(s, k, Len(s))
<1>1. k \in 1..Len(s) /\ Len(s) \in Nat /\ DOMAIN s = 1..Len(s) OBVIOUS
<1>2. /\ x \in Seq(Obj) /\ DOMAIN x = 1..k /\ \A n \in 1..k : x[n] = s[n]
      /\ y \in Seq(Obj) /\ DOMAIN y = 1..(Len(s) - k + 1) /\ \A n \in 1..(Len(s) - k + 1) : y[n] = s[k + n - 1]
    <2>1. \A n \in 1..Len(s) : s[n] \in Obj OBVIOUS
    <2>2. x \in Seq(Obj) /\ Len(x) = k /\ \A n \in 1..k : x[n] = s[n]
        BY <1>1, <2>1, SubSeqProperties
    <2>3. y \in Seq(Obj) /\ Len(y) = Len(s) - k + 1 /\ \A n \in 1..(Len(s) - k + 1) : y[n] = s[k + n - 1]
        BY <1>1, <2>1, SubSeqProperties
    <2> QED BY <2>2, <2>3
<1> HIDE DEF x, y
<1>3. /\ \A n \in DOMAIN x : n \in DOMAIN s /\ n \in 1..k /\ x[n] = s[n]
      /\ \A n \in DOMAIN s : n <= k => n \in DOMAIN x
      /\ \A n \in DOMAIN y : k + n - 1 \in DOMAIN s /\ n \in Nat \ {0} /\ y[n] = s[k + n - 1]
      /\ \A n \in DOMAIN s : n >= k => n - k + 1 \in DOMAIN y /\ y[n - k + 1] = s[n]
    <2>1. \A n \in DOMAIN x : n \in DOMAIN s /\ n \in 1..k /\ x[n] = s[n] BY <1>1, <1>2
    <2>2. \A n \in DOMAIN s : n <= k => n \in DOMAIN x BY <1>1, <1>2
    <2>3. \A n \in DOMAIN y : k + n - 1 \in DOMAIN s /\ n \in Nat \ {0} /\ y[n] = s[k + n - 1] BY <1>1, <1>2
    <2>4. ASSUME NEW n \in DOMAIN s, n >= k PROVE n - k + 1 \in DOMAIN y /\ y[n - k + 1] = s[n]
        <3>1. n - k + 1 \in 1..(Len(s) - k + 1) /\ k + (n - k + 1) - 1 = n BY <1>1, <2>4
        <3> QED BY <1>2, <3>1
    <2> QED BY <2>1, <2>2, <2>3, <2>4
<1> DEFINE E(z) == \A n \in DOMAIN z :
                    (IdOf(z[n]) = i /\ \A m \in DOMAIN z : m > n => IdOf(z[m]) # i) => act[z[n]] = a
           M(z) == \E n \in DOMAIN z : IdOf(z[n]) = i
<1>0. \A z \in Seq(Obj) : /\ Ends(TextsBy(z, act), i, a) <=> E(z)
                          /\ Mentions(TextsBy(z, act), i) <=> M(z)
    BY WordsOfTexts
<1>4. M(s) <=> M(x) \/ M(y)
    <2>1. \A n \in DOMAIN s : n <= k \/ n >= k BY <1>1
    <2> QED BY <1>3, <2>1
<1>5. ASSUME E(s) PROVE E(y)
    <2> SUFFICES ASSUME NEW n \in DOMAIN y, IdOf(y[n]) = i, \A m \in DOMAIN y : m > n => IdOf(y[m]) # i
                 PROVE  act[y[n]] = a
        OBVIOUS
    <2>1. k + n - 1 \in DOMAIN s /\ y[n] = s[k + n - 1] /\ n \in Nat \ {0} BY <1>3
    <2>2. ASSUME NEW m \in DOMAIN s, m > k + n - 1 PROVE IdOf(s[m]) # i
        <3>1. m >= k /\ m - k + 1 > n BY <1>1, <2>1, <2>2
        <3> QED BY <1>3, <3>1
    <2> QED BY <1>5, <2>1, <2>2
<1>6. ASSUME E(s), ~M(y) PROVE E(x)
    <2> SUFFICES ASSUME NEW n \in DOMAIN x, IdOf(x[n]) = i, \A m \in DOMAIN x : m > n => IdOf(x[m]) # i
                 PROVE  act[x[n]] = a
        OBVIOUS
    <2>1. ASSUME NEW m \in DOMAIN s, m > n PROVE IdOf(s[m]) # i
        <3>1. m <= k \/ m >= k BY <1>1
        <3> QED BY <1>3, <1>6, <2>1, <3>1
    <2> QED BY <1>3, <1>6, <2>1
<1>7. ASSUME E(y), ~M(y) => E(x) PROVE E(s)
    <2> SUFFICES ASSUME NEW n \in DOMAIN s, IdOf(s[n]) = i, \A m \in DOMAIN s : m > n => IdOf(s[m]) # i
                 PROVE  act[s[n]] = a
        OBVIOUS
    <2>1. CASE n >= k
        <3>1. n - k + 1 \in DOMAIN y /\ y[n - k + 1] = s[n] BY <1>3, <2>1
        <3>2. ASSUME NEW m \in DOMAIN y, m > n - k + 1 PROVE IdOf(y[m]) # i
            <4>1. k + m - 1 > n BY <1>1, <1>3, <3>2
            <4> QED BY <1>3, <4>1
        <3> QED BY <1>7, <3>1, <3>2
    <2>2. CASE n < k
        <3>1. ~M(y)
            <4> SUFFICES ASSUME NEW m \in DOMAIN y PROVE IdOf(y[m]) # i OBVIOUS
            <4>1. k + m - 1 > n BY <1>1, <1>3, <2>2
            <4> QED BY <1>3, <4>1
        <3>2. n \in DOMAIN x /\ x[n] = s[n] BY <1>1, <1>3, <2>2
        <3> QED BY <1>3, <1>7, <3>1, <3>2
    <2> QED BY <1>1, <2>1, <2>2
<1>8. /\ Ends(TextsBy(s, act), i, a) <=> E(s)
      /\ Ends(TextsBy(x, act), i, a) <=> E(x)
      /\ Ends(TextsBy(y, act), i, a) <=> E(y)
      /\ Mentions(TextsBy(s, act), i) <=> M(s)
      /\ Mentions(TextsBy(x, act), i) <=> M(x)
      /\ Mentions(TextsBy(y, act), i) <=> M(y)
    <2> HIDE DEF E, M
    <2> QED BY <1>0, <1>2
<1>9. ASSUME i = IdOf(s[k]) PROVE Mentions(TextsBy(x, act), i) /\ Ends(TextsBy(x, act), i, act[s[k]])
    <2>1. k \in DOMAIN x /\ x[k] = s[k] BY <1>1, <1>2
    <2>2. \A n \in DOMAIN x : n = k \/ k > n BY <1>1, <1>2
    <2>3. act[s[k]] \in Action OBVIOUS
    <2> QED BY <1>2, <1>9, <2>1, <2>2, <2>3, WordsOfTexts
<1> HIDE DEF E, M
<1> QED BY <1>4, <1>5, <1>6, <1>7, <1>8, <1>9 DEF x, y

LEMMA WordsOfOutlook ==
    ASSUME NEW w \in Seq(Messages), NEW s \in Seq(Obj), NEW act \in [Obj -> Action],
           NEW i \in Id, NEW a \in Action
    PROVE  /\ Mentions(w \o TextsBy(s, act), i) <=> Mentions(w, i) \/ Mentions(TextsBy(s, act), i)
           /\ Ends(w \o TextsBy(s, act), i, a) <=>
                /\ Ends(TextsBy(s, act), i, a)
                /\ ~Mentions(TextsBy(s, act), i) => Ends(w, i, a)
<1>1. TextsBy(s, act) \in Seq(Messages) BY TextsByType
<1> QED BY <1>1, WordsOfConcat

\* Fields that are not read do not matter.
LEMMA TextsAgree ==
    ASSUME NEW s \in Seq(Obj), NEW act, NEW new, \A n \in DOMAIN s : new[s[n]] = act[s[n]]
    PROVE  TextsBy(s, new) = TextsBy(s, act)
BY DEF TextsBy

\* flushPendingMessages changes no word, and a message that waits for 'drain'
\* has been sent.
LEMMA FlushWords ==
    ASSUME action \in [Obj -> Action], action' \in [Obj -> Action],
           NEW w \in Seq(Messages), NEW s \in Seq(Obj),
           \A n \in DOMAIN s : action'[s[n]] = action[s[n]],
           Flush(w, s), NEW i \in Id, NEW a \in Action
    PROVE  /\ (Mentions(Outlook, i))' <=> Mentions(w, i) \/ Mentions(TextsBy(s, action), i)
           /\ (Ends(Outlook, i, a))' <=>
                /\ Ends(TextsBy(s, action), i, a)
                /\ ~Mentions(TextsBy(s, action), i) => Ends(w, i, a)
           /\ HeadIsSent'
<1> DEFINE t == TextsBy(s, action)
<1>1. t \in Seq(Messages) BY TextsByType
<1>2. Outlook' = wire' \o TextsBy(pendingMessages', action') BY DEF Outlook, Texts
<1>3. CASE wire' = w \o Texts(s) /\ pendingMessages' = <<>> /\ draining' = FALSE
    <2>1. wire' = w \o t /\ w \o t \in Seq(Messages) BY <1>1, <1>3 DEF Texts
    <2>2. <<>> \in Seq(Obj) /\ DOMAIN <<>> = {} OBVIOUS
    <2>3. ~Mentions(TextsBy(<<>>, action'), i) /\ Ends(TextsBy(<<>>, action'), i, a)
        BY <2>2, WordsOfTexts
    <2>4. /\ (Mentions(Outlook, i))' <=> Mentions(w \o t, i)
          /\ (Ends(Outlook, i, a))' <=> Ends(w \o t, i, a)
        <3> HIDE DEF t
        <3> QED BY <1>2, <1>3, <2>1, <2>2, <2>3, WordsOfOutlook
    <2>5. HeadIsSent' BY <1>3 DEF HeadIsSent
    <2> QED BY <2>4, <2>5, WordsOfOutlook
<1>4. CASE /\ \E k \in DOMAIN s : /\ wire' = w \o Texts(SubSeq(s, 1, k))
                                  /\ pendingMessages' = SubSeq(s, k, Len(s))
           /\ draining' = TRUE
    <2>1. PICK k \in DOMAIN s : /\ wire' = w \o Texts(SubSeq(s, 1, k))
                                /\ pendingMessages' = SubSeq(s, k, Len(s))
        BY <1>4
    <2> DEFINE x == SubSeq(s, 1, k)
               y == SubSeq(s, k, Len(s))
               u == TextsBy(x, action)
               v == TextsBy(y, action)
    <2>2. k \in 1..Len(s) /\ Len(s) \in Nat OBVIOUS
    <2>3. x \in Seq(Obj) /\ y \in Seq(Obj) BY <2>2
    <2>4. u \in Seq(Messages) /\ v \in Seq(Messages) BY <2>3, TextsByType
    <2>5. TextsBy(y, action') = v
        <3>1. \A n \in DOMAIN y : \E m \in DOMAIN s : y[n] = s[m]
            <4>1. \A n \in 1..Len(s) : s[n] \in Obj OBVIOUS
            <4>2. DOMAIN y = 1..(Len(s) - k + 1) /\ \A n \in 1..(Len(s) - k + 1) : y[n] = s[k + n - 1]
                BY <2>2, <4>1, SubSeqProperties
            <4>3. \A n \in 1..(Len(s) - k + 1) : k + n - 1 \in DOMAIN s BY <2>2
            <4> QED BY <4>2, <4>3
        <3>2. \A n \in DOMAIN y : action'[y[n]] = action[y[n]] BY <3>1
        <3> HIDE DEF y
        <3> QED BY <2>3, <3>2, TextsAgree
    <2>6. wire' = w \o u /\ w \o u \in Seq(Messages) /\ Outlook' = (w \o u) \o v
        BY <1>2, <2>1, <2>4, <2>5 DEF Texts
    <2>7. /\ Mentions(t, i) <=> Mentions(u, i) \/ Mentions(v, i)
          /\ Ends(t, i, a) <=> Ends(v, i, a) /\ (~Mentions(v, i) => Ends(u, i, a))
        BY WordsOfSplit
    <2>8. /\ Mentions(w \o u, i) <=> Mentions(w, i) \/ Mentions(u, i)
          /\ Ends(w \o u, i, a) <=> Ends(u, i, a) /\ (~Mentions(u, i) => Ends(w, i, a))
          /\ (Mentions(Outlook, i))' <=> Mentions(w \o u, i) \/ Mentions(v, i)
          /\ (Ends(Outlook, i, a))' <=> Ends(v, i, a) /\ (~Mentions(v, i) => Ends(w \o u, i, a))
        <3> HIDE DEF u, v
        <3> QED BY <2>4, <2>6, WordsOfConcat
    <2>9. HeadIsSent'
        <3>1. Head(y) = s[k] /\ s[k] \in Obj BY <2>2
        <3>2. IdOf(s[k]) \in Id /\ action[s[k]] \in Action /\ action'[s[k]] = action[s[k]] BY <3>1, ObjId
        <3>3. Mentions(u, IdOf(s[k])) /\ Ends(u, IdOf(s[k]), action[s[k]]) BY <3>2, WordsOfSplit
        <3>4. Mentions(w \o u, IdOf(s[k])) /\ Ends(w \o u, IdOf(s[k]), action[s[k]])
            <4> HIDE DEF u
            <4> QED BY <2>4, <3>2, <3>3, WordsOfConcat
        <3> QED BY <2>1, <2>6, <3>1, <3>2, <3>4 DEF HeadIsSent
    <2> HIDE DEF t, u, v
    <2>10. (Mentions(Outlook, i))' <=> Mentions(w, i) \/ Mentions(t, i) BY <2>7, <2>8
    <2>11. (Ends(Outlook, i, a))' <=> Ends(t, i, a) /\ (~Mentions(t, i) => Ends(w, i, a)) BY <2>7, <2>8
    <2> QED BY <2>9, <2>10, <2>11 DEF t
<1> QED BY <1>3, <1>4 DEF Flush

\* The words about other intents stay; the last word about this one is a.
LEMMA PublishWords ==
    ASSUME TypeOK, NEW o \in Obj, NEW a \in Action, Publish(o, a), NEW j \in Id, NEW b \in Action
    PROVE  /\ j # IdOf(o) => /\ (Mentions(Outlook, j))' <=> Mentions(Outlook, j)
                             /\ Ends(Outlook, j, b) <=> (Ends(Outlook, j, b))'
           /\ j = IdOf(o) => /\ (Mentions(Outlook, j))'
                             /\ j \notin overtaken' => (Ends(Outlook, j, a))'
<1> DEFINE s == pendingMessages
           m == Message({IdOf(o)}, a)
           t == TextsBy(s, action)
           u == TextsBy(s, action')
<1>1. /\ wire \in Seq(Messages) /\ s \in Seq(Obj) /\ action \in [Obj -> Action]
      /\ action' \in [Obj -> Action] /\ action'[o] = a
      /\ \A p \in Obj : p # o => action'[p] = action[p]
    BY DEF TypeOK, Publish
<1>2. IdOf(o) \in Id BY ObjId
<1>3. m \in Messages /\ m.ids = {IdOf(o)} /\ m.act = a BY <1>2, MessageType DEF Message
<1>4. Outlook = wire \o t /\ Outlook' = wire' \o TextsBy(pendingMessages', action')
    BY DEF Outlook, Texts
<1>5. /\ Mentions(Outlook, j) <=> Mentions(wire, j) \/ Mentions(t, j)
      /\ Ends(Outlook, j, b) <=> Ends(t, j, b) /\ (~Mentions(t, j) => Ends(wire, j, b))
    BY <1>1, <1>4, WordsOfOutlook
<1>6. j # IdOf(o) => (Mentions(u, j) <=> Mentions(t, j)) /\ (Ends(u, j, b) <=> Ends(t, j, b))
    <2>1. \A n \in DOMAIN s : s[n] \in Obj BY <1>1
    <2>2. j # IdOf(o) => \A n \in DOMAIN s : IdOf(s[n]) = j => action'[s[n]] = action[s[n]]
        BY <1>1, <2>1
    <2>3. /\ Mentions(t, j) <=> \E n \in DOMAIN s : IdOf(s[n]) = j
          /\ Ends(t, j, b) <=> \A n \in DOMAIN s :
                (IdOf(s[n]) = j /\ \A l \in DOMAIN s : l > n => IdOf(s[l]) # j) => action[s[n]] = b
        <3>1. s \in Seq(Obj) /\ action \in [Obj -> Action] BY <1>1
        <3> HIDE DEF s
        <3> QED BY <3>1, WordsOfTexts
    <2>4. /\ Mentions(u, j) <=> \E n \in DOMAIN s : IdOf(s[n]) = j
          /\ Ends(u, j, b) <=> \A n \in DOMAIN s :
                (IdOf(s[n]) = j /\ \A l \in DOMAIN s : l > n => IdOf(s[l]) # j) => action'[s[n]] = b
        <3>1. s \in Seq(Obj) /\ action' \in [Obj -> Action] BY <1>1
        <3> DEFINE act == action'
        <3>2. act \in [Obj -> Action] /\ u = TextsBy(s, act) BY <3>1
        <3> HIDE DEF s, act, u
        <3>3. /\ Mentions(u, j) <=> \E n \in DOMAIN s : IdOf(s[n]) = j
              /\ Ends(u, j, b) <=> \A n \in DOMAIN s :
                    (IdOf(s[n]) = j /\ \A l \in DOMAIN s : l > n => IdOf(s[l]) # j) => act[s[n]] = b
            BY <3>1, <3>2, WordsOfTexts
        <3> QED BY <3>3 DEF act
    <2> HIDE DEF s, t, u
    <2> QED BY <2>2, <2>3, <2>4
<1>7. CASE isReady
    <2>1. wire' = Append(wire, m) /\ pendingMessages' = s /\ Append(wire, m) \in Seq(Messages)
        BY <1>1, <1>3, <1>7 DEF Publish
    <2>2. /\ Mentions(wire', j) <=> j \in m.ids \/ Mentions(wire, j)
          /\ Ends(wire', j, b) <=> IF j \in m.ids THEN m.act = b ELSE Ends(wire, j, b)
          /\ Ends(wire', j, a) <=> IF j \in m.ids THEN m.act = a ELSE Ends(wire, j, a)
        <3> HIDE DEF m
        <3> QED BY <1>1, <1>3, <2>1, WordsOfAppend
    <2>3. /\ (Mentions(Outlook, j))' <=> Mentions(wire', j) \/ Mentions(u, j)
          /\ (Ends(Outlook, j, b))' <=> Ends(u, j, b) /\ (~Mentions(u, j) => Ends(wire', j, b))
          /\ (Ends(Outlook, j, a))' <=> Ends(u, j, a) /\ (~Mentions(u, j) => Ends(wire', j, a))
        <3> HIDE DEF m
        <3>1. wire' \in Seq(Messages) BY <2>1
        <3> QED BY <1>1, <1>4, <2>1, <3>1, WordsOfOutlook
    <2>4. ASSUME j = IdOf(o), j \notin overtaken' PROVE Ends(u, j, a)
        <3>1. \A p \in Pending : p = o \/ IdOf(p) # j BY <1>7, <2>4 DEF Publish
        <3>2. \A n \in DOMAIN s : IdOf(s[n]) = j => action'[s[n]] = a BY <1>1, <3>1 DEF Pending
        <3> QED BY <1>1, <3>2, WordsOfTexts
    <2> HIDE DEF m, t, u
    <2> QED BY <1>3, <1>5, <1>6, <2>2, <2>3, <2>4
<1>8. CASE ~isReady
    <2> DEFINE q == Append(s, o)
    <2>1. wire' = wire /\ pendingMessages' = q /\ q \in Seq(Obj) BY <1>1, <1>8 DEF Publish
    <2>2. /\ (Mentions(Outlook, j))' <=> Mentions(wire, j) \/ Mentions(TextsBy(q, action'), j)
          /\ (Ends(Outlook, j, b))' <=> /\ Ends(TextsBy(q, action'), j, b)
                                        /\ ~Mentions(TextsBy(q, action'), j) => Ends(wire, j, b)
          /\ (Ends(Outlook, j, a))' <=> /\ Ends(TextsBy(q, action'), j, a)
                                        /\ ~Mentions(TextsBy(q, action'), j) => Ends(wire, j, a)
        <3> HIDE DEF q
        <3> QED BY <1>1, <1>4, <2>1, WordsOfOutlook
    <2>3. TextsBy(q, action') = Append(u, m)
        <3>1. u \in Seq(Messages) /\ DOMAIN u = DOMAIN s BY <1>1, TextsByType
        <3>2. DOMAIN q = 1..(Len(s) + 1) /\ DOMAIN s = 1..Len(s) /\ Len(s) \in Nat BY <1>1
        <3>3. \A n \in 1..Len(s) : q[n] = s[n] BY <1>1
        <3>4. q[Len(s) + 1] = o BY <1>1
        <3>5. Len(u) = Len(s) BY <3>1, <3>2
        <3>6. Append(u, m) \in Seq(Messages) /\ DOMAIN Append(u, m) = 1..(Len(s) + 1)
            BY <1>3, <3>1, <3>5
        <3>7. TextsBy(q, action') \in Seq(Messages) /\ DOMAIN TextsBy(q, action') = 1..(Len(s) + 1)
            <4> HIDE DEF q
            <4> QED BY <1>1, <2>1, <3>2, TextsByType
        <3>8. ASSUME NEW n \in 1..(Len(s) + 1) PROVE TextsBy(q, action')[n] = Append(u, m)[n]
            <4>0. TextsBy(q, action')[n] = Message({IdOf(q[n])}, action'[q[n]]) BY <3>2 DEF TextsBy
            <4>1. CASE n = Len(s) + 1
                <5>1. Append(u, m)[n] = m
                    <6> HIDE DEF u, m
                    <6> QED BY <1>3, <3>1, <3>5, <4>1
                <5> QED BY <1>1, <3>4, <4>0, <4>1, <5>1
            <4>2. CASE n \in 1..Len(s)
                <5>1. Append(u, m)[n] = u[n]
                    <6> HIDE DEF u, m
                    <6> QED BY <1>3, <3>1, <3>5, <4>2
                <5>2. u[n] = Message({IdOf(s[n])}, action'[s[n]]) BY <3>2, <4>2 DEF TextsBy
                <5> QED BY <3>3, <4>0, <4>2, <5>1, <5>2
            <4>3. n = Len(s) + 1 \/ n \in 1..Len(s)
                <5> HIDE DEF s, u, m, q
                <5> QED BY <3>2
            <4> HIDE DEF u, m, q
            <4> QED BY <4>1, <4>2, <4>3
        <3> HIDE DEF q, u, m
        <3> QED BY <3>6, <3>7, <3>8, SeqEqual
    <2>4. /\ Mentions(TextsBy(q, action'), j) <=> j \in m.ids \/ Mentions(u, j)
          /\ Ends(TextsBy(q, action'), j, b) <=> IF j \in m.ids THEN m.act = b ELSE Ends(u, j, b)
          /\ Ends(TextsBy(q, action'), j, a) <=> IF j \in m.ids THEN m.act = a ELSE Ends(u, j, a)
        <3>1. u \in Seq(Messages) BY <1>1, TextsByType
        <3> HIDE DEF q, u, m
        <3> QED BY <1>3, <2>3, <3>1, WordsOfAppend
    <2> HIDE DEF m, t, u, q
    <2> QED BY <1>3, <1>5, <1>6, <2>2, <2>4
<1> QED BY <1>7, <1>8

LEMMA WordsOfOne ==
    ASSUME NEW m, NEW r \in Seq(Messages), m \in Messages, NEW i \in Id, NEW a \in Action
    PROVE  /\ <<m>> \o r \in Seq(Messages)
           /\ Mentions(<<m>> \o r, i) <=> i \in m.ids \/ Mentions(r, i)
           /\ Ends(<<m>> \o r, i, a) <=> /\ Ends(r, i, a)
                                         /\ ~Mentions(r, i) => (i \in m.ids => m.act = a)
<1>1. <<m>> \in Seq(Messages) OBVIOUS
<1>2. DOMAIN <<m>> = {1} /\ <<m>>[1] = m OBVIOUS
<1>3. Mentions(<<m>>, i) <=> i \in m.ids BY <1>2 DEF Mentions
<1>4. Ends(<<m>>, i, a) <=> (i \in m.ids => m.act = a) BY <1>2 DEF Ends
<1>5. <<m>> \o r \in Seq(Messages) BY <1>1
<1>6. /\ Mentions(<<m>> \o r, i) <=> Mentions(<<m>>, i) \/ Mentions(r, i)
      /\ Ends(<<m>> \o r, i, a) <=> Ends(r, i, a) /\ (~Mentions(r, i) => Ends(<<m>>, i, a))
    BY <1>1, WordsOfConcat
<1> QED BY <1>3, <1>4, <1>5, <1>6

LEMMA HeadAndTail ==
    ASSUME NEW S, NEW s \in Seq(S), s # <<>>
    PROVE  /\ Head(s) \in S /\ Tail(s) \in Seq(S) /\ s = <<Head(s)>> \o Tail(s)
           /\ 1 \in DOMAIN s /\ Head(s) = s[1] /\ Len(s) \in Nat \ {0}
           /\ DOMAIN Tail(s) = 1..(Len(s) - 1)
           /\ \A n \in 1..(Len(s) - 1) : Tail(s)[n] = s[n + 1]
<1>1. Head(s) \in S /\ Tail(s) \in Seq(S) /\ Len(s) \in Nat \ {0} OBVIOUS
<1>2. Len(Tail(s)) = Len(s) - 1 /\ \A n \in 1..(Len(s) - 1) : Tail(s)[n] = s[n + 1] OBVIOUS
<1>3. s = <<Head(s)>> \o Tail(s)
    <2> DEFINE t == <<Head(s)>> \o Tail(s)
    <2>1. t \in Seq(S) /\ Len(t) = Len(s) BY <1>1, <1>2
    <2>2. \A n \in 1..Len(s) : t[n] = s[n] BY <1>1, <1>2
    <2> HIDE DEF t
    <2>3. s = t BY <2>1, <2>2, SeqEqual
    <2> QED BY <2>3 DEF t
<1> QED BY <1>1, <1>2, <1>3

LEMMA WordsOfQueue ==
    ASSUME NEW act \in [Obj -> Action], NEW s \in Seq(Obj), s # <<>>, NEW i \in Id, NEW a \in Action
    PROVE  /\ Mentions(TextsBy(s, act), i) <=> IdOf(Head(s)) = i \/ Mentions(TextsBy(Tail(s), act), i)
           /\ Ends(TextsBy(s, act), i, a) <=>
                /\ Ends(TextsBy(Tail(s), act), i, a)
                /\ (~Mentions(TextsBy(Tail(s), act), i) /\ IdOf(Head(s)) = i) => act[Head(s)] = a
<1> DEFINE r == TextsBy(Tail(s), act)
           m == Message({IdOf(Head(s))}, act[Head(s)])
<1>1. /\ Head(s) \in Obj /\ Tail(s) \in Seq(Obj) /\ Head(s) = s[1] /\ Len(s) \in Nat \ {0}
      /\ DOMAIN Tail(s) = 1..(Len(s) - 1) /\ \A n \in 1..(Len(s) - 1) : Tail(s)[n] = s[n + 1]
    BY HeadAndTail
<1>2. m \in Messages /\ m.ids = {IdOf(Head(s))} /\ m.act = act[Head(s)]
    BY <1>1, ObjId, MessageType DEF Message
<1>3. r \in Seq(Messages) /\ Len(r) = Len(s) - 1
    <2>1. r \in Seq(Messages) /\ DOMAIN r = 1..(Len(s) - 1) BY <1>1, TextsByType
    <2> HIDE DEF r
    <2> QED BY <1>1, <2>1
<1>4. TextsBy(s, act) = <<m>> \o r
    <2>1. TextsBy(s, act) \in Seq(Messages) /\ DOMAIN TextsBy(s, act) = DOMAIN s /\ DOMAIN s = 1..Len(s)
        BY TextsByType
    <2>2. Len(TextsBy(s, act)) = Len(s) BY <1>1, <2>1
    <2>3. <<m>> \o r \in Seq(Messages) /\ Len(<<m>> \o r) = Len(s)
        <3> HIDE DEF m, r
        <3> QED BY <1>1, <1>2, <1>3
    <2>4. ASSUME NEW n \in 1..Len(s) PROVE TextsBy(s, act)[n] = (<<m>> \o r)[n]
        <3>1. TextsBy(s, act)[n] = Message({IdOf(s[n])}, act[s[n]]) BY <2>1 DEF TextsBy
        <3>2. CASE n = 1
            <4>1. (<<m>> \o r)[1] = m
                <5> HIDE DEF m, r
                <5> QED BY <1>2, <1>3
            <4> HIDE DEF r
            <4> QED BY <1>1, <3>1, <3>2, <4>1
        <3>3. CASE n - 1 \in 1..(Len(s) - 1) /\ n = (n - 1) + 1
            <4>1. (<<m>> \o r)[n] = r[n - 1]
                <5> HIDE DEF m, r
                <5> QED BY <1>1, <1>2, <1>3, <3>3
            <4>2. r[n - 1] = Message({IdOf(Tail(s)[n - 1])}, act[Tail(s)[n - 1]])
                BY <1>1, <3>3 DEF TextsBy
            <4>3. Tail(s)[n - 1] = s[n] BY <1>1, <3>3
            <4> HIDE DEF r, m
            <4> QED BY <3>1, <4>1, <4>2, <4>3
        <3>4. n = 1 \/ (n - 1 \in 1..(Len(s) - 1) /\ n = (n - 1) + 1) BY <1>1
        <3> HIDE DEF r, m
        <3> QED BY <3>2, <3>3, <3>4
    <2> HIDE DEF r, m
    <2> QED BY <2>1, <2>2, <2>3, <2>4, SeqEqual
<1>5. /\ Mentions(<<m>> \o r, i) <=> i \in m.ids \/ Mentions(r, i)
      /\ Ends(<<m>> \o r, i, a) <=> /\ Ends(r, i, a)
                                    /\ ~Mentions(r, i) => (i \in m.ids => m.act = a)
    <2> HIDE DEF r, m
    <2> QED BY <1>2, <1>3, WordsOfOne
<1> HIDE DEF r, m
<1>6. /\ Mentions(TextsBy(s, act), i) <=> IdOf(Head(s)) = i \/ Mentions(r, i)
      /\ Ends(TextsBy(s, act), i, a) <=>
                /\ Ends(r, i, a)
                /\ (~Mentions(r, i) /\ IdOf(Head(s)) = i) => act[Head(s)] = a
    BY <1>2, <1>4, <1>5
<1> QED BY <1>6 DEF r

-----------------------------------------------------------------------------
(* What the steps of the client do to the words                            *)

LEMMA OutlookNow ==
    ASSUME TypeOK, NEW i \in Id, NEW a \in Action
    PROVE  /\ Mentions(Outlook, i) <=> Mentions(wire, i) \/ Mentions(TextsBy(pendingMessages, action), i)
           /\ Ends(Outlook, i, a) <=>
                /\ Ends(TextsBy(pendingMessages, action), i, a)
                /\ ~Mentions(TextsBy(pendingMessages, action), i) => Ends(wire, i, a)
BY WordsOfOutlook DEF TypeOK, Outlook, Texts

LEMMA PublishHead ==
    ASSUME TypeOK, LinkIsSound, HeadIsSent, NEW o \in Obj, NEW a \in Action, Publish(o, a), heard' = heard
    PROVE  HeadIsSent'
<1> SUFFICES ASSUME draining', pendingMessages' # <<>>, IdOf(Head(pendingMessages')) \notin overtaken'
             PROVE  /\ Ends(wire', IdOf(Head(pendingMessages')), action'[Head(pendingMessages')])
                    /\ ~Mentions(wire', IdOf(Head(pendingMessages')))
                       => heard'[IdOf(Head(pendingMessages'))] = action'[Head(pendingMessages')]
    BY DEF HeadIsSent
<1>1. isReady /\ draining BY DEF Publish, LinkIsSound
<1>2. pendingMessages' = pendingMessages /\ overtaken \subseteq overtaken' BY <1>1 DEF Publish
<1>3. PICK p \in Obj : p = Head(pendingMessages) /\ p \in Pending
    BY <1>2, HeadAndTail DEF TypeOK, Pending
<1> DEFINE m == Message({IdOf(o)}, a)
<1>4. wire' = Append(wire, m) /\ action' = [action EXCEPT ![o] = a] BY <1>1 DEF Publish
<1>5. m \in Messages /\ m.ids = {IdOf(o)} /\ m.act = a BY ObjId, MessageType DEF Message
<1> HIDE DEF m
<1>6. /\ IdOf(p) \notin overtaken /\ IdOf(p) \in Id
      /\ Ends(wire, IdOf(p), action[p])
      /\ ~Mentions(wire, IdOf(p)) => heard[IdOf(p)] = action[p]
    BY <1>1, <1>2, <1>3, ObjId DEF HeadIsSent
<1>7. action[p] \in Action /\ action'[p] \in Action BY <1>4 DEF TypeOK
<1>8. /\ Mentions(wire', IdOf(p)) <=> IdOf(p) \in m.ids \/ Mentions(wire, IdOf(p))
      /\ Ends(wire', IdOf(p), action'[p]) <=>
            IF IdOf(p) \in m.ids THEN m.act = action'[p] ELSE Ends(wire, IdOf(p), action'[p])
    BY <1>4, <1>5, <1>6, <1>7, WordsOfAppend DEF TypeOK
<1>9. IdOf(p) = IdOf(o) => p = o BY <1>1, <1>2, <1>3 DEF Publish
<1>10. IdOf(p) # IdOf(o) => action'[p] = action[p] BY <1>4 DEF TypeOK
<1>11. p = o => action'[p] = a BY <1>4 DEF TypeOK
<1> QED BY <1>2, <1>3, <1>5, <1>6, <1>8, <1>9, <1>10, <1>11

LEMMA DeliverWords ==
    ASSUME TypeOK, NEW i \in Id, Deliver(i), NEW j \in Id, NEW b \in Action
    PROVE  /\ j # i => /\ Mentions(wire', j) <=> Mentions(wire, j)
                       /\ Ends(wire', j, b) <=> Ends(wire, j, b)
                       /\ heard'[j] = heard[j] /\ dropped'[j] = dropped[j]
           /\ j = i /\ Ends(wire, j, b) => /\ Ends(wire', j, b)
                                           /\ ~Mentions(wire', j) => heard'[j] = b
           /\ Mentions(wire, i) /\ (Mentions(wire', j) => Mentions(wire, j))
<1>1. wire # <<>> /\ wire \in Seq(Messages) BY DEF TypeOK, Deliver
<1>2. PICK m \in Messages : m = Head(wire) BY <1>1, HeadAndTail
<1>3. PICK r \in Seq(Messages) : r = Tail(wire) BY <1>1, HeadAndTail
<1>4. /\ wire = <<m>> \o r /\ 1 \in DOMAIN wire /\ wire[1] = m /\ Len(wire) \in Nat \ {0}
      /\ DOMAIN r = 1..(Len(wire) - 1) /\ \A n \in 1..(Len(wire) - 1) : r[n] = wire[n + 1]
    BY <1>1, <1>2, <1>3, HeadAndTail
<1>5. /\ Mentions(wire, j) <=> j \in m.ids \/ Mentions(r, j)
      /\ Ends(wire, j, b) <=> Ends(r, j, b) /\ (~Mentions(r, j) => (j \in m.ids => m.act = b))
      /\ Mentions(wire, i) <=> i \in m.ids \/ Mentions(r, i)
    BY <1>4, WordsOfOne
<1>6. /\ Mentions(wire', j) <=> (j \in m.ids /\ j # i) \/ Mentions(r, j)
      /\ Ends(wire', j, b) <=> Ends(r, j, b) /\ (~Mentions(r, j) => (j \in m.ids /\ j # i => m.act = b))
    <2>1. CASE m.ids = {i}
        <3>1. wire' = r BY <1>2, <1>3, <2>1 DEF Deliver
        <3> QED BY <2>1, <3>1
    <2>2. CASE m.ids # {i}
        <3>1. PICK x : x = Message(m.ids \ {i}, m.act) OBVIOUS
        <3>2. x \in Messages
            <4>1. m.ids \ {i} \in SUBSET Id /\ m.ids \ {i} # {} /\ m.act \in Action
                BY <1>2, <2>2, MessageParts DEF Deliver
            <4> QED BY <3>1, <4>1, MessageType
        <3>3. x.ids = m.ids \ {i} /\ x.act = m.act BY <3>1 DEF Message
        <3>4. wire' = [wire EXCEPT ![1] = x] BY <1>2, <1>4, <2>2, <3>1 DEF Deliver
        <3>5. wire' = <<x>> \o r
            <4>1. wire' \in Seq(Messages) /\ Len(wire') = Len(wire) BY <1>1, <1>4, <3>2, <3>4
            <4>2. <<x>> \o r \in Seq(Messages) BY <3>2
            <4>3. Len(r) = Len(wire) - 1
                <5>1. DOMAIN r = 1..Len(r) /\ Len(r) \in Nat OBVIOUS
                <5>2. Len(wire) - 1 \in Nat BY <1>4
                <5> QED BY <1>4, <5>1, <5>2
            <4>4. Len(<<x>> \o r) = Len(wire) BY <1>4, <3>2, <4>3
            <4>5. ASSUME NEW n \in 1..Len(wire) PROVE wire'[n] = (<<x>> \o r)[n]
                <5>1. CASE n = 1 BY <1>1, <1>4, <3>2, <3>4, <5>1
                <5>2. CASE n - 1 \in 1..(Len(wire) - 1) /\ n = (n - 1) + 1
                    <6>0. n # 1 /\ DOMAIN wire = 1..Len(wire) BY <1>1, <1>4, <5>2
                    <6>1. wire'[n] = wire[n] BY <3>4, <6>0
                    <6>2. (<<x>> \o r)[n] = r[n - 1] BY <1>4, <3>2, <4>3, <5>2
                    <6> QED BY <1>4, <5>2, <6>1, <6>2
                <5>3. n = 1 \/ (n - 1 \in 1..(Len(wire) - 1) /\ n = (n - 1) + 1) BY <1>4
                <5> QED BY <5>1, <5>2, <5>3
            <4> QED BY <4>1, <4>2, <4>4, <4>5, SeqEqual
        <3>6. /\ Mentions(wire', j) <=> j \in x.ids \/ Mentions(r, j)
              /\ Ends(wire', j, b) <=> Ends(r, j, b) /\ (~Mentions(r, j) => (j \in x.ids => x.act = b))
            BY <3>2, <3>5, WordsOfOne
        <3> QED BY <3>3, <3>6
    <2> QED BY <2>1, <2>2
<1>7. i \in m.ids /\ heard' = [heard EXCEPT ![i] = m.act] /\ dropped' = [dropped EXCEPT ![i] = "no"]
    BY <1>2 DEF Deliver
<1>8. heard'[i] = m.act /\ (j # i => heard'[j] = heard[j] /\ dropped'[j] = dropped[j])
    BY <1>7 DEF TypeOK
<1> QED BY <1>5, <1>6, <1>7, <1>8

LEMMA EnabledObj ==
    ASSUME TypeOK, NEW k \in Enabled(db)
    PROVE  k \in Key /\ db[k] # Absent /\ db[k].obj \in Obj /\ IdOf(db[k].obj) \in Id
BY StoredObj, ObjId DEF TypeOK, Enabled, Absent

\* A step of the client that keeps what is on its way keeps it all.
LEMMA LinkKeeps ==
    ASSUME WordsInv, UNCHANGED <<db, disk, cur, next, handlers, overtaken, crossed>>,
           \A i \in Id : (i \in EnabledIds /\ i \notin overtaken /\ Issued(i)) => (Issued(i))',
           \A i \in Id : (i \notin EnabledIds /\ i \notin overtaken /\ Withdrawn(i)) => (Withdrawn(i))'
    PROVE  StoresAreProper' /\ PostsAreKnown' /\ EnabledIsOnItsWay' /\ OffsAreOnTheirWay'
<1> USE DEF WordsInv
<1>1. StoresAreProper' /\ PostsAreKnown' BY DEF StoresAreProper, PostsAreKnown
<1>2. Enabled(db') = Enabled(db) /\ EnabledIds' = EnabledIds BY DEF EnabledIds
<1>3. EnabledIsOnItsWay'
    <2> SUFFICES ASSUME NEW k \in Enabled(db)
                 PROVE  \/ \E h \in handlers : h.op = "post" /\ h.obj = db[k].obj
                        \/ IdOf(db[k].obj) \in overtaken
                        \/ (Issued(IdOf(db[k].obj)))'
        BY <1>2 DEF EnabledIsOnItsWay
    <2>1. IdOf(db[k].obj) \in EnabledIds /\ IdOf(db[k].obj) \in Id BY EnabledObj DEF EnabledIds
    <2>2. PICK i \in Id : i = IdOf(db[k].obj) /\ i \in EnabledIds BY <2>1
    <2>3. i \notin overtaken /\ Issued(i) => (Issued(i))' BY <2>2
    <2>4. IdOf(db'[k].obj) = i BY <2>2
    <2> QED BY <2>2, <2>3, <2>4 DEF EnabledIsOnItsWay
<1>4. ASSUME NEW store, NEW later, OffIsOnItsWay(store, later)
      PROVE  \A i \in Id : Off(store, i) =>
                \/ \E h \in handlers' : IdOf(h.obj) = i /\ h.at \in later
                \/ i \notin EnabledIds' /\ (i \notin overtaken' \cup crossed' => (Withdrawn(i))')
    <2> SUFFICES ASSUME NEW i \in Id, Off(store, i), ~\E h \in handlers : IdOf(h.obj) = i /\ h.at \in later
                 PROVE  i \notin EnabledIds /\ (i \notin overtaken \cup crossed => (Withdrawn(i))')
        BY <1>2
    <2>1. i \notin EnabledIds /\ (i \notin overtaken \cup crossed => Withdrawn(i))
        BY <1>4 DEF OffIsOnItsWay
    <2> QED BY <2>1
<1>5. OffIsOnItsWay(db, {})' BY <1>4 DEF OffIsOnItsWay, OffsAreOnTheirWay
<1>6. (OffIsOnItsWay(disk, {"cur", "next"}))'
    <2>1. OffIsOnItsWay(disk, {"cur", "next"}) BY DEF OffsAreOnTheirWay
    <2>2. \A i \in Id : Off(disk, i) =>
                \/ \E h \in handlers' : IdOf(h.obj) = i /\ h.at \in {"cur", "next"}
                \/ i \notin EnabledIds' /\ (i \notin overtaken' \cup crossed' => (Withdrawn(i))')
        BY <1>4, <2>1
    <2> QED BY <2>2 DEF OffIsOnItsWay
<1>7. (cur # <<>> => OffIsOnItsWay(cur[1], {"next"}))'
    <2> SUFFICES ASSUME cur # <<>> PROVE (OffIsOnItsWay(cur[1], {"next"}))' OBVIOUS
    <2>1. PICK c : c = cur[1] OBVIOUS
    <2>2. OffIsOnItsWay(c, {"next"}) BY <2>1 DEF OffsAreOnTheirWay
    <2>3. \A i \in Id : Off(c, i) =>
                \/ \E h \in handlers' : IdOf(h.obj) = i /\ h.at \in {"next"}
                \/ i \notin EnabledIds' /\ (i \notin overtaken' \cup crossed' => (Withdrawn(i))')
        BY <1>4, <2>2
    <2> QED BY <2>1, <2>3 DEF OffIsOnItsWay
<1> QED BY <1>1, <1>3, <1>5, <1>6, <1>7 DEF OffsAreOnTheirWay

LEMMA FlushPending ==
    ASSUME NEW w, NEW s \in Seq(Obj), Flush(w, s)
    PROVE  \A p \in Pending' : \E n \in DOMAIN s : p = s[n]
<1>1. CASE pendingMessages' = <<>> BY <1>1 DEF Pending
<1>2. CASE \E k \in DOMAIN s : pendingMessages' = SubSeq(s, k, Len(s))
    <2>1. PICK k \in DOMAIN s : pendingMessages' = SubSeq(s, k, Len(s)) BY <1>2
    <2>2. k \in 1..Len(s) /\ Len(s) \in Nat /\ \A n \in 1..Len(s) : s[n] \in Obj OBVIOUS
    <2>3. \A n \in k..Len(s) : s[n] \in Obj BY <2>2
    <2> DEFINE y == SubSeq(s, k, Len(s))
    <2>4. DOMAIN y = 1..(Len(s) - k + 1) /\ \A n \in 1..(Len(s) - k + 1) : y[n] = s[k + n - 1]
        BY <2>2, <2>3, SubSeqProperties
    <2>5. \A n \in 1..(Len(s) - k + 1) : k + n - 1 \in DOMAIN s BY <2>2
    <2> HIDE DEF y
    <2>6. pendingMessages' = y BY <2>1 DEF y
    <2> QED BY <2>4, <2>5, <2>6 DEF Pending
<1> QED BY <1>1, <1>2 DEF Flush

LEMMA BreakKeeps == WordsInv /\ Break => WordsInv'
<1> SUFFICES ASSUME WordsInv, Break PROVE WordsInv' OBVIOUS
<1> USE DEF WordsInv
<1>1. TypeOK' BY TypeStep DEF Next
<1>2. UNCHANGED <<db, disk, cur, next, handlers, action, loaded, pendingMessages, heard, overtaken, crossed>>
    BY DEF Break, file, order
<1>3. wire' = <<>> /\ ~isReady' /\ ~isConnecting' /\ ~draining'
    BY DEF Break
<1>4. LinkIsSound' /\ HeadIsSent' BY <1>3 DEF LinkIsSound, HeadIsSent
<1>5. QueuedIsAdd' BY <1>2 DEF QueuedIsAdd, Pending, Enabled
<1>6. ASSUME NEW i \in Id, NEW a \in Action
      PROVE  /\ Ends(Outlook, i, a) => (Ends(Outlook, i, a))'
             /\ ~(Mentions(Outlook, i))' => IF Mentions(Outlook, i) THEN dropped'[i] = "break"
                                                                    ELSE dropped'[i] = dropped[i]
    <2>1. PICK t : t = TextsBy(pendingMessages, action) OBVIOUS
    <2>2. t \in Seq(Messages) BY <2>1, TextsByType DEF TypeOK
    <2>3. Outlook' = t BY <1>2, <1>3, <2>1, <2>2 DEF Outlook, Texts
    <2>4. /\ Mentions(Outlook, i) <=> Mentions(wire, i) \/ Mentions(t, i)
          /\ Ends(Outlook, i, a) => Ends(t, i, a)
        BY <2>1, OutlookNow
    <2>5. i \in OnWire <=> Mentions(wire, i) BY DEF OnWire, Mentions
    <2>6. dropped'[i] = IF i \in OnWire THEN "break" ELSE dropped[i] BY DEF Break
    <2> QED BY <2>3, <2>4, <2>5, <2>6
<1>7. \A i \in Id : Issued(i) => (Issued(i))'
    BY <1>2, <1>6 DEF Issued, Action
<1>8. \A i \in Id : Withdrawn(i) => (Withdrawn(i))'
    BY <1>2, <1>6 DEF Withdrawn, Action
<1>9. StoresAreProper' /\ PostsAreKnown' /\ EnabledIsOnItsWay' /\ OffsAreOnTheirWay'
    BY <1>2, <1>7, <1>8, LinkKeeps
<1> QED BY <1>1, <1>4, <1>5, <1>9

LEMMA DeliverKeeps == ASSUME WordsInv, NEW i \in Id, Deliver(i) PROVE WordsInv'
<1> USE DEF WordsInv
<1>1. TypeOK' BY TypeStep DEF Next
<1>2. UNCHANGED <<db, disk, cur, next, handlers, action, isReady, isConnecting, reconnectTimer,
                  draining, loaded, pendingMessages, overtaken, crossed>>
    BY DEF Deliver, file, link, order
<1>3. LinkIsSound' BY <1>2 DEF LinkIsSound
<1>4. QueuedIsAdd' BY <1>2 DEF QueuedIsAdd, Pending, Enabled
<1>5. HeadIsSent'
    <2> SUFFICES ASSUME draining, pendingMessages # <<>>, NEW p, p = Head(pendingMessages),
                        IdOf(p) \notin overtaken
                 PROVE  /\ Ends(wire', IdOf(p), action[p])
                        /\ ~Mentions(wire', IdOf(p)) => heard'[IdOf(p)] = action[p]
        BY <1>2 DEF HeadIsSent
    <2>1. p \in Obj BY HeadAndTail DEF TypeOK
    <2>2. IdOf(p) \in Id /\ action[p] \in Action BY <2>1, ObjId DEF TypeOK
    <2>3. Ends(wire, IdOf(p), action[p]) /\ (~Mentions(wire, IdOf(p)) => heard[IdOf(p)] = action[p])
        BY DEF HeadIsSent
    <2> QED BY <2>2, <2>3, DeliverWords
<1>6. ASSUME NEW j \in Id, NEW b \in Action, Ends(Outlook, j, b)
      PROVE  /\ (Ends(Outlook, j, b))'
             /\ ~(Mentions(Outlook, j))' => \/ heard'[j] = b
                                            \/ /\ ~Mentions(Outlook, j)
                                               /\ heard'[j] = heard[j] /\ dropped'[j] = dropped[j]
    <2>1. PICK t : t = TextsBy(pendingMessages, action) OBVIOUS
    <2>2. Outlook' = wire' \o t BY <1>2, <2>1 DEF Outlook, Texts
    <2>3. /\ Mentions(Outlook, j) <=> Mentions(wire, j) \/ Mentions(t, j)
          /\ Ends(Outlook, j, b) <=> Ends(t, j, b) /\ (~Mentions(t, j) => Ends(wire, j, b))
        BY <2>1, OutlookNow
    <2>4. /\ (Mentions(Outlook, j))' <=> Mentions(wire', j) \/ Mentions(t, j)
          /\ (Ends(Outlook, j, b))' <=> Ends(t, j, b) /\ (~Mentions(t, j) => Ends(wire', j, b))
        <3>1. t \in Seq(Messages) BY <2>1, TextsByType DEF TypeOK
        <3>2. wire' \in Seq(Messages) BY <1>1 DEF TypeOK
        <3> QED BY <2>2, <3>1, <3>2, WordsOfConcat
    <2> QED BY <1>6, <2>3, <2>4, DeliverWords
<1>7. \A j \in Id : Issued(j) => (Issued(j))'
    BY <1>2, <1>6 DEF Issued, Action
<1>8. \A j \in Id : Withdrawn(j) => (Withdrawn(j))'
    BY <1>2, <1>6 DEF Withdrawn, Action
<1>9. StoresAreProper' /\ PostsAreKnown' /\ EnabledIsOnItsWay' /\ OffsAreOnTheirWay'
    BY <1>2, <1>7, <1>8, LinkKeeps
<1> QED BY <1>1, <1>3, <1>4, <1>5, <1>9

LEMMA DrainKeeps == WordsInv /\ Drain => WordsInv'
<1> SUFFICES ASSUME WordsInv, Drain PROVE WordsInv' OBVIOUS
<1> USE DEF WordsInv
<1>1. TypeOK' BY TypeStep DEF Next
<1>2. UNCHANGED <<db, disk, cur, next, handlers, action, isReady, isConnecting, reconnectTimer,
                  loaded, heard, dropped, overtaken, crossed>>
    BY DEF Drain, file, order
<1>3. LinkIsSound' BY <1>2 DEF LinkIsSound, Drain
<1>4. /\ pendingMessages \in Seq(Obj) /\ pendingMessages # <<>> /\ wire \in Seq(Messages)
      /\ action \in [Obj -> Action]
    BY DEF TypeOK, Drain
<1>5. PICK p \in Obj, s \in Seq(Obj) :
          /\ p = Head(pendingMessages) /\ s = Tail(pendingMessages)
          /\ p \in Pending /\ \A n \in DOMAIN s : s[n] \in Pending
    <2>1. DOMAIN pendingMessages = 1..Len(pendingMessages) BY <1>4
    <2>2. \A n \in 1..(Len(pendingMessages) - 1) : n + 1 \in DOMAIN pendingMessages
        BY <1>4, <2>1
    <2>3. PICK s \in Seq(Obj) : s = Tail(pendingMessages) BY <1>4, HeadAndTail
    <2>4. \A n \in DOMAIN s : n \in 1..(Len(pendingMessages) - 1) /\ s[n] = pendingMessages[n + 1]
        BY <1>4, <2>3, HeadAndTail
    <2>5. \A n \in DOMAIN s : s[n] \in Pending BY <2>2, <2>4 DEF Pending
    <2>6. Head(pendingMessages) \in Obj /\ Head(pendingMessages) \in Pending
        BY <1>4, HeadAndTail DEF Pending
    <2> QED BY <2>3, <2>5, <2>6
<1>6. Flush(wire, s) BY <1>5 DEF Drain
<1>7. QueuedIsAdd'
    <2>1. \A x \in Pending' : x \in Pending BY <1>5, <1>6, FlushPending
    <2> QED BY <1>2, <2>1 DEF QueuedIsAdd, Enabled
<1>8. PICK t : t = TextsBy(s, action) OBVIOUS
<1>9. ASSUME NEW j \in Id, NEW b \in Action
      PROVE  /\ (Mentions(Outlook, j))' <=> Mentions(wire, j) \/ Mentions(t, j)
             /\ (Ends(Outlook, j, b))' <=> Ends(t, j, b) /\ (~Mentions(t, j) => Ends(wire, j, b))
             /\ HeadIsSent'
    BY <1>1, <1>2, <1>4, <1>5, <1>6, <1>8, FlushWords
<1>10. HeadIsSent'
    <2>1. IdOf(p) \in Id /\ "ADD" \in Action BY ObjId DEF Action
    <2> QED BY <1>9, <2>1
<1>11. ASSUME NEW j \in Id, NEW b \in Action, Ends(Outlook, j, b), j \notin overtaken
       PROVE  /\ (Ends(Outlook, j, b))'
              /\ ~(Mentions(Outlook, j))' => heard[j] = b \/ ~Mentions(Outlook, j)
    <2>1. /\ Mentions(Outlook, j) <=> Mentions(wire, j) \/ IdOf(p) = j \/ Mentions(t, j)
          /\ Ends(t, j, b)
          /\ ~Mentions(t, j) => IF IdOf(p) = j THEN action[p] = b ELSE Ends(wire, j, b)
        BY <1>4, <1>5, <1>8, <1>11, OutlookNow, WordsOfQueue
    <2>2. IdOf(p) = j => Ends(wire, j, action[p]) /\ (~Mentions(wire, j) => heard[j] = action[p])
        BY <1>5, <1>11 DEF HeadIsSent, Drain
    <2> QED BY <1>9, <2>1, <2>2
<1>12. \A j \in Id : j \notin overtaken /\ Issued(j) => (Issued(j))'
    BY <1>2, <1>11 DEF Issued, Action
<1>13. \A j \in Id : j \notin overtaken /\ Withdrawn(j) => (Withdrawn(j))'
    BY <1>2, <1>11 DEF Withdrawn, Action
<1>14. StoresAreProper' /\ PostsAreKnown' /\ EnabledIsOnItsWay' /\ OffsAreOnTheirWay'
    BY <1>2, <1>12, <1>13, LinkKeeps
<1> QED BY <1>1, <1>3, <1>7, <1>10, <1>14

LEMMA ConnectedKeeps == WordsInv /\ Connected => WordsInv'
<1> SUFFICES ASSUME WordsInv, Connected PROVE WordsInv' OBVIOUS
<1> USE DEF WordsInv
<1>1. TypeOK' BY TypeStep DEF Next
<1>2. UNCHANGED <<db, disk, cur, next, handlers, reconnectTimer, heard, dropped, overtaken, crossed>>
    BY DEF Connected, file, order
<1>3. LinkIsSound' BY <1>2 DEF LinkIsSound, Connected
<1>4. /\ pendingMessages \in Seq(Obj) /\ wire \in Seq(Messages)
      /\ action \in [Obj -> Action] /\ action' \in [Obj -> Action] /\ loaded \in BOOLEAN
    BY <1>1 DEF TypeOK
<1>5. Loaded = IF loaded THEN {} ELSE {db[k].obj : k \in Enabled(db)} BY DEF Loaded, Enabled
<1>6. Loaded \subseteq Obj BY <1>5, EnabledObj
<1>7. PICK w : w = IF Loaded = {} THEN wire ELSE Append(wire, Message({IdOf(o) : o \in Loaded}, "ADD"))
    OBVIOUS
<1>8. PICK ids : ids = {IdOf(o) : o \in Loaded} OBVIOUS
<1>9. \A j : j \in ids <=> ~loaded /\ j \in EnabledIds BY <1>5, <1>8 DEF EnabledIds
<1>10. /\ w \in Seq(Messages)
       /\ \A j \in Id : \A b \in Action :
            /\ Mentions(w, j) <=> j \in ids \/ Mentions(wire, j)
            /\ Ends(w, j, b) <=> IF j \in ids THEN "ADD" = b ELSE Ends(wire, j, b)
    <2>1. CASE Loaded = {} BY <1>4, <1>7, <1>8, <2>1
    <2>2. CASE Loaded # {}
        <3>1. PICK m : m = Message(ids, "ADD") OBVIOUS
        <3>2. ids \in SUBSET Id /\ ids # {} BY <1>6, <1>8, <2>2, ObjId
        <3>3. m \in Messages BY <3>1, <3>2, MessageType DEF Action
        <3>4. m.ids = ids /\ m.act = "ADD" BY <3>1 DEF Message
        <3>5. w = Append(wire, m) BY <1>7, <1>8, <2>2, <3>1
        <3> QED BY <1>4, <3>3, <3>4, <3>5, WordsOfAppend
    <2> QED BY <2>1, <2>2
<1>11. Flush(w, pendingMessages) BY <1>7 DEF Connected
<1>12. \A o \in Obj : action'[o] = IF o \in Loaded THEN "ADD" ELSE action[o] BY DEF Connected
<1>13. \A o \in Obj : o \in Loaded /\ o \in Pending => action[o] = "ADD" BY <1>5 DEF QueuedIsAdd
<1>14. \A n \in DOMAIN pendingMessages : action'[pendingMessages[n]] = action[pendingMessages[n]]
    BY <1>4, <1>12, <1>13 DEF Pending
<1>15. PICK t : t = TextsBy(pendingMessages, action) OBVIOUS
<1>16. ASSUME NEW j \in Id, NEW b \in Action
       PROVE  /\ (Mentions(Outlook, j))' <=> Mentions(w, j) \/ Mentions(t, j)
              /\ (Ends(Outlook, j, b))' <=> Ends(t, j, b) /\ (~Mentions(t, j) => Ends(w, j, b))
              /\ HeadIsSent'
    BY <1>4, <1>10, <1>11, <1>14, <1>15, FlushWords
<1>17. HeadIsSent'
    <2>1. CASE Obj = {}
        <3>1. Pending' = {} BY <1>1, <2>1 DEF TypeOK, Pending
        <3> QED BY <1>1, <3>1, HeadAndTail DEF TypeOK, HeadIsSent, Pending
    <2>2. CASE Obj # {}
        <3>1. PICK o \in Obj : TRUE BY <2>2
        <3>2. IdOf(o) \in Id /\ "ADD" \in Action BY ObjId DEF Action
        <3> QED BY <1>16, <3>2
    <2> QED BY <2>1, <2>2
<1>18. QueuedIsAdd'
    <2> SUFFICES ASSUME NEW k \in Enabled(db), db[k].obj \in Pending' PROVE action'[db[k].obj] = "ADD"
        BY <1>2 DEF QueuedIsAdd
    <2>1. db[k].obj \in Pending BY <1>4, <1>11, FlushPending DEF Pending
    <2>2. action[db[k].obj] = "ADD" BY <2>1 DEF QueuedIsAdd
    <2> QED BY <1>12, <2>2, EnabledObj
<1>19. ASSUME NEW j \in Id, NEW b \in Action
       PROVE  /\ Mentions(Outlook, j) <=> Mentions(wire, j) \/ Mentions(t, j)
              /\ Ends(Outlook, j, b) <=> Ends(t, j, b) /\ (~Mentions(t, j) => Ends(wire, j, b))
    BY <1>15, OutlookNow
<1>20. loaded' = TRUE BY DEF Connected
<1>21. ASSUME NEW j \in Id, j \in EnabledIds, Issued(j) PROVE (Issued(j))'
    <2>1. "ADD" \in Action BY DEF Action
    <2>2. Ends(t, j, "ADD") /\ (~Mentions(t, j) => Ends(wire, j, "ADD")) BY <1>19, <1>21, <2>1 DEF Issued
    <2>3. Ends(w, j, "ADD") <=> IF j \in ids THEN "ADD" = "ADD" ELSE Ends(wire, j, "ADD") BY <1>10, <2>1
    <2>4. (Ends(Outlook, j, "ADD"))' BY <1>16, <2>1, <2>2, <2>3
    <2>5. ~(Mentions(Outlook, j))' => loaded /\ ~Mentions(Outlook, j)
        BY <1>4, <1>9, <1>10, <1>16, <1>19, <1>21, <2>1
    <2> QED BY <1>2, <1>20, <1>21, <2>4, <2>5 DEF Issued
<1>22. ASSUME NEW j \in Id, j \notin EnabledIds, Withdrawn(j) PROVE (Withdrawn(j))'
    <2>1. "DELETE" \in Action /\ j \notin ids BY <1>9, <1>22 DEF Action
    <2>2. Ends(t, j, "DELETE") /\ (~Mentions(t, j) => Ends(wire, j, "DELETE"))
        BY <1>19, <1>22, <2>1 DEF Withdrawn
    <2>3. (Ends(Outlook, j, "DELETE"))' BY <1>10, <1>16, <2>1, <2>2
    <2>4. (Mentions(Outlook, j))' <=> Mentions(Outlook, j) BY <1>10, <1>16, <1>19, <2>1
    <2> QED BY <1>2, <1>22, <2>3, <2>4 DEF Withdrawn
<1>23. StoresAreProper' /\ PostsAreKnown' /\ EnabledIsOnItsWay' /\ OffsAreOnTheirWay'
    BY <1>2, <1>21, <1>22, LinkKeeps
<1> QED BY <1>1, <1>3, <1>17, <1>18, <1>23

LEMMA TimersKeep == WordsInv /\ (ConnectFails \/ TimerFires) => WordsInv'
<1> SUFFICES ASSUME WordsInv, ConnectFails \/ TimerFires PROVE WordsInv' OBVIOUS
<1> USE DEF WordsInv
<1>1. TypeOK' BY TypeStep DEF Next
<1>2. UNCHANGED <<db, disk, cur, next, handlers, action, isReady, loaded, draining,
                  pendingMessages, wire, heard, dropped, overtaken, crossed>>
    BY DEF ConnectFails, TimerFires, file, order
<1>3. LinkIsSound' BY <1>2 DEF LinkIsSound, ConnectFails, TimerFires
<1>4. HeadIsSent' /\ QueuedIsAdd' BY <1>2 DEF HeadIsSent, QueuedIsAdd, Pending, Enabled
<1>5. Outlook' = Outlook BY <1>2 DEF Outlook, Texts
<1>6. \A i \in Id : (Issued(i) => (Issued(i))') /\ (Withdrawn(i) => (Withdrawn(i))')
    BY <1>2, <1>5 DEF Issued, Withdrawn
<1>7. StoresAreProper' /\ PostsAreKnown' /\ EnabledIsOnItsWay' /\ OffsAreOnTheirWay'
    BY <1>2, <1>6, LinkKeeps
<1> QED BY <1>1, <1>3, <1>4, <1>7

-----------------------------------------------------------------------------
(* What the handlers do                                                    *)

LEMMA WriteDoneKeeps == WordsInv /\ WriteDone => WordsInv'
<1> SUFFICES ASSUME WordsInv, WriteDone PROVE WordsInv' OBVIOUS
<1> USE DEF WordsInv
<1>1. TypeOK' BY TypeStep DEF Next
<1>2. UNCHANGED <<db, action, isReady, isConnecting, reconnectTimer, loaded, draining,
                  pendingMessages, wire, heard, dropped, overtaken, crossed>>
    BY DEF WriteDone, link, order
<1>3. cur # <<>> /\ disk' = cur[1] /\ cur' = next /\ next' = <<>> BY DEF WriteDone, Written
<1>4. handlers' = {Promoted(h) : h \in handlers} BY DEF WriteDone
<1>5. \A h \in handlers : /\ Promoted(h) \in handlers'
                          /\ Promoted(h).op = h.op /\ Promoted(h).obj = h.obj
                          /\ Promoted(h).at = IF h.at = "next" THEN "cur" ELSE "done"
    BY <1>4, PromotedType DEF TypeOK
<1>6. LinkIsSound' /\ HeadIsSent' /\ QueuedIsAdd'
    BY <1>2 DEF LinkIsSound, HeadIsSent, QueuedIsAdd, Pending, Enabled
<1>7. StoresAreProper' BY <1>2, <1>3 DEF StoresAreProper
<1>8. PostsAreKnown' BY <1>2, <1>4, <1>5 DEF PostsAreKnown
<1>9. Outlook' = Outlook /\ EnabledIds' = EnabledIds BY <1>2 DEF Outlook, Texts, EnabledIds
<1>10. \A i \in Id : (Withdrawn(i))' <=> Withdrawn(i) BY <1>2, <1>9 DEF Withdrawn
<1>11. EnabledIsOnItsWay'
    <2> SUFFICES ASSUME NEW k \in Enabled(db)
                 PROVE  \/ \E h \in handlers' : h.op = "post" /\ h.obj = db[k].obj
                        \/ IdOf(db[k].obj) \in overtaken
                        \/ (Issued(IdOf(db[k].obj)))'
        BY <1>2 DEF EnabledIsOnItsWay
    <2>1. (Issued(IdOf(db[k].obj)))' <=> Issued(IdOf(db[k].obj)) BY <1>2, <1>9 DEF Issued
    <2>2. \/ \E h \in handlers : h.op = "post" /\ h.obj = db[k].obj
          \/ IdOf(db[k].obj) \in overtaken
          \/ Issued(IdOf(db[k].obj))
        BY DEF EnabledIsOnItsWay
    <2> QED BY <1>5, <2>1, <2>2
<1>12. (OffIsOnItsWay(db, {}))'
    BY <1>2, <1>9, <1>10 DEF OffIsOnItsWay, OffsAreOnTheirWay
<1>13. (OffIsOnItsWay(disk, {"cur", "next"}))'
    <2>1. PICK c : c = cur[1] OBVIOUS
    <2>2. OffIsOnItsWay(c, {"next"}) BY <1>3, <2>1 DEF OffsAreOnTheirWay
    <2>3. \A i \in Id : Off(c, i) =>
                \/ \E h \in handlers' : IdOf(h.obj) = i /\ h.at \in {"cur", "next"}
                \/ i \notin EnabledIds' /\ (i \notin overtaken' \cup crossed' => (Withdrawn(i))')
        <3> SUFFICES ASSUME NEW i \in Id, Off(c, i),
                            ~(i \notin EnabledIds /\ (i \notin overtaken \cup crossed => Withdrawn(i)))
                     PROVE  \E h \in handlers' : IdOf(h.obj) = i /\ h.at \in {"cur", "next"}
            BY <1>2, <1>9, <1>10
        <3>1. PICK h \in handlers : IdOf(h.obj) = i /\ h.at = "next" BY <2>2 DEF OffIsOnItsWay
        <3>2. Promoted(h) \in handlers' /\ Promoted(h).obj = h.obj /\ Promoted(h).at = "cur" BY <1>5, <3>1
        <3> QED BY <3>1, <3>2
    <2> QED BY <1>3, <2>1, <2>3 DEF OffIsOnItsWay
<1>14. (cur # <<>> => OffIsOnItsWay(cur[1], {"next"}))'
    <2> SUFFICES ASSUME next # <<>> PROVE (OffIsOnItsWay(cur[1], {"next"}))' BY <1>3
    <2>1. cur'[1] = db BY <1>3 DEF StoresAreProper
    <2>2. OffIsOnItsWay(db, {}) BY DEF OffsAreOnTheirWay
    <2>3. \A i \in Id : Off(db, i) => i \notin EnabledIds' /\ (i \notin overtaken' \cup crossed' => (Withdrawn(i))')
        BY <1>2, <1>9, <1>10, <2>2 DEF OffIsOnItsWay
    <2> QED BY <2>1, <2>3 DEF OffIsOnItsWay
<1> QED BY <1>1, <1>6, <1>7, <1>8, <1>11, <1>12, <1>13, <1>14 DEF OffsAreOnTheirWay

\* Object o may be stored under key k: it is the one object of its ID.
Fits(k, o, status) ==
    /\ k \in Intent => IdOf(o) = k /\ status # "disabled"
    /\ k \in Function => IdOf(o) \in FunctionId
    /\ \A x \in Key : (x # k /\ db[x] # Absent) => IdOf(db[x].obj) # IdOf(o)

\* What Change does to the stores and the handlers.
LEMMA ChangeEffect ==
    ASSUME WordsInv, NEW op \in {"post", "end"}, NEW k \in Key, NEW o \in Obj, NEW status \in Status,
           Change(op, k, o, status), Fits(k, o, status)
    PROVE  /\ \A x \in Key : x # k => db'[x] = db[x]
           /\ status = "absent" => db'[k] = Absent
           /\ status # "absent" => db'[k] # Absent /\ db'[k].obj = o /\ db'[k].status = status
           /\ Proper(db') /\ StoresAreProper'
           /\ disk' = disk /\ cur' = IF cur = <<>> THEN <<db'>> ELSE cur
           /\ \A h \in handlers : \E g \in handlers' : g.op = h.op /\ g.obj = h.obj /\ g.at = h.at
           /\ \A g \in handlers' : \/ \E h \in handlers : g.op = h.op /\ g.obj = h.obj /\ g.at = h.at
                                   \/ g.op = op /\ g.obj = o
           /\ \E g \in handlers' : g.op = op /\ g.obj = o /\ g.at = IF cur = <<>> THEN "cur" ELSE "next"
           /\ UNCHANGED <<heard, dropped>>
<1> USE DEF WordsInv
<1>1. PICK e : e = IF status = "absent" THEN Absent ELSE [obj |-> o, status |-> status] OBVIOUS
<1>2. db' = [db EXCEPT ![k] = e] /\ Write(db') /\ Await(op, k, o, status) BY <1>1 DEF Change
<1>3. db'[k] = e /\ \A x \in Key : x # k => db'[x] = db[x] BY <1>2 DEF TypeOK, Store
<1>4. /\ status = "absent" => e = Absent
      /\ status # "absent" => e # Absent /\ e.obj = o /\ e.status = status
    BY <1>1 DEF Absent
<1>5. Intent \cap Function = {} /\ Intent \cap FunctionId = {} /\ Key = Intent \cup Function
    BY DesignerAssumption DEF Key
<1>6. Proper(db')
    <2>1. \A i \in Intent : db'[i] # Absent => IdOf(db'[i].obj) = i /\ db'[i].status = "enabled"
        BY <1>3, <1>4, <1>5 DEF StoresAreProper, Proper, Fits, Status
    <2>2. \A f \in Function : db'[f] # Absent => IdOf(db'[f].obj) \in FunctionId
        BY <1>3, <1>4, <1>5 DEF StoresAreProper, Proper, Fits
    <2>3. \A f, g \in Function : (db'[f] # Absent /\ db'[g] # Absent /\ f # g)
                                 => IdOf(db'[f].obj) # IdOf(db'[g].obj)
        BY <1>3, <1>4, <1>5 DEF StoresAreProper, Proper, Fits
    <2> QED BY <2>1, <2>2, <2>3 DEF Proper
<1>7. <<db'>> # <<>> /\ <<db'>>[1] = db' OBVIOUS
<1>8. StoresAreProper' BY <1>2, <1>6, <1>7 DEF StoresAreProper, Write
<1>9. disk' = disk /\ cur' = IF cur = <<>> THEN <<db'>> ELSE cur BY <1>2 DEF Write
<1>10. PICK new : new = [op |-> op, key |-> k, obj |-> o, makes |-> status, last |-> TRUE,
                         at |-> IF cur = <<>> THEN "cur" ELSE "next"]
    OBVIOUS
<1>11. new.op = op /\ new.obj = o /\ new.at = IF cur = <<>> THEN "cur" ELSE "next" BY <1>10
<1>12. handlers' = {Superseded(h, k) : h \in handlers} \cup {new} BY <1>2, <1>10 DEF Await
<1>13. \A h \in handlers : /\ Superseded(h, k).op = h.op /\ Superseded(h, k).obj = h.obj
                           /\ Superseded(h, k).at = h.at
    BY SupersededType DEF TypeOK
<1>14. \A h \in handlers : \E g \in handlers' : g.op = h.op /\ g.obj = h.obj /\ g.at = h.at
    BY <1>12, <1>13
<1>15. \A g \in handlers' : \/ \E h \in handlers : g.op = h.op /\ g.obj = h.obj /\ g.at = h.at
                            \/ g.op = op /\ g.obj = o
    BY <1>11, <1>12, <1>13
<1>16. \E g \in handlers' : g.op = op /\ g.obj = o /\ g.at = IF cur = <<>> THEN "cur" ELSE "next"
    BY <1>11, <1>12
<1>17. UNCHANGED <<heard, dropped>> BY DEF Change
<1> QED BY <1>3, <1>4, <1>6, <1>8, <1>9, <1>14, <1>15, <1>16, <1>17

\* What was deleted or disabled stays on its way when a request changes key k.
LEMMA ChangeOffs ==
    ASSUME WordsInv, NEW op \in {"post", "end"}, NEW k \in Key, NEW o \in Obj, NEW status \in Status,
           Change(op, k, o, status), Fits(k, o, status),
           overtaken \subseteq overtaken', crossed \subseteq crossed',
           \A i \in Id : (i # IdOf(o) /\ Withdrawn(i)) => (Withdrawn(i))',
           \A i \in Id : (i = IdOf(o) /\ status # "enabled" /\ i \notin overtaken') => (Withdrawn(i))'
    PROVE  OffsAreOnTheirWay'
<1> USE DEF WordsInv
<1>1. /\ \A x \in Key : x # k => db'[x] = db[x]
      /\ status = "absent" => db'[k] = Absent
      /\ status # "absent" => db'[k] # Absent /\ db'[k].obj = o /\ db'[k].status = status
      /\ disk' = disk /\ cur' = IF cur = <<>> THEN <<db'>> ELSE cur
      /\ \A h \in handlers : \E g \in handlers' : g.op = h.op /\ g.obj = h.obj /\ g.at = h.at
      /\ \E g \in handlers' : g.op = op /\ g.obj = o /\ g.at = IF cur = <<>> THEN "cur" ELSE "next"
    BY ChangeEffect
<1>2. Intent \cap Function = {} /\ Intent \cap FunctionId = {} /\ Key = Intent \cup Function
    BY DesignerAssumption DEF Key
<1>3. \A x \in Key : (x # k /\ db[x] # Absent) => IdOf(db[x].obj) # IdOf(o) BY DEF Fits
<1>4. \A x \in Key : x \in Enabled(db) => db[x] # Absent BY DEF Enabled, Absent
<1>5. \A i \in Id : i # IdOf(o) /\ i \notin EnabledIds => i \notin EnabledIds'
    <2> SUFFICES ASSUME NEW i \in Id, i # IdOf(o), NEW x \in Key, x \in Enabled(db'), IdOf(db'[x].obj) = i
                 PROVE  i \in EnabledIds
        BY DEF EnabledIds, Enabled
    <2>1. db'[x].status = "enabled" BY DEF Enabled
    <2>2. x # k BY <1>1, <2>1 DEF Absent
    <2> QED BY <1>1, <2>1, <2>2 DEF EnabledIds, Enabled
<1>6. \A i \in Id : i = IdOf(o) /\ status # "enabled" => i \notin EnabledIds'
    <2> SUFFICES ASSUME status # "enabled", NEW x \in Key, x \in Enabled(db'), IdOf(db'[x].obj) = IdOf(o)
                 PROVE  FALSE
        BY DEF EnabledIds, Enabled
    <2>1. db'[x].status = "enabled" BY DEF Enabled
    <2>2. x # k BY <1>1, <2>1 DEF Absent
    <2> QED BY <1>1, <1>3, <1>4, <2>1, <2>2 DEF Enabled
<1>7. \A i \in Id : (i \notin EnabledIds /\ (i \notin overtaken \cup crossed => Withdrawn(i)) /\ i # IdOf(o))
                    => i \notin EnabledIds' /\ (i \notin overtaken' \cup crossed' => (Withdrawn(i))')
    BY <1>5
<1>8. \A i \in Id : i = IdOf(o) /\ status # "enabled"
                    => i \notin EnabledIds' /\ (i \notin overtaken' \cup crossed' => (Withdrawn(i))')
    BY <1>6
<1>9. ASSUME NEW store, NEW later, OffIsOnItsWay(store, later),
             (IF cur = <<>> THEN "cur" ELSE "next") \in later
      PROVE  \A i \in Id : Off(store, i) =>
                \/ \E h \in handlers' : IdOf(h.obj) = i /\ h.at \in later
                \/ i \notin EnabledIds' /\ (i \notin overtaken' \cup crossed' => (Withdrawn(i))')
    <2> SUFFICES ASSUME NEW i \in Id, Off(store, i), ~\E h \in handlers' : IdOf(h.obj) = i /\ h.at \in later
                 PROVE  i \notin EnabledIds' /\ (i \notin overtaken' \cup crossed' => (Withdrawn(i))')
        OBVIOUS
    <2>1. i # IdOf(o) BY <1>1, <1>9
    <2>2. ~\E h \in handlers : IdOf(h.obj) = i /\ h.at \in later
        <3> SUFFICES ASSUME NEW h \in handlers, IdOf(h.obj) = i, h.at \in later PROVE FALSE OBVIOUS
        <3>1. PICK g \in handlers' : g.obj = h.obj /\ g.at = h.at BY <1>1
        <3> QED BY <3>1
    <2>3. i \notin EnabledIds /\ (i \notin overtaken \cup crossed => Withdrawn(i))
        BY <1>9, <2>2 DEF OffIsOnItsWay
    <2> QED BY <1>7, <2>1, <2>3
<1>10. \A i \in Id : Off(db', i)
                     => i \notin EnabledIds' /\ (i \notin overtaken' \cup crossed' => (Withdrawn(i))')
    <2> SUFFICES ASSUME NEW i \in Id, Off(db', i)
                 PROVE  i \notin EnabledIds' /\ (i \notin overtaken' \cup crossed' => (Withdrawn(i))')
        OBVIOUS
    <2>1. i # IdOf(o) => Off(db, i)
        <3>1. CASE i \in Intent /\ db'[i] = Absent
            <4>1. i = k => status = "absent" /\ IdOf(o) = k BY <1>1, <3>1 DEF Fits
            <4> QED BY <1>1, <1>2, <3>1, <4>1 DEF Off
        <3>2. CASE \E f \in Function : db'[f].status = "disabled" /\ IdOf(db'[f].obj) = i
            <4>1. PICK f \in Function : db'[f].status = "disabled" /\ IdOf(db'[f].obj) = i BY <3>2
            <4>2. f = k => IdOf(o) = i BY <1>1, <4>1 DEF Absent
            <4> QED BY <1>1, <1>2, <4>1, <4>2 DEF Off
        <3> QED BY <3>1, <3>2 DEF Off
    <2>2. i = IdOf(o) => status # "enabled"
        <3> SUFFICES ASSUME i = IdOf(o), status = "enabled" PROVE FALSE OBVIOUS
        <3>1. db'[k] # Absent /\ db'[k].status = "enabled" BY <1>1
        <3>2. CASE i \in Intent /\ db'[i] = Absent
            <4>1. k \in Intent => i = k BY DEF Fits
            <4>2. k \in Function => i \in FunctionId BY DEF Fits
            <4> QED BY <1>2, <3>1, <3>2, <4>1, <4>2
        <3>3. CASE \E f \in Function : db'[f].status = "disabled" /\ IdOf(db'[f].obj) = i
            <4>1. PICK f \in Function : db'[f].status = "disabled" /\ IdOf(db'[f].obj) = i BY <3>3
            <4>2. f # k BY <3>1, <4>1
            <4>3. f \in Key /\ db[f].status = "disabled" /\ IdOf(db[f].obj) = i BY <1>1, <1>2, <4>1, <4>2
            <4>4. db[f] # Absent BY <4>3 DEF Absent
            <4> QED BY <1>3, <4>2, <4>3, <4>4
        <3> QED BY <3>2, <3>3 DEF Off
    <2>3. CASE i # IdOf(o)
        <3>1. i \notin EnabledIds /\ (i \notin overtaken \cup crossed => Withdrawn(i))
            BY <2>1, <2>3 DEF OffIsOnItsWay, OffsAreOnTheirWay
        <3> QED BY <1>7, <2>3, <3>1
    <2> QED BY <1>8, <2>2, <2>3
<1>11. (OffIsOnItsWay(db, {}))' BY <1>10 DEF OffIsOnItsWay
<1>12. (OffIsOnItsWay(disk, {"cur", "next"}))'
    <2>1. OffIsOnItsWay(disk, {"cur", "next"}) BY DEF OffsAreOnTheirWay
    <2>2. \A i \in Id : Off(disk, i) =>
                \/ \E h \in handlers' : IdOf(h.obj) = i /\ h.at \in {"cur", "next"}
                \/ i \notin EnabledIds' /\ (i \notin overtaken' \cup crossed' => (Withdrawn(i))')
        BY <1>9, <2>1
    <2> QED BY <1>1, <2>2 DEF OffIsOnItsWay
<1>13. (cur # <<>> => OffIsOnItsWay(cur[1], {"next"}))'
    <2>1. CASE cur = <<>>
        <3>1. cur'[1] = db' BY <1>1, <2>1
        <3> QED BY <1>10, <3>1 DEF OffIsOnItsWay
    <2>2. CASE cur # <<>>
        <3>1. PICK c : c = cur[1] OBVIOUS
        <3>2. OffIsOnItsWay(c, {"next"}) BY <2>2, <3>1 DEF OffsAreOnTheirWay
        <3>3. \A i \in Id : Off(c, i) =>
                    \/ \E h \in handlers' : IdOf(h.obj) = i /\ h.at \in {"next"}
                    \/ i \notin EnabledIds' /\ (i \notin overtaken' \cup crossed' => (Withdrawn(i))')
            BY <1>9, <2>2, <3>2
        <3>4. cur'[1] = c BY <1>1, <2>2, <3>1
        <3> QED BY <3>3, <3>4 DEF OffIsOnItsWay
    <2> QED BY <2>1, <2>2
<1> QED BY <1>11, <1>12, <1>13 DEF OffsAreOnTheirWay

\* A request that publishes: ADD with what is enabled, else DELETE.
LEMMA RequestKeeps ==
    ASSUME WordsInv, NEW k \in Key, NEW o \in Obj, NEW a \in Action, NEW status \in Status,
           Publish(o, a), Change("end", k, o, status), Fits(k, o, status),
           a = IF status = "enabled" THEN "ADD" ELSE "DELETE"
    PROVE  WordsInv'
<1> USE DEF WordsInv
<1>1. TypeOK' BY PublishAndChangeType
<1>2. /\ \A x \in Key : x # k => db'[x] = db[x]
      /\ status = "absent" => db'[k] = Absent
      /\ status # "absent" => db'[k] # Absent /\ db'[k].obj = o /\ db'[k].status = status
      /\ StoresAreProper'
      /\ \A h \in handlers : \E g \in handlers' : g.op = h.op /\ g.obj = h.obj /\ g.at = h.at
      /\ \A g \in handlers' : \/ \E h \in handlers : g.op = h.op /\ g.obj = h.obj /\ g.at = h.at
                              \/ g.op = "end" /\ g.obj = o
      /\ UNCHANGED <<heard, dropped>>
    BY ChangeEffect
<1>3. LinkIsSound' BY DEF LinkIsSound, Publish
<1>4. overtaken \subseteq overtaken' /\ crossed \subseteq crossed' /\ loaded' = loaded BY DEF Publish
<1>5. PostsAreKnown'
    <2>1. crossed' \subseteq Intent BY DEF Publish, PostsAreKnown
    <2>2. ASSUME NEW g \in handlers', g.op = "post"
          PROVE  /\ IdOf(g.obj) \in Intent
                 /\ db'[IdOf(g.obj)] = Absent => IdOf(g.obj) \in crossed'
        <3>1. PICK h \in handlers : h.op = "post" /\ g.obj = h.obj BY <1>2, <2>2
        <3>2. IdOf(h.obj) \in Intent /\ (db[IdOf(h.obj)] = Absent => IdOf(h.obj) \in crossed)
            BY <3>1 DEF PostsAreKnown
        <3>3. CASE IdOf(h.obj) # k BY <1>2, <1>4, <3>1, <3>2, <3>3 DEF Key
        <3>4. CASE IdOf(h.obj) = k
            <4>1. IdOf(o) = k BY <3>2, <3>4 DEF Fits
            <4>2. db'[k] = Absent => a = "DELETE" BY <1>2
            <4> QED BY <3>1, <3>2, <3>4, <4>1, <4>2 DEF Publish
        <3> QED BY <3>3, <3>4
    <2> QED BY <2>1, <2>2 DEF PostsAreKnown
<1>6. HeadIsSent' BY <1>2, PublishHead
<1>7. \A x \in Enabled(db') : x \in Key /\ db'[x].status = "enabled" BY DEF Enabled
<1>8. \A x \in Enabled(db') : x # k => x \in Enabled(db) /\ db'[x] = db[x] /\ IdOf(db[x].obj) # IdOf(o)
    BY <1>2, <1>7, EnabledObj DEF Enabled, Fits
<1>9. \A x \in Enabled(db') : x = k => status = "enabled" /\ db'[x].obj = o
    BY <1>2, <1>7 DEF Absent
<1>10. QueuedIsAdd'
    <2> SUFFICES ASSUME NEW x \in Enabled(db'), db'[x].obj \in Pending' PROVE action'[db'[x].obj] = "ADD"
        BY DEF QueuedIsAdd
    <2>1. action' = [action EXCEPT ![o] = a] BY DEF Publish
    <2>2. CASE x = k BY <1>9, <2>1, <2>2 DEF TypeOK
    <2>3. CASE x # k
        <3>1. x \in Enabled(db) /\ db'[x] = db[x] /\ db[x].obj # o /\ db[x].obj \in Obj
            BY <1>8, <2>3, EnabledObj
        <3>2. db[x].obj \in Pending
            <4>1. CASE isReady BY <3>1, <4>1 DEF Publish, Pending
            <4>2. CASE ~isReady
                <5>1. pendingMessages' = Append(pendingMessages, o) BY <4>2 DEF Publish
                <5>2. PICK n \in DOMAIN pendingMessages' : db[x].obj = pendingMessages'[n]
                    BY <3>1 DEF Pending
                <5>3. n \in DOMAIN pendingMessages /\ pendingMessages'[n] = pendingMessages[n]
                    BY <3>1, <5>1, <5>2 DEF TypeOK
                <5> QED BY <5>2, <5>3 DEF Pending
            <4> QED BY <4>1, <4>2
        <3> QED BY <2>1, <3>1, <3>2 DEF QueuedIsAdd, TypeOK
    <2> QED BY <2>2, <2>3
<1>11. ASSUME NEW i \in Id, i # IdOf(o)
       PROVE  (Issued(i) => (Issued(i))') /\ (Withdrawn(i) => (Withdrawn(i))')
    BY <1>2, <1>4, <1>11, PublishWords DEF Issued, Withdrawn, Action
<1>12. ASSUME NEW i \in Id, i = IdOf(o), i \notin overtaken'
       PROVE  (a = "ADD" => (Issued(i))') /\ (a = "DELETE" => (Withdrawn(i))')
    <2>1. (Mentions(Outlook, i))' /\ (Ends(Outlook, i, a))' BY <1>12, PublishWords
    <2> QED BY <2>1 DEF Issued, Withdrawn
<1>13. EnabledIsOnItsWay'
    <2> SUFFICES ASSUME NEW x \in Enabled(db'), NEW i, i = IdOf(db'[x].obj)
                 PROVE  \/ \E h \in handlers' : h.op = "post" /\ h.obj = db'[x].obj
                        \/ i \in overtaken'
                        \/ (Issued(i))'
        BY DEF EnabledIsOnItsWay
    <2>1. CASE x = k
        <3>1. i = IdOf(o) /\ i \in Id /\ a = "ADD" BY <1>9, <2>1, ObjId
        <3> QED BY <1>12, <3>1
    <2>2. CASE x # k
        <3>1. x \in Enabled(db) /\ db'[x] = db[x] /\ i # IdOf(o) /\ i \in Id BY <1>8, <2>2, EnabledObj
        <3>2. \/ \E h \in handlers : h.op = "post" /\ h.obj = db[x].obj
              \/ i \in overtaken
              \/ Issued(i)
            BY <3>1 DEF EnabledIsOnItsWay
        <3>3. Issued(i) => (Issued(i))' BY <1>11, <3>1
        <3> QED BY <1>2, <1>4, <3>1, <3>2, <3>3
    <2> QED BY <2>1, <2>2
<1>14. OffsAreOnTheirWay'
    <2>1. \A i \in Id : (i # IdOf(o) /\ Withdrawn(i)) => (Withdrawn(i))' BY <1>11
    <2>2. \A i \in Id : (i = IdOf(o) /\ status # "enabled" /\ i \notin overtaken') => (Withdrawn(i))'
        BY <1>12
    <2> QED BY <1>4, <2>1, <2>2, ChangeOffs
<1> QED BY <1>1, <1>2, <1>3, <1>5, <1>6, <1>10, <1>13, <1>14

\* What is stored under a key fits it again.
LEMMA StoredFits ==
    ASSUME WordsInv, NEW k \in Key, db[k] # Absent, NEW status \in Status,
           k \in Intent => status # "disabled"
    PROVE  Fits(k, db[k].obj, status)
<1> USE DEF WordsInv
<1>1. Intent \cap Function = {} /\ Intent \cap FunctionId = {} /\ Key = Intent \cup Function
    BY DesignerAssumption DEF Key
<1>2. Proper(db) BY DEF StoresAreProper
<1>3. ASSUME NEW x \in Key, x # k, db[x] # Absent PROVE IdOf(db[x].obj) # IdOf(db[k].obj)
    BY <1>1, <1>2, <1>3 DEF Proper
<1> QED BY <1>1, <1>2, <1>3 DEF Fits, Proper

LEMMA PostIntentKeeps ==
    ASSUME WordsInv, NEW i \in Intent, NEW o \in Obj, PostIntent(i, o) PROVE WordsInv'
<1> USE DEF WordsInv
<1>1. TypeOK' BY TypeStep DEF Next
<1>2. UNCHANGED <<action, pendingMessages, wire, overtaken, crossed, isReady, isConnecting,
                  reconnectTimer, loaded, draining>>
    BY DEF PostIntent, order, link
<1>3. i \in Key /\ Change("post", i, o, "enabled") /\ IdOf(o) = i /\ "enabled" \in Status /\ i \in Id
    BY DEF PostIntent, Key, Status, Id
<1>4. Fits(i, o, "enabled")
    <2>1. Intent \cap Function = {} /\ Intent \cap FunctionId = {} /\ Key = Intent \cup Function
        BY DesignerAssumption DEF Key
    <2>2. ASSUME NEW x \in Key, x # i, db[x] # Absent PROVE IdOf(db[x].obj) # i
        BY <2>1, <2>2 DEF StoresAreProper, Proper
    <2> QED BY <1>3, <2>1, <2>2 DEF Fits
<1>5. /\ \A x \in Key : x # i => db'[x] = db[x]
      /\ db'[i] # Absent /\ db'[i].obj = o /\ db'[i].status = "enabled"
      /\ StoresAreProper'
      /\ \A h \in handlers : \E g \in handlers' : g.op = h.op /\ g.obj = h.obj /\ g.at = h.at
      /\ \A g \in handlers' : \/ \E h \in handlers : g.op = h.op /\ g.obj = h.obj /\ g.at = h.at
                              \/ g.op = "post" /\ g.obj = o
      /\ \E g \in handlers' : g.op = "post" /\ g.obj = o
      /\ UNCHANGED <<heard, dropped>>
    BY <1>3, <1>4, ChangeEffect
<1>6. LinkIsSound' /\ HeadIsSent' BY <1>2, <1>5 DEF LinkIsSound, HeadIsSent
<1>7. PostsAreKnown' BY <1>2, <1>3, <1>5 DEF PostsAreKnown, Key
<1>8. \A x \in Enabled(db') : x # i => x \in Enabled(db) /\ db'[x] = db[x] BY <1>5 DEF Enabled
<1>9. QueuedIsAdd'
    <2>1. o \notin Pending BY DEF PostIntent, IsNew, Free
    <2>2. Pending' = Pending BY <1>2 DEF Pending
    <2> QED BY <1>2, <1>5, <1>8, <2>1, <2>2 DEF QueuedIsAdd
<1>10. Outlook' = Outlook BY <1>2 DEF Outlook, Texts
<1>11. EnabledIsOnItsWay'
    <2> SUFFICES ASSUME NEW x \in Enabled(db'), NEW j, j = IdOf(db'[x].obj)
                 PROVE  \/ \E h \in handlers' : h.op = "post" /\ h.obj = db'[x].obj
                        \/ j \in overtaken'
                        \/ (Issued(j))'
        BY DEF EnabledIsOnItsWay
    <2>1. CASE x = i BY <1>5, <2>1
    <2>2. CASE x # i
        <3>1. x \in Enabled(db) /\ db'[x] = db[x] BY <1>8, <2>2
        <3>2. \/ \E h \in handlers : h.op = "post" /\ h.obj = db[x].obj
              \/ j \in overtaken
              \/ Issued(j)
            BY <3>1 DEF EnabledIsOnItsWay
        <3>3. Issued(j) => (Issued(j))' BY <1>2, <1>5, <1>10 DEF Issued
        <3> QED BY <1>2, <1>5, <3>1, <3>2, <3>3
    <2> QED BY <2>1, <2>2
<1>12. OffsAreOnTheirWay'
    <2>1. \A j \in Id : Withdrawn(j) => (Withdrawn(j))' BY <1>2, <1>5, <1>10 DEF Withdrawn
    <2>2. overtaken \subseteq overtaken' /\ crossed \subseteq crossed' BY <1>2
    <2> QED BY <1>3, <1>4, <2>1, <2>2, ChangeOffs
<1> QED BY <1>1, <1>5, <1>6, <1>7, <1>9, <1>11, <1>12

LEMMA ResumeKeeps == ASSUME WordsInv, NEW h \in handlers, Resume(h) PROVE WordsInv'
<1> USE DEF WordsInv
<1>1. TypeOK' BY TypeStep DEF Next
<1>2. UNCHANGED <<db, disk, cur, next, heard, dropped>> /\ handlers' = handlers \ {h} /\ h.at = "done"
    BY DEF Resume, file
<1>3. StoresAreProper' BY <1>2 DEF StoresAreProper
<1>4. EnabledIds' = EnabledIds BY <1>2 DEF EnabledIds
<1>5. h \in Handler /\ h.obj \in Obj /\ IdOf(h.obj) \in Id
    BY ObjId DEF TypeOK, Handler
<1>6. \A store, later : (OffIsOnItsWay(store, later) /\ "done" \notin later) =>
          \A i \in Id : Off(store, i) =>
              \/ \E g \in handlers' : IdOf(g.obj) = i /\ g.at \in later
              \/ i \notin EnabledIds /\ (i \notin overtaken \cup crossed => Withdrawn(i))
    BY <1>2 DEF OffIsOnItsWay
<1>7. ASSUME \A i \in Id : (i \notin EnabledIds /\ (i \notin overtaken \cup crossed => Withdrawn(i)))
                           => (i \notin overtaken' \cup crossed' => (Withdrawn(i))')
      PROVE  OffsAreOnTheirWay'
    <2>1. \A store, later : (OffIsOnItsWay(store, later) /\ "done" \notin later) =>
            \A i \in Id : Off(store, i) =>
              \/ \E g \in handlers' : IdOf(g.obj) = i /\ g.at \in later
              \/ i \notin EnabledIds' /\ (i \notin overtaken' \cup crossed' => (Withdrawn(i))')
        BY <1>4, <1>6, <1>7
    <2>2. (OffIsOnItsWay(db, {}))'
        <3>1. OffIsOnItsWay(db, {}) /\ "done" \notin {} BY DEF OffsAreOnTheirWay
        <3>2. \A i \in Id : Off(db, i) =>
              \/ \E g \in handlers' : IdOf(g.obj) = i /\ g.at \in {}
              \/ i \notin EnabledIds' /\ (i \notin overtaken' \cup crossed' => (Withdrawn(i))')
            BY <2>1, <3>1
        <3> QED BY <1>2, <3>2 DEF OffIsOnItsWay
    <2>3. (OffIsOnItsWay(disk, {"cur", "next"}))'
        <3>1. OffIsOnItsWay(disk, {"cur", "next"}) /\ "done" \notin {"cur", "next"} BY DEF OffsAreOnTheirWay
        <3>2. \A i \in Id : Off(disk, i) =>
              \/ \E g \in handlers' : IdOf(g.obj) = i /\ g.at \in {"cur", "next"}
              \/ i \notin EnabledIds' /\ (i \notin overtaken' \cup crossed' => (Withdrawn(i))')
            BY <2>1, <3>1
        <3> QED BY <1>2, <3>2 DEF OffIsOnItsWay
    <2>4. (cur # <<>> => OffIsOnItsWay(cur[1], {"next"}))'
        <3> SUFFICES ASSUME cur # <<>> PROVE (OffIsOnItsWay(cur[1], {"next"}))' BY <1>2
        <3>1. PICK c : c = cur[1] OBVIOUS
        <3>2. OffIsOnItsWay(c, {"next"}) /\ "done" \notin {"next"} BY <3>1 DEF OffsAreOnTheirWay
        <3>3. \A i \in Id : Off(c, i) =>
              \/ \E g \in handlers' : IdOf(g.obj) = i /\ g.at \in {"next"}
              \/ i \notin EnabledIds' /\ (i \notin overtaken' \cup crossed' => (Withdrawn(i))')
            BY <2>1, <3>2
        <3> QED BY <1>2, <3>1, <3>3 DEF OffIsOnItsWay
    <2> QED BY <2>2, <2>3, <2>4 DEF OffsAreOnTheirWay
<1>8. CASE h.op # "post"
    <2>1. UNCHANGED <<action, pendingMessages, wire, overtaken, crossed, isReady, isConnecting,
                      reconnectTimer, loaded, draining>>
        BY <1>8 DEF Resume, order, link
    <2>2. LinkIsSound' /\ HeadIsSent' /\ QueuedIsAdd' /\ PostsAreKnown'
        BY <1>2, <2>1 DEF LinkIsSound, HeadIsSent, QueuedIsAdd, Pending, Enabled, PostsAreKnown
    <2>3. Outlook' = Outlook BY <2>1 DEF Outlook, Texts
    <2>4. \A i \in Id : Withdrawn(i) => (Withdrawn(i))' BY <1>2, <2>1, <2>3 DEF Withdrawn
    <2>5. OffsAreOnTheirWay' BY <1>7, <2>1, <2>4
    <2>6. EnabledIsOnItsWay'
        <3> SUFFICES ASSUME NEW x \in Enabled(db), NEW j, j = IdOf(db[x].obj)
                     PROVE  \/ \E g \in handlers' : g.op = "post" /\ g.obj = db[x].obj
                            \/ j \in overtaken'
                            \/ (Issued(j))'
            BY <1>2 DEF EnabledIsOnItsWay
        <3>1. Issued(j) => (Issued(j))' BY <1>2, <2>1, <2>3 DEF Issued
        <3> QED BY <1>2, <1>8, <2>1, <3>1 DEF EnabledIsOnItsWay
    <2> QED BY <1>1, <1>3, <2>2, <2>5, <2>6
<1>9. CASE h.op = "post"
    <2>1. PICK o \in Obj : o = h.obj BY <1>5
    <2>2. Publish(o, "ADD") /\ "ADD" \in Action /\ IdOf(o) \in Id BY <1>5, <1>9, <2>1 DEF Resume, Action
    <2>3. LinkIsSound' BY <2>2 DEF LinkIsSound, Publish
    <2>4. HeadIsSent' BY <1>2, <2>2, PublishHead
    <2>5. overtaken \subseteq overtaken' /\ crossed' = crossed /\ loaded' = loaded BY <2>2 DEF Publish
    <2>6. PostsAreKnown' BY <1>2, <2>5 DEF PostsAreKnown
    <2>7. QueuedIsAdd'
        <3> SUFFICES ASSUME NEW x \in Enabled(db), db[x].obj \in Pending' PROVE action'[db[x].obj] = "ADD"
            BY <1>2 DEF QueuedIsAdd
        <3>1. action' = [action EXCEPT ![o] = "ADD"] /\ db[x].obj \in Obj BY <2>2, EnabledObj DEF Publish
        <3>2. CASE db[x].obj = o BY <3>1, <3>2 DEF TypeOK
        <3>3. CASE db[x].obj # o
            <4>1. db[x].obj \in Pending
                <5>1. CASE isReady BY <2>2, <5>1 DEF Publish, Pending
                <5>2. CASE ~isReady
                    <6>1. pendingMessages' = Append(pendingMessages, o) BY <2>2, <5>2 DEF Publish
                    <6>2. PICK n \in DOMAIN pendingMessages' : db[x].obj = pendingMessages'[n] BY DEF Pending
                    <6>3. n \in DOMAIN pendingMessages /\ pendingMessages'[n] = pendingMessages[n]
                        BY <3>3, <6>1, <6>2 DEF TypeOK
                    <6> QED BY <6>2, <6>3 DEF Pending
                <5> QED BY <5>1, <5>2
            <4> QED BY <3>1, <3>3, <4>1 DEF QueuedIsAdd, TypeOK
        <3> QED BY <3>2, <3>3
    <2>8. ASSUME NEW i \in Id, i # IdOf(o)
          PROVE  (Issued(i) => (Issued(i))') /\ (Withdrawn(i) => (Withdrawn(i))')
        BY <1>2, <2>2, <2>5, <2>8, PublishWords DEF Issued, Withdrawn, Action
    <2>9. IdOf(o) \notin overtaken' => (Issued(IdOf(o)))'
        BY <2>2, PublishWords DEF Issued
    <2>10. EnabledIsOnItsWay'
        <3> SUFFICES ASSUME NEW x \in Enabled(db), NEW j \in Id, j = IdOf(db[x].obj)
                     PROVE  \/ \E g \in handlers' : g.op = "post" /\ g.obj = db[x].obj
                            \/ j \in overtaken'
                            \/ (Issued(j))'
            BY <1>2, EnabledObj DEF EnabledIsOnItsWay
        <3>1. CASE j = IdOf(o) BY <2>9, <3>1
        <3>2. CASE j # IdOf(o)
            <4>1. \/ \E g \in handlers : g.op = "post" /\ g.obj = db[x].obj
                  \/ j \in overtaken
                  \/ Issued(j)
                BY DEF EnabledIsOnItsWay
            <4>2. \A g \in handlers : g.obj = db[x].obj => g # h BY <2>1, <3>2
            <4> QED BY <1>2, <2>5, <2>8, <3>2, <4>1, <4>2
        <3> QED BY <3>1, <3>2
    <2>11. IdOf(o) \notin EnabledIds => IdOf(o) \in crossed
        <3>1. IdOf(o) \in Intent /\ (db[IdOf(o)] = Absent => IdOf(o) \in crossed)
            BY <1>9, <2>1 DEF PostsAreKnown
        <3>2. db[IdOf(o)] # Absent => IdOf(o) \in EnabledIds
            BY <3>1 DEF StoresAreProper, Proper, EnabledIds, Enabled, Key
        <3> QED BY <3>1, <3>2
    <2>12. OffsAreOnTheirWay' BY <1>7, <2>5, <2>8, <2>11
    <2> QED BY <1>1, <1>3, <2>3, <2>4, <2>6, <2>7, <2>10, <2>12
<1> QED BY <1>8, <1>9

\* Nothing is on its way in a process that starts.
LEMMA SilentStart ==
    ASSUME NEW act, NEW i \in Id, NEW a \in Action
    PROVE  ~Mentions(<<>> \o TextsBy(<<>>, act), i) /\ Ends(<<>> \o TextsBy(<<>>, act), i, a)
<1>1. <<>> \o TextsBy(<<>>, act) = <<>> BY DEF TextsBy
<1> QED BY <1>1, NoWords

LEMMA OffIsNotEnabled ==
    ASSUME NEW store \in Store, Proper(store), NEW i \in Id, Off(store, i), NEW k \in Enabled(store)
    PROVE  IdOf(store[k].obj) # i
<1>1. Intent \cap Function = {} /\ Intent \cap FunctionId = {} /\ Key = Intent \cup Function
    BY DesignerAssumption DEF Key
<1>2. k \in Key /\ store[k].status = "enabled" /\ store[k] # Absent BY DEF Enabled, Absent
<1>3. CASE i \in Intent /\ store[i] = Absent BY <1>1, <1>2, <1>3 DEF Proper
<1>4. CASE \E f \in Function : store[f].status = "disabled" /\ IdOf(store[f].obj) = i
    <2>1. PICK f \in Function : store[f].status = "disabled" /\ IdOf(store[f].obj) = i BY <1>4
    <2>2. store[f] # Absent /\ f # k BY <1>2, <2>1 DEF Absent
    <2> QED BY <1>1, <1>2, <2>1, <2>2 DEF Proper
<1> QED BY <1>3, <1>4 DEF Off

LEMMA RestartKeeps == WordsInv /\ Restart => WordsInv'
<1> SUFFICES ASSUME WordsInv, Restart PROVE WordsInv' OBVIOUS
<1> USE DEF WordsInv
<1>1. TypeOK' BY TypeStep DEF Next
<1>2. /\ db' = disk /\ disk' = disk /\ cur' = <<>> /\ next' = <<>> /\ handlers' = {}
      /\ ~isReady' /\ isConnecting' /\ ~reconnectTimer' /\ ~loaded' /\ ~draining'
      /\ pendingMessages' = <<>> /\ wire' = <<>> /\ heard' = heard
      /\ overtaken' = {} /\ crossed' = {}
    BY DEF Restart, Start, WritesLost
<1>3. StoresAreProper' /\ LinkIsSound' /\ PostsAreKnown' /\ HeadIsSent' /\ QueuedIsAdd'
    BY <1>2 DEF StoresAreProper, LinkIsSound, PostsAreKnown, HeadIsSent, QueuedIsAdd, Pending
<1>4. Outlook' = <<>> \o TextsBy(<<>>, action') BY <1>2 DEF Outlook, Texts
<1>5. \A i \in Id : \A a \in Action : ~(Mentions(Outlook, i))' /\ (Ends(Outlook, i, a))'
    BY <1>4, SilentStart
<1>6. EnabledIsOnItsWay'
    <2> SUFFICES ASSUME NEW k \in Enabled(db') PROVE (Issued(IdOf(db[k].obj)))'
        BY DEF EnabledIsOnItsWay
    <2>1. IdOf(db'[k].obj) \in Id /\ "ADD" \in Action
        BY <1>1, StoredObj, ObjId DEF TypeOK, Enabled, Absent, Action, Store, Entry
    <2> QED BY <1>2, <1>5, <2>1 DEF Issued
<1>7. ASSUME NEW i \in Id, Off(disk, i)
      PROVE  i \notin EnabledIds' /\ (Withdrawn(i))'
    <2>1. i \notin EnabledIds'
        <3>1. disk \in Store /\ Proper(disk) BY DEF TypeOK, StoresAreProper
        <3>2. \A k \in Enabled(disk) : IdOf(disk[k].obj) # i BY <1>7, <3>1, OffIsNotEnabled
        <3> QED BY <1>2, <3>2 DEF EnabledIds
    <2>2. (~Mentions(Outlook, i))' /\ (Ends(Outlook, i, "DELETE"))' BY <1>5 DEF Action
    <2>3. ASSUME dropped'[i] = "no" PROVE heard[i] # "ADD"
        <3>1. dropped[i] = "no" /\ i \notin Forgotten \cup overtaken \cup crossed
            BY <2>3 DEF Restart
        <3>2. i \notin OnWire /\ (\A o \in Pending : IdOf(o) # i) /\ (\A h \in handlers : IdOf(h.obj) # i)
            BY <3>1 DEF Forgotten
        <3>3. Withdrawn(i) BY <1>7, <3>1, <3>2 DEF OffsAreOnTheirWay, OffIsOnItsWay
        <3>4. ~Mentions(wire, i) BY <3>2 DEF OnWire, Mentions
        <3>5. ~Mentions(TextsBy(pendingMessages, action), i)
            BY <3>2, WordsOfTexts DEF TypeOK, Pending, Action
        <3>6. ~Mentions(Outlook, i) BY <3>4, <3>5, OutlookNow DEF Action
        <3> QED BY <3>1, <3>3, <3>6 DEF Withdrawn
    <2> QED BY <1>2, <2>1, <2>2, <2>3 DEF Withdrawn
<1>8. OffsAreOnTheirWay'
    BY <1>2, <1>7 DEF OffsAreOnTheirWay, OffIsOnItsWay
<1> QED BY <1>1, <1>3, <1>6, <1>8

LEMMA WordsStep == WordsInv /\ [Next]_vars => WordsInv'
<1> SUFFICES ASSUME WordsInv, [Next]_vars PROVE WordsInv' OBVIOUS
<1>0. TypeOK BY DEF WordsInv
<1>1. CASE WriteDone BY <1>1, WriteDoneKeeps
<1>2. CASE Connected BY <1>2, ConnectedKeeps
<1>3. CASE Drain BY <1>3, DrainKeeps
<1>4. CASE ConnectFails \/ TimerFires BY <1>4, TimersKeep
<1>5. CASE Break BY <1>5, BreakKeeps
<1>6. CASE Restart BY <1>6, RestartKeeps
<1>7. ASSUME NEW i \in Id, Deliver(i) PROVE WordsInv' BY <1>7, DeliverKeeps
<1>8. ASSUME NEW i \in Intent, DeleteIntent(i) PROVE WordsInv'
    <2>1. i \in Key /\ db[i] # Absent BY <1>8 DEF DeleteIntent, Key
    <2>2. db[i].obj \in Obj BY <1>0, <2>1, StoredObj DEF TypeOK
    <2>3. "absent" \in Status /\ "DELETE" \in Action BY DEF Status, Action
    <2>4. Fits(i, db[i].obj, "absent") BY <2>1, <2>3, StoredFits
    <2> QED BY <1>8, <2>1, <2>2, <2>3, <2>4, RequestKeeps DEF DeleteIntent
<1>9. ASSUME NEW i \in Intent, NEW o \in Obj, PostIntent(i, o) PROVE WordsInv' BY <1>9, PostIntentKeeps
<1>10. ASSUME NEW f \in Function, EnableFunction(f) \/ DisableFunction(f) \/ DeleteFunction(f)
       PROVE  WordsInv'
    <2>1. f \in Key /\ f \notin Intent /\ db[f] # Absent
        BY <1>10, DesignerAssumption DEF EnableFunction, DisableFunction, DeleteFunction, Key
    <2>2. db[f].obj \in Obj BY <1>0, <2>1, StoredObj DEF TypeOK
    <2>3. \A status \in Status : Fits(f, db[f].obj, status) BY <2>1, StoredFits
    <2>4. CASE EnableFunction(f)
        BY <2>1, <2>2, <2>3, <2>4, RequestKeeps DEF EnableFunction, Status, Action
    <2>5. CASE DisableFunction(f)
        BY <2>1, <2>2, <2>3, <2>5, RequestKeeps DEF DisableFunction, Status, Action
    <2>6. CASE DeleteFunction(f)
        BY <2>1, <2>2, <2>3, <2>6, RequestKeeps DEF DeleteFunction, Status, Action
    <2> QED BY <1>10, <2>4, <2>5, <2>6
<1>11. ASSUME NEW f \in Function, NEW o \in Obj, PostFunction(f, o) PROVE WordsInv'
    <2>1. Intent \cap Function = {} /\ Intent \cap FunctionId = {} /\ Key = Intent \cup Function
        BY DesignerAssumption DEF Key
    <2>2. IdOf(o) \in FunctionId BY <1>11 DEF PostFunction
    <2>3. ASSUME NEW x \in Key, x # f, db[x] # Absent PROVE IdOf(db[x].obj) # IdOf(o)
        <3>1. CASE x \in Intent BY <2>1, <2>2, <2>3, <3>1 DEF WordsInv, StoresAreProper, Proper
        <3>2. CASE x \in Function BY <1>11, <2>3, <3>2 DEF PostFunction
        <3> QED BY <2>1, <3>1, <3>2
    <2>4. Fits(f, o, "enabled") BY <2>1, <2>2, <2>3 DEF Fits
    <2> QED BY <1>11, <2>1, <2>4, RequestKeeps DEF PostFunction, Status, Action
<1>12. ASSUME NEW h \in handlers, Resume(h) PROVE WordsInv' BY <1>12, ResumeKeeps
<1>13. CASE UNCHANGED vars
    <2>1. UNCHANGED <<db, disk, cur, next, handlers, action, isReady, isConnecting, reconnectTimer, loaded,
                      pendingMessages, draining, wire, heard, dropped, overtaken, crossed>>
        BY <1>13 DEF vars, file, link, order
    <2>2. TypeOK' BY <1>0, TypeStep
    <2>3. StoresAreProper' /\ LinkIsSound' /\ PostsAreKnown' /\ HeadIsSent' /\ QueuedIsAdd'
        BY <2>1 DEF WordsInv, StoresAreProper, LinkIsSound, PostsAreKnown, HeadIsSent, QueuedIsAdd, Pending, Enabled
    <2>4. Outlook' = Outlook BY <2>1 DEF Outlook, Texts
    <2>5. \A i \in Id : (Issued(i) => (Issued(i))') /\ (Withdrawn(i) => (Withdrawn(i))')
        BY <2>1, <2>4 DEF Issued, Withdrawn
    <2>6. EnabledIsOnItsWay' /\ OffsAreOnTheirWay' BY <2>1, <2>5, LinkKeeps
    <2> QED BY <2>2, <2>3, <2>6 DEF WordsInv
<1> QED BY <1>1, <1>2, <1>3, <1>4, <1>5, <1>6, <1>7, <1>8, <1>9, <1>10, <1>11, <1>12, <1>13 DEF Next

LEMMA WordsInit == Init => WordsInv
<1> SUFFICES ASSUME Init PROVE WordsInv OBVIOUS
<1>1. TypeOK BY TypeInit
<1>2. \A k \in Key : Nothing[k] = Absent /\ Nothing[k].status = "absent" BY DEF Nothing, Absent
<1>3. db = Nothing /\ disk = Nothing /\ cur = <<>> /\ next = <<>> /\ handlers = {} BY DEF Init, FileInit
<1>4. Enabled(db) = {} BY <1>2, <1>3 DEF Enabled
<1>5. StoresAreProper BY <1>2, <1>3 DEF StoresAreProper, Proper, Key
<1>6. LinkIsSound /\ PostsAreKnown /\ HeadIsSent BY DEF Init, LinkIsSound, PostsAreKnown, HeadIsSent
<1>7. QueuedIsAdd /\ EnabledIsOnItsWay BY <1>4 DEF QueuedIsAdd, EnabledIsOnItsWay
<1>8. \A i \in Id : Withdrawn(i)
    <2>1. Outlook = <<>> \o TextsBy(<<>>, action) BY DEF Init, Outlook, Texts
    <2>2. \A i \in Id : Ends(Outlook, i, "DELETE") BY <2>1, SilentStart DEF Action
    <2>3. \A i \in Id : heard[i] # "ADD" BY DEF Init
    <2> QED BY <2>2, <2>3 DEF Withdrawn
<1>9. EnabledIds = {} BY <1>4 DEF EnabledIds
<1>10. OffsAreOnTheirWay BY <1>3, <1>8, <1>9 DEF OffsAreOnTheirWay, OffIsOnItsWay
<1> QED BY <1>1, <1>5, <1>6, <1>7, <1>10 DEF WordsInv

LEMMA QuietWords == ASSUME Quiet, NEW i \in Id, NEW a \in Action PROVE ~Mentions(Outlook, i)
<1>1. Outlook = <<>> \o TextsBy(<<>>, action) BY DEF Quiet, Outlook, Texts
<1> QED BY <1>1, SilentStart

\* What the designer stores and has not disabled is what it last told the
\* master when nothing is under way: messages that waited for a channel, read
\* their action late or were forgotten by a restart are made up for, unless one
\* was lost with its connection or overtook an older one.
THEOREM StoredIntentsAreIssued == Spec => []StoredIsIssued
<1>1. WordsInv => StoredIsIssued
    <2> SUFFICES ASSUME WordsInv, Quiet, NEW k \in Key, NEW i, i = IdOf(db[k].obj),
                        db[k].status = "enabled", dropped[i] # "break", i \notin overtaken
                 PROVE  heard[i] = "ADD"
        BY DEF StoredIsIssued
    <2>1. k \in Enabled(db) BY DEF Enabled
    <2>2. i \in Id BY <2>1, EnabledObj DEF WordsInv
    <2>3. Issued(i) BY <2>1 DEF WordsInv, EnabledIsOnItsWay, Quiet
    <2>4. ~Mentions(Outlook, i) BY <2>2, QuietWords DEF Action
    <2>5. loaded BY DEF WordsInv, LinkIsSound, Quiet
    <2> QED BY <2>3, <2>4, <2>5 DEF Issued
<1> QED BY <1>1, WordsInit, WordsStep, PTL DEF Spec

\* A fog function that is disabled is not running at the master when nothing is
\* under way, with the same exceptions and what a restart cuts short.
THEOREM DisabledFunctionsAreWithdrawn == Spec => []DisabledIsWithdrawn
<1>1. WordsInv => DisabledIsWithdrawn
    <2> SUFFICES ASSUME WordsInv, Quiet, NEW f \in Function, NEW i, i = IdOf(db[f].obj),
                        db[f].status = "disabled", dropped[i] = "no", i \notin overtaken
                 PROVE  heard[i] # "ADD"
        BY DEF DisabledIsWithdrawn
    <2>1. f \in Key /\ db[f] # Absent BY DEF Key, Absent
    <2>2. i \in FunctionId /\ i \in Id BY <2>1 DEF WordsInv, StoresAreProper, Proper, Id
    <2>3. i \notin crossed BY <2>2, DesignerAssumption DEF WordsInv, PostsAreKnown
    <2>4. Off(db, i) BY DEF Off
    <2>5. Withdrawn(i) BY <2>2, <2>3, <2>4 DEF WordsInv, OffsAreOnTheirWay, OffIsOnItsWay
    <2>6. ~Mentions(Outlook, i) BY <2>2, QuietWords DEF Action
    <2> QED BY <2>5, <2>6 DEF Withdrawn
<1> QED BY <1>1, WordsInit, WordsStep, PTL DEF Spec

\* An intent whose DELETE was answered with 200 is not the master's any more
\* when nothing is under way, with these exceptions and that of a DELETE that
\* crossed the POST of the intent.
THEOREM DeletedIntentsAreWithdrawn == Spec => []DeletedIsWithdrawn
<1>1. IInv /\ WordsInv => DeletedIsWithdrawn
    <2> SUFFICES ASSUME IInv, WordsInv, Quiet, NEW i \in Intent, promised[i] = "absent", dropped[i] = "no",
                        i \notin overtaken \cup crossed
                 PROVE  heard[i] # "ADD"
        BY DEF DeletedIsWithdrawn
    <2>1. i \in Key /\ i \in Id BY DEF Key, Id
    <2>2. db[i].status = "absent" BY <2>1 DEF IInv, Kept
    <2>3. db[i] = Absent BY <2>1, <2>2, StoredObj DEF IInv, TypeOK
    <2>4. Off(db, i) BY <2>3 DEF Off
    <2>5. Withdrawn(i) BY <2>1, <2>4 DEF WordsInv, OffsAreOnTheirWay, OffIsOnItsWay
    <2>6. ~Mentions(Outlook, i) BY <2>1, QuietWords DEF Action
    <2> QED BY <2>5, <2>6 DEF Withdrawn
<1>2. Init => IInv BY InvInit
<1>3. IInv /\ [Next]_vars => IInv' BY TypeStep, KeptStep DEF IInv
<1> QED BY <1>1, <1>2, <1>3, WordsInit, WordsStep, PTL DEF Spec
=============================================================================
