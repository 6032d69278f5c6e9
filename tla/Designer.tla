------------------------------ MODULE Designer ------------------------------
(***************************************************************************)
(* The task designer as the keeper of service intents and fog functions:   *)
(* the handlers of designer/main.js, the database of lowdb behind them and *)
(* the RabbitMQ client of designer/rabbitmq.cjs that tells the master.     *)
(*                                                                         *)
(* The process is single-threaded: a handler runs without interruption up  *)
(* to "await db.write()", and goes on when the write is done.  A message   *)
(* is published at once when the channel is ready; otherwise it waits in   *)
(* pendingMessages, not as text but as a reference to the intent object,   *)
(* whose "action" field later handlers overwrite.  An object is a pair of  *)
(* the intent's ID and a number that tells apart the bodies of several     *)
(* requests.                                                               *)
(*                                                                         *)
(* The end of the channel and the event 'close' that tells of it are one   *)
(* step, as in amqplib, so that publish does not throw while isReady is    *)
(* set: the paths of Publish and flushPendingMessages for that case are    *)
(* not taken.  Of a list of fog functions in one request, each is a        *)
(* request of its own.                                                     *)
(*                                                                         *)
(* A message on the wire is about a set of intents: those that are issued  *)
(* together after the first connection go out in an order that is left     *)
(* open.  Restart is the end of the process, for whatever reason, and the  *)
(* start of the next one.                                                  *)
(***************************************************************************)
EXTENDS LowDb

CONSTANTS
    Intent,        \* IDs of service intents
    Function,      \* names of fog functions
    FunctionId,    \* IDs of the intents inside fog functions
    Copies,        \* bound: objects of one ID at a time
    Stalls,        \* whether channel.publish may return false
    MaxRequests,   \* bound: requests that change something
    MaxBreaks,     \* bound: lost connections and failed attempts
    MaxRestarts    \* bound: restarts of the process

ASSUME DesignerAssumption ==
    /\ Intent \cap FunctionId = {} /\ Intent \cap Function = {}
    /\ Copies \in Nat \ {0} /\ Stalls \in BOOLEAN
    /\ MaxRequests \in Nat /\ MaxBreaks \in Nat /\ MaxRestarts \in Nat

Id == Intent \cup FunctionId
Key == Intent \cup Function
Obj == Id \X (1..Copies)
IdOf(o) == o[1]
Action == {"ADD", "DELETE"}
Status == {"enabled", "disabled", "absent"}
NoObj == <<"none", 0>>
Absent == [obj |-> NoObj, status |-> "absent"]
Entry == [obj : Obj, status : {"enabled", "disabled"}] \cup {Absent}
Store == [Key -> Entry]
Nothing == [k \in Key |-> Absent]

VARIABLES
    db,            \* db.data: serviceintents and fogfunctions
    handlers,      \* handlers waiting for their db.write()
    action,        \* the field "action" of each object
    isReady, isConnecting, reconnectTimer,
    loaded,        \* send_loaded_intents
    pendingMessages,
    draining,      \* flushPendingMessages waits for 'drain'
    wire,          \* messages sent and not at RabbitMQ yet
    heard,         \* per intent: the last action that RabbitMQ got
    dropped,       \* history: how the last word about an intent was lost
    overtaken,     \* history: intents with a message sent before an older one
    crossed,       \* history: intents with a DELETE sent before the ADD of an older POST
    promised,      \* history: per key, the status the last answer vouches for
    requests, breaks, restarts

link == <<isReady, isConnecting, reconnectTimer, loaded, draining>>
order == <<overtaken, crossed>>
bounds == <<requests, breaks, restarts>>
vars == <<db, file, handlers, action, link, pendingMessages, wire, heard,
          dropped, order, promised, bounds>>

Pending == {pendingMessages[n] : n \in DOMAIN pendingMessages}
OnWire == UNION {wire[n].ids : n \in DOMAIN wire}

\* Objects nothing refers to; the body of a request is the first of its ID.
Free == {o \in Obj : /\ \A k \in Key : db[k].obj # o
                     /\ o \notin Pending
                     /\ \A h \in handlers : h.obj # o}

IsNew(o) == o \in Free /\ \A p \in Free : IdOf(p) = IdOf(o) => o[2] <= p[2]

\* Continuations whose write is done run before the next event is taken; a
\* handler may wait for a write of others that was started after its own.
Idle == cur = <<>> => \A h \in handlers : h.at # "done"

-----------------------------------------------------------------------------
(* Waiting for the file                                                    *)

\* A handler whose write was the next one waits for the current one now.
Promoted(h) == [h EXCEPT !.at = IF @ = "next" THEN "cur" ELSE "done"]

\* A write is done.
WriteDone ==
    /\ Written
    /\ handlers' = {Promoted(h) : h \in handlers}
    /\ UNCHANGED <<db, action, link, pendingMessages, wire, heard, dropped, order, promised, bounds>>

\* Handler h when another request for key k has come.
Superseded(h, k) == [h EXCEPT !.last = @ /\ h.key # k]

\* Variant: the answer does not wait for the write.
Await_early(op, k, o, status) ==
    handlers' = {Superseded(h, k) : h \in handlers}
                \cup {[op |-> op, key |-> k, obj |-> o, makes |-> status, last |-> TRUE,
                       at |-> "done"]}

\* A handler for key k waits from now on; it is the last one that came for k.
Await(op, k, o, status) ==
    handlers' = {Superseded(h, k) : h \in handlers}
                \cup {[op |-> op, key |-> k, obj |-> o, makes |-> status, last |-> TRUE,
                       at |-> IF cur = <<>> THEN "cur" ELSE "next"]}

-----------------------------------------------------------------------------
(* The RabbitMQ client                                                     *)

Message(ids, a) == [ids |-> ids, act |-> a]
Messages == {m \in [ids : SUBSET Id, act : Action] : m.ids # {}}

\* What the messages in s say when the fields are act; when they are sent now.
TextsBy(s, act) == [n \in DOMAIN s |-> Message({IdOf(s[n])}, act[s[n]])]
Texts(s) == TextsBy(s, action)

\* Variant: a message is dropped while there is no channel.
Publish_drop(o, a) ==
    /\ action' = [action EXCEPT ![o] = a]
    /\ wire' = IF isReady THEN Append(wire, Message({IdOf(o)}, a)) ELSE wire
    /\ UNCHANGED <<pendingMessages, order, link>>

\* publishMetadata, Publish: object o with this action.
Publish(o, a) ==
    /\ action' = [action EXCEPT ![o] = a]
    /\ wire' = IF isReady THEN Append(wire, Message({IdOf(o)}, a)) ELSE wire
    /\ pendingMessages' = IF isReady THEN pendingMessages ELSE Append(pendingMessages, o)
    /\ isConnecting' = (isConnecting \/ (~isReady /\ ~reconnectTimer))
    /\ overtaken' = IF isReady /\ \E p \in Pending : p # o /\ IdOf(p) = IdOf(o)
                    THEN overtaken \cup {IdOf(o)} ELSE overtaken
    /\ crossed' = IF a = "DELETE" /\ \E h \in handlers : h.op = "post" /\ IdOf(h.obj) = IdOf(o)
                  THEN crossed \cup {IdOf(o)} ELSE crossed
    /\ UNCHANGED <<isReady, reconnectTimer, loaded, draining>>

\* flushPendingMessages, with w on the wire already: all messages go out, or
\* one, number k, fills the buffer and stays at the head until 'drain'.
Flush(w, s) ==
    \/ /\ wire' = w \o Texts(s)
       /\ pendingMessages' = <<>>
       /\ draining' = FALSE
    \/ /\ Stalls
       /\ \E k \in DOMAIN s :
             /\ wire' = w \o Texts(SubSeq(s, 1, k))
             /\ pendingMessages' = SubSeq(s, k, Len(s))
       /\ draining' = TRUE

\* issueLoadedIntents, once per process: what the database holds and is not
\* disabled.
Loaded == IF loaded THEN {} ELSE {db[k].obj : k \in {x \in Key : db[x].status = "enabled"}}

\* The end of connect(): the callback after the first connection, then flush.
\* The action of an object that is loaded and pending is ADD already.
Connected ==
    /\ Idle /\ isConnecting
    /\ isReady' = TRUE
    /\ isConnecting' = FALSE
    /\ loaded' = TRUE
    /\ action' = [o \in Obj |-> IF o \in Loaded THEN "ADD" ELSE action[o]]
    /\ Flush(IF Loaded = {} THEN wire ELSE Append(wire, Message({IdOf(o) : o \in Loaded}, "ADD")),
             pendingMessages)
    /\ UNCHANGED <<db, file, handlers, reconnectTimer, heard, dropped, order, promised, bounds>>

\* 'drain': the head is removed and the loop of flushPendingMessages goes on.
Drain ==
    /\ Idle /\ draining /\ isReady /\ pendingMessages # <<>>
    /\ Flush(wire, Tail(pendingMessages))
    /\ UNCHANGED <<db, file, handlers, action, isReady, isConnecting, reconnectTimer,
                   loaded, heard, dropped, order, promised, bounds>>

\* Variant: a failed attempt is not repeated.
ConnectFails_once ==
    /\ Idle /\ isConnecting /\ breaks < MaxBreaks
    /\ breaks' = breaks + 1
    /\ isConnecting' = FALSE
    /\ UNCHANGED <<db, file, handlers, action, isReady, reconnectTimer, loaded, draining,
                   pendingMessages, wire, heard, dropped, order, promised, requests, restarts>>

\* The catch of connect(), with the close event of the connection, if any.
ConnectFails ==
    /\ Idle /\ isConnecting /\ breaks < MaxBreaks
    /\ breaks' = breaks + 1
    /\ isConnecting' = FALSE
    /\ reconnectTimer' = TRUE
    /\ UNCHANGED <<db, file, handlers, action, isReady, loaded, draining,
                   pendingMessages, wire, heard, dropped, order, promised, requests, restarts>>

\* The channel or the connection closes, onDisconnected: what is on the wire is
\* lost, and flushPendingMessages never hears 'drain'.
Break ==
    /\ Idle /\ isReady /\ breaks < MaxBreaks
    /\ breaks' = breaks + 1
    /\ isReady' = FALSE
    /\ isConnecting' = FALSE
    /\ reconnectTimer' = TRUE
    /\ draining' = FALSE
    /\ wire' = <<>>
    /\ dropped' = [i \in Id |-> IF i \in OnWire THEN "break" ELSE dropped[i]]
    /\ UNCHANGED <<db, file, handlers, action, loaded, pendingMessages, heard, order, promised,
                   requests, restarts>>

\* The callback of scheduleReconnect.
TimerFires ==
    /\ Idle /\ reconnectTimer
    /\ reconnectTimer' = FALSE
    /\ isConnecting' = TRUE
    /\ UNCHANGED <<db, file, handlers, action, isReady, loaded, draining,
                   pendingMessages, wire, heard, dropped, order, promised, bounds>>

\* RabbitMQ gets a message about intent i.
Deliver(i) ==
    /\ wire # <<>> /\ i \in Head(wire).ids
    /\ heard' = [heard EXCEPT ![i] = Head(wire).act]
    /\ wire' = IF Head(wire).ids = {i} THEN Tail(wire) ELSE [wire EXCEPT ![1] = Message(@.ids \ {i}, @.act)]
    /\ dropped' = [dropped EXCEPT ![i] = "no"]
    /\ UNCHANGED <<db, file, handlers, action, link, pendingMessages, order, promised, bounds>>

-----------------------------------------------------------------------------
(* Requests                                                                *)

\* Variant: what is deleted leaves an entry behind.
Change_tombstone(op, k, o, status) ==
    /\ Idle /\ requests < MaxRequests
    /\ requests' = requests + 1
    /\ db' = [db EXCEPT ![k] = [obj |-> o, status |-> status]]
    /\ Write(db')
    /\ Await(op, k, o, status)
    /\ promised' = [promised EXCEPT ![k] = "open"]
    /\ UNCHANGED <<heard, dropped, breaks, restarts>>

\* What every handler does: it changes key k, writes the database and waits.
Change(op, k, o, status) ==
    /\ Idle /\ requests < MaxRequests
    /\ requests' = requests + 1
    /\ db' = [db EXCEPT ![k] = IF status = "absent" THEN Absent ELSE [obj |-> o, status |-> status]]
    /\ Write(db')
    /\ Await(op, k, o, status)
    /\ promised' = [promised EXCEPT ![k] = "open"]
    /\ UNCHANGED <<heard, dropped, breaks, restarts>>

\* POST /intent: the message follows when the write is done.
PostIntent(i, o) ==
    /\ IsNew(o) /\ IdOf(o) = i
    /\ Change("post", i, o, "enabled")
    /\ UNCHANGED <<action, pendingMessages, wire, order, link>>

\* Variant: the message goes to the master only if the channel is ready.
DeleteIntent_offline(i) ==
    /\ db[i] # Absent
    /\ Publish_drop(db[i].obj, "DELETE")
    /\ Change("end", i, db[i].obj, "absent")

\* DELETE /intent/:id
DeleteIntent(i) ==
    /\ db[i] # Absent
    /\ Publish(db[i].obj, "DELETE")
    /\ Change("end", i, db[i].obj, "absent")

\* POST /fogfunction, with an intent that no other function has.
PostFunction(f, o) ==
    /\ IsNew(o) /\ IdOf(o) \in FunctionId
    /\ \A g \in Function \ {f} : IdOf(db[g].obj) # IdOf(o)
    /\ Publish(o, "ADD")
    /\ Change("end", f, o, "enabled")

\* GET /fogfunction/:name/enable
EnableFunction(f) ==
    /\ db[f] # Absent
    /\ Publish(db[f].obj, "ADD")
    /\ Change("end", f, db[f].obj, "enabled")

\* Variant: the message goes to the master only if the channel is ready.
DisableFunction_offline(f) ==
    /\ db[f] # Absent
    /\ Publish_drop(db[f].obj, "DELETE")
    /\ Change("end", f, db[f].obj, "disabled")

\* GET /fogfunction/:name/disable
DisableFunction(f) ==
    /\ db[f] # Absent
    /\ Publish(db[f].obj, "DELETE")
    /\ Change("end", f, db[f].obj, "disabled")

\* DELETE /fogfunction/:name
DeleteFunction(f) ==
    /\ db[f] # Absent
    /\ Publish(db[f].obj, "DELETE")
    /\ Change("end", f, db[f].obj, "absent")

\* The handler goes on after its write: POST /intent publishes, all answer.
Resume(h) ==
    /\ h \in handlers /\ h.at = "done"
    /\ handlers' = handlers \ {h}
    /\ promised' = IF h.last THEN [promised EXCEPT ![h.key] = h.makes] ELSE promised
    /\ IF h.op = "post" THEN Publish(h.obj, "ADD")
       ELSE UNCHANGED <<action, pendingMessages, wire, order, link>>
    /\ UNCHANGED <<db, file, heard, dropped, bounds>>

\* Intents with a message or a request that ends with the process.
Forgotten == {i \in Id : \/ i \in OnWire
                         \/ \E o \in Pending : IdOf(o) = i
                         \/ \E h \in handlers : IdOf(h.obj) = i}

\* A process is started: it reads db.json and connects.
Start(sent) ==
    /\ db' = disk
    /\ WritesLost
    /\ handlers' = {}
    /\ isReady' = FALSE /\ isConnecting' = TRUE /\ reconnectTimer' = FALSE
    /\ loaded' = sent /\ draining' = FALSE
    /\ pendingMessages' = <<>>
    /\ wire' = <<>>

\* Variant: the new process takes its intents as issued.
Restart_silent ==
    /\ restarts < MaxRestarts
    /\ restarts' = restarts + 1
    /\ Start(TRUE)
    /\ dropped' = [i \in Id |-> IF dropped[i] # "no" \/ i \in Forgotten \cup overtaken \cup crossed THEN "restart" ELSE "no"]
    /\ overtaken' = {} /\ crossed' = {}
    /\ UNCHANGED <<action, heard, promised, requests, breaks>>

\* The process ends and the next one starts.
Restart ==
    /\ restarts < MaxRestarts
    /\ restarts' = restarts + 1
    /\ Start(FALSE)
    /\ dropped' = [i \in Id |-> IF dropped[i] # "no" \/ i \in Forgotten \cup overtaken \cup crossed THEN "restart" ELSE "no"]
    /\ overtaken' = {} /\ crossed' = {}
    /\ UNCHANGED <<action, heard, promised, requests, breaks>>

-----------------------------------------------------------------------------
Init ==
    /\ db = Nothing /\ FileInit(Nothing)
    /\ handlers = {}
    /\ action = [o \in Obj |-> "ADD"]
    /\ isReady = FALSE /\ isConnecting = TRUE /\ reconnectTimer = FALSE
    /\ loaded = FALSE /\ draining = FALSE
    /\ pendingMessages = <<>>
    /\ wire = <<>>
    /\ heard = [i \in Id |-> "none"]
    /\ dropped = [i \in Id |-> "no"]
    /\ overtaken = {} /\ crossed = {}
    /\ promised = [k \in Key |-> "absent"]
    /\ requests = 0 /\ breaks = 0 /\ restarts = 0

Next ==
    \/ WriteDone \/ Connected \/ Drain \/ ConnectFails \/ Break \/ TimerFires \/ Restart
    \/ \E i \in Id : Deliver(i)
    \/ \E i \in Intent : DeleteIntent(i) \/ \E o \in Obj : PostIntent(i, o)
    \/ \E f \in Function : \/ EnableFunction(f) \/ DisableFunction(f) \/ DeleteFunction(f)
                           \/ \E o \in Obj : PostFunction(f, o)
    \/ \E h \in handlers : Resume(h)

\* Writes end, answers and timers come, and RabbitMQ takes what it is sent.
Fairness ==
    /\ WF_vars(WriteDone) /\ WF_vars(Connected) /\ WF_vars(Drain) /\ WF_vars(TimerFires)
    /\ WF_vars(\E i \in Id : Deliver(i))
    /\ WF_vars(\E h \in handlers : Resume(h))

Spec == Init /\ [][Next]_vars /\ Fairness

-----------------------------------------------------------------------------
Handler == [op : {"post", "end"}, key : Key, obj : Obj, makes : Status,
            last : BOOLEAN, at : {"cur", "next", "done"}]

\* Shapes of the state.
TypeOK ==
    /\ db \in Store /\ disk \in Store
    /\ cur = <<>> \/ (Len(cur) = 1 /\ cur[1] \in Store)
    /\ next = <<>> \/ (Len(next) = 1 /\ next[1] \in Store)
    /\ \A h \in handlers : h \in Handler
    /\ action \in [Obj -> Action]
    /\ isReady \in BOOLEAN /\ isConnecting \in BOOLEAN /\ reconnectTimer \in BOOLEAN
    /\ loaded \in BOOLEAN /\ draining \in BOOLEAN
    /\ pendingMessages \in Seq(Obj)
    /\ wire \in Seq(Messages)
    /\ heard \in [Id -> Action \cup {"none"}]
    /\ dropped \in [Id -> {"no", "break", "restart"}]
    /\ overtaken \subseteq Id /\ crossed \subseteq Id
    /\ promised \in [Key -> Status \cup {"open"}]
    /\ requests \in Nat /\ breaks \in Nat /\ restarts \in Nat

\* Nothing is under way: the last word has been spoken.
Quiet ==
    /\ isReady /\ pendingMessages = <<>> /\ handlers = {} /\ wire = <<>>

\* A request that was answered with 200 holds for good: until another request
\* for the same intent or fog function comes, the database shows its outcome,
\* however often the process is restarted and however many writes of other
\* handlers were merged.
AckedIsKept == \A k \in Key : promised[k] # "open" => db[k].status = promised[k]

\* The inductive invariant behind it.  A write waits only behind another one;
\* what was answered is in memory, in the file and in the writes under way; and
\* a handler that waits, and is the last for its key, has its outcome in memory
\* and in every write from the one that it waits for.
Agrees(c, k, status) == c # <<>> => c[1][k].status = status

NoGap == cur = <<>> => next = <<>>

Kept ==
    \A k \in Key : promised[k] # "open" =>
        /\ db[k].status = promised[k] /\ disk[k].status = promised[k]
        /\ Agrees(cur, k, promised[k]) /\ Agrees(next, k, promised[k])

Waiting ==
    \A h \in handlers : h.last =>
        /\ db[h.key].status = h.makes
        /\ Agrees(next, h.key, h.makes)
        /\ h.at = "next" => next # <<>>
        /\ h.at = "cur" => cur # <<>>
        /\ h.at # "next" => Agrees(cur, h.key, h.makes)
        /\ h.at = "done" => disk[h.key].status = h.makes

IInv == TypeOK /\ NoGap /\ Kept /\ Waiting

\* What the designer has stored and not disabled is what it last told the
\* master, although messages were queued while there was no channel, read
\* their action late, and were forgotten by a restart: issueLoadedIntents makes
\* up for that.  The exceptions are a message lost with its connection, and one
\* that was sent while an older message about the intent waited for 'drain'.
StoredIsIssued ==
    Quiet => \A k \in Key : LET i == IdOf(db[k].obj) IN
        (db[k].status = "enabled" /\ dropped[i] # "break" /\ i \notin overtaken) => heard[i] = "ADD"

\* A fog function that is disabled is not running at the master, with the same
\* exceptions and that of a request or message cut short by a restart.
DisabledIsWithdrawn ==
    Quiet => \A f \in Function : LET i == IdOf(db[f].obj) IN
        (db[f].status = "disabled" /\ dropped[i] = "no" /\ i \notin overtaken) => heard[i] # "ADD"

\* An intent whose DELETE was answered with 200 is not the master's any more,
\* with the exceptions above and that of a DELETE that came while a POST of the
\* intent waited for its write: the message of the POST is then the later one.
DeletedIsWithdrawn ==
    Quiet => \A i \in Intent :
        (promised[i] = "absent" /\ dropped[i] = "no" /\ i \notin overtaken \cup crossed)
        => heard[i] # "ADD"

\* However connections break and attempts to connect fail, in the end the
\* channel is ready, every request is answered and no message is left over.
Settles == <>[]Quiet
-----------------------------------------------------------------------------
(* The inductive invariant behind what the master is told.                 *)

\* What RabbitMQ will get if nothing else happens.
Outlook == wire \o Texts(pendingMessages)

\* The messages in q are about intent i; the last one that is says a.
Mentions(q, i) == \E n \in DOMAIN q : i \in q[n].ids
Ends(q, i, a) ==
    \A n \in DOMAIN q :
        (i \in q[n].ids /\ \A m \in DOMAIN q : m > n => i \notin q[m].ids) => q[n].act = a

\* A store has an intent under its ID, and one in each fog function.
Proper(store) ==
    /\ \A i \in Intent : store[i] # Absent => IdOf(store[i].obj) = i /\ store[i].status = "enabled"
    /\ \A f \in Function : store[f] # Absent => IdOf(store[f].obj) \in FunctionId
    /\ \A f, g \in Function : (store[f] # Absent /\ store[g] # Absent /\ f # g)
                              => IdOf(store[f].obj) # IdOf(store[g].obj)

StoresAreProper ==
    /\ Proper(db) /\ Proper(disk)
    /\ cur # <<>> => Proper(cur[1])
    /\ next # <<>> => cur # <<>> /\ next[1] = db

LinkIsSound ==
    /\ isReady => loaded /\ ~isConnecting /\ ~reconnectTimer
    /\ ~(isConnecting /\ reconnectTimer)
    /\ draining => isReady

\* POST /intent publishes for its own intent, and if that is deleted meanwhile
\* the DELETE has gone first.
PostsAreKnown ==
    /\ crossed \subseteq Intent
    /\ \A h \in handlers : h.op = "post" =>
        /\ IdOf(h.obj) \in Intent
        /\ db[IdOf(h.obj)] = Absent => IdOf(h.obj) \in crossed

\* While flushPendingMessages waits for 'drain', the head of the queue has been sent.
HeadIsSent ==
    draining /\ pendingMessages # <<>> =>
        LET p == Head(pendingMessages) IN
        IdOf(p) \notin overtaken =>
            /\ Ends(wire, IdOf(p), action[p])
            /\ ~Mentions(wire, IdOf(p)) => heard[IdOf(p)] = action[p]

Enabled(store) == {k \in Key : store[k].status = "enabled"}
EnabledIds == {IdOf(db[k].obj) : k \in Enabled(db)}

\* What is stored and not disabled is going to be issued.
QueuedIsAdd ==
    \A k \in Enabled(db) : db[k].obj \in Pending => action[db[k].obj] = "ADD"

Issued(i) ==
    /\ Ends(Outlook, i, "ADD")
    /\ ~Mentions(Outlook, i) => ~loaded \/ dropped[i] = "break" \/ heard[i] = "ADD"

EnabledIsOnItsWay ==
    \A k \in Enabled(db) :
        \/ \E h \in handlers : h.op = "post" /\ h.obj = db[k].obj
        \/ IdOf(db[k].obj) \in overtaken
        \/ Issued(IdOf(db[k].obj))

\* What is deleted or disabled is going to be withdrawn: in memory, and in each
\* content on its way to the file unless a handler waits for a later one.
Off(store, i) ==
    \/ i \in Intent /\ store[i] = Absent
    \/ \E f \in Function : store[f].status = "disabled" /\ IdOf(store[f].obj) = i

Withdrawn(i) ==
    /\ Ends(Outlook, i, "DELETE")
    /\ ~Mentions(Outlook, i) /\ dropped[i] = "no" => heard[i] # "ADD"

OffIsOnItsWay(store, later) ==
    \A i \in Id : Off(store, i) =>
        \/ \E h \in handlers : IdOf(h.obj) = i /\ h.at \in later
        \/ i \notin EnabledIds /\ (i \notin overtaken \cup crossed => Withdrawn(i))

OffsAreOnTheirWay ==
    /\ OffIsOnItsWay(db, {}) /\ OffIsOnItsWay(disk, {"cur", "next"})
    /\ cur # <<>> => OffIsOnItsWay(cur[1], {"next"})

WordsInv ==
    /\ TypeOK /\ StoresAreProper /\ LinkIsSound /\ PostsAreKnown /\ HeadIsSent
    /\ QueuedIsAdd /\ EnabledIsOnItsWay /\ OffsAreOnTheirWay
=============================================================================
