----------------------------- MODULE ThinBroker -----------------------------
(***************************************************************************)
(* The thin broker: context updates, subscriptions and notifications       *)
(* (broker/thinBroker.go, broker/ngsiv1.go), for entities that the broker  *)
(* itself holds and subscriptions that select them by ID.  An update whose *)
(* correlator is that of the subscriber, or that comes from a prosumer, is *)
(* not sent back to it; these updates are left out.                        *)
(*                                                                         *)
(* Every HTTP request is a goroutine.  An update registers the entity at   *)
(* IoT Discovery if needed, stores it, and then notifies the subscriptions *)
(* that are linked to it.  Links are made elsewhere: IoT Discovery tells   *)
(* the broker which entities match a subscription, and the goroutine that  *)
(* hears it sends the current contents of all of them, in one              *)
(* notification, and then adds the links one by one.  The contents of an   *)
(* entity are numbered in the order in which they are stored; 0 is the     *)
(* empty element that tells of a deletion.  IoT Discovery appears by what  *)
(* it does for the broker; module Discovery has the details.               *)
(***************************************************************************)
EXTENDS Naturals, Sequences, FiniteSets, Functions

CONSTANTS
    Entity, Subscription,
    Reliable,      \* subscriptions with the header Require-Reliability
    None,          \* no message
    Written,       \* bound: the entities that are updated and deleted
    MaxWrites,     \* bound: updates and deletions; ends unsubscribing too
    MaxFailures    \* bound: notifications that fail

ASSUME BrokerAssumption ==
    /\ Reliable \subseteq Subscription /\ Written \subseteq Entity
    /\ IsFiniteSet(Entity)
    /\ MaxWrites \in Nat /\ MaxFailures \in Nat

VARIABLES
    latest,        \* per entity: number of its last content
    alive,         \* entities: the entities that exist
    writers,       \* handlers of updateContext
    registered,    \* registrations at IoT Discovery
    status,        \* per subscription: "none", "asked", "linked", "removed"
    queries,       \* subscriptions that IoT Discovery has not matched yet
    avail,         \* availability notifications on their way to the broker
    tmpNGSI9NotifyCache,
    linkers,       \* goroutines in handleNGSI9Notify
    links,         \* entityId2Subcriptions: how often each entity has each ID
    senders,       \* goroutines in sendReliableNotifyToSubscriber
    NotifyCache,   \* per subscription: elements to be sent again
    stuck,         \* locks that are never released
    got,           \* what each subscriber received
    lost,          \* history: elements that were given up
    missed,        \* history: links that were not there when they counted
    writes, failures

store == <<latest, alive>>
link == <<status, queries, avail, tmpNGSI9NotifyCache, linkers, links>>
send == <<senders, NotifyCache, got, lost, failures>>
vars == <<store, writers, registered, link, send, stuck, missed, writes>>

Element == Entity \X (0..MaxWrites + 1)
Listening == {s \in Subscription : status[s] \in {"asked", "linked"}}

Lock == {"entities", "e2sub"}
Lockable(l) == l \notin stuck

Notification(s, es, act) == [sub |-> s, ents |-> es, act |-> act]
Notifications == [sub : Subscription, ents : (SUBSET Entity) \ {{}}, act : {"CREATE", "UPDATE", "DELETE"}]

ASSUME NoneAssumption == None \notin Notifications

Writer(e, op, pc) == [entity |-> e, op |-> op, pc |-> pc, number |-> writes]
Sender(s, q) == [sub |-> s, elements |-> q, posting |-> FALSE]

-----------------------------------------------------------------------------
(* Updates                                                                 *)

\* UpdateContext2LocalSite: whether the entity has to be registered.  An
\* update of an entity that exists may bring new attributes or metadata.
UpdateContext(e, news) ==
    /\ e \in Written /\ writes < MaxWrites /\ Lockable("entities")
    /\ writes' = writes + 1
    /\ writers' = writers \cup {Writer(e, "update", IF e \in alive /\ ~news THEN "apply" ELSE "register")}
    /\ UNCHANGED <<store, registered, link, send, stuck, missed>>

\* deleteEntity
DeleteContext(e) ==
    /\ e \in Written /\ writes < MaxWrites /\ Lockable("entities")
    /\ writes' = writes + 1
    /\ writers' = writers \cup {Writer(e, "delete", "apply")}
    /\ UNCHANGED <<store, registered, link, send, stuck, missed>>

Goto(w, pc) == writers' = (writers \ {w}) \cup (IF pc = "end" THEN {} ELSE {[w EXCEPT !.pc = pc]})

\* registerContextElement; IoT Discovery tells the subscriptions that it has.
Register(w) ==
    /\ w \in writers /\ w.pc = "register"
    /\ Goto(w, "apply")
    /\ registered' = registered \cup {w.entity}
    /\ avail' = avail \cup {Notification(s, {w.entity}, "UPDATE") : s \in Listening}
    /\ UNCHANGED <<store, status, queries, tmpNGSI9NotifyCache, linkers, links, send, stuck, missed, writes>>

\* updateContextElement, or the removal from the entity map.
Apply(w) ==
    /\ w \in writers /\ w.pc = "apply" /\ Lockable("entities")
    /\ Goto(w, "notify")
    /\ latest' = [latest EXCEPT ![w.entity] = IF w.op = "update" THEN @ + 1 ELSE @]
    /\ alive' = IF w.op = "update" THEN alive \cup {w.entity} ELSE alive \ {w.entity}
    /\ UNCHANGED <<registered, link, send, stuck, missed, writes>>

\* A subscription whose link to e is still to be made by a goroutine that has
\* sent the old content already.
BetweenSteps(s, e) == \E t \in linkers : t.sub = s /\ t.act # "DELETE" /\ t.sent /\ e \in t.todo

\* notifySubscribers: an update sends what the entity map holds by now, a
\* deletion an empty element.
Notify(w) ==
    /\ w \in writers /\ w.pc = "notify" /\ Lockable("e2sub")
    /\ w.op = "update" => w.entity \in alive \/ \A s \in Subscription : links[w.entity][s] = 0
    /\ LET e == w.entity
           n == IF w.op = "update" THEN latest[e] ELSE 0
       IN  /\ senders' = senders \cup {Sender(s, <<<<e, n>>>>) : s \in {x \in Subscription : links[e][x] > 0}}
           /\ missed' = missed \cup {<<s, e>> : s \in {x \in Listening : links[e][x] = 0 /\ BetweenSteps(x, e)}}
    /\ Goto(w, IF w.op = "update" THEN "end" ELSE "unregister")
    /\ UNCHANGED <<store, registered, link, NotifyCache, got, lost, failures, stuck, writes>>

\* The entity was deleted meanwhile: the nil pointer ends the handler, which
\* holds entities_lock.
NotifyPanics(w) ==
    /\ w \in writers /\ w.pc = "notify" /\ w.op = "update" /\ Lockable("e2sub")
    /\ w.entity \notin alive /\ \E s \in Subscription : links[w.entity][s] > 0
    /\ Goto(w, "end")
    /\ stuck' = stuck \cup {"entities"}
    /\ UNCHANGED <<store, registered, link, send, missed, writes>>

\* UnregisterEntity; IoT Discovery tells its subscriptions.
Unregister(w) ==
    /\ w \in writers /\ w.pc = "unregister"
    /\ Goto(w, "end")
    /\ registered' = registered \ {w.entity}
    /\ avail' = IF w.entity \in registered
                THEN avail \cup {Notification(s, {w.entity}, "DELETE") : s \in Listening} ELSE avail
    /\ UNCHANGED <<store, status, queries, tmpNGSI9NotifyCache, linkers, links, send, stuck, missed, writes>>

-----------------------------------------------------------------------------
(* Subscriptions                                                           *)

\* subscribeContext and the call of IoT Discovery in
\* SubscribeContextAvailability.
SubscribeContext(s) ==
    /\ status[s] = "none"
    /\ status' = [status EXCEPT ![s] = "asked"]
    /\ queries' = queries \cup {s}
    /\ UNCHANGED <<store, writers, registered, avail, tmpNGSI9NotifyCache, linkers, links, send, stuck,
                   missed, writes>>

\* Variant: the answer is sent even if nothing matches.
Match_always(s) ==
    /\ s \in queries
    /\ queries' = queries \ {s}
    /\ avail' = avail \cup {Notification(s, registered, "CREATE")}
    /\ UNCHANGED <<store, writers, registered, status, tmpNGSI9NotifyCache, linkers, links, send, stuck,
                   missed, writes>>

\* IoT Discovery sends the entities that match a new subscription.
Match(s) ==
    /\ s \in queries
    /\ queries' = queries \ {s}
    /\ avail' = IF registered = {} THEN avail ELSE avail \cup {Notification(s, registered, "CREATE")}
    /\ UNCHANGED <<store, writers, registered, status, tmpNGSI9NotifyCache, linkers, links, send, stuck,
                   missed, writes>>

\* The goroutine that handles m: the links that are left to be made, whether
\* the contents were sent (a deletion has none), and whether it found the
\* subscription.
Linker(m, found) ==
    [sub |-> m.sub, act |-> m.act, todo |-> m.ents, sent |-> m.act = "DELETE", found |-> found]

\* Variant: the cache is not looked at when the answer comes.
LinkSubscription_noCache(s) ==
    /\ status[s] = "asked"
    /\ status' = [status EXCEPT ![s] = "linked"]
    /\ UNCHANGED <<store, writers, registered, queries, avail, tmpNGSI9NotifyCache, linkers, links, send,
                   stuck, missed, writes>>

\* IoT Discovery's answer: the subscription is linked to the availability
\* subscription, and a notification that came earlier is handled.
LinkSubscription(s) ==
    /\ status[s] = "asked"
    /\ status' = [status EXCEPT ![s] = "linked"]
    /\ linkers' = IF tmpNGSI9NotifyCache[s] = None THEN linkers
                  ELSE linkers \cup {Linker(tmpNGSI9NotifyCache[s], TRUE)}
    /\ tmpNGSI9NotifyCache' = [tmpNGSI9NotifyCache EXCEPT ![s] = None]
    /\ UNCHANGED <<store, writers, registered, queries, avail, links, send, stuck, missed, writes>>

\* NGSIV1_UnsubscribeContext; entityId2Subcriptions keeps the ID.  Bound: not
\* after the last write, when nothing more can happen to the subscription.
UnsubscribeContext(s) ==
    /\ status[s] = "linked" /\ writes < MaxWrites
    /\ status' = [status EXCEPT ![s] = "removed"]
    /\ UNCHANGED <<store, writers, registered, queries, avail, tmpNGSI9NotifyCache, linkers, links, send,
                   stuck, missed, writes>>

\* NGSIV1_NotifyContextAvailability: it is handled, or kept until the
\* subscription is linked, where it replaces an earlier one.
NotifyAvailability(m) ==
    /\ m \in avail
    /\ avail' = avail \ {m}
    /\ IF status[m.sub] = "asked"
       THEN /\ tmpNGSI9NotifyCache' = [tmpNGSI9NotifyCache EXCEPT ![m.sub] = m]
            /\ missed' = IF tmpNGSI9NotifyCache[m.sub] = None THEN missed
                         ELSE missed \cup ({m.sub} \X tmpNGSI9NotifyCache[m.sub].ents)
            /\ UNCHANGED linkers
       ELSE /\ linkers' = linkers \cup {Linker(m, status[m.sub] = "linked")}
            /\ UNCHANGED <<tmpNGSI9NotifyCache, missed>>
    /\ UNCHANGED <<store, writers, registered, status, queries, links, send, stuck, writes>>

\* The orders in which a list may have the elements of S.
Listings(S) == {q \in [1..Cardinality(S) -> S] : Range(q) = S}

\* The contents, by now, of the entities that t tells of.
Contents(t) == {<<e, latest[e]>> : e \in t.todo \cap alive}

\* handleNGSI9Notify: notifyOneSubscriberWithCurrentStatus reads all entities
\* of the list in one go; an empty list is not sent.
SendCurrent(t) ==
    /\ t \in linkers /\ ~t.sent
    /\ status[t.sub] = "linked" => Lockable("entities")
    /\ linkers' = (linkers \ {t}) \cup {[t EXCEPT !.sent = TRUE]}
    /\ IF status[t.sub] = "linked" /\ Contents(t) # {}
       THEN \E q \in Listings(Contents(t)) : senders' = senders \cup {Sender(t.sub, q)}
       ELSE UNCHANGED senders
    /\ UNCHANGED <<store, writers, registered, status, queries, avail, tmpNGSI9NotifyCache, links,
                   NotifyCache, got, lost, failures, stuck, missed, writes>>

\* How often the ID is there after an action.
Linked(n, act) ==
    CASE act = "CREATE" -> n + 1
      [] act = "UPDATE" -> IF n = 0 THEN 1 ELSE n
      [] act = "DELETE" -> IF n = 0 THEN 0 ELSE n - 1

\* The association of one entity of the list with the subscription.  A
\* deletion that is handled after the entity was registered again removes the
\* new link.
Associate(t, e) ==
    /\ t \in linkers /\ t.sent /\ e \in t.todo /\ Lockable("e2sub")
    /\ t.found \/ t.act = "DELETE"
    /\ linkers' = (linkers \ {t}) \cup (IF t.todo = {e} THEN {} ELSE {[t EXCEPT !.todo = @ \ {e}]})
    /\ links' = [links EXCEPT ![e][t.sub] = Linked(@, t.act)]
    /\ missed' = IF t.act = "DELETE" /\ e \in registered THEN missed \cup {<<t.sub, e>>} ELSE missed
    /\ UNCHANGED <<store, writers, registered, status, queries, avail, tmpNGSI9NotifyCache, send, stuck, writes>>

\* The subscription was removed before: the nil pointer ends the handler, which
\* holds e2sub_lock.
AssociatePanics(t) ==
    /\ t \in linkers /\ t.sent /\ Lockable("e2sub")
    /\ ~t.found /\ t.act # "DELETE"
    /\ linkers' = linkers \ {t}
    /\ stuck' = stuck \cup {"e2sub"}
    /\ UNCHANGED <<store, writers, registered, status, queries, avail, tmpNGSI9NotifyCache, links, send,
                   missed, writes>>

-----------------------------------------------------------------------------
(* Notifications                                                           *)

\* sendReliableNotify: what is cached goes along with the new elements.
Collect(m) ==
    /\ m \in senders /\ ~m.posting
    /\ IF status[m.sub] = "linked"
       THEN /\ senders' = (senders \ {m})
                          \cup {[m EXCEPT !.posting = TRUE, !.elements = @ \o NotifyCache[m.sub]]}
            /\ NotifyCache' = [NotifyCache EXCEPT ![m.sub] = <<>>]
       ELSE /\ senders' = senders \ {m}
            /\ UNCHANGED NotifyCache
    /\ UNCHANGED <<store, writers, registered, link, got, lost, failures, stuck, missed, writes>>

\* postNotifyContext succeeds, at once or when it is repeated after five
\* seconds.
Post(m) ==
    /\ m \in senders /\ m.posting
    /\ senders' = senders \ {m}
    /\ got' = [got EXCEPT ![m.sub] = @ \cup Range(m.elements)]
    /\ UNCHANGED <<store, writers, registered, link, NotifyCache, lost, failures, stuck, missed, writes>>

\* The pointers that are cached all point to the variable of the loop, that
\* is, to the last element.
Cached(q) == [n \in DOMAIN q |-> q[Len(q)]]

\* It fails twice: the elements are cached, or given up.
PostFails(m) ==
    /\ m \in senders /\ m.posting /\ failures < MaxFailures
    /\ failures' = failures + 1
    /\ senders' = senders \ {m}
    /\ LET keeps == m.sub \in Reliable /\ status[m.sub] = "linked"
           kept == IF keeps THEN Cached(m.elements) ELSE <<>>
       IN  /\ NotifyCache' = [NotifyCache EXCEPT ![m.sub] = @ \o kept]
           /\ lost' = [lost EXCEPT ![m.sub] = @ \cup (Range(m.elements) \ Range(kept))]
    /\ UNCHANGED <<store, writers, registered, link, got, stuck, missed, writes>>

-----------------------------------------------------------------------------
\* Some entities are there already.
Init ==
    /\ alive \in SUBSET Entity
    /\ latest = [e \in Entity |-> IF e \in alive THEN 1 ELSE 0]
    /\ writers = {}
    /\ registered = alive
    /\ status = [s \in Subscription |-> "none"]
    /\ queries = {} /\ avail = {}
    /\ tmpNGSI9NotifyCache = [s \in Subscription |-> None]
    /\ linkers = {}
    /\ links = [e \in Entity |-> [s \in Subscription |-> 0]]
    /\ senders = {}
    /\ NotifyCache = [s \in Subscription |-> <<>>]
    /\ stuck = {}
    /\ got = [s \in Subscription |-> {}]
    /\ lost = [s \in Subscription |-> {}]
    /\ missed = {}
    /\ writes = 0 /\ failures = 0

Next ==
    \/ \E e \in Entity : DeleteContext(e) \/ \E news \in BOOLEAN : UpdateContext(e, news)
    \/ \E w \in writers : Register(w) \/ Apply(w) \/ Notify(w) \/ NotifyPanics(w) \/ Unregister(w)
    \/ \E s \in Subscription : SubscribeContext(s) \/ Match(s) \/ LinkSubscription(s) \/ UnsubscribeContext(s)
    \/ \E m \in avail : NotifyAvailability(m)
    \/ \E t \in linkers : SendCurrent(t) \/ AssociatePanics(t) \/ \E e \in Entity : Associate(t, e)
    \/ \E m \in senders : Collect(m) \/ Post(m) \/ PostFails(m)

Spec == Init /\ [][Next]_vars

-----------------------------------------------------------------------------
\* Shapes of the state.
TypeOK ==
    /\ latest \in [Entity -> 0..MaxWrites + 1] /\ alive \subseteq Entity /\ registered \subseteq Entity
    /\ writers \subseteq [entity : Entity, op : {"update", "delete"}, number : 0..MaxWrites,
                          pc : {"register", "apply", "notify", "unregister"}]
    /\ status \in [Subscription -> {"none", "asked", "linked", "removed"}]
    /\ queries \subseteq Subscription
    /\ avail \subseteq Notifications
    /\ tmpNGSI9NotifyCache \in [Subscription -> Notifications \cup {None}]
    /\ linkers \subseteq [sub : Subscription, act : {"CREATE", "UPDATE", "DELETE"},
                          todo : (SUBSET Entity) \ {{}}, sent : BOOLEAN, found : BOOLEAN]
    /\ links \in [Entity -> [Subscription -> Nat]]
    /\ senders \subseteq [sub : Subscription, elements : Seq(Element), posting : BOOLEAN]
    /\ NotifyCache \in [Subscription -> Seq(Element)]
    /\ got \in [Subscription -> SUBSET Element] /\ lost \in [Subscription -> SUBSET Element]
    /\ stuck \subseteq Lock /\ missed \subseteq Subscription \X Entity
    /\ writes \in 0..MaxWrites /\ failures \in 0..MaxFailures

\* Everything that is under way has ended.
Quiet == writers = {} /\ queries = {} /\ avail = {} /\ linkers = {} /\ senders = {} /\ stuck = {}

\* Whatever updates, deletions, subscriptions and links interleave: when all
\* has settled, a linked subscriber has received the last content of every
\* registered entity, unless a post failed twice (then a reliable subscription
\* may have it in its cache), or it fell into one of three windows: the entity
\* changed between the first content and the link, an early availability
\* notification was replaced by the next one, or the notification of a
\* deletion was handled after the entity had been registered again.
LatestIsReceived ==
    Quiet => \A s \in Subscription, e \in alive \cap registered :
        (status[s] = "linked" /\ <<s, e>> \notin missed)
        => <<e, latest[e]>> \in got[s] \cup lost[s] \cup Range(NotifyCache[s])

-----------------------------------------------------------------------------
(* The inductive invariant behind it.                                      *)

\* No content has a number beyond the writes that were applied.
Unapplied == {w \in writers : w.pc \in {"register", "apply"}}
Numbered ==
    /\ \A w \in writers : w.number < writes
    /\ \A v, w \in writers : v.number = w.number => v = w
    /\ IsFiniteSet(writers)
    /\ \A e \in Entity : latest[e] + Cardinality(Unapplied) <= writes + 1

\* What is under way for a subscription belongs to its state.
Served(s) == status[s] \in {"linked", "removed"}
StatesAgree ==
    /\ \A m \in avail : status[m.sub] # "none"
    /\ \A s \in queries : status[s] # "none"
    /\ \A s \in Subscription : tmpNGSI9NotifyCache[s] # None =>
          status[s] = "asked" /\ tmpNGSI9NotifyCache[s].sub = s
    /\ \A t \in linkers : Served(t.sub) /\ (t.found \/ status[t.sub] = "removed")
    /\ \A e \in Entity, s \in Subscription : links[e][s] > 0 => Served(s)
    /\ \A m \in senders : Served(m.sub)

\* A goroutine will read the current content of e and send it to s.
Offers(m, s, e) == m.sub = s /\ m.act # "DELETE" /\ e \in m.ents
Awaits(s, e) ==
    \/ s \in queries /\ e \in registered
    \/ \E m \in avail : Offers(m, s, e)
    \/ tmpNGSI9NotifyCache[s] # None /\ Offers(tmpNGSI9NotifyCache[s], s, e)
    \/ \E t \in linkers : t.sub = s /\ t.act # "DELETE" /\ ~t.sent /\ e \in t.todo

\* The link is there, or a goroutine is about to make it.
Tied(s, e) == links[e][s] > 0 \/ BetweenSteps(s, e)

\* The last content is with s, on its way to it, cached or given up.
Told(s, e) ==
    \/ <<e, latest[e]>> \in got[s] \cup lost[s] \cup Range(NotifyCache[s])
    \/ \E m \in senders : m.sub = s /\ <<e, latest[e]>> \in Range(m.elements)

Notifying(e) == \E w \in writers : w.pc = "notify" /\ w.op = "update" /\ w.entity = e

NobodyIsForgotten ==
    stuck = {} => \A s \in Listening, e \in registered :
        <<s, e>> \notin missed =>
            Awaits(s, e) \/ (Tied(s, e) /\ (e \in alive => Told(s, e) \/ Notifying(e)))

IInv == TypeOK /\ Numbered /\ StatesAgree /\ NobodyIsForgotten
=============================================================================
