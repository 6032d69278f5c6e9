----------------------------- MODULE Discovery ------------------------------
(***************************************************************************)
(* IoT Discovery, discovery/fastDiscovery.go and discovery/repository.go:  *)
(* entity registrations, availability subscriptions and the notifications  *)
(* between them.                                                           *)
(*                                                                         *)
(* Every request answers at once and leaves the work to goroutines, so     *)
(* registering, announcing, querying, sending and resending interleave     *)
(* freely.  A step of this module is what a goroutine does between two     *)
(* releases of a lock.  A registration is shared: goroutines hold a        *)
(* pointer to it and read what it says when they get to it.                *)
(***************************************************************************)
EXTENDS Naturals, Sequences, FiniteSets

CONSTANTS
    Entity,        \* entity IDs
    Content,       \* what a registration says: type, attributes, metadata, provider
    Sub,           \* subscription IDs
    Interests,     \* the filters of subscriptions, as sets of matching content
    MaxRequests    \* bound: requests served

ASSUME DiscoveryAssumption ==
    /\ Interests \subseteq SUBSET Content
    /\ MaxRequests \in Nat

VARIABLES
    heap,                  \* EntityRegistration objects, by address
    ctxRegistrationList,   \* address of the registration per entity, 0: none
    subscriptions,         \* filter per subscription
    announcers,            \* go notifySubscribers(registration, "UPDATE")
    deleters,              \* go deleteRegistration(eid)
    queries,               \* go handleSubscribeCtxAvailability(subReq)
    senders,               \* goroutines in sendNotify
    spawned,               \* go resendCachedItems() not begun
    resenders,             \* goroutines in resendCachedItems
    notifyCache,           \* notifications that could not be sent
    received,              \* notifications that reached their subscriber
    requests               \* requests so far; numbers the goroutines they start

repository == <<heap, ctxRegistrationList>>
handlers == <<announcers, deleters, queries>>
channel == <<senders, spawned, resenders, notifyCache, received>>
vars == <<repository, subscriptions, handlers, channel, requests>>

\* A registration at some time; the stamp, the request that wrote it, tells
\* apart two updates that say the same.
Version == [cont : Content, stamp : Nat]

Notice == [n : Nat, sub : Sub, act : {"CREATE", "UPDATE", "DELETE"},
           ents : SUBSET (Entity \X Version)]

Registered == {e \in Entity : ctxRegistrationList[e] # 0}
Current(e) == heap[ctxRegistrationList[e]]

\* The subscriptions that matchingWithFilters finds for a registration.
Matching(v) == {s \in DOMAIN subscriptions : v.cont \in subscriptions[s]}

\* go sendNotify(...) for the notifications in N.
SendNotify(N) ==
    senders' = senders \cup [note : N, pc : {"look"}]

Request ==
    /\ requests < MaxRequests
    /\ requests' = requests + 1

-----------------------------------------------------------------------------
(* Registrations                                                           *)

\* An existing registration is changed in place, a new one is stored.
updateRegistrationInMemory(e, v, o) ==
    /\ heap' = IF e \in Registered THEN [heap EXCEPT ![o] = v] ELSE Append(heap, v)
    /\ ctxRegistrationList' = [ctxRegistrationList EXCEPT ![e] = o]

\* Variant: an update of a registration is not announced.
RegisterContext_quietUpdate(e, c) ==
    /\ Request
    /\ LET v == [cont |-> c, stamp |-> requests']
           o == IF e \in Registered THEN ctxRegistrationList[e] ELSE Len(heap) + 1
       IN  /\ updateRegistrationInMemory(e, v, o)
           /\ announcers' = IF e \in Registered THEN announcers
                            ELSE announcers \cup {[n |-> requests', ent |-> e, obj |-> o]}
    /\ UNCHANGED <<subscriptions, deleters, queries, channel>>

\* updateRegistration: the repository is updated, then the subscribers are to be
\* informed.  A request for several entities does this for one after the other.
RegisterContext(e, c) ==
    /\ Request
    /\ LET v == [cont |-> c, stamp |-> requests']
           o == IF e \in Registered THEN ctxRegistrationList[e] ELSE Len(heap) + 1
       IN  /\ updateRegistrationInMemory(e, v, o)
           /\ announcers' = announcers \cup {[n |-> requests', ent |-> e, obj |-> o]}
    /\ UNCHANGED <<subscriptions, deleters, queries, channel>>

\* notifySubscribers, under the read lock of the subscriptions.
NoticesOf(n, e, o, act) ==
    {[n |-> n, sub |-> s, act |-> act, ents |-> {<<e, heap[o]>>}] : s \in Matching(heap[o])}

Announce(a) ==
    /\ a \in announcers
    /\ announcers' = announcers \ {a}
    /\ SendNotify(NoticesOf(a.n, a.ent, a.obj, "UPDATE"))
    /\ UNCHANGED <<repository, subscriptions, deleters, queries,
                   spawned, resenders, notifyCache, received, requests>>

\* deleteRegistration retrieves the registration, an unknown one is left alone.
DeleteRegisteredEntity(e) ==
    /\ Request
    /\ e \in Registered
    /\ deleters' = deleters \cup {[n |-> requests', ent |-> e, pc |-> "announce",
                                   obj |-> ctxRegistrationList[e]]}
    /\ UNCHANGED <<repository, subscriptions, announcers, queries, channel>>

AnnounceDelete(d) ==
    /\ d \in deleters /\ d.pc = "announce"
    /\ deleters' = (deleters \ {d}) \cup {[d EXCEPT !.pc = "delete"]}
    /\ SendNotify(NoticesOf(d.n, d.ent, d.obj, "DELETE"))
    /\ UNCHANGED <<repository, subscriptions, announcers, queries,
                   spawned, resenders, notifyCache, received, requests>>

\* Variant: the registration is freed, the entry stays.
DeleteEntity_free(d) ==
    /\ d \in deleters /\ d.pc = "delete"
    /\ deleters' = deleters \ {d}
    /\ heap' = SubSeq(heap, 1, d.obj - 1)
    /\ UNCHANGED <<ctxRegistrationList, subscriptions, announcers, queries, channel, requests>>

\* deleteEntity: by ID, whichever registration the entity has by now.
DeleteEntity(d) ==
    /\ d \in deleters /\ d.pc = "delete"
    /\ deleters' = deleters \ {d}
    /\ ctxRegistrationList' = [ctxRegistrationList EXCEPT ![d.ent] = 0]
    /\ UNCHANGED <<heap, subscriptions, announcers, queries, channel, requests>>

-----------------------------------------------------------------------------
(* Subscriptions                                                           *)

\* SubscribeContextAvailability with a new ID, UpdateLDContextAvailability with
\* the ID of an earlier one: the subscription is stored, then the repository
\* is to be searched for it.
SubscribeContextAvailability(s, I) ==
    /\ Request
    /\ subscriptions' = [u \in DOMAIN subscriptions \cup {s} |->
                            IF u = s THEN I ELSE subscriptions[u]]
    /\ queries' = queries \cup {[n |-> requests', sub |-> s, filter |-> I]}
    /\ UNCHANGED <<repository, announcers, deleters, channel>>

\* handleSubscribeCtxAvailability: queryEntities under the read lock of the
\* repository, then one notification for all that match, if any.
Query(q) ==
    /\ q \in queries
    /\ queries' = queries \ {q}
    /\ LET found == {e \in Registered : Current(e).cont \in q.filter}
           note == [n |-> q.n, sub |-> q.sub, act |-> "CREATE",
                    ents |-> {<<e, Current(e)>> : e \in found}]
       IN  SendNotify(IF found = {} THEN {} ELSE {note})
    /\ UNCHANGED <<repository, subscriptions, announcers, deleters,
                   spawned, resenders, notifyCache, received, requests>>

\* Notifications under way or in the cache stay there.
UnsubscribeContextAvailability(s) ==
    /\ Request
    /\ s \in DOMAIN subscriptions
    /\ subscriptions' = [u \in DOMAIN subscriptions \ {s} |-> subscriptions[u]]
    /\ UNCHANGED <<repository, handlers, channel>>

-----------------------------------------------------------------------------
(* Notifications                                                           *)

\* sendNotify looks into the cache and starts a resender if it is not empty.
LookIntoCache(x) ==
    /\ x \in senders /\ x.pc = "look"
    /\ senders' = (senders \ {x}) \cup {[x EXCEPT !.pc = "post"]}
    /\ spawned' = IF notifyCache # {} THEN spawned + 1 ELSE spawned
    /\ UNCHANGED <<repository, subscriptions, handlers, resenders, notifyCache, received, requests>>

\* postNotify: acknowledged, or an error, before or after the subscriber got
\* the notification.
PostNotify(note, done) ==
    IF done THEN received' = received \cup {note}
    ELSE received' \in {received, received \cup {note}}

\* Variant: a notification that could not be sent is dropped.
PostOrCache_drop(x, done) ==
    /\ x \in senders /\ x.pc = "post"
    /\ senders' = senders \ {x}
    /\ PostNotify(x.note, done)
    /\ UNCHANGED <<repository, subscriptions, handlers, spawned, resenders, notifyCache, requests>>

PostOrCache(x, done) ==
    /\ x \in senders /\ x.pc = "post"
    /\ senders' = senders \ {x}
    /\ PostNotify(x.note, done)
    /\ notifyCache' = IF done THEN notifyCache ELSE notifyCache \cup {x.note}
    /\ UNCHANGED <<repository, subscriptions, handlers, spawned, resenders, requests>>

\* resendCachedItems empties the cache; the ticker's goroutine calls it too.
TakeCache(timer) ==
    /\ IF timer THEN /\ notifyCache # {}
                     /\ \A y \in resenders : ~y.timer
                     /\ UNCHANGED spawned
                ELSE /\ spawned > 0
                     /\ spawned' = spawned - 1
    /\ resenders' = IF notifyCache = {} THEN resenders
                    ELSE resenders \cup {[timer |-> timer, todo |-> notifyCache, failed |-> {}]}
    /\ notifyCache' = {}
    /\ UNCHANGED <<repository, subscriptions, handlers, senders, received, requests>>

\* ... and posts the items, whose order does not matter to what follows ...
Resend(y, note, done) ==
    /\ y \in resenders /\ note \in y.todo
    /\ PostNotify(note, done)
    /\ resenders' = (resenders \ {y}) \cup
                        {[y EXCEPT !.todo = @ \ {note},
                                   !.failed = IF done THEN @ ELSE @ \cup {note}]}
    /\ UNCHANGED <<repository, subscriptions, handlers, senders, spawned, notifyCache, requests>>

\* Variant: the cache is replaced, not extended, by what failed.
PutBack_replace(y) ==
    /\ y \in resenders /\ y.todo = {}
    /\ resenders' = resenders \ {y}
    /\ notifyCache' = y.failed
    /\ UNCHANGED <<repository, subscriptions, handlers, senders, spawned, received, requests>>

\* ... and puts back what failed.
PutBack(y) ==
    /\ y \in resenders /\ y.todo = {}
    /\ resenders' = resenders \ {y}
    /\ notifyCache' = notifyCache \cup y.failed
    /\ UNCHANGED <<repository, subscriptions, handlers, senders, spawned, received, requests>>

-----------------------------------------------------------------------------
Init ==
    /\ heap = <<>>
    /\ ctxRegistrationList = [e \in Entity |-> 0]
    /\ subscriptions = [s \in {} |-> {}]
    /\ announcers = {} /\ deleters = {} /\ queries = {}
    /\ senders = {} /\ spawned = 0 /\ resenders = {}
    /\ notifyCache = {} /\ received = {}
    /\ requests = 0

Handle ==
    \/ \E e \in Entity : \/ \E c \in Content : RegisterContext(e, c)
                         \/ DeleteRegisteredEntity(e)
    \/ \E s \in Sub : \/ \E I \in Interests : SubscribeContextAvailability(s, I)
                      \/ UnsubscribeContextAvailability(s)

\* Steps of goroutines that never wait for a subscriber.
LocalStep ==
    \/ \E a \in announcers : Announce(a)
    \/ \E d \in deleters : AnnounceDelete(d) \/ DeleteEntity(d)
    \/ \E q \in queries : Query(q)
    \/ \E x \in senders : LookIntoCache(x)
    \/ \E timer \in BOOLEAN : TakeCache(timer)
    \/ \E y \in resenders : PutBack(y)

Post(done) ==
    \/ \E x \in senders : PostOrCache(x, done)
    \/ \E y \in resenders : \E note \in y.todo : Resend(y, note, done)

Next == Handle \/ LocalStep \/ \E done \in BOOLEAN : Post(done)

-----------------------------------------------------------------------------
\* All notifications not yet acknowledged, wherever they are.
Outstanding ==
    {x.note : x \in senders} \cup notifyCache
        \cup UNION {y.todo \cup y.failed : y \in resenders}

\* Goroutines run and the ticker ticks; every HTTP call returns; a subscriber
\* that is called again and again acknowledges some call in the end.
Acknowledge(s) ==
    \/ \E x \in senders : x.note.sub = s /\ PostOrCache(x, TRUE)
    \/ \E y \in resenders : \E note \in y.todo : note.sub = s /\ Resend(y, note, TRUE)

Fairness ==
    /\ WF_vars(\E a \in announcers : Announce(a))
    /\ WF_vars(\E d \in deleters : AnnounceDelete(d) \/ DeleteEntity(d))
    /\ WF_vars(\E q \in queries : Query(q))
    /\ WF_vars(\E x \in senders : LookIntoCache(x))
    /\ WF_vars(TakeCache(TRUE)) /\ WF_vars(TakeCache(FALSE))
    /\ WF_vars(\E y \in resenders : PutBack(y))
    /\ WF_vars(\E done \in BOOLEAN : Post(done))
    /\ \A s \in Sub : SF_vars(Acknowledge(s))

Spec == Init /\ [][Next]_vars /\ Fairness

-----------------------------------------------------------------------------
\* Type correctness of IoT Discovery.
TypeOK ==
    /\ heap \in Seq(Version)
    /\ ctxRegistrationList \in [Entity -> 0..Len(heap)]
    /\ DOMAIN subscriptions \subseteq Sub
    /\ subscriptions \in [DOMAIN subscriptions -> Interests]
    /\ announcers \subseteq [n : Nat, ent : Entity, obj : 1..Len(heap)]
    /\ deleters \subseteq [n : Nat, ent : Entity, obj : 1..Len(heap), pc : {"announce", "delete"}]
    /\ queries \subseteq [n : Nat, sub : Sub, filter : Interests]
    /\ senders \subseteq [note : Notice, pc : {"look", "post"}]
    /\ spawned \in Nat
    /\ resenders \subseteq [timer : BOOLEAN, todo : SUBSET Notice, failed : SUBSET Notice]
    /\ notifyCache \subseteq Notice
    /\ received \subseteq Notice
    /\ requests \in 0..MaxRequests

\* The notification tells subscription s of e as it is registered now.
Tells(note, s, e) == note.sub = s /\ <<e, Current(e)>> \in note.ents

\* However registering and subscribing interleave, no subscriber misses a
\* matching registration: it was told of its latest version, or a notification
\* or the goroutine that will send one is under way.  (The one side stores and
\* then reads what the other stored, so one of the two sees the other.)
NoMissedRegistration ==
    \A e \in Registered : \A s \in Matching(Current(e)) :
        \/ \E note \in received \cup Outstanding : Tells(note, s, e)
        \/ \E a \in announcers : a.ent = e /\ a.obj = ctxRegistrationList[e]
        \/ \E q \in queries : q.sub = s /\ q.filter = subscriptions[s]

\* Once requests stop, every subscriber is told of the latest version of every
\* registration that matches, although any number of calls fail.
EventuallyInformed ==
    <>[](\A e \in Registered : \A s \in Matching(Current(e)) :
            \E note \in received : Tells(note, s, e))

\* The cache and the goroutines that empty and refill it behave like a channel
\* that gives a notification up only when it was received.
Channel == INSTANCE NotifyChannel WITH outstanding <- Outstanding, received <- received
ImplementsChannel == Channel!ChannelSafety
=============================================================================
