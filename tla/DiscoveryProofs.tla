-------------------------- MODULE DiscoveryProofs ---------------------------
(***************************************************************************)
(* Proofs about IoT Discovery, for any sets of entities, registrations,    *)
(* subscriptions and filters and any number of requests.                   *)
(***************************************************************************)
EXTENDS Discovery, TLAPS

Announcer == [n : Nat, ent : Entity, obj : 1..Len(heap)]
Deleter == [n : Nat, ent : Entity, obj : 1..Len(heap), pc : {"announce", "delete"}]
Sender == [note : Notice, pc : {"look", "post"}]
Resender == [timer : BOOLEAN, todo : SUBSET Notice, failed : SUBSET Notice]

-----------------------------------------------------------------------------
\* What the goroutines hand to sendNotify are notifications.
LEMMA NoticesTyped ==
    ASSUME TypeOK, NEW n \in Nat, NEW e \in Entity, NEW o \in 1..Len(heap),
           NEW act \in {"CREATE", "UPDATE", "DELETE"}
    PROVE  NoticesOf(n, e, o, act) \subseteq Notice
<1>1. heap[o] \in Version
  BY DEF TypeOK
<1>2. Matching(heap[o]) \subseteq Sub
  BY DEF TypeOK, Matching
<1> QED
  BY <1>1, <1>2 DEF NoticesOf, Notice

\* A registered entity has a registration.
LEMMA CurrentTyped ==
    ASSUME TypeOK, NEW e \in Registered
    PROVE  /\ e \in Entity /\ ctxRegistrationList[e] \in 1..Len(heap)
           /\ Current(e) \in Version
  BY DEF TypeOK, Registered, Current

\* Starting senders keeps them well typed and only adds to Outstanding.
LEMMA SendTyped ==
    ASSUME TypeOK, NEW N \in SUBSET Notice, SendNotify(N)
    PROVE  senders' \in SUBSET Sender
  BY DEF TypeOK, SendNotify, Sender

\* RegisterContext keeps the repository and its goroutines well typed.
LEMMA RegisterTyped ==
    ASSUME TypeOK, NEW e \in Entity, NEW c \in Content, RegisterContext(e, c)
    PROVE  TypeOK'
<1> DEFINE v == [cont |-> c, stamp |-> requests']
           o == IF e \in Registered THEN ctxRegistrationList[e] ELSE Len(heap) + 1
<1>0. /\ requests' \in 0..MaxRequests /\ requests' \in Nat
      /\ heap' = IF e \in Registered THEN [heap EXCEPT ![o] = v] ELSE Append(heap, v)
      /\ ctxRegistrationList' = [ctxRegistrationList EXCEPT ![e] = o]
      /\ announcers' = announcers \cup {[n |-> requests', ent |-> e, obj |-> o]}
      /\ UNCHANGED <<subscriptions, deleters, queries, channel>>
  BY DiscoveryAssumption DEF RegisterContext, updateRegistrationInMemory, Request, TypeOK
<1>1. v \in Version
  BY <1>0 DEF Version
<1>2. heap \in Seq(Version) /\ Len(heap) \in Nat
  BY DEF TypeOK
<1>3. /\ heap' \in Seq(Version) /\ Len(heap') \in Nat
      /\ Len(heap) <= Len(heap') /\ o \in 1..Len(heap')
  <2>1. CASE e \in Registered
    <3>1. o \in 1..Len(heap)
      BY <2>1, CurrentTyped
    <3>2. heap' = [heap EXCEPT ![o] = v]
      BY <1>0, <2>1
    <3> QED
      BY <1>1, <1>2, <3>1, <3>2
  <2>2. CASE e \notin Registered
    <3>1. heap' = Append(heap, v) /\ o = Len(heap) + 1
      BY <1>0, <2>2
    <3> QED
      BY <1>1, <1>2, <3>1
  <2> QED
    BY <2>1, <2>2
<1> HIDE DEF v, o
<1>4. ctxRegistrationList' \in [Entity -> 0..Len(heap')]
  BY <1>0, <1>2, <1>3 DEF TypeOK
<1>5. announcers' \subseteq [n : Nat, ent : Entity, obj : 1..Len(heap')]
  BY <1>0, <1>2, <1>3 DEF TypeOK
<1>6. deleters' \subseteq [n : Nat, ent : Entity, obj : 1..Len(heap'), pc : {"announce", "delete"}]
  BY <1>0, <1>2, <1>3 DEF TypeOK
<1> QED
  BY <1>0, <1>3, <1>4, <1>5, <1>6 DEF TypeOK, channel

-----------------------------------------------------------------------------
\* Every step keeps IoT Discovery well typed.
LEMMA Typing ==
    ASSUME TypeOK, [Next]_vars
    PROVE  TypeOK'
<1>1. ASSUME NEW e \in Entity, NEW c \in Content, RegisterContext(e, c)
      PROVE  TypeOK'
  BY <1>1, RegisterTyped
<1>2. ASSUME NEW e \in Entity, DeleteRegisteredEntity(e)
      PROVE  TypeOK'
  <2>1. requests' \in 0..MaxRequests /\ requests' \in Nat
    BY <1>2, DiscoveryAssumption DEF DeleteRegisteredEntity, Request, TypeOK
  <2>2. ctxRegistrationList[e] \in 1..Len(heap)
    BY <1>2, CurrentTyped DEF DeleteRegisteredEntity
  <2> QED
    BY <1>2, <2>1, <2>2 DEF DeleteRegisteredEntity, TypeOK, repository, channel
<1>3. ASSUME NEW s \in Sub, NEW I \in Interests, SubscribeContextAvailability(s, I)
      PROVE  TypeOK'
  <2>1. requests' \in 0..MaxRequests /\ requests' \in Nat
    BY <1>3, DiscoveryAssumption DEF SubscribeContextAvailability, Request, TypeOK
  <2>2. /\ DOMAIN subscriptions' \subseteq Sub
        /\ subscriptions' \in [DOMAIN subscriptions' -> Interests]
    BY <1>3 DEF SubscribeContextAvailability, TypeOK
  <2> QED
    BY <1>3, <2>1, <2>2 DEF SubscribeContextAvailability, TypeOK, repository, channel
<1>4. ASSUME NEW s \in Sub, UnsubscribeContextAvailability(s)
      PROVE  TypeOK'
  <2>1. requests' \in 0..MaxRequests
    BY <1>4, DiscoveryAssumption DEF UnsubscribeContextAvailability, Request, TypeOK
  <2>2. /\ DOMAIN subscriptions' \subseteq Sub
        /\ subscriptions' \in [DOMAIN subscriptions' -> Interests]
    BY <1>4 DEF UnsubscribeContextAvailability, TypeOK
  <2> QED
    BY <1>4, <2>1, <2>2 DEF UnsubscribeContextAvailability, TypeOK, repository, handlers, channel
<1>5. ASSUME NEW a \in announcers, Announce(a)
      PROVE  TypeOK'
  <2>1. a.n \in Nat /\ a.ent \in Entity /\ a.obj \in 1..Len(heap)
    BY DEF TypeOK
  <2>2. NoticesOf(a.n, a.ent, a.obj, "UPDATE") \in SUBSET Notice
    BY <2>1, NoticesTyped
  <2>3. senders' \in SUBSET Sender
    BY <1>5, <2>2, SendTyped DEF Announce
  <2> QED
    BY <1>5, <2>3 DEF Announce, TypeOK, repository, Sender
<1>6. ASSUME NEW d \in deleters, AnnounceDelete(d)
      PROVE  TypeOK'
  <2>1. d.n \in Nat /\ d.ent \in Entity /\ d.obj \in 1..Len(heap) /\ d \in Deleter
    BY DEF TypeOK, Deleter
  <2>2. NoticesOf(d.n, d.ent, d.obj, "DELETE") \in SUBSET Notice
    BY <2>1, NoticesTyped
  <2>3. senders' \in SUBSET Sender
    BY <1>6, <2>2, SendTyped DEF AnnounceDelete
  <2>4. [d EXCEPT !.pc = "delete"] \in Deleter
    BY <2>1 DEF Deleter
  <2> QED
    BY <1>6, <2>3, <2>4 DEF AnnounceDelete, TypeOK, repository, Sender, Deleter
<1>7. ASSUME NEW d \in deleters, DeleteEntity(d)
      PROVE  TypeOK'
  <2>1. ctxRegistrationList' \in [Entity -> 0..Len(heap)]
    BY <1>7 DEF DeleteEntity, TypeOK
  <2> QED
    BY <1>7, <2>1 DEF DeleteEntity, TypeOK, channel
<1>8. ASSUME NEW q \in queries, Query(q)
      PROVE  TypeOK'
  <2> DEFINE found == {e \in Registered : Current(e).cont \in q.filter}
             note == [n |-> q.n, sub |-> q.sub, act |-> "CREATE",
                      ents |-> {<<e, Current(e)>> : e \in found}]
  <2>1. q.n \in Nat /\ q.sub \in Sub
    BY DEF TypeOK
  <2>2. note \in Notice
    BY <2>1, CurrentTyped DEF Notice
  <2>3. SendNotify(IF found = {} THEN {} ELSE {note})
    BY <1>8 DEF Query
  <2> HIDE DEF note
  <2>4. senders' \in SUBSET Sender
    BY <2>2, <2>3, SendTyped
  <2> QED
    BY <1>8, <2>4 DEF Query, TypeOK, repository, Sender
<1>9. ASSUME NEW x \in senders, LookIntoCache(x)
      PROVE  TypeOK'
  <2>1. x \in Sender
    BY DEF TypeOK, Sender
  <2>2. [x EXCEPT !.pc = "post"] \in Sender
    BY <2>1 DEF TypeOK, Sender
  <2>3. senders' \subseteq Sender
    BY <1>9, <2>2 DEF LookIntoCache, TypeOK, Sender
  <2>4. spawned' \in Nat
    BY <1>9 DEF LookIntoCache, TypeOK
  <2> QED
    BY <1>9, <2>3, <2>4 DEF LookIntoCache, TypeOK, repository, handlers, Sender
<1>10. ASSUME NEW timer \in BOOLEAN, TakeCache(timer)
       PROVE  TypeOK'
  <2>1. [timer |-> timer, todo |-> notifyCache, failed |-> {}] \in Resender
    BY DEF TypeOK, Resender
  <2>2. spawned' \in Nat
    BY <1>10 DEF TakeCache, TypeOK
  <2>3. resenders' \subseteq Resender
    BY <1>10, <2>1 DEF TakeCache, TypeOK, Resender
  <2> QED
    BY <1>10, <2>2, <2>3 DEF TakeCache, TypeOK, repository, handlers, Resender
<1>11. ASSUME NEW y \in resenders, PutBack(y)
       PROVE  TypeOK'
  BY <1>11 DEF PutBack, TypeOK, repository, handlers
<1>12. ASSUME NEW x \in senders, NEW done \in BOOLEAN, PostOrCache(x, done)
       PROVE  TypeOK'
  <2>1. x.note \in Notice
    BY DEF TypeOK
  <2>2. received' \subseteq Notice
    BY <1>12, <2>1 DEF PostOrCache, PostNotify, TypeOK
  <2> QED
    BY <1>12, <2>1, <2>2 DEF PostOrCache, TypeOK, repository, handlers
<1>13. ASSUME NEW y \in resenders, NEW note \in y.todo, NEW done \in BOOLEAN, Resend(y, note, done)
       PROVE  TypeOK'
  <2>1. y \in Resender /\ note \in Notice
    BY DEF TypeOK, Resender
  <2>2. received' \subseteq Notice
    BY <1>13, <2>1 DEF Resend, PostNotify, TypeOK
  <2>3. [y EXCEPT !.todo = @ \ {note}, !.failed = IF done THEN @ ELSE @ \cup {note}] \in Resender
    BY <2>1 DEF Resender
  <2>4. resenders' \subseteq Resender
    BY <1>13, <2>3 DEF Resend, TypeOK, Resender
  <2> QED
    BY <1>13, <2>2, <2>4 DEF Resend, TypeOK, repository, handlers, Resender
<1>14. CASE UNCHANGED vars
  BY <1>14 DEF vars, TypeOK, repository, handlers, channel
<1> QED
  BY <1>1, <1>2, <1>3, <1>4, <1>5, <1>6, <1>7, <1>8, <1>9, <1>10, <1>11, <1>12, <1>13, <1>14
     DEF Next, Handle, LocalStep, Post

\* IoT Discovery is well typed in every reachable state.
THEOREM TypeCorrect == Spec => []TypeOK
<1>1. Init => TypeOK
  BY DiscoveryAssumption DEF Init, TypeOK
<1> QED
  BY <1>1, Typing, PTL DEF Spec

-----------------------------------------------------------------------------
(* The channel                                                             *)

\* Starting senders loses nothing.
LEMMA SendKeeps ==
    ASSUME NEW N, SendNotify(N), UNCHANGED <<resenders, notifyCache>>
    PROVE  Outstanding \subseteq Outstanding'
  BY DEF SendNotify, Outstanding

\* What is handed to sendNotify is outstanding.
LEMMA SendSends ==
    ASSUME NEW N, SendNotify(N), NEW m \in N
    PROVE  m \in Outstanding'
<1> DEFINE x == [note |-> m, pc |-> "look"]
<1>1. x \in senders'
  BY DEF SendNotify
<1>2. x.note = m
  OBVIOUS
<1> HIDE DEF x
<1> QED
  BY <1>1, <1>2 DEF Outstanding

\* Every step is a step of the channel: a notification leaves Outstanding only
\* in a step in which its subscriber receives it.
LEMMA ChannelStep ==
    ASSUME TypeOK, [Next]_vars
    PROVE  [Channel!ChannelNext]_<<Outstanding, received>>
<1> USE DEF Channel!ChannelNext, Channel!Send, Channel!Receive
<1>1. CASE Handle \/ UNCHANGED vars
  <2>1. UNCHANGED channel
    BY <1>1 DEF Handle, vars, RegisterContext, updateRegistrationInMemory, DeleteRegisteredEntity,
                SubscribeContextAvailability, UnsubscribeContextAvailability
  <2> QED
    BY <2>1 DEF channel, Outstanding
<1>2. ASSUME NEW a \in announcers, Announce(a)
      PROVE  Channel!Send
  BY <1>2, SendKeeps DEF Announce
<1>3. ASSUME NEW d \in deleters, AnnounceDelete(d)
      PROVE  Channel!Send
  BY <1>3, SendKeeps DEF AnnounceDelete
<1>4. ASSUME NEW q \in queries, Query(q)
      PROVE  Channel!Send
  BY <1>4, SendKeeps DEF Query
<1>5. ASSUME NEW d \in deleters, DeleteEntity(d)
      PROVE  UNCHANGED <<Outstanding, received>>
  BY <1>5 DEF DeleteEntity, channel, Outstanding
<1>6. ASSUME NEW x \in senders, LookIntoCache(x)
      PROVE  UNCHANGED <<Outstanding, received>>
  <2> DEFINE x2 == [x EXCEPT !.pc = "post"]
  <2>1. x2.note = x.note
    BY DEF TypeOK
  <2>2. /\ senders' = (senders \ {x}) \cup {x2}
        /\ UNCHANGED <<resenders, notifyCache, received>>
    BY <1>6 DEF LookIntoCache
  <2> HIDE DEF x2
  <2>3. {z.note : z \in senders'} = {z.note : z \in senders}
    BY <2>1, <2>2
  <2> QED
    BY <2>2, <2>3 DEF Outstanding
<1>7. ASSUME NEW timer \in BOOLEAN, TakeCache(timer)
      PROVE  UNCHANGED <<Outstanding, received>>
  <2> DEFINE y == [timer |-> timer, todo |-> notifyCache, failed |-> {}]
  <2>1. /\ resenders' = IF notifyCache = {} THEN resenders ELSE resenders \cup {y}
        /\ notifyCache' = {}
        /\ UNCHANGED <<senders, received>>
    BY <1>7 DEF TakeCache
  <2>2. y.todo = notifyCache /\ y.failed = {}
    OBVIOUS
  <2> HIDE DEF y
  <2> QED
    BY <2>1, <2>2 DEF Outstanding
<1>8. ASSUME NEW y \in resenders, PutBack(y)
      PROVE  UNCHANGED <<Outstanding, received>>
  BY <1>8 DEF PutBack, Outstanding
<1>9. ASSUME NEW x \in senders, NEW done \in BOOLEAN, PostOrCache(x, done)
      PROVE  [Channel!ChannelNext]_<<Outstanding, received>>
  <2>1. /\ senders' = senders \ {x}
        /\ notifyCache' = IF done THEN notifyCache ELSE notifyCache \cup {x.note}
        /\ UNCHANGED resenders
    BY <1>9 DEF PostOrCache
  <2>2. x.note \in Outstanding /\ Outstanding' \subseteq Outstanding
    BY <2>1 DEF Outstanding
  <2>3. \A note \in Outstanding : note # x.note => note \in Outstanding'
    BY <2>1 DEF Outstanding
  <2>4. CASE done
    <3>1. received' = received \cup {x.note}
      BY <1>9, <2>4 DEF PostOrCache, PostNotify
    <3>2. Outstanding' \in {Outstanding, Outstanding \ {x.note}}
      BY <2>2, <2>3
    <3> QED
      BY <2>2, <3>1, <3>2
  <2>5. CASE ~done
    <3>1. received' \in {received, received \cup {x.note}}
      BY <1>9, <2>5 DEF PostOrCache, PostNotify
    <3>2. Outstanding' = Outstanding
      <4>1. x.note \in Outstanding'
        BY <2>1, <2>5 DEF Outstanding
      <4> QED
        BY <2>2, <2>3, <4>1
    <3> QED
      BY <2>2, <3>1, <3>2
  <2> QED
    BY <2>4, <2>5
<1>10. ASSUME NEW y \in resenders, NEW note \in y.todo, NEW done \in BOOLEAN, Resend(y, note, done)
       PROVE  [Channel!ChannelNext]_<<Outstanding, received>>
  <2> DEFINE y2 == [y EXCEPT !.todo = @ \ {note}, !.failed = IF done THEN @ ELSE @ \cup {note}]
  <2>1. /\ y2.todo = y.todo \ {note}
        /\ y2.failed = IF done THEN y.failed ELSE y.failed \cup {note}
    BY DEF TypeOK
  <2>2. resenders' = (resenders \ {y}) \cup {y2} /\ UNCHANGED <<senders, notifyCache>>
    BY <1>10 DEF Resend
  <2> HIDE DEF y2
  <2>3. note \in Outstanding /\ Outstanding' \subseteq Outstanding
    BY <2>1, <2>2 DEF Outstanding
  <2>4. \A m \in Outstanding : m # note => m \in Outstanding'
    BY <2>1, <2>2 DEF Outstanding
  <2>5. CASE done
    <3>1. received' = received \cup {note}
      BY <1>10, <2>5 DEF Resend, PostNotify
    <3>2. Outstanding' \in {Outstanding, Outstanding \ {note}}
      BY <2>3, <2>4
    <3> QED
      BY <2>3, <3>1, <3>2
  <2>6. CASE ~done
    <3>1. received' \in {received, received \cup {note}}
      BY <1>10, <2>6 DEF Resend, PostNotify
    <3>2. Outstanding' = Outstanding
      <4>1. note \in Outstanding'
        BY <2>1, <2>2, <2>6 DEF Outstanding
      <4> QED
        BY <2>3, <2>4, <4>1
    <3> QED
      BY <2>3, <3>1, <3>2
  <2> QED
    BY <2>5, <2>6
<1> QED
  BY <1>1, <1>2, <1>3, <1>4, <1>5, <1>6, <1>7, <1>8, <1>9, <1>10 DEF Next, LocalStep, Post

\* IoT Discovery implements the channel: whatever fails, a notification is
\* given up only after it reached its subscriber.
THEOREM NotificationsAreKept == Spec => ImplementsChannel
<1>1. Init => Channel!ChannelInit
  BY DEF Init, Channel!ChannelInit, Outstanding
<1>2. TypeOK /\ [Next]_vars => [Channel!ChannelNext]_<<Outstanding, received>>
  BY ChannelStep
<1> QED
  BY <1>1, <1>2, TypeCorrect, PTL DEF Spec, ImplementsChannel, Channel!ChannelSafety

-----------------------------------------------------------------------------
(* No subscriber misses a registration                                     *)

\* Entities do not share registrations: changing one leaves the others alone.
OwnRegistration ==
    \A e, f \in Registered : ctxRegistrationList[e] = ctxRegistrationList[f] => e = f

IInv == TypeOK /\ OwnRegistration /\ NoMissedRegistration

\* What entity e and subscription s may rely on.
Informed(s, e) ==
    \/ \E note \in received \cup Outstanding : Tells(note, s, e)
    \/ \E a \in announcers : a.ent = e /\ a.obj = ctxRegistrationList[e]
    \/ \E q \in queries : q.sub = s /\ q.filter = subscriptions[s]

\* A notification that was sent stays sent.
LEMMA SentStaysSent ==
    ASSUME TypeOK, [Next]_vars
    PROVE  received \cup Outstanding \subseteq received' \cup Outstanding'
  BY ChannelStep DEF Channel!ChannelNext, Channel!Send, Channel!Receive

\* A step that leaves repository and subscriptions alone, and takes away no
\* announcer or query but those that it answers, keeps everyone informed.
LEMMA QuietStep ==
    ASSUME IInv, [Next]_vars, UNCHANGED <<repository, subscriptions>>,
           announcers \subseteq announcers', queries \subseteq queries'
    PROVE  OwnRegistration' /\ NoMissedRegistration'
<1> USE DEF repository
<1>1. OwnRegistration'
  BY DEF IInv, OwnRegistration, Registered
<1>2. received \cup Outstanding \subseteq received' \cup Outstanding'
  BY SentStaysSent DEF IInv
<1>3. ASSUME NEW e \in Registered', NEW s \in Matching(Current(e))'
      PROVE  Informed(s, e)'
  <2>1. e \in Registered /\ s \in Matching(Current(e)) /\ Current(e)' = Current(e)
    BY <1>3 DEF Registered, Matching, Current
  <2>2. Informed(s, e)
    BY <2>1 DEF IInv, NoMissedRegistration, Informed
  <2> QED
    BY <1>2, <2>1, <2>2 DEF Informed, Tells
<1> QED
  BY <1>1, <1>3 DEF NoMissedRegistration, Informed

\* RegisterContext: the entity gets an announcer, the others keep what they had.
LEMMA RegisterInforms ==
    ASSUME IInv, NEW e \in Entity, NEW c \in Content, RegisterContext(e, c)
    PROVE  OwnRegistration' /\ NoMissedRegistration'
<1> DEFINE v == [cont |-> c, stamp |-> requests']
           o == IF e \in Registered THEN ctxRegistrationList[e] ELSE Len(heap) + 1
<1>0. /\ heap' = IF e \in Registered THEN [heap EXCEPT ![o] = v] ELSE Append(heap, v)
      /\ ctxRegistrationList' = [ctxRegistrationList EXCEPT ![e] = o]
      /\ announcers' = announcers \cup {[n |-> requests', ent |-> e, obj |-> o]}
      /\ UNCHANGED <<subscriptions, queries, channel>>
  BY DEF RegisterContext, updateRegistrationInMemory
<1>1. TypeOK /\ heap \in Seq(Version) /\ Len(heap) \in Nat
      /\ ctxRegistrationList \in [Entity -> 0..Len(heap)]
  BY DEF IInv, TypeOK
<1>2. o # 0 /\ \A f \in Registered : f # e => ctxRegistrationList[f] # o
  <2>1. CASE e \in Registered
    BY <2>1 DEF IInv, OwnRegistration, Registered
  <2>2. CASE e \notin Registered
    BY <1>1, <2>2 DEF Registered
  <2> QED
    BY <2>1, <2>2
<1> HIDE DEF v
<1>3. \A f \in Entity : f # e => /\ f \in Registered' <=> f \in Registered
                                 /\ ctxRegistrationList'[f] = ctxRegistrationList[f]
  BY <1>0, <1>1 DEF Registered
<1>4. ctxRegistrationList'[e] = o
  BY <1>0, <1>1
<1>5. \A f \in Registered : f # e => Current(f)' = Current(f)
  <2> SUFFICES ASSUME NEW f \in Registered, f # e
               PROVE  Current(f)' = Current(f)
    OBVIOUS
  <2>1. ctxRegistrationList[f] \in 1..Len(heap) /\ ctxRegistrationList[f] # o /\ f \in Entity
    BY <1>1, <1>2, CurrentTyped
  <2>2. ctxRegistrationList'[f] = ctxRegistrationList[f]
    BY <1>3, <2>1
  <2>3. CASE e \in Registered
    <3>1. heap' = [heap EXCEPT ![o] = v]
      BY <1>0, <2>3
    <3> QED
      BY <1>1, <2>1, <2>2, <3>1 DEF Current
  <2>4. CASE e \notin Registered
    <3>1. heap' = Append(heap, v)
      BY <1>0, <2>4
    <3> QED
      BY <1>1, <2>1, <2>2, <3>1 DEF Current
  <2> QED
    BY <2>3, <2>4
<1> HIDE DEF o
<1>6. OwnRegistration'
  BY <1>2, <1>3, <1>4 DEF IInv, OwnRegistration, Registered
<1>7. ASSUME NEW f \in Registered', NEW s \in Matching(Current(f))'
      PROVE  Informed(s, f)'
  <2>1. CASE f = e
    <3> DEFINE a == [n |-> requests', ent |-> e, obj |-> o]
    <3>1. a \in announcers' /\ a.ent = e /\ a.obj = ctxRegistrationList'[e]
      BY <1>0, <1>4
    <3> HIDE DEF a
    <3> QED
      BY <2>1, <3>1 DEF Informed
  <2>2. CASE f # e
    <3>1. f \in Registered /\ Current(f)' = Current(f)
          /\ ctxRegistrationList'[f] = ctxRegistrationList[f]
      BY <1>3, <1>5, <2>2 DEF Registered
    <3>2. s \in Matching(Current(f))
      BY <1>0, <1>7, <3>1 DEF Matching
    <3>3. Informed(s, f)
      BY <3>1, <3>2 DEF IInv, NoMissedRegistration, Informed
    <3>4. Outstanding' = Outstanding /\ received' = received
      BY <1>0 DEF channel, Outstanding
    <3> QED
      BY <1>0, <3>1, <3>3, <3>4 DEF Informed, Tells
  <2> QED
    BY <2>1, <2>2
<1> QED
  BY <1>6, <1>7 DEF NoMissedRegistration, Informed

\* Announce: every matching subscription gets a notification.
LEMMA AnnounceInforms ==
    ASSUME IInv, NEW a \in announcers, Announce(a)
    PROVE  OwnRegistration' /\ NoMissedRegistration'
<1>0. /\ announcers' = announcers \ {a}
      /\ SendNotify(NoticesOf(a.n, a.ent, a.obj, "UPDATE"))
      /\ UNCHANGED <<heap, ctxRegistrationList, subscriptions, queries, resenders, notifyCache, received>>
  BY DEF Announce, repository
<1>1. OwnRegistration'
  BY <1>0 DEF IInv, OwnRegistration, Registered
<1>2. Outstanding \subseteq Outstanding'
  BY <1>0, SendKeeps
<1>3. NoticesOf(a.n, a.ent, a.obj, "UPDATE") \subseteq Outstanding'
  BY <1>0, SendSends
<1>4. ASSUME NEW e \in Registered', NEW s \in Matching(Current(e))'
      PROVE  Informed(s, e)'
  <2>1. /\ e \in Registered /\ s \in Matching(Current(e)) /\ Current(e)' = Current(e)
        /\ ctxRegistrationList'[e] = ctxRegistrationList[e]
    BY <1>0, <1>4 DEF Registered, Matching, Current
  <2>2. CASE a.ent = e /\ a.obj = ctxRegistrationList[e]
    <3> DEFINE note == [n |-> a.n, sub |-> s, act |-> "UPDATE", ents |-> {<<a.ent, heap[a.obj]>>}]
    <3>1. note \in NoticesOf(a.n, a.ent, a.obj, "UPDATE")
      BY <2>1, <2>2 DEF NoticesOf, Current
    <3>2. note.sub = s /\ <<e, Current(e)>> \in note.ents
      BY <2>2 DEF Current
    <3> QED
      BY <1>3, <2>1, <3>1, <3>2 DEF Informed, Tells
  <2>3. CASE ~(a.ent = e /\ a.obj = ctxRegistrationList[e])
    <3>1. Informed(s, e)
      BY <2>1 DEF IInv, NoMissedRegistration, Informed
    <3> QED
      BY <1>0, <1>2, <2>1, <2>3, <3>1 DEF Informed, Tells
  <2> QED
    BY <2>2, <2>3
<1> QED
  BY <1>1, <1>4 DEF NoMissedRegistration, Informed

\* Query: its subscription gets a notification of all that match now.
LEMMA QueryInforms ==
    ASSUME IInv, NEW q \in queries, Query(q)
    PROVE  OwnRegistration' /\ NoMissedRegistration'
<1> DEFINE found == {e \in Registered : Current(e).cont \in q.filter}
           note == [n |-> q.n, sub |-> q.sub, act |-> "CREATE",
                    ents |-> {<<e, Current(e)>> : e \in found}]
<1>0. /\ queries' = queries \ {q}
      /\ SendNotify(IF found = {} THEN {} ELSE {note})
      /\ UNCHANGED <<heap, ctxRegistrationList, subscriptions, announcers, resenders, notifyCache, received>>
  BY DEF Query, repository
<1>1. OwnRegistration'
  BY <1>0 DEF IInv, OwnRegistration, Registered
<1>2. Outstanding \subseteq Outstanding'
  BY <1>0, SendKeeps
<1>3. found # {} => note \in Outstanding'
  <2> HIDE DEF note
  <2> QED
    BY <1>0, SendSends
<1>4. ASSUME NEW e \in Registered', NEW s \in Matching(Current(e))'
      PROVE  Informed(s, e)'
  <2>1. /\ e \in Registered /\ s \in Matching(Current(e)) /\ Current(e)' = Current(e)
        /\ ctxRegistrationList'[e] = ctxRegistrationList[e]
    BY <1>0, <1>4 DEF Registered, Matching, Current
  <2>2. CASE q.sub = s /\ q.filter = subscriptions[s]
    <3>1. e \in found
      BY <2>1, <2>2 DEF Matching
    <3>2. note \in Outstanding' /\ note.sub = s /\ <<e, Current(e)>> \in note.ents
      BY <1>3, <2>2, <3>1
    <3> QED
      BY <2>1, <3>2 DEF Informed, Tells
  <2>3. CASE ~(q.sub = s /\ q.filter = subscriptions[s])
    <3>1. Informed(s, e)
      BY <2>1 DEF IInv, NoMissedRegistration, Informed
    <3> QED
      BY <1>0, <1>2, <2>1, <2>3, <3>1 DEF Informed, Tells
  <2> QED
    BY <2>2, <2>3
<1> QED
  BY <1>1, <1>4 DEF NoMissedRegistration, Informed

\* A new or changed subscription is informed by its query.
LEMMA SubscribeInforms ==
    ASSUME IInv, NEW s \in Sub, NEW I \in Interests, SubscribeContextAvailability(s, I)
    PROVE  OwnRegistration' /\ NoMissedRegistration'
<1>0. /\ subscriptions' = [u \in DOMAIN subscriptions \cup {s} |->
                              IF u = s THEN I ELSE subscriptions[u]]
      /\ queries' = queries \cup {[n |-> requests', sub |-> s, filter |-> I]}
      /\ UNCHANGED <<heap, ctxRegistrationList, announcers, channel>>
  BY DEF SubscribeContextAvailability, repository
<1>1. OwnRegistration'
  BY <1>0 DEF IInv, OwnRegistration, Registered
<1>2. Outstanding' = Outstanding /\ received' = received
  BY <1>0 DEF channel, Outstanding
<1>3. ASSUME NEW e \in Registered', NEW u \in Matching(Current(e))'
      PROVE  Informed(u, e)'
  <2>1. e \in Registered /\ Current(e)' = Current(e)
        /\ ctxRegistrationList'[e] = ctxRegistrationList[e]
    BY <1>0, <1>3 DEF Registered, Current
  <2>2. CASE u = s
    <3> DEFINE q == [n |-> requests', sub |-> s, filter |-> I]
    <3>1. q \in queries' /\ q.sub = s /\ q.filter = subscriptions'[s]
      BY <1>0
    <3> HIDE DEF q
    <3> QED
      BY <2>2, <3>1 DEF Informed
  <2>3. CASE u # s
    <3>1. u \in Matching(Current(e)) /\ subscriptions'[u] = subscriptions[u]
      BY <1>0, <1>3, <2>1, <2>3 DEF Matching
    <3>2. Informed(u, e)
      BY <2>1, <3>1 DEF IInv, NoMissedRegistration, Informed
    <3> QED
      BY <1>0, <1>2, <2>1, <3>1, <3>2 DEF Informed, Tells
  <2> QED
    BY <2>2, <2>3
<1> QED
  BY <1>1, <1>3 DEF NoMissedRegistration, Informed

\* Fewer subscriptions or registrations: nobody loses anything due.
LEMMA FewerDue ==
    ASSUME IInv, UNCHANGED <<heap, announcers, queries, channel>>,
           \A e \in Registered' : e \in Registered /\ ctxRegistrationList'[e] = ctxRegistrationList[e],
           \A s \in DOMAIN subscriptions' :
               s \in DOMAIN subscriptions /\ subscriptions'[s] = subscriptions[s]
    PROVE  OwnRegistration' /\ NoMissedRegistration'
<1>1. OwnRegistration'
  BY DEF IInv, OwnRegistration
<1>2. Outstanding' = Outstanding /\ received' = received
  BY DEF channel, Outstanding
<1>3. ASSUME NEW e \in Registered', NEW s \in Matching(Current(e))'
      PROVE  Informed(s, e)'
  <2>1. e \in Registered /\ Current(e)' = Current(e)
        /\ ctxRegistrationList'[e] = ctxRegistrationList[e]
    BY <1>3 DEF Current
  <2>2. s \in Matching(Current(e)) /\ subscriptions'[s] = subscriptions[s]
    BY <1>3, <2>1 DEF Matching
  <2>3. Informed(s, e)
    BY <2>1, <2>2 DEF IInv, NoMissedRegistration, Informed
  <2> QED
    BY <1>2, <2>1, <2>2, <2>3 DEF Informed, Tells
<1> QED
  BY <1>1, <1>3 DEF NoMissedRegistration, Informed

\* IInv is inductive.
LEMMA Inductive ==
    ASSUME IInv, [Next]_vars
    PROVE  IInv'
<1>0. TypeOK'
  BY Typing DEF IInv
<1> SUFFICES OwnRegistration' /\ NoMissedRegistration'
  BY <1>0 DEF IInv
<1>1. ASSUME NEW e \in Entity, NEW c \in Content, RegisterContext(e, c)
      PROVE  OwnRegistration' /\ NoMissedRegistration'
  BY <1>1, RegisterInforms
<1>2. ASSUME NEW e \in Entity, DeleteRegisteredEntity(e)
      PROVE  OwnRegistration' /\ NoMissedRegistration'
  BY <1>2, QuietStep DEF DeleteRegisteredEntity
<1>3. ASSUME NEW s \in Sub, NEW I \in Interests, SubscribeContextAvailability(s, I)
      PROVE  OwnRegistration' /\ NoMissedRegistration'
  BY <1>3, SubscribeInforms
<1>4. ASSUME NEW s \in Sub, UnsubscribeContextAvailability(s)
      PROVE  OwnRegistration' /\ NoMissedRegistration'
  BY <1>4, FewerDue DEF UnsubscribeContextAvailability, repository, handlers, Registered
<1>5. ASSUME NEW a \in announcers, Announce(a)
      PROVE  OwnRegistration' /\ NoMissedRegistration'
  BY <1>5, AnnounceInforms
<1>6. ASSUME NEW d \in deleters, AnnounceDelete(d)
      PROVE  OwnRegistration' /\ NoMissedRegistration'
  BY <1>6, QuietStep DEF AnnounceDelete
<1>7. ASSUME NEW d \in deleters, DeleteEntity(d)
      PROVE  OwnRegistration' /\ NoMissedRegistration'
  <2>1. \A e \in Registered' : e \in Registered /\ ctxRegistrationList'[e] = ctxRegistrationList[e]
    BY <1>7 DEF DeleteEntity, Registered, IInv, TypeOK
  <2> QED
    BY <1>7, <2>1, FewerDue DEF DeleteEntity
<1>8. ASSUME NEW q \in queries, Query(q)
      PROVE  OwnRegistration' /\ NoMissedRegistration'
  BY <1>8, QueryInforms
<1>9. ASSUME NEW x \in senders, LookIntoCache(x)
      PROVE  OwnRegistration' /\ NoMissedRegistration'
  BY <1>9, QuietStep DEF LookIntoCache, handlers
<1>10. ASSUME NEW timer \in BOOLEAN, TakeCache(timer)
       PROVE  OwnRegistration' /\ NoMissedRegistration'
  BY <1>10, QuietStep DEF TakeCache, handlers
<1>11. ASSUME NEW y \in resenders, PutBack(y)
       PROVE  OwnRegistration' /\ NoMissedRegistration'
  BY <1>11, QuietStep DEF PutBack, handlers
<1>12. ASSUME NEW x \in senders, NEW done \in BOOLEAN, PostOrCache(x, done)
       PROVE  OwnRegistration' /\ NoMissedRegistration'
  BY <1>12, QuietStep DEF PostOrCache, handlers
<1>13. ASSUME NEW y \in resenders, NEW note \in y.todo, NEW done \in BOOLEAN, Resend(y, note, done)
       PROVE  OwnRegistration' /\ NoMissedRegistration'
  BY <1>13, QuietStep DEF Resend, handlers
<1>14. CASE UNCHANGED vars
  BY <1>14, QuietStep DEF vars, handlers
<1> QED
  BY <1>1, <1>2, <1>3, <1>4, <1>5, <1>6, <1>7, <1>8, <1>9, <1>10, <1>11, <1>12, <1>13, <1>14
     DEF Next, Handle, LocalStep, Post

\* However registering, subscribing and unsubscribing interleave, a subscriber
\* misses no registration that matches.
THEOREM NobodyMissesARegistration == Spec => []NoMissedRegistration
<1>1. Init => IInv
  <2>1. Init => TypeOK
    BY DiscoveryAssumption DEF Init, TypeOK
  <2>2. Init => Registered = {}
    BY DEF Init, Registered
  <2> QED
    BY <2>1, <2>2 DEF IInv, OwnRegistration, NoMissedRegistration
<1>2. IInv => NoMissedRegistration
  BY DEF IInv
<1> QED
  BY <1>1, <1>2, Inductive, PTL DEF Spec
=============================================================================
