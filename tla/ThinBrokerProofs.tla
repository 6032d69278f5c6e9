-------------------------- MODULE ThinBrokerProofs --------------------------
(***************************************************************************)
(* Theorems about ThinBroker: its type invariant, and that a subscriber    *)
(* ends with the last content of every entity, for any entities,           *)
(* subscriptions, writes and failures.                                     *)
(***************************************************************************)
EXTENDS ThinBroker, FiniteSetTheorems, SequenceTheorems, TLAPS

-----------------------------------------------------------------------------
(* Records and sequences                                                   *)

WriterType == [entity : Entity, op : {"update", "delete"}, number : 0..MaxWrites,
               pc : {"register", "apply", "notify", "unregister"}]
LinkerType == [sub : Subscription, act : {"CREATE", "UPDATE", "DELETE"},
               todo : (SUBSET Entity) \ {{}}, sent : BOOLEAN, found : BOOLEAN]
SenderType == [sub : Subscription, elements : Seq(Element), posting : BOOLEAN]

LEMMA OneElement ==
    ASSUME NEW x \in Element
    PROVE  <<x>> \in Seq(Element) /\ Range(<<x>>) = {x}
BY DEF Range

LEMMA RangeConcat ==
    ASSUME NEW p \in Seq(Element), NEW q \in Seq(Element)
    PROVE  p \o q \in Seq(Element) /\ Range(p \o q) = Range(p) \cup Range(q)
<1>1. p \o q \in Seq(Element) BY ConcatProperties
<1>2. /\ DOMAIN p = 1..Len(p) /\ DOMAIN q = 1..Len(q) /\ DOMAIN (p \o q) = 1..Len(p) + Len(q)
      /\ Len(p) \in Nat /\ Len(q) \in Nat
      /\ \A i \in 1..Len(p) + Len(q) : (p \o q)[i] = IF i <= Len(p) THEN p[i] ELSE q[i - Len(p)]
    BY ConcatProperties
<1>3. Range(p \o q) \subseteq Range(p) \cup Range(q)
    <2> SUFFICES ASSUME NEW i \in 1..Len(p) + Len(q)
                 PROVE  (p \o q)[i] \in Range(p) \cup Range(q)
        BY <1>2 DEF Range
    <2>1. CASE i <= Len(p) BY <1>2, <2>1 DEF Range
    <2>2. CASE i > Len(p)
        <3>1. i - Len(p) \in 1..Len(q) BY <1>2, <2>2
        <3> QED BY <1>2, <2>2, <3>1 DEF Range
    <2> QED BY <1>2, <2>1, <2>2
<1>4. Range(p) \subseteq Range(p \o q)
    <2> SUFFICES ASSUME NEW i \in 1..Len(p) PROVE p[i] \in Range(p \o q)
        BY <1>2 DEF Range
    <2>1. i \in 1..Len(p) + Len(q) /\ i <= Len(p) BY <1>2
    <2> QED BY <1>2, <2>1 DEF Range
<1>5. Range(q) \subseteq Range(p \o q)
    <2> SUFFICES ASSUME NEW i \in 1..Len(q) PROVE q[i] \in Range(p \o q)
        BY <1>2 DEF Range
    <2>1. i + Len(p) \in 1..Len(p) + Len(q) /\ ~(i + Len(p) <= Len(p)) /\ i + Len(p) - Len(p) = i
        BY <1>2
    <2>2. (p \o q)[i + Len(p)] = q[i] BY <1>2, <2>1
    <2> QED BY <1>2, <2>1, <2>2 DEF Range
<1> QED BY <1>1, <1>3, <1>4, <1>5

LEMMA RangeType ==
    ASSUME NEW q \in Seq(Element)
    PROVE  Range(q) \subseteq Element
BY DEF Range

LEMMA CachedType ==
    ASSUME NEW q \in Seq(Element)
    PROVE  Cached(q) \in Seq(Element) /\ Range(Cached(q)) \subseteq Range(q)
<1>1. DOMAIN q = 1..Len(q) /\ Len(q) \in Nat OBVIOUS
<1>2. \A n \in 1..Len(q) : Len(q) \in 1..Len(q) BY <1>1
<1>3. \A n \in 1..Len(q) : q[Len(q)] \in Element BY <1>2
<1>4. Cached(q) \in [1..Len(q) -> Element] BY <1>1, <1>3 DEF Cached
<1>5. Seq(Element) = UNION {[1..n -> Element] : n \in Nat} BY SeqDef
<1>6. Range(Cached(q)) \subseteq Range(q)
    BY <1>1, <1>2 DEF Cached, Range
<1> QED BY <1>1, <1>4, <1>5, <1>6

LEMMA NotificationType ==
    ASSUME NEW s \in Subscription, NEW es \in SUBSET Entity, es # {},
           NEW act \in {"CREATE", "UPDATE", "DELETE"}
    PROVE  Notification(s, es, act) \in Notifications
BY DEF Notification, Notifications

LEMMA LinkerOf ==
    ASSUME NEW m \in Notifications, NEW found \in BOOLEAN
    PROVE  /\ Linker(m, found) \in LinkerType
           /\ Linker(m, found).sent = (m.act = "DELETE") /\ Linker(m, found).todo = m.ents
           /\ Linker(m, found).sub = m.sub /\ Linker(m, found).act = m.act
           /\ Linker(m, found).found = found
<1>1. (m.act = "DELETE") \in BOOLEAN OBVIOUS
<1> QED BY <1>1 DEF Linker, LinkerType, Notifications

LEMMA SenderOf ==
    ASSUME NEW s \in Subscription, NEW x \in Element
    PROVE  /\ Sender(s, <<x>>) \in SenderType
           /\ Sender(s, <<x>>).sub = s /\ Sender(s, <<x>>).elements = <<x>>
BY OneElement DEF Sender, SenderType

LEMMA SenderOfList ==
    ASSUME NEW s \in Subscription, NEW q \in Seq(Element)
    PROVE  /\ Sender(s, q) \in SenderType
           /\ Sender(s, q).sub = s /\ Sender(s, q).elements = q
BY DEF Sender, SenderType

\* A list of the current contents has all of them and nothing else.
LEMMA ListOfContents ==
    ASSUME TypeOK, NEW t \in LinkerType, NEW q \in Listings(Contents(t))
    PROVE  q \in Seq(Element) /\ Range(q) = Contents(t)
<1>1. Contents(t) \subseteq Element
    BY DEF Contents, LinkerType, TypeOK, Element
<1>2. IsFiniteSet(Contents(t))
    <2>1. IsFiniteSet(t.todo \cap alive) BY BrokerAssumption, FS_Subset DEF LinkerType
    <2> DEFINE f == [e \in t.todo \cap alive |-> <<e, latest[e]>>]
    <2>2. f \in Surjection(t.todo \cap alive, Contents(t)) BY DEF Contents, Surjection
    <2> QED BY <2>1, <2>2, FS_Surjection
<1>3. Cardinality(Contents(t)) \in Nat BY <1>2, FS_CardinalityType
<1>4. q \in [1..Cardinality(Contents(t)) -> Contents(t)] /\ Range(q) = Contents(t) BY DEF Listings
<1>5. q \in [1..Cardinality(Contents(t)) -> Element] BY <1>1, <1>4
<1>6. Seq(Element) = UNION {[1..n -> Element] : n \in Nat} BY SeqDef
<1> QED BY <1>3, <1>4, <1>5, <1>6

-----------------------------------------------------------------------------
(* Writers                                                                 *)

LEMMA UnappliedIsFinite ==
    ASSUME Numbered
    PROVE  IsFiniteSet(Unapplied) /\ Cardinality(Unapplied) \in Nat
<1>1. IsFiniteSet(writers) /\ Unapplied \subseteq writers BY DEF Numbered, Unapplied
<1> QED BY <1>1, FS_Subset, FS_CardinalityType

\* A new handler of updateContext gets a number of its own.
LEMMA NewWriter ==
    ASSUME TypeOK, Numbered, writes < MaxWrites, NEW e \in Entity, NEW op \in {"update", "delete"},
           NEW pc \in {"register", "apply"},
           writers' = writers \cup {Writer(e, op, pc)}, writes' = writes + 1,
           UNCHANGED latest
    PROVE  Numbered' /\ writers' \subseteq WriterType /\ writes' \in 0..MaxWrites
<1> DEFINE v == Writer(e, op, pc)
<1>0. writes \in 0..MaxWrites /\ MaxWrites \in Nat BY BrokerAssumption DEF TypeOK
<1>1. v \in WriterType /\ v.number = writes /\ v.pc = pc BY <1>0 DEF Writer, WriterType
<1> HIDE DEF v
<1>2. v \notin writers BY <1>0, <1>1 DEF Numbered
<1>3. Unapplied' = Unapplied \cup {v} BY <1>1 DEF Unapplied, v
<1>4. Cardinality(Unapplied') = Cardinality(Unapplied) + 1
    BY <1>2, <1>3, UnappliedIsFinite, FS_AddElement DEF Unapplied
<1>5. IsFiniteSet(writers') BY FS_AddElement DEF Numbered, v
<1>6. \A w \in writers' : w.number < writes'
    <2>1. \A w \in writers : w.number \in Int BY DEF TypeOK
    <2> QED BY <1>0, <1>1, <2>1 DEF Numbered, v
<1>7. \A w, x \in writers' : w.number = x.number => w = x
    <2>1. \A w \in writers : w.number # writes
        <3>1. \A w \in writers : w.number \in Int BY DEF TypeOK
        <3> QED BY <1>0, <3>1 DEF Numbered
    <2> QED BY <1>1, <2>1 DEF Numbered, v
<1>8. \A x \in Entity : latest'[x] + Cardinality(Unapplied') <= writes' + 1
    <2> SUFFICES ASSUME NEW x \in Entity PROVE latest[x] + (Cardinality(Unapplied) + 1) <= (writes + 1) + 1
        BY <1>4
    <2>1. latest[x] \in Int BY DEF TypeOK
    <2>2. latest[x] + Cardinality(Unapplied) <= writes + 1 BY DEF Numbered
    <2> QED BY <1>0, <2>1, <2>2, UnappliedIsFinite
<1>9. writers' \subseteq WriterType BY <1>1 DEF TypeOK, WriterType, v
<1> QED BY <1>0, <1>5, <1>6, <1>7, <1>8, <1>9 DEF Numbered

\* A handler that goes on, or ends, keeps its number.
LEMMA MovedWriter ==
    ASSUME TypeOK, Numbered, NEW w \in writers,
           NEW pc \in {"register", "apply", "notify", "unregister", "end"}, pc # w.pc,
           Goto(w, pc), UNCHANGED writes
    PROVE  /\ writers' \subseteq WriterType /\ IsFiniteSet(writers')
           /\ \A x \in writers' : x.number < writes'
           /\ \A v, x \in writers' : v.number = x.number => v = x
           /\ pc \in {"register", "apply"} => Cardinality(Unapplied') <= Cardinality(Unapplied \ {w}) + 1
           /\ pc \notin {"register", "apply"} => Unapplied' = Unapplied \ {w}
<1> DEFINE v == [w EXCEPT !.pc = pc]
<1>1. w \in WriterType BY DEF TypeOK, WriterType
<1>2. v.number = w.number /\ v.pc = pc BY <1>1 DEF WriterType
<1>3. writers' = (writers \ {w}) \cup (IF pc = "end" THEN {} ELSE {v}) BY DEF Goto
<1>4. pc # "end" => v \in WriterType BY <1>1 DEF WriterType
<1> HIDE DEF v
<1>5. v \notin writers BY <1>2 DEF Numbered
<1>6. writers' \subseteq WriterType BY <1>3, <1>4 DEF TypeOK, WriterType
<1>7. IsFiniteSet(writers')
    <2>1. IsFiniteSet(writers) BY DEF Numbered
    <2>2. IsFiniteSet(writers \ {w}) BY <2>1, FS_Subset, writers \ {w} \in SUBSET writers
    <2>3. IsFiniteSet((writers \ {w}) \cup {v}) BY <2>2, FS_AddElement
    <2>4. writers' = writers \ {w} \/ writers' = (writers \ {w}) \cup {v} BY <1>3
    <2> QED BY <2>2, <2>3, <2>4
<1>8. \A x \in writers' : x.number < writes' BY <1>2, <1>3 DEF Numbered
<1>9. \A y, x \in writers' : y.number = x.number => y = x BY <1>2, <1>3 DEF Numbered
<1>10. ASSUME pc \in {"register", "apply"}
       PROVE  Cardinality(Unapplied') <= Cardinality(Unapplied \ {w}) + 1
    <2>1. Unapplied' = (Unapplied \ {w}) \cup {v} BY <1>2, <1>3, <1>10 DEF Unapplied
    <2>2. IsFiniteSet(Unapplied \ {w}) BY UnappliedIsFinite, FS_Subset
    <2>3. v \notin Unapplied \ {w} BY <1>5 DEF Unapplied
    <2>4. Cardinality(Unapplied') = Cardinality(Unapplied \ {w}) + 1 BY <2>1, <2>2, <2>3, FS_AddElement
    <2> QED BY <2>2, <2>4, FS_CardinalityType
<1>11. ASSUME pc \notin {"register", "apply"} PROVE Unapplied' = Unapplied \ {w}
    BY <1>2, <1>3, <1>11 DEF Unapplied
<1> QED BY <1>6, <1>7, <1>8, <1>9, <1>10, <1>11

LEMMA FewerUnapplied ==
    ASSUME Numbered, NEW w
    PROVE  /\ Cardinality(Unapplied \ {w}) \in Nat
           /\ w \in Unapplied => Cardinality(Unapplied \ {w}) = Cardinality(Unapplied) - 1
           /\ w \notin Unapplied => Unapplied \ {w} = Unapplied
<1>1. IsFiniteSet(Unapplied \ {w}) BY UnappliedIsFinite, FS_Subset
<1>2. Cardinality(Unapplied \ {w}) \in Nat BY <1>1, FS_CardinalityType
<1>3. w \in Unapplied => Cardinality(Unapplied \ {w}) = Cardinality(Unapplied) - 1
    BY UnappliedIsFinite, FS_RemoveElement
<1> QED BY <1>2, <1>3

LEMMA NumberedStep == TypeOK /\ Numbered /\ [Next]_vars => Numbered'
<1> SUFFICES ASSUME TypeOK, Numbered, [Next]_vars PROVE Numbered' OBVIOUS
<1> DEFINE c == Cardinality(Unapplied)
<1>0. /\ c \in Nat /\ writes \in Int
      /\ \A e \in Entity : latest[e] \in Int /\ latest[e] + c <= writes + 1
    BY UnappliedIsFinite, BrokerAssumption DEF Numbered, TypeOK
<1>1. ASSUME NEW e \in Entity, DeleteContext(e) PROVE Numbered'
    BY <1>1, NewWriter DEF DeleteContext, store
<1>2. ASSUME NEW e \in Entity, NEW news \in BOOLEAN, UpdateContext(e, news) PROVE Numbered'
    BY <1>2, NewWriter DEF UpdateContext, store
<1>3. ASSUME NEW w \in writers, Register(w) PROVE Numbered'
    <2>1. w.pc = "register" /\ Goto(w, "apply") /\ UNCHANGED <<writes, latest>>
        BY <1>3 DEF Register, store
    <2>2. w \in Unapplied BY <2>1 DEF Unapplied
    <2>3. Cardinality(Unapplied') <= Cardinality(Unapplied \ {w}) + 1 BY <2>1, MovedWriter
    <2>4. Cardinality(Unapplied') <= c BY <1>0, <2>2, <2>3, FewerUnapplied, SMT
    <2>5. /\ IsFiniteSet(writers')
          /\ \A x \in writers' : x.number < writes'
          /\ \A v, x \in writers' : v.number = x.number => v = x
        BY <2>1, MovedWriter
    <2>6. Cardinality(Unapplied') \in Nat
        <3>1. IsFiniteSet(Unapplied') BY <2>5, FS_Subset DEF Unapplied
        <3> QED BY <3>1, FS_CardinalityType
    <2>7. \A e \in Entity : latest'[e] + Cardinality(Unapplied') <= writes' + 1
        BY <1>0, <2>1, <2>4, <2>6
    <2> QED BY <2>5, <2>7 DEF Numbered
<1>4. ASSUME NEW w \in writers, Apply(w) PROVE Numbered'
    <2>1. /\ w.pc = "apply" /\ Goto(w, "notify") /\ UNCHANGED writes
          /\ \A e \in Entity : latest'[e] \in {latest[e], latest[e] + 1}
        BY <1>4 DEF Apply, TypeOK
    <2>2. w \in Unapplied BY <2>1 DEF Unapplied
    <2>3. Unapplied' = Unapplied \ {w} BY <2>1, MovedWriter
    <2>4. Cardinality(Unapplied') = c - 1 BY <2>2, <2>3, FewerUnapplied
    <2>5. /\ IsFiniteSet(writers')
          /\ \A x \in writers' : x.number < writes'
          /\ \A v, x \in writers' : v.number = x.number => v = x
        BY <2>1, MovedWriter
    <2>6. \A e \in Entity : latest'[e] + Cardinality(Unapplied') <= writes' + 1
        BY <1>0, <2>1, <2>4
    <2> QED BY <2>5, <2>6 DEF Numbered
<1>5. ASSUME NEW w \in writers, Notify(w) \/ NotifyPanics(w) \/ Unregister(w) PROVE Numbered'
    <2>1. PICK pc \in {"unregister", "end"} : w.pc # pc /\ Goto(w, pc)
        BY <1>5 DEF Notify, NotifyPanics, Unregister
    <2>2. w.pc \in {"notify", "unregister"} /\ UNCHANGED <<writes, latest>>
        BY <1>5 DEF Notify, NotifyPanics, Unregister, store
    <2>3. Unapplied' = Unapplied \ {w} BY <2>1, <2>2, MovedWriter
    <2>4. Unapplied' = Unapplied BY <2>2, <2>3 DEF Unapplied
    <2>5. /\ IsFiniteSet(writers')
          /\ \A x \in writers' : x.number < writes'
          /\ \A v, x \in writers' : v.number = x.number => v = x
        BY <2>1, <2>2, MovedWriter
    <2>6. \A e \in Entity : latest'[e] + Cardinality(Unapplied') <= writes' + 1
        BY <1>0, <2>2, <2>4
    <2> QED BY <2>5, <2>6 DEF Numbered
<1>6. CASE UNCHANGED <<writers, writes, latest>>
    BY <1>6 DEF Numbered, Unapplied
<1> QED BY <1>1, <1>2, <1>3, <1>4, <1>5, <1>6
        DEF Next, vars, store, SubscribeContext, Match, LinkSubscription, UnsubscribeContext,
            NotifyAvailability, Associate, AssociatePanics, SendCurrent, Collect, Post, PostFails

-----------------------------------------------------------------------------
(* Types                                                                   *)

LEMMA LatestElement ==
    ASSUME TypeOK, NEW e \in Entity
    PROVE  <<e, latest[e]>> \in Element /\ <<e, 0>> \in Element
<1>1. latest[e] \in 0..MaxWrites + 1 /\ 0 \in 0..MaxWrites + 1 BY BrokerAssumption DEF TypeOK
<1> QED BY <1>1 DEF Element

\* What the handlers of updates do to the types.
LEMMA WriterTypes ==
    ASSUME TypeOK, Numbered, NEW w \in writers,
           Register(w) \/ Apply(w) \/ Notify(w) \/ NotifyPanics(w) \/ Unregister(w)
    PROVE  TypeOK'
<1>0. w \in WriterType BY DEF TypeOK, WriterType
<1>1. w.entity \in Entity BY <1>0 DEF WriterType
<1>2. PICK pc \in {"register", "apply", "notify", "unregister", "end"} : w.pc # pc /\ Goto(w, pc)
    BY DEF Register, Apply, Notify, NotifyPanics, Unregister
<1>3. UNCHANGED <<writes, failures>>
    BY DEF Register, Apply, Notify, NotifyPanics, Unregister, send
<1>4. writers' \subseteq WriterType BY <1>2, <1>3, MovedWriter
<1>5. CASE Register(w)
    <2>1. {Notification(s, {w.entity}, "UPDATE") : s \in Listening} \subseteq Notifications
        BY <1>1, NotificationType DEF Listening
    <2>2. avail' \subseteq Notifications BY <1>5, <2>1 DEF Register, TypeOK
    <2>3. registered' \subseteq Entity BY <1>1, <1>5 DEF Register, TypeOK
    <2> QED BY <1>3, <1>4, <1>5, <2>2, <2>3 DEF Register, TypeOK, WriterType, store, send
<1>6. CASE Apply(w)
    <2>1. w \in Unapplied BY <1>6 DEF Apply, Unapplied
    <2>2. latest[w.entity] + 1 \in 0..MaxWrites + 1
        <3>1. Cardinality(Unapplied) \in Nat /\ Cardinality(Unapplied) - 1 \in Nat
            BY <2>1, UnappliedIsFinite, FewerUnapplied
        <3>2. latest[w.entity] + Cardinality(Unapplied) <= writes + 1 BY <1>1 DEF Numbered
        <3>3. latest[w.entity] \in Nat /\ writes \in 0..MaxWrites /\ MaxWrites \in Nat
            BY <1>1, BrokerAssumption DEF TypeOK
        <3> QED BY <3>1, <3>2, <3>3
    <2>3. latest' \in [Entity -> 0..MaxWrites + 1] BY <1>1, <1>6, <2>2 DEF Apply, TypeOK
    <2>4. alive' \subseteq Entity BY <1>1, <1>6 DEF Apply, TypeOK
    <2> QED BY <1>3, <1>4, <1>6, <2>3, <2>4 DEF Apply, TypeOK, WriterType, link, send
<1>7. CASE Notify(w)
    <2> DEFINE x == <<w.entity, IF w.op = "update" THEN latest[w.entity] ELSE 0>>
    <2>1. x \in Element BY <1>1, LatestElement
    <2> HIDE DEF x
    <2>2. \A s \in Subscription : Sender(s, <<x>>) \in SenderType BY <2>1, SenderOf
    <2>3. senders' = senders \cup {Sender(s, <<x>>) : s \in {y \in Subscription : links[w.entity][y] > 0}}
        BY <1>7 DEF Notify, x
    <2>4. senders \subseteq SenderType BY DEF TypeOK, SenderType
    <2>6. senders' \subseteq SenderType BY <2>2, <2>3, <2>4
    <2>5. missed' \subseteq Subscription \X Entity BY <1>1, <1>7 DEF Notify, TypeOK, Listening
    <2> QED BY <1>3, <1>4, <1>7, <2>5, <2>6 DEF Notify, TypeOK, WriterType, SenderType, store, link
<1>8. CASE NotifyPanics(w)
    <2>1. stuck' \subseteq Lock BY <1>8 DEF NotifyPanics, TypeOK, Lock
    <2> QED BY <1>3, <1>4, <1>8, <2>1 DEF NotifyPanics, TypeOK, WriterType, store, link, send
<1>9. CASE Unregister(w)
    <2>1. {Notification(s, {w.entity}, "DELETE") : s \in Listening} \subseteq Notifications
        BY <1>1, NotificationType DEF Listening
    <2>2. avail' \subseteq Notifications BY <1>9, <2>1 DEF Unregister, TypeOK
    <2>3. registered' \subseteq Entity BY <1>9 DEF Unregister, TypeOK
    <2> QED BY <1>3, <1>4, <1>9, <2>2, <2>3 DEF Unregister, TypeOK, WriterType, store, send
<1> QED BY <1>5, <1>6, <1>7, <1>8, <1>9

\* Subscriptions and the goroutines that make the links.
LEMMA LinkTypes ==
    ASSUME TypeOK, NEW s \in Subscription,
           SubscribeContext(s) \/ Match(s) \/ LinkSubscription(s) \/ UnsubscribeContext(s)
    PROVE  TypeOK'
<1>1. CASE SubscribeContext(s)
    BY <1>1 DEF SubscribeContext, TypeOK, store, send
<1>2. CASE Match(s)
    <2>1. registered # {} => Notification(s, registered, "CREATE") \in Notifications
        BY NotificationType DEF TypeOK
    <2> QED BY <1>2, <2>1 DEF Match, TypeOK, store, send
<1>3. CASE LinkSubscription(s)
    <2>1. tmpNGSI9NotifyCache[s] # None => tmpNGSI9NotifyCache[s] \in Notifications BY DEF TypeOK
    <2>2. tmpNGSI9NotifyCache[s] # None =>
              Linker(tmpNGSI9NotifyCache[s], TRUE) \in LinkerType
        BY <2>1, LinkerOf
    <2>3. linkers' \subseteq LinkerType
        BY <1>3, <2>2 DEF LinkSubscription, TypeOK, LinkerType
    <2>4. tmpNGSI9NotifyCache' \in [Subscription -> Notifications \cup {None}]
        BY <1>3 DEF LinkSubscription, TypeOK
    <2>5. status' \in [Subscription -> {"none", "asked", "linked", "removed"}]
        BY <1>3 DEF LinkSubscription, TypeOK
    <2> QED BY <1>3, <2>3, <2>4, <2>5 DEF LinkSubscription, TypeOK, LinkerType, store, send
<1>4. CASE UnsubscribeContext(s)
    BY <1>4 DEF UnsubscribeContext, TypeOK, store, send
<1> QED BY <1>1, <1>2, <1>3, <1>4

LEMMA AvailabilityTypes ==
    ASSUME TypeOK, NEW m \in avail, NotifyAvailability(m)
    PROVE  TypeOK'
<1>1. m \in Notifications /\ m.sub \in Subscription /\ m.ents \subseteq Entity
    BY DEF TypeOK, Notifications
<1>2. (status[m.sub] = "linked") \in BOOLEAN OBVIOUS
<1>3. CASE status[m.sub] = "asked"
    <2>1. tmpNGSI9NotifyCache' \in [Subscription -> Notifications \cup {None}]
        BY <1>1, <1>3 DEF NotifyAvailability, TypeOK
    <2>2. missed' \subseteq Subscription \X Entity
        <3>1. tmpNGSI9NotifyCache[m.sub] # None => tmpNGSI9NotifyCache[m.sub].ents \subseteq Entity
            BY <1>1 DEF TypeOK, Notifications
        <3> QED BY <1>1, <1>3, <3>1 DEF NotifyAvailability, TypeOK
    <2> QED BY <1>3, <2>1, <2>2 DEF NotifyAvailability, TypeOK, store, send
<1>4. CASE status[m.sub] # "asked"
    <2> DEFINE t == Linker(m, status[m.sub] = "linked")
    <2>1. t \in LinkerType BY <1>1, <1>2, LinkerOf
    <2> HIDE DEF t
    <2>2. linkers' = linkers \cup {t} BY <1>4 DEF NotifyAvailability, t
    <2>3. linkers' \subseteq LinkerType
        BY <2>1, <2>2 DEF TypeOK, LinkerType
    <2> QED BY <1>4, <2>3 DEF NotifyAvailability, TypeOK, LinkerType, store, send
<1> QED BY <1>3, <1>4

LEMMA LinkerTypes ==
    ASSUME TypeOK, NEW t \in linkers,
           SendCurrent(t) \/ AssociatePanics(t) \/ \E e \in Entity : Associate(t, e)
    PROVE  TypeOK'
<1>1. t \in LinkerType BY DEF TypeOK, LinkerType
<1>2. ASSUME NEW e \in Entity, Associate(t, e) PROVE TypeOK'
    <2>1. e \in t.todo /\ t.sub \in Subscription /\ t.act \in {"CREATE", "UPDATE", "DELETE"}
        BY <1>1, <1>2 DEF Associate, LinkerType
    <2>2. \A n \in Nat : Linked(n, t.act) \in Nat BY <2>1 DEF Linked
    <2>3. links' \in [Entity -> [Subscription -> Nat]]
        <3>1. links[e][t.sub] \in Nat BY <2>1 DEF TypeOK
        <3> QED BY <1>2, <2>1, <2>2, <3>1 DEF Associate, TypeOK
    <2>4. linkers' \subseteq LinkerType
        <3> DEFINE u == [t EXCEPT !.todo = @ \ {e}]
        <3>1. t.todo # {e} => u \in LinkerType
            BY <1>1, <2>1 DEF LinkerType
        <3> HIDE DEF u
        <3>2. linkers' = (linkers \ {t}) \cup (IF t.todo = {e} THEN {} ELSE {u})
            BY <1>2 DEF Associate, u
        <3> QED BY <3>1, <3>2 DEF TypeOK, LinkerType
    <2>5. missed' \subseteq Subscription \X Entity BY <1>2, <2>1 DEF Associate, TypeOK
    <2> QED BY <1>2, <2>3, <2>4, <2>5 DEF Associate, TypeOK, LinkerType, store, send
<1>3. CASE AssociatePanics(t)
    BY <1>3 DEF AssociatePanics, TypeOK, Lock, store, send
<1>4. CASE SendCurrent(t)
    <2> DEFINE u == [t EXCEPT !.sent = TRUE]
    <2>1. u \in LinkerType BY <1>1 DEF LinkerType
    <2> HIDE DEF u
    <2>2. linkers' = (linkers \ {t}) \cup {u} BY <1>4 DEF SendCurrent, u
    <2>3. linkers' \subseteq LinkerType BY <2>1, <2>2 DEF TypeOK, LinkerType
    <2>4. \A q \in Listings(Contents(t)) : Sender(t.sub, q) \in SenderType
        BY <1>1, ListOfContents, SenderOfList DEF LinkerType
    <2>5. senders' \subseteq SenderType BY <1>4, <2>4 DEF SendCurrent, TypeOK, SenderType
    <2> QED BY <1>4, <2>3, <2>5 DEF SendCurrent, TypeOK, LinkerType, SenderType, store
<1> QED BY <1>2, <1>3, <1>4

\* Notifications that are sent.
LEMMA SenderTypes ==
    ASSUME TypeOK, NEW m \in senders, Collect(m) \/ Post(m) \/ PostFails(m)
    PROVE  TypeOK'
<1>1. m \in SenderType BY DEF TypeOK, SenderType
<1>2. m.sub \in Subscription /\ m.elements \in Seq(Element) BY <1>1 DEF SenderType
<1>3. NotifyCache[m.sub] \in Seq(Element) BY <1>2 DEF TypeOK
<1>4. CASE Collect(m)
    <2> DEFINE n == [m EXCEPT !.posting = TRUE, !.elements = @ \o NotifyCache[m.sub]]
    <2>1. n \in SenderType BY <1>1, <1>2, <1>3, RangeConcat DEF SenderType
    <2> HIDE DEF n
    <2>2. senders' \subseteq (senders \ {m}) \cup {n} BY <1>4 DEF Collect, n
    <2>3. senders' \subseteq SenderType BY <2>1, <2>2 DEF TypeOK, SenderType
    <2>4. NotifyCache' \in [Subscription -> Seq(Element)]
        <3>1. NotifyCache' = NotifyCache \/ NotifyCache' = [NotifyCache EXCEPT ![m.sub] = <<>>]
            BY <1>4 DEF Collect
        <3>2. <<>> \in Seq(Element) BY EmptySeq
        <3> QED BY <1>2, <3>1, <3>2 DEF TypeOK
    <2> QED BY <1>4, <2>3, <2>4 DEF Collect, TypeOK, SenderType, store, link
<1>5. CASE Post(m)
    <2>1. got' \in [Subscription -> SUBSET Element]
        BY <1>2, <1>5, RangeType DEF Post, TypeOK
    <2> QED BY <1>5, <2>1 DEF Post, TypeOK, store, link
<1>6. CASE PostFails(m)
    <2> DEFINE kept == IF m.sub \in Reliable /\ status[m.sub] = "linked" THEN Cached(m.elements) ELSE <<>>
    <2>1. kept \in Seq(Element) BY <1>2, CachedType, EmptySeq
    <2> HIDE DEF kept
    <2>2. /\ NotifyCache' = [NotifyCache EXCEPT ![m.sub] = @ \o kept]
          /\ lost' = [lost EXCEPT ![m.sub] = @ \cup (Range(m.elements) \ Range(kept))]
        BY <1>6 DEF PostFails, kept
    <2>3. NotifyCache' \in [Subscription -> Seq(Element)]
        BY <1>2, <1>3, <2>1, <2>2, RangeConcat DEF TypeOK
    <2>4. lost' \in [Subscription -> SUBSET Element]
        BY <1>2, <2>2, RangeType DEF TypeOK
    <2>5. failures' \in 0..MaxFailures /\ senders' \subseteq senders
        BY <1>6, BrokerAssumption DEF PostFails, TypeOK
    <2> QED BY <1>6, <2>3, <2>4, <2>5 DEF PostFails, TypeOK, store, link
<1> QED BY <1>4, <1>5, <1>6

LEMMA TypeStep == TypeOK /\ Numbered /\ [Next]_vars => TypeOK'
<1> SUFFICES ASSUME TypeOK, Numbered, [Next]_vars PROVE TypeOK' OBVIOUS
<1>1. ASSUME NEW e \in Entity, DeleteContext(e) PROVE TypeOK'
    <2>1. writers' \subseteq WriterType /\ writes' \in 0..MaxWrites
        BY <1>1, NewWriter DEF DeleteContext, store
    <2> QED BY <1>1, <2>1 DEF DeleteContext, TypeOK, WriterType, store, link, send
<1>2. ASSUME NEW e \in Entity, NEW news \in BOOLEAN, UpdateContext(e, news) PROVE TypeOK'
    <2>1. writers' \subseteq WriterType /\ writes' \in 0..MaxWrites
        BY <1>2, NewWriter DEF UpdateContext, store
    <2> QED BY <1>2, <2>1 DEF UpdateContext, TypeOK, WriterType, store, link, send
<1>3. CASE UNCHANGED vars
    BY <1>3 DEF vars, TypeOK, store, link, send
<1>4. ASSUME NEW w \in writers, Register(w) \/ Apply(w) \/ Notify(w) \/ NotifyPanics(w) \/ Unregister(w)
      PROVE  TypeOK'
    BY <1>4, WriterTypes
<1>5. ASSUME NEW s \in Subscription,
             SubscribeContext(s) \/ Match(s) \/ LinkSubscription(s) \/ UnsubscribeContext(s)
      PROVE  TypeOK'
    BY <1>5, LinkTypes
<1>6. ASSUME NEW m \in avail, NotifyAvailability(m) PROVE TypeOK'
    BY <1>6, AvailabilityTypes
<1>7. ASSUME NEW t \in linkers, SendCurrent(t) \/ AssociatePanics(t) \/ \E e \in Entity : Associate(t, e)
      PROVE  TypeOK'
    BY <1>7, LinkerTypes
<1>8. ASSUME NEW m \in senders, Collect(m) \/ Post(m) \/ PostFails(m) PROVE TypeOK'
    BY <1>8, SenderTypes
<1> QED BY <1>1, <1>2, <1>3, <1>4, <1>5, <1>6, <1>7, <1>8 DEF Next

LEMMA TypeInit == Init => TypeOK /\ Numbered
<1> SUFFICES ASSUME Init PROVE TypeOK /\ Numbered OBVIOUS
<1>1. TypeOK BY BrokerAssumption, EmptySeq DEF Init, TypeOK
<1>2. Unapplied = {} BY DEF Init, Unapplied
<1>3. Numbered BY <1>2, FS_EmptySet DEF Init, Numbered
<1> QED BY <1>1, <1>3

\* The thin broker is well typed; in particular no content has a number that no
\* update has given it.
THEOREM TypeCorrect == Spec => []TypeOK
<1>1. Init => TypeOK /\ Numbered BY TypeInit
<1>2. (TypeOK /\ Numbered) /\ [Next]_vars => (TypeOK /\ Numbered)' BY TypeStep, NumberedStep
<1> QED BY <1>1, <1>2, PTL DEF Spec

-----------------------------------------------------------------------------
(* Subscriptions and what is under way for them                            *)

\* A subscription that is served stays so, and one that exists goes on existing.
LEMMA StatusStep ==
    ASSUME TypeOK, NEW x \in Subscription,
           SubscribeContext(x) \/ LinkSubscription(x) \/ UnsubscribeContext(x)
    PROVE  \A s \in Subscription :
              /\ Served(s) => Served(s)'
              /\ status[s] = "removed" => status'[s] = "removed"
              /\ status'[s] # "none" \/ status[s] = "none"
              /\ s # x => status'[s] = status[s]
BY DEF SubscribeContext, LinkSubscription, UnsubscribeContext, TypeOK, Served

LEMMA StatesStep == TypeOK /\ StatesAgree /\ [Next]_vars => StatesAgree'
<1> SUFFICES ASSUME TypeOK, StatesAgree, [Next]_vars PROVE StatesAgree' OBVIOUS
<1>a. /\ \A m \in avail : m.sub \in Subscription
      /\ \A t \in linkers : t \in LinkerType /\ t.sub \in Subscription
      /\ \A m \in senders : m \in SenderType /\ m.sub \in Subscription
    BY DEF TypeOK, Notifications, LinkerType, SenderType
<1>1. ASSUME NEW w \in writers, Register(w) \/ Unregister(w) PROVE StatesAgree'
    <2>1. \A s \in Listening, act \in {"UPDATE", "DELETE"} :
              Notification(s, {w.entity}, act).sub = s /\ status[s] # "none"
        BY DEF Notification, Listening
    <2>2. \A m \in avail' : status'[m.sub] # "none"
        <3>1. UNCHANGED status BY <1>1 DEF Register, Unregister
        <3>2. \A m \in avail' : m \in avail \/ \E s \in Listening, act \in {"UPDATE", "DELETE"} :
                                                   m = Notification(s, {w.entity}, act)
            BY <1>1 DEF Register, Unregister
        <3> SUFFICES ASSUME NEW m \in avail' PROVE status[m.sub] # "none" BY <3>1
        <3>3. CASE m \in avail BY <3>3 DEF StatesAgree
        <3>4. CASE m \notin avail BY <2>1, <3>2, <3>4
        <3> QED BY <3>3, <3>4
    <2> QED BY <1>1, <2>2 DEF Register, Unregister, StatesAgree, Served, send
<1>2. ASSUME NEW w \in writers, Notify(w) PROVE StatesAgree'
    <2>1. w.entity \in Entity BY DEF TypeOK
    <2>2. \A s, q : Sender(s, q).sub = s BY DEF Sender
    <2>3. \A m \in senders' : Served(m.sub)
        BY <1>2, <2>1, <2>2 DEF Notify, StatesAgree
    <2> QED BY <1>2, <2>3 DEF Notify, StatesAgree, Served, link
<1>3. ASSUME NEW x \in Subscription, SubscribeContext(x) PROVE StatesAgree'
    <2>1. /\ \A m \in avail : status'[m.sub] # "none"
          /\ \A t \in linkers : Served(t.sub)' /\ (t.found \/ status'[t.sub] = "removed")
          /\ \A e \in Entity, s \in Subscription : links[e][s] > 0 => Served(s)'
          /\ \A m \in senders : Served(m.sub)'
        BY <1>a, <1>3, StatusStep DEF StatesAgree
    <2>2. \A s \in queries' : status'[s] # "none"
        <3>1. queries' = queries \cup {x} /\ status'[x] = "asked" BY <1>3 DEF SubscribeContext, TypeOK
        <3>2. \A s \in queries : status'[s] # "none" BY <1>3, StatusStep DEF TypeOK, StatesAgree
        <3> QED BY <3>1, <3>2
    <2>3. \A s \in Subscription : tmpNGSI9NotifyCache[s] # None => s # x
        BY <1>3 DEF SubscribeContext, StatesAgree
    <2> QED BY <1>3, <2>1, <2>2, <2>3, StatusStep DEF SubscribeContext, StatesAgree, Served, send
<1>4. ASSUME NEW x \in Subscription, Match(x) PROVE StatesAgree'
    <2>1. Notification(x, registered, "CREATE").sub = x BY DEF Notification
    <2>2. \A m \in avail' : status'[m.sub] # "none" BY <1>4, <2>1 DEF Match, StatesAgree
    <2> QED BY <1>4, <2>2 DEF Match, StatesAgree, Served, send
<1>5. ASSUME NEW x \in Subscription, LinkSubscription(x) PROVE StatesAgree'
    <2>0. status'[x] = "linked" BY <1>5 DEF LinkSubscription, TypeOK
    <2>1. /\ \A m \in avail : status'[m.sub] # "none"
          /\ \A t \in linkers : Served(t.sub)' /\ (t.found \/ status'[t.sub] = "removed")
          /\ \A e \in Entity, s \in Subscription : links[e][s] > 0 => Served(s)'
          /\ \A m \in senders : Served(m.sub)'
        BY <1>a, <1>5, StatusStep DEF StatesAgree
    <2>2. \A s \in queries : status'[s] # "none" BY <1>5, StatusStep DEF TypeOK, StatesAgree
    <2>3. /\ tmpNGSI9NotifyCache'[x] = None
          /\ \A s \in Subscription : s # x => tmpNGSI9NotifyCache'[s] = tmpNGSI9NotifyCache[s]
        BY <1>5 DEF LinkSubscription, TypeOK
    <2>4. \A s \in Subscription : tmpNGSI9NotifyCache'[s] # None =>
              status'[s] = "asked" /\ tmpNGSI9NotifyCache'[s].sub = s
        BY <1>5, <2>3, StatusStep DEF StatesAgree
    <2>5. ASSUME NEW t \in linkers'
          PROVE  Served(t.sub)' /\ (t.found \/ status'[t.sub] = "removed")
        <3>1. CASE t \in linkers BY <2>1, <3>1
        <3>2. CASE tmpNGSI9NotifyCache[x] # None /\ t = Linker(tmpNGSI9NotifyCache[x], TRUE)
            <4>1. tmpNGSI9NotifyCache[x] \in Notifications /\ tmpNGSI9NotifyCache[x].sub = x
                BY <3>2 DEF TypeOK, StatesAgree
            <4>2. t.sub = x /\ t.found BY <3>2, <4>1, LinkerOf
            <4> QED BY <2>0, <4>2 DEF Served
        <3> QED BY <1>5, <3>1, <3>2 DEF LinkSubscription
    <2>6. UNCHANGED <<avail, queries, links, senders>> BY <1>5 DEF LinkSubscription, send
    <2> QED BY <2>1, <2>2, <2>4, <2>5, <2>6 DEF StatesAgree, Served
<1>6. ASSUME NEW x \in Subscription, UnsubscribeContext(x) PROVE StatesAgree'
    <2>1. /\ \A m \in avail : status'[m.sub] # "none"
          /\ \A t \in linkers : Served(t.sub)' /\ (t.found \/ status'[t.sub] = "removed")
          /\ \A e \in Entity, s \in Subscription : links[e][s] > 0 => Served(s)'
          /\ \A m \in senders : Served(m.sub)'
        BY <1>a, <1>6, StatusStep DEF StatesAgree
    <2>2. \A s \in queries : status'[s] # "none" BY <1>6, StatusStep DEF TypeOK, StatesAgree
    <2>3. \A s \in Subscription : tmpNGSI9NotifyCache[s] # None => s # x
        BY <1>6 DEF UnsubscribeContext, StatesAgree
    <2> QED BY <1>6, <2>1, <2>2, <2>3, StatusStep DEF UnsubscribeContext, StatesAgree, Served, send
<1>7. ASSUME NEW m \in avail, NotifyAvailability(m) PROVE StatesAgree'
    <2>1. m \in Notifications /\ m.sub \in Subscription /\ status[m.sub] # "none" /\ m # None
        BY NoneAssumption DEF TypeOK, Notifications, StatesAgree
    <2>2. CASE status[m.sub] = "asked"
        <3>1. \A s \in Subscription : tmpNGSI9NotifyCache'[s] # None =>
                  status'[s] = "asked" /\ tmpNGSI9NotifyCache'[s].sub = s
            BY <1>7, <2>1, <2>2 DEF NotifyAvailability, TypeOK, StatesAgree
        <3> QED BY <1>7, <2>2, <3>1 DEF NotifyAvailability, StatesAgree, Served, send
    <2>3. CASE status[m.sub] # "asked"
        <3> DEFINE t == Linker(m, status[m.sub] = "linked")
        <3>0. (status[m.sub] = "linked") \in BOOLEAN OBVIOUS
        <3>1. t.sub = m.sub /\ t.found = (status[m.sub] = "linked") BY <2>1, <3>0, LinkerOf
        <3>2. Served(m.sub) /\ (status[m.sub] = "linked" \/ status[m.sub] = "removed")
            BY <2>1, <2>3 DEF TypeOK, Served
        <3>3. Served(t.sub) /\ (t.found \/ status[t.sub] = "removed") BY <3>1, <3>2
        <3> HIDE DEF t
        <3>4. linkers' = linkers \cup {t} BY <1>7, <2>3 DEF NotifyAvailability, t
        <3>5. \A y \in linkers' : Served(y.sub) /\ (y.found \/ status[y.sub] = "removed")
            BY <3>3, <3>4 DEF StatesAgree
        <3> QED BY <1>7, <2>3, <3>5 DEF NotifyAvailability, StatesAgree, Served, send
    <2> QED BY <2>2, <2>3
<1>8. ASSUME NEW t \in linkers, SendCurrent(t) PROVE StatesAgree'
    <2> DEFINE u == [t EXCEPT !.sent = TRUE]
    <2>1. u.sub = t.sub /\ u.found = t.found BY <1>a DEF LinkerType
    <2> HIDE DEF u
    <2>2. linkers' = (linkers \ {t}) \cup {u} BY <1>8 DEF SendCurrent, u
    <2>3. \A y \in linkers' : Served(y.sub) /\ (y.found \/ status[y.sub] = "removed")
        BY <2>1, <2>2 DEF StatesAgree
    <2>4. \A q : Sender(t.sub, q).sub = t.sub BY DEF Sender
    <2>5. \A m \in senders' : Served(m.sub) BY <1>8, <2>4 DEF SendCurrent, StatesAgree
    <2> QED BY <1>8, <2>3, <2>5 DEF SendCurrent, StatesAgree, Served
<1>9. ASSUME NEW t \in linkers, NEW x \in Entity, Associate(t, x) PROVE StatesAgree'
    <2> DEFINE u == [t EXCEPT !.todo = @ \ {x}]
    <2>1. u.sub = t.sub /\ u.found = t.found BY <1>a DEF LinkerType
    <2> HIDE DEF u
    <2>2. linkers' \subseteq (linkers \ {t}) \cup {u} BY <1>9 DEF Associate, u
    <2>3. \A y \in linkers' : Served(y.sub) /\ (y.found \/ status[y.sub] = "removed")
        BY <2>1, <2>2 DEF StatesAgree
    <2>4. \A e \in Entity, s \in Subscription : links'[e][s] > 0 => Served(s)
        <3>1. Served(t.sub) /\ t.sub \in Subscription BY <1>a DEF StatesAgree
        <3>2. \A e \in Entity, s \in Subscription : s # t.sub => links'[e][s] = links[e][s]
            BY <1>9 DEF Associate, TypeOK
        <3> QED BY <3>1, <3>2 DEF StatesAgree
    <2> QED BY <1>9, <2>3, <2>4 DEF Associate, StatesAgree, Served, send
<1>10. ASSUME NEW t \in linkers, AssociatePanics(t) PROVE StatesAgree'
    BY <1>10 DEF AssociatePanics, StatesAgree, Served, send
<1>11. ASSUME NEW m \in senders, Collect(m) PROVE StatesAgree'
    <2> DEFINE n == [m EXCEPT !.posting = TRUE, !.elements = @ \o NotifyCache[m.sub]]
    <2>1. n.sub = m.sub BY <1>a DEF SenderType
    <2> HIDE DEF n
    <2>2. senders' \subseteq (senders \ {m}) \cup {n} BY <1>11 DEF Collect, n
    <2>3. \A y \in senders' : Served(y.sub) BY <2>1, <2>2 DEF StatesAgree
    <2> QED BY <1>11, <2>3 DEF Collect, StatesAgree, Served, link
<1>12. ASSUME NEW m \in senders, Post(m) \/ PostFails(m) PROVE StatesAgree'
    BY <1>12 DEF Post, PostFails, StatesAgree, Served, link
<1>13. CASE UNCHANGED <<link, senders>>
    BY <1>13 DEF StatesAgree, Served, link
<1> QED BY <1>1, <1>2, <1>3, <1>4, <1>5, <1>6, <1>7, <1>8, <1>9, <1>10, <1>11, <1>12, <1>13
        DEF Next, vars, send, DeleteContext, UpdateContext, Apply, NotifyPanics

-----------------------------------------------------------------------------
(* Nobody is forgotten                                                     *)

Good(s, e) == Awaits(s, e) \/ (Tied(s, e) /\ (e \in alive => Told(s, e) \/ Notifying(e)))

LEMMA ForgottenWriters ==
    ASSUME TypeOK, StatesAgree, NobodyIsForgotten, NEW w \in writers,
           Register(w) \/ Apply(w) \/ Notify(w) \/ NotifyPanics(w) \/ Unregister(w)
    PROVE  NobodyIsForgotten'
<1> SUFFICES ASSUME stuck' = {}, NEW s \in Listening', NEW e \in registered', <<s, e>> \notin missed'
             PROVE  Good(s, e)'
    BY DEF NobodyIsForgotten, Good
<1>0. w \in WriterType /\ w.entity \in Entity BY DEF TypeOK, WriterType
<1>1. /\ s \in Subscription /\ s \in Listening /\ stuck = {} /\ <<s, e>> \notin missed
      /\ e \in Entity /\ UNCHANGED <<status, tmpNGSI9NotifyCache, linkers, links, queries>>
    BY <1>0 DEF Listening, Register, Apply, Notify, NotifyPanics, Unregister, link, TypeOK
<1>2. CASE Register(w)
    <2>1. /\ UNCHANGED <<alive, latest, got, lost, NotifyCache, senders>>
          /\ avail \subseteq avail' /\ registered \subseteq registered'
        BY <1>2 DEF Register, store, send
    <2>2. CASE e = w.entity
        <3> DEFINE m == Notification(s, {w.entity}, "UPDATE")
        <3>1. m \in avail' BY <1>1, <1>2 DEF Register
        <3>2. Offers(m, s, e) BY <2>2 DEF Offers, Notification
        <3>3. Awaits(s, e)' BY <3>1, <3>2 DEF Awaits, Offers
        <3> QED BY <3>3 DEF Good
    <2>3. CASE e # w.entity
        <3>1. Good(s, e) BY <1>1, <1>2, <2>3 DEF NobodyIsForgotten, Good, Register
        <3>2. Awaits(s, e) => Awaits(s, e)' BY <1>1, <2>1 DEF Awaits, Offers
        <3>3. Tied(s, e) => Tied(s, e)' BY <1>1 DEF Tied, BetweenSteps
        <3>4. Told(s, e) => Told(s, e)' BY <2>1 DEF Told
        <3>5. Notifying(e) => Notifying(e)' BY <1>2 DEF Notifying, Register, Goto
        <3> QED BY <2>1, <3>1, <3>2, <3>3, <3>4, <3>5 DEF Good
    <2> QED BY <2>2, <2>3
<1>3. CASE Apply(w)
    <2>1. UNCHANGED <<registered, avail, got, lost, NotifyCache, senders>> BY <1>3 DEF Apply, link, send
    <2>2. Good(s, e) BY <1>1, <2>1 DEF NobodyIsForgotten, Good
    <2>3. Awaits(s, e) => Awaits(s, e)' BY <1>1, <2>1 DEF Awaits, Offers
    <2>4. Tied(s, e) => Tied(s, e)' BY <1>1 DEF Tied, BetweenSteps
    <2>5. CASE e = w.entity /\ w.op = "update"
        <3> DEFINE v == [w EXCEPT !.pc = "notify"]
        <3>1. v \in writers' /\ v.pc = "notify" /\ v.op = "update" /\ v.entity = e
            BY <1>0, <1>3, <2>5 DEF Apply, Goto, WriterType
        <3>2. Notifying(e)' BY <3>1 DEF Notifying
        <3> QED BY <2>2, <2>3, <2>4, <3>2 DEF Good
    <2>6. CASE e = w.entity /\ w.op # "update"
        BY <1>3, <2>2, <2>3, <2>4, <2>6 DEF Good, Apply
    <2>7. CASE e # w.entity
        <3>1. latest'[e] = latest[e] /\ (e \in alive' => e \in alive)
            BY <1>0, <1>1, <1>3, <2>7 DEF Apply, TypeOK
        <3>2. Told(s, e) => Told(s, e)' BY <2>1, <3>1 DEF Told
        <3>3. Notifying(e) => Notifying(e)' BY <1>3 DEF Notifying, Apply, Goto
        <3> QED BY <2>2, <2>3, <2>4, <3>1, <3>2, <3>3 DEF Good
    <2> QED BY <2>5, <2>6, <2>7
<1>4. CASE Notify(w)
    <2>1. UNCHANGED <<alive, latest, registered, avail, got, lost, NotifyCache>> BY <1>4 DEF Notify, store, link
    <2>2. Good(s, e) BY <1>1, <2>1 DEF NobodyIsForgotten, Good
    <2>3. Awaits(s, e) => Awaits(s, e)' BY <1>1, <2>1 DEF Awaits, Offers
    <2>4. Tied(s, e) => Tied(s, e)' BY <1>1 DEF Tied, BetweenSteps
    <2>5. senders \subseteq senders' BY <1>4 DEF Notify
    <2>6. Told(s, e) => Told(s, e)' BY <2>1, <2>5 DEF Told
    <2>7. CASE w.entity = e /\ w.op = "update" /\ e \in alive /\ Tied(s, e)
        <3>1. links[e][s] > 0
            <4>2. links[e][s] \in Nat BY <1>1 DEF TypeOK
            <4>3. ~(links[e][s] = 0 /\ BetweenSteps(s, e)) BY <1>1, <1>4, <2>7 DEF Notify
            <4> QED BY <2>7, <4>2, <4>3 DEF Tied
        <3> DEFINE x == <<e, latest[e]>>
        <3>2. x \in Element BY <1>1, LatestElement
        <3> HIDE DEF x
        <3>3. Sender(s, <<x>>) \in senders' BY <1>1, <1>4, <2>7, <3>1 DEF Notify, x
        <3>4. Sender(s, <<x>>).sub = s /\ x \in Range(Sender(s, <<x>>).elements)
            BY <1>1, <3>2, SenderOf, OneElement
        <3>5. Told(s, e)' BY <2>1, <3>3, <3>4 DEF Told, x
        <3> QED BY <2>4, <2>7, <3>5 DEF Good
    <2>8. CASE ~(w.entity = e /\ w.op = "update")
        <3>1. Notifying(e) => Notifying(e)' BY <1>4, <2>8 DEF Notifying, Notify, Goto
        <3> QED BY <2>1, <2>2, <2>3, <2>4, <2>6, <3>1 DEF Good
    <2>9. CASE e \notin alive \/ ~Tied(s, e)
        BY <2>1, <2>2, <2>3, <2>4, <2>9 DEF Good
    <2> QED BY <2>7, <2>8, <2>9
<1>5. CASE NotifyPanics(w)
    BY <1>5 DEF NotifyPanics
<1>6. CASE Unregister(w)
    <2>1. /\ UNCHANGED <<alive, latest, got, lost, NotifyCache, senders>>
          /\ avail \subseteq avail' /\ registered' \subseteq registered
        BY <1>6 DEF Unregister, store, send
    <2>2. Good(s, e) BY <1>1, <2>1 DEF NobodyIsForgotten, Good
    <2>3. Awaits(s, e) => Awaits(s, e)' BY <1>1, <2>1 DEF Awaits, Offers
    <2>4. Tied(s, e) => Tied(s, e)' BY <1>1 DEF Tied, BetweenSteps
    <2>5. Told(s, e) => Told(s, e)' BY <2>1 DEF Told
    <2>6. Notifying(e) => Notifying(e)' BY <1>6 DEF Notifying, Unregister, Goto
    <2> QED BY <2>1, <2>2, <2>3, <2>4, <2>5, <2>6 DEF Good
<1> QED BY <1>2, <1>3, <1>4, <1>5, <1>6

LEMMA ForgottenSubscriptions ==
    ASSUME TypeOK, StatesAgree, NobodyIsForgotten, NEW x \in Subscription,
           SubscribeContext(x) \/ Match(x) \/ LinkSubscription(x) \/ UnsubscribeContext(x)
    PROVE  NobodyIsForgotten'
<1> SUFFICES ASSUME stuck' = {}, NEW s \in Listening', NEW e \in registered', <<s, e>> \notin missed'
             PROVE  Good(s, e)'
    BY DEF NobodyIsForgotten, Good
<1>1. /\ s \in Subscription /\ e \in Entity /\ e \in registered
      /\ UNCHANGED <<writers, alive, latest, registered, links, got, lost, NotifyCache, senders, stuck, missed>>
    BY DEF Listening, SubscribeContext, Match, LinkSubscription, UnsubscribeContext, store, send, TypeOK
<1>2. CASE SubscribeContext(x)
    <2>1. CASE s = x BY <1>1, <1>2, <2>1 DEF SubscribeContext, Good, Awaits
    <2>2. CASE s # x
        <3>1. s \in Listening BY <1>1, <1>2, <2>2 DEF SubscribeContext, Listening, TypeOK
        <3>2. Good(s, e) BY <1>1, <3>1 DEF NobodyIsForgotten, Good
        <3> QED BY <1>1, <1>2, <3>2 DEF SubscribeContext, Good, Awaits, Offers, Tied, BetweenSteps, Told, Notifying
    <2> QED BY <2>1, <2>2
<1>3. CASE Match(x)
    <2>1. s \in Listening BY <1>1, <1>3 DEF Match, Listening
    <2>2. Good(s, e) BY <1>1, <2>1 DEF NobodyIsForgotten, Good
    <2>3. Awaits(s, e) => Awaits(s, e)'
        <3> DEFINE m == Notification(x, registered, "CREATE")
        <3>1. s = x => Offers(m, s, e) BY <1>1 DEF Offers, Notification
        <3>2. m \in avail' BY <1>1, <1>3 DEF Match
        <3>3. CASE s = x BY <3>1, <3>2, <3>3 DEF Awaits, Offers
        <3>4. CASE s # x BY <1>1, <1>3, <3>4 DEF Match, Awaits, Offers
        <3> QED BY <3>3, <3>4
    <2> QED BY <1>1, <1>3, <2>2, <2>3 DEF Match, Good, Tied, BetweenSteps, Told, Notifying
<1>4. CASE LinkSubscription(x)
    <2>1. s \in Listening BY <1>1, <1>4 DEF LinkSubscription, Listening, TypeOK
    <2>2. Good(s, e) BY <1>1, <2>1 DEF NobodyIsForgotten, Good
    <2>3. linkers \subseteq linkers' BY <1>4 DEF LinkSubscription
    <2>4. Awaits(s, e) => Awaits(s, e)'
        <3>1. CASE s = x /\ tmpNGSI9NotifyCache[s] # None /\ Offers(tmpNGSI9NotifyCache[s], s, e)
            <4> DEFINE m == tmpNGSI9NotifyCache[s]
            <4>1. m \in Notifications BY <1>1, <3>1 DEF TypeOK
            <4>2. Linker(m, TRUE) \in linkers' BY <1>4, <3>1 DEF LinkSubscription
            <4>3. /\ Linker(m, TRUE).sub = s /\ Linker(m, TRUE).act # "DELETE"
                  /\ e \in Linker(m, TRUE).todo /\ ~Linker(m, TRUE).sent
                BY <1>1, <3>1, <4>1, LinkerOf DEF Offers
            <4> QED BY <4>2, <4>3 DEF Awaits
        <3>2. CASE s # x
            <4>1. tmpNGSI9NotifyCache'[s] = tmpNGSI9NotifyCache[s]
                BY <1>1, <1>4, <3>2 DEF LinkSubscription, TypeOK
            <4> QED BY <1>1, <1>4, <2>3, <4>1 DEF LinkSubscription, Awaits, Offers
        <3>3. CASE ~(tmpNGSI9NotifyCache[s] # None /\ Offers(tmpNGSI9NotifyCache[s], s, e))
            BY <1>1, <1>4, <2>3, <3>3 DEF LinkSubscription, Awaits, Offers
        <3> QED BY <3>1, <3>2, <3>3
    <2>5. Tied(s, e) => Tied(s, e)' BY <1>1, <2>3 DEF Tied, BetweenSteps
    <2> QED BY <1>1, <2>2, <2>4, <2>5 DEF Good, Told, Notifying
<1>5. CASE UnsubscribeContext(x)
    <2>1. s \in Listening BY <1>1, <1>5 DEF UnsubscribeContext, Listening, TypeOK
    <2>2. Good(s, e) BY <1>1, <2>1 DEF NobodyIsForgotten, Good
    <2> QED BY <1>1, <1>5, <2>2 DEF UnsubscribeContext, Good, Awaits, Offers, Tied, BetweenSteps, Told, Notifying
<1> QED BY <1>2, <1>3, <1>4, <1>5

LEMMA ForgottenAvailability ==
    ASSUME TypeOK, StatesAgree, NobodyIsForgotten, NEW m \in avail, NotifyAvailability(m)
    PROVE  NobodyIsForgotten'
<1> SUFFICES ASSUME stuck' = {}, NEW s \in Listening', NEW e \in registered', <<s, e>> \notin missed'
             PROVE  Good(s, e)'
    BY DEF NobodyIsForgotten, Good
<1>1. /\ UNCHANGED <<writers, alive, latest, registered, status, queries, links, got, lost, NotifyCache,
                     senders, stuck>>
      /\ avail' = avail \ {m} /\ linkers \subseteq linkers' /\ missed \subseteq missed'
    BY DEF NotifyAvailability, store, send
<1>2. s \in Subscription /\ s \in Listening /\ e \in Entity /\ e \in registered
    BY <1>1 DEF Listening, TypeOK
<1>3. m \in Notifications /\ m # None BY NoneAssumption DEF TypeOK
<1>3a. m.sub \in Subscription BY <1>3 DEF Notifications
<1>4. Good(s, e) BY <1>1, <1>2 DEF NobodyIsForgotten, Good
<1>5. Tied(s, e) => Tied(s, e)' BY <1>1 DEF Tied, BetweenSteps
<1>6. Told(s, e) => Told(s, e)' BY <1>1 DEF Told
<1>7. Notifying(e) => Notifying(e)' BY <1>1 DEF Notifying
<1>8. Awaits(s, e) => Awaits(s, e)'
    <2>1. CASE s \in queries /\ e \in registered BY <1>1, <2>1 DEF Awaits
    <2>2. CASE \E n \in avail : n # m /\ Offers(n, s, e) BY <1>1, <2>2 DEF Awaits, Offers
    <2>3. CASE \E t \in linkers : t.sub = s /\ t.act # "DELETE" /\ ~t.sent /\ e \in t.todo
        BY <1>1, <2>3 DEF Awaits
    <2>4. CASE Offers(m, s, e)
        <3>1. m.sub = s /\ m.act # "DELETE" /\ e \in m.ents BY <2>4 DEF Offers
        <3>2. CASE status[s] = "asked"
            <4>1. tmpNGSI9NotifyCache'[s] = m BY <1>2, <3>1, <3>2 DEF NotifyAvailability, TypeOK
            <4> QED BY <1>3, <2>4, <4>1 DEF Awaits, Offers
        <3>3. CASE status[s] # "asked"
            <4> DEFINE t == Linker(m, status[m.sub] = "linked")
            <4>1. t \in linkers' BY <3>1, <3>3 DEF NotifyAvailability
            <4>2. (status[m.sub] = "linked") \in BOOLEAN OBVIOUS
            <4>3. t.sub = m.sub /\ t.act = m.act /\ t.todo = m.ents /\ t.sent = (m.act = "DELETE")
                BY <1>3, <4>2, LinkerOf
            <4> HIDE DEF t
            <4>4. t.sub = s /\ t.act # "DELETE" /\ e \in t.todo /\ ~t.sent
                BY <1>2, <3>1, <4>3
            <4> QED BY <4>1, <4>4 DEF Awaits
        <3> QED BY <3>2, <3>3
    <2>5. CASE tmpNGSI9NotifyCache[s] # None /\ Offers(tmpNGSI9NotifyCache[s], s, e)
        <3>1. e \in tmpNGSI9NotifyCache[s].ents BY <2>5 DEF Offers
        <3>2. status[m.sub] = "asked" => m.sub # s BY <2>5, <3>1 DEF NotifyAvailability
        <3>3. tmpNGSI9NotifyCache'[s] = tmpNGSI9NotifyCache[s]
            BY <1>2, <1>3a, <3>2 DEF NotifyAvailability, TypeOK
        <3> QED BY <2>5, <3>3 DEF Awaits, Offers
    <2> QED BY <2>1, <2>2, <2>3, <2>4, <2>5 DEF Awaits
<1> QED BY <1>1, <1>4, <1>5, <1>6, <1>7, <1>8 DEF Good

\* The contents that are sent before the links are made.
LEMMA ForgottenContent ==
    ASSUME TypeOK, StatesAgree, NobodyIsForgotten, NEW t \in linkers, SendCurrent(t)
    PROVE  NobodyIsForgotten'
<1> SUFFICES ASSUME stuck' = {}, NEW s \in Listening', NEW e \in registered', <<s, e>> \notin missed'
             PROVE  Good(s, e)'
    BY DEF NobodyIsForgotten, Good
<1> DEFINE u == [t EXCEPT !.sent = TRUE]
<1>1. UNCHANGED <<writers, alive, latest, registered, status, queries, avail, tmpNGSI9NotifyCache, links, got,
                  lost, NotifyCache, stuck, missed>>
    BY DEF SendCurrent, store
<1>2. s \in Subscription /\ s \in Listening /\ e \in Entity /\ e \in registered
    BY <1>1 DEF Listening, TypeOK
<1>3. t \in LinkerType BY DEF TypeOK, LinkerType
<1>4. u.sub = t.sub /\ u.act = t.act /\ u.todo = t.todo /\ u.sent BY <1>3 DEF LinkerType
<1> HIDE DEF u
<1>5. linkers' = (linkers \ {t}) \cup {u} /\ senders \subseteq senders' /\ ~t.sent
    BY DEF SendCurrent, u
<1>6. Good(s, e) BY <1>1, <1>2 DEF NobodyIsForgotten, Good
<1>7. Told(s, e) => Told(s, e)' BY <1>1, <1>5 DEF Told
<1>8. Notifying(e) => Notifying(e)' BY <1>1 DEF Notifying
<1>9. Tied(s, e) => Tied(s, e)' BY <1>1, <1>5 DEF Tied, BetweenSteps
<1>10. CASE t.sub = s /\ t.act # "DELETE" /\ e \in t.todo
    <2>1. Tied(s, e)' BY <1>4, <1>5, <1>10 DEF Tied, BetweenSteps
    <2>2. status[s] = "linked" BY <1>2, <1>10 DEF StatesAgree, Served, Listening
    <2>3. CASE e \in alive
        <3> DEFINE y == <<e, latest[e]>>
        <3>1. y \in Contents(t) BY <1>10, <2>3 DEF Contents
        <3> HIDE DEF y
        <3>2. PICK q \in Listings(Contents(t)) : senders' = senders \cup {Sender(t.sub, q)}
            BY <1>10, <2>2, <3>1 DEF SendCurrent
        <3>3. q \in Seq(Element) /\ y \in Range(q) BY <1>3, <3>1, ListOfContents
        <3>4. Sender(s, q).sub = s /\ y \in Range(Sender(s, q).elements)
            BY <1>2, <3>3, SenderOfList
        <3>5. Told(s, e)' BY <1>1, <1>10, <3>2, <3>4 DEF Told, y
        <3> QED BY <2>1, <3>5 DEF Good
    <2>4. CASE e \notin alive BY <1>1, <2>1, <2>4 DEF Good
    <2> QED BY <2>3, <2>4
<1>11. CASE ~(t.sub = s /\ t.act # "DELETE" /\ e \in t.todo)
    <2>1. Awaits(s, e) => Awaits(s, e)' BY <1>1, <1>5, <1>11 DEF Awaits, Offers
    <2> QED BY <1>1, <1>6, <1>7, <1>8, <1>9, <2>1 DEF Good
<1> QED BY <1>10, <1>11

\* The link itself: a deletion is the only thing that takes it away, and that
\* of an entity which is registered again is one of the windows.
LEMMA ForgottenLink ==
    ASSUME TypeOK, StatesAgree, NobodyIsForgotten, NEW t \in linkers, NEW x \in Entity, Associate(t, x)
    PROVE  NobodyIsForgotten'
<1> SUFFICES ASSUME stuck' = {}, NEW s \in Listening', NEW e \in registered', <<s, e>> \notin missed'
             PROVE  Good(s, e)'
    BY DEF NobodyIsForgotten, Good
<1> DEFINE u == [t EXCEPT !.todo = @ \ {x}]
<1>1. /\ UNCHANGED <<writers, alive, latest, registered, status, queries, avail, tmpNGSI9NotifyCache, got,
                     lost, senders, NotifyCache, stuck>>
      /\ missed \subseteq missed'
    BY DEF Associate, store, send
<1>2. s \in Subscription /\ s \in Listening /\ e \in Entity /\ e \in registered
    BY <1>1 DEF Listening, TypeOK
<1>3. t \in LinkerType BY DEF TypeOK, LinkerType
<1>3a. x \in t.todo /\ t.sent /\ t.sub \in Subscription /\ t.act \in {"CREATE", "UPDATE", "DELETE"}
    BY <1>3 DEF Associate, LinkerType
<1>4. u.sub = t.sub /\ u.act = t.act /\ u.todo = t.todo \ {x} /\ u.sent BY <1>3, <1>3a DEF LinkerType
<1> HIDE DEF u
<1>5. linkers' = (linkers \ {t}) \cup (IF t.todo = {x} THEN {} ELSE {u}) BY DEF Associate, u
<1>6. Good(s, e) BY <1>1, <1>2 DEF NobodyIsForgotten, Good
<1>7. Told(s, e) => Told(s, e)' BY <1>1 DEF Told
<1>8. Notifying(e) => Notifying(e)' BY <1>1 DEF Notifying
<1>9. Awaits(s, e) => Awaits(s, e)' BY <1>1, <1>3a, <1>5 DEF Awaits, Offers
<1>10. Tied(s, e) => Tied(s, e)'
    <2>0. links[e][s] \in Nat /\ links[x][t.sub] \in Nat BY <1>2, <1>3a DEF TypeOK
    <2>1. links' = [links EXCEPT ![x][t.sub] = Linked(links[x][t.sub], t.act)] BY DEF Associate
    <2>2. CASE t.sub = s /\ x = e
        <3>1. t.act # "DELETE" BY <1>1, <1>2, <2>2 DEF Associate
        <3>2. links'[e][s] = Linked(links[e][s], t.act) BY <1>2, <2>1, <2>2 DEF TypeOK
        <3>3. Linked(links[e][s], t.act) > 0 BY <1>3a, <2>0, <3>1 DEF Linked
        <3> QED BY <3>2, <3>3 DEF Tied
    <2>3. CASE ~(t.sub = s /\ x = e)
        <3>1. links'[e][s] = links[e][s] BY <1>2, <1>3a, <2>1, <2>3 DEF TypeOK
        <3>2. BetweenSteps(s, e) => BetweenSteps(s, e)'
            <4>1. CASE t.sub = s /\ t.act # "DELETE" /\ e \in t.todo
                <5>1. u \in linkers' /\ e \in u.todo BY <1>4, <1>5, <2>3, <4>1
                <5> QED BY <1>4, <4>1, <5>1 DEF BetweenSteps
            <4>2. CASE ~(t.sub = s /\ t.act # "DELETE" /\ e \in t.todo)
                BY <1>5, <4>2 DEF BetweenSteps
            <4> QED BY <4>1, <4>2
        <3> QED BY <3>1, <3>2 DEF Tied
    <2> QED BY <2>2, <2>3
<1> QED BY <1>1, <1>6, <1>7, <1>8, <1>9, <1>10 DEF Good

\* What a sender has goes to the subscriber, into the cache or is given up.
LEMMA ForgottenSenders ==
    ASSUME TypeOK, StatesAgree, NobodyIsForgotten, NEW m \in senders, Collect(m) \/ Post(m) \/ PostFails(m)
    PROVE  NobodyIsForgotten'
<1> SUFFICES ASSUME stuck' = {}, NEW s \in Listening', NEW e \in registered', <<s, e>> \notin missed'
             PROVE  Good(s, e)'
    BY DEF NobodyIsForgotten, Good
<1>1. UNCHANGED <<writers, alive, latest, registered, status, queries, avail, tmpNGSI9NotifyCache, linkers,
                  links, stuck, missed>>
    BY DEF Collect, Post, PostFails, store, link
<1>2. s \in Subscription /\ s \in Listening /\ e \in Entity /\ e \in registered
    BY <1>1 DEF Listening, TypeOK
<1>3. m \in SenderType /\ \A n \in senders : n \in SenderType BY DEF TypeOK, SenderType
<1>3a. m.sub \in Subscription /\ m.elements \in Seq(Element) BY <1>3 DEF SenderType
<1>3b. NotifyCache[m.sub] \in Seq(Element) BY <1>3a DEF TypeOK
<1>4. Good(s, e) BY <1>1, <1>2 DEF NobodyIsForgotten, Good
<1> DEFINE x == <<e, latest[e]>>
<1>5. Told(s, e) => Told(s, e)'
    <2>0. UNCHANGED x BY <1>1
    <2> HIDE DEF x
    <2>a. Told(s, e) <=> \/ x \in got[s] \cup lost[s] \cup Range(NotifyCache[s])
                         \/ \E n \in senders : n.sub = s /\ x \in Range(n.elements)
        BY DEF Told, x
    <2>b. Told(s, e)' <=> \/ x \in got'[s] \cup lost'[s] \cup Range(NotifyCache'[s])
                          \/ \E n \in senders' : n.sub = s /\ x \in Range(n.elements)
        BY <2>0 DEF Told, x
    <2>1. CASE m.sub # s
        <3>1. /\ got'[s] = got[s] /\ lost'[s] = lost[s] /\ NotifyCache'[s] = NotifyCache[s]
              /\ senders \ {m} \subseteq senders'
            BY <1>2, <1>3a, <2>1 DEF Collect, Post, PostFails, TypeOK
        <3> QED BY <2>1, <2>a, <2>b, <3>1
    <2>2. CASE m.sub = s /\ Collect(m)
        <3>1. status[s] = "linked" BY <1>2, <2>2 DEF StatesAgree, Served, Listening
        <3> DEFINE n == [m EXCEPT !.posting = TRUE, !.elements = @ \o NotifyCache[m.sub]]
        <3>2. n.sub = s /\ n.elements = m.elements \o NotifyCache[s] BY <1>3, <2>2 DEF SenderType
        <3> HIDE DEF n
        <3>3. senders' = (senders \ {m}) \cup {n} /\ UNCHANGED <<got, lost>>
            BY <2>2, <3>1 DEF Collect, n
        <3>4. Range(n.elements) = Range(m.elements) \cup Range(NotifyCache[s])
            BY <1>3a, <1>3b, <2>2, <3>2, RangeConcat
        <3> QED BY <2>a, <2>b, <3>2, <3>3, <3>4
    <2>3. CASE m.sub = s /\ Post(m)
        <3>1. /\ got'[s] = got[s] \cup Range(m.elements) /\ UNCHANGED <<lost, NotifyCache>>
              /\ senders' = senders \ {m}
            BY <1>2, <2>3 DEF Post, TypeOK
        <3> QED BY <2>a, <2>b, <3>1
    <2>4. CASE m.sub = s /\ PostFails(m)
        <3> DEFINE kept == IF s \in Reliable /\ status[s] = "linked" THEN Cached(m.elements) ELSE <<>>
        <3>1. kept \in Seq(Element) BY <1>3a, CachedType, EmptySeq
        <3>2. /\ NotifyCache'[s] = NotifyCache[s] \o kept
              /\ lost'[s] = lost[s] \cup (Range(m.elements) \ Range(kept))
              /\ senders' = senders \ {m} /\ UNCHANGED got
            BY <1>2, <2>4 DEF PostFails, TypeOK
        <3> HIDE DEF kept
        <3>3. Range(NotifyCache'[s]) = Range(NotifyCache[s]) \cup Range(kept)
            BY <1>3b, <2>4, <3>1, <3>2, RangeConcat
        <3> QED BY <2>a, <2>b, <3>2, <3>3
    <2> QED BY <2>1, <2>2, <2>3, <2>4
<1> QED BY <1>1, <1>4, <1>5 DEF Good, Awaits, Offers, Tied, BetweenSteps, Notifying

LEMMA ForgottenStep == TypeOK /\ StatesAgree /\ NobodyIsForgotten /\ [Next]_vars => NobodyIsForgotten'
<1> SUFFICES ASSUME TypeOK, StatesAgree, NobodyIsForgotten, [Next]_vars PROVE NobodyIsForgotten' OBVIOUS
<1>1. ASSUME NEW e \in Entity, DeleteContext(e) \/ \E news \in BOOLEAN : UpdateContext(e, news)
      PROVE  NobodyIsForgotten'
    <2>1. UNCHANGED <<store, registered, link, send, stuck, missed>> /\ writers \subseteq writers'
        BY <1>1 DEF DeleteContext, UpdateContext
    <2>2. \A x \in Entity : Notifying(x) => Notifying(x)' BY <2>1 DEF Notifying
    <2>3. \A s \in Subscription, x \in Entity :
              /\ Awaits(s, x) => Awaits(s, x)'
              /\ Tied(s, x) => Tied(s, x)'
              /\ Told(s, x) => Told(s, x)'
        BY <2>1 DEF Awaits, Offers, Tied, BetweenSteps, Told, store, link, send
    <2>4. Listening' = Listening /\ alive' = alive /\ registered' = registered /\ stuck' = stuck /\ missed' = missed
        BY <2>1 DEF Listening, store, link
    <2>5. Listening \subseteq Subscription /\ registered \subseteq Entity BY DEF Listening, TypeOK
    <2> SUFFICES ASSUME stuck' = {}, NEW s \in Listening', NEW x \in registered', <<s, x>> \notin missed'
                 PROVE  Good(s, x)'
        BY DEF NobodyIsForgotten, Good
    <2>6. Good(s, x) /\ s \in Subscription /\ x \in Entity BY <2>4, <2>5 DEF NobodyIsForgotten, Good
    <2> QED BY <2>2, <2>3, <2>4, <2>6 DEF Good
<1>2. CASE UNCHANGED vars
    BY <1>2 DEF vars, store, link, send, NobodyIsForgotten, Listening, Awaits, Offers, Tied, BetweenSteps, Told, Notifying
<1>3. ASSUME NEW w \in writers, Register(w) \/ Apply(w) \/ Notify(w) \/ NotifyPanics(w) \/ Unregister(w)
      PROVE  NobodyIsForgotten'
    BY <1>3, ForgottenWriters
<1>4. ASSUME NEW s \in Subscription,
             SubscribeContext(s) \/ Match(s) \/ LinkSubscription(s) \/ UnsubscribeContext(s)
      PROVE  NobodyIsForgotten'
    BY <1>4, ForgottenSubscriptions
<1>5. ASSUME NEW m \in avail, NotifyAvailability(m) PROVE NobodyIsForgotten'
    BY <1>5, ForgottenAvailability
<1>6. ASSUME NEW t \in linkers, SendCurrent(t) PROVE NobodyIsForgotten'
    BY <1>6, ForgottenContent
<1>7. ASSUME NEW t \in linkers, NEW x \in Entity, Associate(t, x) PROVE NobodyIsForgotten'
    BY <1>7, ForgottenLink
<1>8. ASSUME NEW t \in linkers, AssociatePanics(t) PROVE NobodyIsForgotten'
    BY <1>8 DEF AssociatePanics, NobodyIsForgotten
<1>9. ASSUME NEW m \in senders, Collect(m) \/ Post(m) \/ PostFails(m) PROVE NobodyIsForgotten'
    BY <1>9, ForgottenSenders
<1> QED BY <1>1, <1>2, <1>3, <1>4, <1>5, <1>6, <1>7, <1>8, <1>9 DEF Next

LEMMA InvInit == Init => IInv
<1> SUFFICES ASSUME Init PROVE IInv OBVIOUS
<1>1. TypeOK /\ Numbered BY TypeInit
<1>2. StatesAgree BY DEF Init, StatesAgree
<1>3. Listening = {} BY DEF Init, Listening
<1> QED BY <1>1, <1>2, <1>3 DEF IInv, NobodyIsForgotten

\* When all is quiet nobody awaits anything, so the last content was told.
LEMMA QuietIsTold == IInv => LatestIsReceived
<1> SUFFICES ASSUME IInv, Quiet, NEW s \in Subscription, NEW e \in alive \cap registered,
                    status[s] = "linked", <<s, e>> \notin missed
             PROVE  <<e, latest[e]>> \in got[s] \cup lost[s] \cup Range(NotifyCache[s])
    BY DEF LatestIsReceived
<1>1. Good(s, e) BY DEF IInv, NobodyIsForgotten, Good, Quiet, Listening
<1>2. tmpNGSI9NotifyCache[s] = None BY DEF IInv, StatesAgree
<1>3. ~Awaits(s, e) BY <1>2 DEF Awaits, Quiet
<1>4. ~Notifying(e) BY DEF Notifying, Quiet
<1>5. Told(s, e) BY <1>1, <1>3, <1>4 DEF Good
<1> QED BY <1>5 DEF Told, Quiet

\* Whatever updates, deletions, subscriptions and links interleave, in a broker
\* of any size: when all has settled, a linked subscriber has received the last
\* content of every registered entity, except in the windows that
\* LatestIsReceived names.
THEOREM SubscribersGetTheLatest == Spec => []LatestIsReceived
<1>1. Init => IInv BY InvInit
<1>2. IInv /\ [Next]_vars => IInv' BY TypeStep, NumberedStep, StatesStep, ForgottenStep DEF IInv
<1>3. IInv => LatestIsReceived BY QuietIsTold
<1> QED BY <1>1, <1>2, <1>3, PTL DEF Spec
=============================================================================
