------------------------- MODULE CommunicatorProofs -------------------------
(***************************************************************************)
(* Proofs about module Communicator.                                       *)
(***************************************************************************)
EXTENDS Communicator, TLAPS

USE CommunicatorAssumption

\* The last consumer takes the queue with it; otherwise what it did not
\* acknowledge goes back.
LEMMA ConsumerEndsType ==
    ASSUME TypeOK, NEW c \in Channel, ConsumerEnds(c)
    PROVE  /\ consumers' \subseteq Channel /\ ready' \subseteq published /\ over' \subseteq published
           /\ unacked' \subseteq consumers' \X published /\ declared' = declared
<1>1. UnackedOf(c) \subseteq published BY DEF UnackedOf, TypeOK
<1>2. \A u \in unacked : u[1] # c => u \in consumers' \X published BY DEF ConsumerEnds, TypeOK
<1>3. unacked' \subseteq consumers' \X published BY <1>2 DEF ConsumerEnds
<1> QED BY <1>1, <1>3 DEF ConsumerEnds, TypeOK

\* The step of the counter.
LEMMA TriesStep ==
    ASSUME tries \in 0..GiveUp + 1, infinite \/ tries <= GiveUp,
           tries' = IF infinite THEN (tries + 1) % Reinit ELSE tries + 1,
           pc' = IF ~infinite /\ tries + 1 > GiveUp THEN "ended" ELSE "open"
    PROVE  tries' \in 0..GiveUp + 1 /\ (infinite \/ pc' = "ended" \/ tries' <= GiveUp)
<1>1. (tries + 1) % Reinit \in 0..Reinit - 1 OBVIOUS
<1> QED BY <1>1

LEMMA UnblockedType ==
    ASSUME TypeOK, NEW S \in SUBSET handlers, published' = published, handlers' = S
    PROVE  handlers' \subseteq Handler /\ \A h \in handlers' : h.msg \in published'
BY DEF TypeOK

LEMMA InitTyped == Init => TypeOK /\ Counted
<1> SUFFICES ASSUME Init PROVE TypeOK /\ Counted OBVIOUS
<1>1. tries \in 0..GiveUp + 1 /\ tries <= GiveUp /\ faults \in 0..MaxFaults BY DEF Init
<1>2. handled \in [Msg -> 0..2] BY DEF Init
<1>3. retry \in BOOLEAN /\ consuming \in BOOLEAN /\ overlap \in BOOLEAN /\ declared \in BOOLEAN BY DEF Init
<1> QED BY <1>1, <1>2, <1>3 DEF Init, TypeOK, Counted

LEMMA TypeStep ==
    ASSUME TypeOK, Counted, [Next]_vars
    PROVE  TypeOK' /\ Counted'
<1> USE DEF Counted
<1>1. ASSUME NEW m \in Msg, Publish(m) PROVE TypeOK' /\ Counted'
    BY <1>1 DEF TypeOK, Publish, loop, stop
<1>2. ASSUME NEW m \in Msg, NEW c \in consumers, Deliver(c, m) PROVE TypeOK' /\ Counted'
    <2>1. c \in Channel /\ m \in published BY <1>2 DEF TypeOK, Deliver
    <2>2. [msg |-> m, channel |-> c, pc |-> "process"] \in Handler BY <2>1 DEF Handler
    <2>3. handlers' \subseteq Handler BY <1>2, <2>2 DEF TypeOK, Deliver
    <2>4. \A h \in handlers' : h.msg \in published BY <1>2, <2>1 DEF TypeOK, Deliver
    <2>5. unacked' \subseteq consumers \X published BY <1>2, <2>1 DEF TypeOK, Deliver
    <2> QED BY <1>2, <2>3, <2>4, <2>5 DEF TypeOK, Deliver, loop, stop, history
<1>3. ASSUME NEW c \in consumers, Notice(c) PROVE TypeOK' /\ Counted'
    <2>1. c \in Channel BY DEF TypeOK
    <2>2. ConsumerEnds(c) BY <1>3 DEF Notice
    <2> QED BY <1>3, <2>1, <2>2, ConsumerEndsType DEF TypeOK, Notice, loop, stop
<1>4. ASSUME NEW h \in handlers, Process(h) PROVE TypeOK' /\ Counted'
    <2>1. h \in Handler /\ h.msg \in published BY DEF TypeOK
    <2>2. \A s \in {"failed", "ack"} : [h EXCEPT !.pc = s] \in Handler /\ [h EXCEPT !.pc = s].msg = h.msg
        BY <2>1 DEF Handler
    <2>3. handlers' \subseteq Handler /\ \A g \in handlers' : g.msg \in published
        BY <1>4, <2>1, <2>2 DEF TypeOK, Process
    <2>4. h.msg \in Msg BY <2>1 DEF Handler
    <2>5. handled' \in [Msg -> 0..2] BY <1>4, <2>4 DEF TypeOK, Process
    <2>6. unacked' \subseteq consumers \X published BY <1>4 DEF TypeOK, Process
    <2>7. over' \subseteq published BY <1>4, <2>1 DEF TypeOK, Process
    <2> QED BY <1>4, <2>3, <2>5, <2>6, <2>7 DEF TypeOK, Process, loop, stop
<1>5. ASSUME NEW h \in handlers, Ack(h) PROVE TypeOK' /\ Counted'
    BY <1>5 DEF TypeOK, Ack, loop, stop, history
<1>6. ASSUME NEW h \in handlers, ErrorReceived(h) PROVE TypeOK' /\ Counted'
    <2>1. channel \in Channel BY <1>6 DEF TypeOK, ErrorReceived, Consumed, Handler
    <2>2. Unblocked \in SUBSET handlers BY DEF Unblocked
    <2>3. handlers' \subseteq Handler /\ \A g \in handlers' : g.msg \in published'
        BY <1>6, <2>2, UnblockedType DEF ErrorReceived
    <2>4. /\ consumers' \subseteq Channel /\ ready' \subseteq published /\ over' \subseteq published
          /\ unacked' \subseteq consumers' \X published /\ declared' = declared
        <3>1. CASE ConsumerEnds(channel) BY <2>1, <3>1, ConsumerEndsType
        <3>2. CASE UNCHANGED <<bus, over>> BY <3>2 DEF TypeOK, bus
        <3> QED BY <1>6, <3>1, <3>2 DEF ErrorReceived
    <2>5. pc = "consume" /\ pc' \in {"sleep", "ended"} BY <1>6 DEF ErrorReceived, Consumed, Returned
    <2> QED BY <1>6, <2>1, <2>3, <2>4, <2>5 DEF TypeOK, ErrorReceived, stop
<1>7. CASE StartConsuming
    <2>1. channel' \in Channel BY <1>7 DEF StartConsuming, OpenChannel, Unused
    <2>2. overlap' \in BOOLEAN /\ declared' \in BOOLEAN BY <1>7, Zenon DEF StartConsuming
    <2>3. unacked' \subseteq consumers' \X published' BY <1>7 DEF TypeOK, StartConsuming
    <2> QED BY <1>7, <2>1, <2>2, <2>3 DEF TypeOK, StartConsuming, stop
<1>8. CASE StartFails
    <2>1. faults' \in 0..MaxFaults BY <1>8 DEF TypeOK, StartFails
    <2>2. pc' \in {"sleep", "ended"} BY <1>8 DEF StartFails, Returned
    <2> QED BY <1>8, <2>1, <2>2 DEF TypeOK, StartFails, stop, bus, history
<1>9. CASE EmptyDelivery
    <2>1. Unblocked \in SUBSET handlers BY DEF Unblocked
    <2>2. handlers' \subseteq Handler /\ \A g \in handlers' : g.msg \in published'
        BY <1>9, <2>1, UnblockedType DEF EmptyDelivery
    <2>3. failed' \subseteq Channel BY <1>9 DEF EmptyDelivery, TypeOK
    <2> QED BY <1>9, <2>2, <2>3 DEF TypeOK, EmptyDelivery, Returned, stop, bus
<1>10. CASE Wake
    <2>1. tries' \in 0..GiveUp + 1 /\ (infinite \/ pc' = "ended" \/ tries' <= GiveUp)
        BY <1>10, TriesStep DEF TypeOK, Wake
    <2>2. pc' \in {"open", "ended"} BY <1>10 DEF Wake
    <2>3. conn' \in {"none", "up", "broken"} /\ retry' \in BOOLEAN /\ consuming' \in BOOLEAN
        <3>1. CASE conn' = "none" /\ retry' = TRUE /\ consuming' = FALSE BY <3>1
        <3>2. CASE UNCHANGED <<conn, retry, consuming>> BY <3>2 DEF TypeOK
        <3> QED BY <1>10, <3>1, <3>2 DEF Wake
    <2>4. UNCHANGED <<infinite, channel, handlers, stop, bus, history, faults>> BY <1>10 DEF Wake
    <2> QED BY <2>1, <2>2, <2>3, <2>4 DEF TypeOK, stop, bus, history
<1>11. CASE Break
    BY <1>11 DEF TypeOK, Break, stop, bus, history
<1>12. CASE StopConsuming
    BY <1>12 DEF TypeOK, StopConsuming, bus, history
<1>13. CASE StopReceived
    <2>1. Unblocked \in SUBSET handlers BY DEF Unblocked
    <2>2. handlers' \subseteq Handler /\ \A g \in handlers' : g.msg \in published'
        BY <1>13, <2>1, UnblockedType DEF StopReceived
    <2>3. channel \in Channel BY <1>13 DEF StopReceived, TypeOK
    <2>4. /\ consumers' \subseteq Channel /\ ready' \subseteq published /\ over' \subseteq published
          /\ unacked' \subseteq consumers' \X published /\ declared' = declared
        <3>1. CASE ConsumerEnds(channel) BY <2>3, <3>1, ConsumerEndsType
        <3>2. CASE UNCHANGED <<bus, over>> BY <3>2 DEF TypeOK, bus
        <3> QED BY <1>13, <3>1, <3>2 DEF StopReceived
    <2> QED BY <1>13, <2>2, <2>4 DEF TypeOK, StopReceived, Returned
<1>14. CASE Exit
    BY <1>14 DEF TypeOK, Exit, stop, bus, history
<1>15. CASE ConsumeFails
    <2>1. channel' \in Channel BY <1>15 DEF ConsumeFails, OpenChannel, Unused
    <2>2. overlap' \in BOOLEAN /\ declared' \in BOOLEAN BY <1>15, Zenon DEF ConsumeFails, TypeOK
    <2>3. consumers' \subseteq Channel /\ unacked' \subseteq consumers' \X published'
        BY <1>15, <2>1 DEF TypeOK, ConsumeFails
    <2>4. faults' \in 0..MaxFaults BY <1>15 DEF TypeOK, ConsumeFails
    <2>5. pc = "open" /\ pc' \in {"sleep", "ended"} BY <1>15 DEF ConsumeFails, Returned
    <2> QED BY <1>15, <2>1, <2>2, <2>3, <2>4, <2>5 DEF TypeOK, ConsumeFails, stop
<1>16. CASE UNCHANGED vars
    BY <1>16 DEF TypeOK, vars, loop, stop, bus, history
<1> QED BY <1>1, <1>2, <1>3, <1>4, <1>5, <1>6, <1>7, <1>8, <1>9, <1>10, <1>11, <1>12, <1>13, <1>14,
           <1>15, <1>16 DEF Next

\* The loop, its counter and what RabbitMQ holds are well typed, whatever is
\* published and however connections break.
THEOREM TypeCorrect == Spec => []TypeOK
<1>1. Init => TypeOK /\ Counted BY InitTyped
<1>2. TypeOK /\ Counted /\ [Next]_vars => (TypeOK /\ Counted)' BY TypeStep
<1> QED BY <1>1, <1>2, PTL DEF Spec

-----------------------------------------------------------------------------
\* Without an overlap the consumer that ends is the last one.
LEMMA QueueEnds ==
    ASSUME OneHandler, NEW c, c \in consumers \/ (pc = "consume" /\ c = channel), ConsumerEnds(c)
    PROVE  ready' = {} /\ consumers' \subseteq consumers
BY DEF OneHandler, ConsumerEnds

\* Dropping handlers, and commands from the queue, does no harm.
LEMMA FewerHandlers ==
    ASSUME OneHandler, handlers' \subseteq handlers, ready' \subseteq ready,
           consumers' \subseteq consumers, UNCHANGED <<channel, published, handled>>,
           pc' = "consume" => pc = "consume"
    PROVE  OneHandler'
BY DEF OneHandler, Fresh

LEMMA OnceStep ==
    ASSUME TypeOK, OneHandler, [Next]_vars
    PROVE  overlap' \/ OneHandler'
<1>1. ASSUME NEW m \in Msg, Publish(m) PROVE OneHandler'
    BY <1>1 DEF OneHandler, Fresh, Publish, loop
<1>2. ASSUME NEW m \in Msg, NEW c \in consumers, Deliver(c, m) PROVE OneHandler'
    <2> DEFINE new == [msg |-> m, channel |-> c, pc |-> "process"]
    <2>1. new.msg = m /\ new.pc = "process" OBVIOUS
    <2>2. Fresh(m) /\ m \in published /\ m \notin ready' BY <1>2 DEF OneHandler, Deliver, TypeOK
    <2>3. handlers' \subseteq handlers \cup {new} BY <1>2 DEF Deliver
    <2>4. UNCHANGED <<pc, channel, consumers, published, handled>> /\ ready' \subseteq ready
        BY <1>2 DEF Deliver, loop, history
    <2> HIDE DEF new
    <2>5. \A g, h \in handlers' : g.msg = h.msg => g = h BY <2>1, <2>2, <2>3 DEF OneHandler, Fresh
    <2>6. \A h \in handlers' : h.pc # "ack" => handled'[h.msg] = 0
        BY <2>1, <2>2, <2>3, <2>4 DEF OneHandler, Fresh
    <2>7. \A k \in Msg : k \notin published' \/ k \in ready' => Fresh(k)'
        BY <2>1, <2>2, <2>3, <2>4 DEF OneHandler, Fresh
    <2> QED BY <2>4, <2>5, <2>6, <2>7 DEF OneHandler
<1>3. ASSUME NEW c \in consumers, Notice(c) PROVE OneHandler'
    <2>1. ConsumerEnds(c) /\ UNCHANGED <<pc, channel, handlers, published, handled>>
        BY <1>3 DEF Notice, loop
    <2> QED BY <2>1, QueueEnds, FewerHandlers
<1>4. ASSUME NEW h \in handlers, Process(h) PROVE OneHandler'
    <2>1. UNCHANGED <<pc, channel, consumers, ready, published>> BY <1>4 DEF Process, loop
    <2>2. h \in Handler /\ h.msg \in published /\ h.msg \in Msg BY DEF TypeOK, Handler
    <2>3. h.msg \notin ready /\ handled[h.msg] = 0
        BY <1>4, <2>2 DEF OneHandler, Fresh, Process
    <2>4. \A s \in {"failed", "ack"} : [h EXCEPT !.pc = s].msg = h.msg /\ [h EXCEPT !.pc = s].pc = s
        BY <2>2 DEF Handler
    <2>5. CASE h.msg \in Bad
        <3>1. PICK new : new.msg = h.msg /\ handlers' \subseteq (handlers \ {h}) \cup {new}
            BY <1>4, <2>4, <2>5 DEF Process
        <3>2. handled' = handled BY <1>4, <2>5 DEF Process
        <3> QED BY <2>1, <2>2, <2>3, <3>1, <3>2 DEF OneHandler, Fresh
    <2>6. CASE h.msg \notin Bad
        <3>1. PICK new : new.msg = h.msg /\ new.pc = "ack" /\ handlers' = (handlers \ {h}) \cup {new}
            BY <1>4, <2>4, <2>6 DEF Process
        <3>2. handled' = [handled EXCEPT ![h.msg] = 1] BY <1>4, <2>3, <2>6 DEF Process
        <3>3. handled'[h.msg] = 1 /\ \A k \in Msg \ {h.msg} : handled'[k] = handled[k]
            BY <2>2, <3>2 DEF TypeOK
        <3>4. \A g \in handlers \ {h} : g.msg # h.msg /\ g.msg \in Msg BY DEF OneHandler, TypeOK, Handler
        <3>5. \A k \in Msg : k \notin published' \/ k \in ready' => Fresh(k)'
            BY <2>1, <2>2, <2>3, <3>1, <3>3, <3>4 DEF OneHandler, Fresh
        <3>6. \A g, k \in handlers' : g.msg = k.msg => g = k BY <3>1, <3>4 DEF OneHandler
        <3>7. \A g \in handlers' : g.pc # "ack" => handled'[g.msg] = 0 BY <3>1, <3>3, <3>4 DEF OneHandler
        <3>8. \A k \in Msg : handled'[k] <= 1 BY <3>3 DEF OneHandler
        <3> QED BY <2>1, <3>5, <3>6, <3>7, <3>8 DEF OneHandler
    <2> QED BY <2>5, <2>6
<1>5. ASSUME NEW h \in handlers, Ack(h) PROVE OneHandler'
    BY <1>5, FewerHandlers DEF Ack, loop, history
<1>6. ASSUME NEW h \in handlers, ErrorReceived(h) PROVE OneHandler'
    <2>1. /\ handlers' \subseteq handlers /\ UNCHANGED <<channel, published, handled>>
          /\ pc = "consume" /\ pc' # "consume"
        BY <1>6 DEF ErrorReceived, Consumed, Returned, Unblocked
    <2>2. CASE ConsumerEnds(channel) BY <2>1, <2>2, QueueEnds, FewerHandlers
    <2>3. CASE UNCHANGED <<bus, over>> BY <2>1, <2>3, FewerHandlers DEF bus
    <2> QED BY <1>6, <2>2, <2>3 DEF ErrorReceived
<1>7. CASE StartConsuming
    BY <1>7 DEF OneHandler, Fresh, StartConsuming
<1>8. CASE StartFails
    BY <1>8, FewerHandlers DEF StartFails, Returned, bus, history
<1>9. CASE EmptyDelivery
    BY <1>9, FewerHandlers DEF EmptyDelivery, Returned, Unblocked, bus
<1>10. CASE Wake \/ Break
    BY <1>10, FewerHandlers DEF Wake, Break, bus, history
<1>11. CASE StopConsuming \/ Exit
    BY <1>11, FewerHandlers DEF StopConsuming, Exit, bus, history
<1>12. CASE StopReceived
    <2>1. /\ handlers' \subseteq handlers /\ UNCHANGED <<channel, published, handled>>
          /\ pc = "consume" /\ pc' # "consume"
        BY <1>12 DEF StopReceived, Returned, Unblocked
    <2>2. CASE ConsumerEnds(channel) BY <2>1, <2>2, QueueEnds, FewerHandlers
    <2>3. CASE UNCHANGED <<bus, over>> BY <2>1, <2>3, FewerHandlers DEF bus
    <2> QED BY <1>12, <2>2, <2>3 DEF StopReceived
<1>13. CASE ConsumeFails /\ ~overlap'
    <2>1. \A c, d \in consumers' : c = d BY <1>13 DEF OneHandler, ConsumeFails
    <2>2. pc' # "consume" /\ UNCHANGED <<handlers, ready, published, handled>>
        BY <1>13 DEF ConsumeFails, Returned
    <2> QED BY <2>1, <2>2 DEF OneHandler, Fresh
<1>14. CASE UNCHANGED vars
    BY <1>14, FewerHandlers DEF vars, loop, bus, history
<1> QED BY <1>1, <1>2, <1>3, <1>4, <1>5, <1>6, <1>7, <1>8, <1>9, <1>10, <1>11, <1>12, <1>13,
           <1>14 DEF Next

\* Two consumers at a time are remembered.
LEMMA OverlapStays ==
    ASSUME overlap, [Next]_vars
    PROVE  overlap'
BY DEF Next, vars, history, Publish, Deliver, Notice, Process, Ack, ErrorReceived, StartConsuming,
       StartFails, ConsumeFails, EmptyDelivery, Wake, Break, StopConsuming, StopReceived, Exit

\* No command is processed twice, for any commands, prefetch count and number
\* of faults, unless two consumers of the queue were there at a time: the queue
\* ends with its consumer, so that nothing is delivered again.
THEOREM CommandsAreHandledOnce == Spec => []HandledOnce
<1>1. Init => OnceInv
    <2> SUFFICES ASSUME Init PROVE OnceInv OBVIOUS
    <2>1. OneHandler BY DEF Init, OneHandler, Fresh
    <2> QED BY <2>1, InitTyped DEF OnceInv
<1>2. OnceInv /\ [Next]_vars => OnceInv'
    <2> SUFFICES ASSUME OnceInv, [Next]_vars PROVE OnceInv' OBVIOUS
    <2>1. TypeOK' /\ Counted' BY TypeStep DEF OnceInv
    <2>2. overlap' \/ OneHandler' BY OnceStep, OverlapStays DEF OnceInv
    <2> QED BY <2>1, <2>2 DEF OnceInv
<1>3. OnceInv => HandledOnce BY DEF OnceInv, OneHandler, HandledOnce
<1> QED BY <1>1, <1>2, <1>3, PTL DEF Spec
=============================================================================
