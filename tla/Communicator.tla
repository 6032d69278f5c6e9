---------------------------- MODULE Communicator ----------------------------
(***************************************************************************)
(* How a worker (and, with the same code, a master) gets its commands: the *)
(* loop of Worker.Start around StartConsuming and consume of               *)
(* common/communicator/communicator.go, and StopConsuming, which           *)
(* Worker.Quit calls.                                                      *)
(*                                                                         *)
(* Every delivery is handled by a goroutine.  A handler that fails sends   *)
(* its error on errorsChan, which ends consume and closes the channel.     *)
(* RabbitMQ is modelled from the way it is used: the queue is declared     *)
(* with "delete when unused", so that it is deleted with its last consumer *)
(* and all that it holds (one that never had a consumer stays); what is    *)
(* not acknowledged goes back to the queue when a consumer ends.  It may   *)
(* notice a broken connection long after the worker did.  The channels     *)
(* that StartConsuming opens have numbers, which are used again when       *)
(* nothing refers to them.                                                 *)
(***************************************************************************)
EXTENDS Naturals, FiniteSets

CONSTANTS
    Msg,           \* commands that are published, each once
    Bad,           \* those that cannot be decoded
    Prefetch,      \* the prefetch count of Qos, 3 in the code
    Reinit,        \* failures after which the communicator is made anew, 5
    GiveUp,        \* failures after which the loop ends, 10
    Channel,       \* bound: numbers for channels
    MaxFaults      \* bound: broken connections and failed attempts

ASSUME CommunicatorAssumption ==
    /\ Bad \subseteq Msg /\ Prefetch \in Nat \ {0}
    /\ Channel \subseteq Nat \ {0} /\ Reinit \in Nat \ {0} /\ GiveUp \in Nat /\ Reinit <= GiveUp
    /\ MaxFaults \in Nat

VARIABLES
    infinite,      \* config.Worker.InfiniteReconnectionTries
    pc,            \* the loop: "open", "consume", "sleep" or "ended"
    tries,         \* numConnectionFailure; modulo Reinit if the loop never ends
    conn,          \* the connection: "none", "up" or "broken"
    retry, consuming,
    channel,       \* the last channel, and with it stopChan and errorsChan
    handlers,      \* goroutines in consumeOne
    quit,          \* StopConsuming: "no", "blocked" or "done"
    stopChan,      \* the channel that it sends to
    consumers, ready, unacked,  \* RabbitMQ: of the queue
    declared,      \* RabbitMQ: the queue is there and never had a consumer
    published,
    handled,       \* history: how often each command was processed, up to twice
    over,          \* history: commands that were lost or refused
    failed,        \* history: channels whose consume ended with an error
    overlap,       \* history: two consumers at a time
    faults

loop == <<infinite, pc, tries, conn, retry, consuming, channel>>
stop == <<quit, stopChan>>
bus == <<consumers, ready, unacked, declared>>
history == <<published, handled, over, failed, overlap>>
vars == <<loop, handlers, stop, bus, history, faults>>

-----------------------------------------------------------------------------
(* RabbitMQ                                                                *)

\* A command is published; without a queue nobody gets it.
Publish(m) ==
    /\ m \notin published
    /\ published' = published \cup {m}
    /\ LET queue == consumers # {} \/ declared
       IN  /\ ready' = IF queue THEN ready \cup {m} ELSE ready
           /\ over' = IF queue THEN over ELSE over \cup {m}
    /\ UNCHANGED <<loop, handlers, stop, consumers, unacked, declared, handled, failed, overlap, faults>>

UnackedOf(c) == {m \in Msg : <<c, m>> \in unacked}

\* Variant: the queue outlives its consumers.
ConsumerEnds_queueStays(c) ==
    /\ consumers' = consumers \ {c}
    /\ unacked' = {u \in unacked : u[1] # c}
    /\ ready' = ready \cup UnackedOf(c)
    /\ UNCHANGED <<over, declared>>

\* Consumer c is gone.
ConsumerEnds(c) ==
    LET back == ready \cup UnackedOf(c)
        last == consumers \subseteq {c}
    IN  /\ consumers' = consumers \ {c}
        /\ unacked' = {u \in unacked : u[1] # c}
        /\ ready' = IF last THEN {} ELSE back
        /\ over' = IF last THEN over \cup back ELSE over
        /\ UNCHANGED declared

\* The channel can be used at the worker's end.
Open(c) == c = channel /\ pc = "consume" /\ conn = "up"

\* A command is sent to consumer c, and a goroutine is started for it, unless
\* nobody is there any more.
Deliver(c, m) ==
    /\ c \in consumers /\ m \in ready /\ Cardinality(UnackedOf(c)) < Prefetch
    /\ ready' = ready \ {m}
    /\ unacked' = unacked \cup {<<c, m>>}
    /\ handlers' = IF Open(c) THEN handlers \cup {[msg |-> m, channel |-> c, pc |-> "process"]} ELSE handlers
    /\ UNCHANGED <<loop, stop, consumers, declared, history, faults>>

\* RabbitMQ notices that consumer c is gone.
Notice(c) ==
    /\ c \in consumers /\ ~Open(c)
    /\ ConsumerEnds(c)
    /\ UNCHANGED <<loop, handlers, stop, published, handled, failed, overlap, faults>>

-----------------------------------------------------------------------------
(* consumeOne                                                              *)

\* consume still runs for the channel of handler h.
Consumed(h) == h.channel = channel /\ pc = "consume"

\* Process handles the command, or fails and waits until consume takes the
\* error, for ever if consume has returned.  A message that is no command at all
\* is refused (Nack) before; one whose payload cannot be decoded is
\* acknowledged after that, if the channel is not closed first.
Process(h) ==
    /\ h \in handlers /\ h.pc = "process"
    /\ IF h.msg \in Bad
       THEN /\ handlers' = (handlers \ {h}) \cup (IF Consumed(h) THEN {[h EXCEPT !.pc = "failed"]} ELSE {})
            /\ over' = over \cup {h.msg}
            /\ \E nack \in BOOLEAN :
                  unacked' = IF nack /\ Open(h.channel) THEN unacked \ {<<h.channel, h.msg>>} ELSE unacked
            /\ UNCHANGED handled
       ELSE /\ handlers' = (handlers \ {h}) \cup {[h EXCEPT !.pc = "ack"]}
            /\ handled' = [handled EXCEPT ![h.msg] = IF @ < 2 THEN @ + 1 ELSE @]
            /\ UNCHANGED <<over, unacked>>
    /\ UNCHANGED <<loop, stop, consumers, ready, declared, published, failed, overlap, faults>>

\* The acknowledgement, without effect when the channel is closed.
Ack(h) ==
    /\ h \in handlers /\ h.pc = "ack"
    /\ handlers' = handlers \ {h}
    /\ unacked' = IF Open(h.channel) THEN unacked \ {<<h.channel, h.msg>>} ELSE unacked
    /\ UNCHANGED <<loop, stop, consumers, ready, declared, history, faults>>

-----------------------------------------------------------------------------
(* The loop                                                                *)

\* When consume has returned, handlers that wait for it never go on.
Unblocked == {h \in handlers : h.pc # "failed"}

\* StartConsuming returns.
Returned == pc' = IF retry THEN "sleep" ELSE "ended"

Unused == Channel \ (consumers \cup {channel, stopChan} \cup {h.channel : h \in handlers})

OpenChannel == channel' \in Unused /\ \A c \in Unused : channel' <= c

\* A new connection, or the one there is if it works: a channel, the queue and
\* the consumer.  Until consume runs no command can be taken.
StartConsuming ==
    /\ pc = "open" /\ conn # "broken"
    /\ pc' = "consume" /\ conn' = "up"
    /\ consuming' = TRUE
    /\ OpenChannel
    /\ consumers' = consumers \cup {channel'} /\ declared' = FALSE
    /\ failed' = failed \ {channel'}
    /\ overlap' = (overlap \/ consumers # {})
    /\ UNCHANGED <<infinite, tries, retry, handlers, stop, ready, unacked,
                   published, handled, over, faults>>

\* RabbitMQ cannot be reached, or the connection is the broken one, which
\* nothing replaces before the communicator is made anew.
StartFails ==
    /\ pc = "open"
    /\ \/ conn = "broken" /\ UNCHANGED faults
       \/ conn = "none" /\ faults < MaxFaults /\ faults' = faults + 1
    /\ consuming' = FALSE
    /\ Returned
    /\ UNCHANGED <<infinite, tries, conn, retry, channel, handlers, stop, bus, history>>

\* Qos or Consume fails, when the queue is declared and stopChan is a new one:
\* "consuming" stays as it was, and RabbitMQ may have the consumer already.
ConsumeFails ==
    /\ pc = "open" /\ conn # "broken" /\ faults < MaxFaults
    /\ faults' = faults + 1
    /\ conn' = "broken"
    /\ OpenChannel
    /\ failed' = failed \cup {channel'}
    /\ \/ /\ consumers' = consumers \cup {channel'} /\ declared' = FALSE
          /\ overlap' = (overlap \/ consumers # {})
       \/ declared' = (consumers = {}) /\ UNCHANGED <<consumers, overlap>>
    /\ Returned
    /\ UNCHANGED <<infinite, tries, retry, consuming, handlers, stop, ready, unacked,
                   published, handled, over>>

\* Variant: the error is logged and consume goes on.
ErrorReceived_ignored(h) ==
    /\ h \in handlers /\ h.pc = "failed" /\ Consumed(h)
    /\ handlers' = handlers \ {h}
    /\ UNCHANGED <<loop, stop, bus, history, faults>>

\* consume takes the error of a handler and returns; the channel is closed.
ErrorReceived(h) ==
    /\ h \in handlers /\ h.pc = "failed" /\ Consumed(h)
    /\ handlers' = Unblocked
    /\ failed' = failed \cup {channel}
    /\ IF conn = "up" THEN ConsumerEnds(channel) ELSE UNCHANGED <<bus, over>>
    /\ Returned
    /\ UNCHANGED <<infinite, tries, conn, retry, consuming, channel, stop, published, handled, overlap, faults>>

\* The connection is lost: deliveries is closed and gives empty messages, of
\* which the first one that is handled ends consume.
EmptyDelivery ==
    /\ pc = "consume" /\ conn = "broken"
    /\ handlers' = Unblocked
    /\ failed' = failed \cup {channel}
    /\ Returned
    /\ UNCHANGED <<infinite, tries, conn, retry, consuming, channel, stop, bus,
                   published, handled, over, overlap, faults>>

\* Variant: the communicator is never made anew.
Wake_same ==
    /\ pc = "sleep"
    /\ LET n == tries + 1
       IN  /\ tries' = IF infinite THEN n % Reinit ELSE n
           /\ pc' = IF ~infinite /\ n > GiveUp THEN "ended" ELSE "open"
           /\ UNCHANGED <<conn, retry, consuming>>
    /\ UNCHANGED <<infinite, channel, handlers, stop, bus, history, faults>>

\* Variant: nobody counts.
Wake_forever ==
    /\ pc = "sleep"
    /\ LET n == tries + 1
       IN  /\ tries' = IF infinite THEN n % Reinit ELSE n
           /\ pc' = "open"
           /\ IF n % Reinit = 0 THEN conn' = "none" /\ retry' = TRUE /\ consuming' = FALSE
              ELSE UNCHANGED <<conn, retry, consuming>>
    /\ UNCHANGED <<infinite, channel, handlers, stop, bus, history, faults>>

\* After five seconds the loop goes on, now and then with a new communicator.
Wake ==
    /\ pc = "sleep"
    /\ LET n == tries + 1
       IN  /\ tries' = IF infinite THEN n % Reinit ELSE n
           /\ pc' = IF ~infinite /\ n > GiveUp THEN "ended" ELSE "open"
           /\ IF n % Reinit = 0 THEN conn' = "none" /\ retry' = TRUE /\ consuming' = FALSE
              ELSE UNCHANGED <<conn, retry, consuming>>
    /\ UNCHANGED <<infinite, channel, handlers, stop, bus, history, faults>>

\* The connection breaks.
Break ==
    /\ conn = "up" /\ faults < MaxFaults
    /\ faults' = faults + 1
    /\ conn' = "broken"
    /\ UNCHANGED <<infinite, pc, tries, retry, consuming, channel, handlers, stop, bus, history>>

-----------------------------------------------------------------------------
(* Worker.Quit                                                             *)

\* StopConsuming: it sends on stopChan if the loop seems to consume.
StopConsuming ==
    /\ quit = "no"
    /\ retry' = FALSE
    /\ quit' = IF consuming THEN "blocked" ELSE "done"
    /\ stopChan' = channel
    /\ UNCHANGED <<infinite, pc, tries, conn, consuming, channel, handlers, bus, history, faults>>

\* Variant: consume looks at the flag, and nobody receives.
StopReceived_flag ==
    /\ pc = "consume" /\ ~retry /\ quit = "blocked" /\ stopChan = channel
    /\ pc' = "ended"
    /\ IF conn = "up" THEN ConsumerEnds(channel) ELSE UNCHANGED <<bus, over>>
    /\ UNCHANGED <<infinite, tries, conn, retry, consuming, channel, handlers, stop,
                   published, handled, failed, overlap, faults>>

\* consume receives from stopChan and returns; the channel is closed.
StopReceived ==
    /\ pc = "consume" /\ quit = "blocked" /\ stopChan = channel
    /\ quit' = "done"
    /\ handlers' = Unblocked
    /\ Returned
    /\ IF conn = "up" THEN ConsumerEnds(channel) ELSE UNCHANGED <<bus, over>>
    /\ UNCHANGED <<infinite, tries, conn, retry, consuming, channel, stopChan,
                   published, handled, failed, overlap, faults>>

\* Shutdown is done and the process ends.
Exit ==
    /\ quit = "done" /\ (pc # "ended" \/ handlers # {})
    /\ pc' = "ended"
    /\ handlers' = {}
    /\ conn' = "none"
    /\ UNCHANGED <<infinite, tries, retry, consuming, channel, stop, bus, history, faults>>

-----------------------------------------------------------------------------
Init ==
    /\ infinite \in BOOLEAN
    /\ pc = "open" /\ tries = 0 /\ conn = "none"
    /\ retry = TRUE /\ consuming = FALSE
    /\ channel = 0
    /\ handlers = {}
    /\ quit = "no" /\ stopChan = 0
    /\ consumers = {} /\ ready = {} /\ unacked = {} /\ declared = FALSE
    /\ published = {}
    /\ handled = [m \in Msg |-> 0]
    /\ over = {} /\ failed = {} /\ overlap = FALSE
    /\ faults = 0

Next ==
    \/ \E m \in Msg : Publish(m) \/ \E c \in consumers : Deliver(c, m)
    \/ \E c \in consumers : Notice(c)
    \/ \E h \in handlers : Process(h) \/ Ack(h) \/ ErrorReceived(h)
    \/ StartConsuming \/ StartFails \/ ConsumeFails \/ EmptyDelivery \/ Wake \/ Break
    \/ StopConsuming \/ StopReceived \/ Exit

\* Goroutines run, timers fire, RabbitMQ delivers and notices in the end.
Fairness ==
    /\ WF_vars(\E c \in consumers, m \in Msg : Deliver(c, m))
    /\ WF_vars(\E c \in consumers : Notice(c))
    /\ WF_vars(\E h \in handlers : Process(h)) /\ WF_vars(\E h \in handlers : Ack(h))
    /\ WF_vars(\E h \in handlers : ErrorReceived(h))
    /\ WF_vars(StartConsuming \/ StartFails \/ ConsumeFails) /\ WF_vars(EmptyDelivery) /\ WF_vars(Wake)
    /\ WF_vars(StopReceived) /\ WF_vars(Exit)

Spec == Init /\ [][Next]_vars /\ Fairness

-----------------------------------------------------------------------------
Handler == [msg : Msg, channel : Channel, pc : {"process", "failed", "ack"}]

\* Shapes of the state; in particular the loop that may end does so.
TypeOK ==
    /\ infinite \in BOOLEAN /\ pc \in {"open", "consume", "sleep", "ended"}
    /\ tries \in 0..GiveUp + 1 /\ conn \in {"none", "up", "broken"}
    /\ retry \in BOOLEAN /\ consuming \in BOOLEAN
    /\ channel \in Channel \cup {0} /\ consumers \subseteq Channel
    /\ pc = "consume" => channel \in Channel
    /\ handlers \subseteq Handler /\ \A h \in handlers : h.msg \in published
    /\ quit \in {"no", "blocked", "done"} /\ stopChan \in Channel \cup {0}
    /\ published \subseteq Msg /\ ready \subseteq published /\ over \subseteq published
    /\ unacked \subseteq consumers \X published /\ declared \in BOOLEAN
    /\ handled \in [Msg -> 0..2] /\ failed \subseteq Channel /\ overlap \in BOOLEAN
    /\ faults \in 0..MaxFaults

\* What keeps the counter in its range.
Counted == infinite \/ pc = "ended" \/ tries <= GiveUp

\* No command is processed twice, although channels are closed under handlers
\* that run and what they did not acknowledge goes back to the queue, unless
\* RabbitMQ still had the old consumer when the worker was back.
HandledOnce == overlap \/ \A m \in Msg : handled[m] <= 1

\* The inductive invariant behind it: without an overlap RabbitMQ knows one
\* consumer only, so that nothing goes back to the queue; a command is published
\* once, has one handler at most, and is processed by no one before that.
Fresh(m) == handled[m] = 0 /\ \A h \in handlers : h.msg # m

OneHandler ==
    /\ \A c, d \in consumers : c = d
    /\ pc = "consume" => consumers \subseteq {channel}
    /\ \A m \in Msg : m \notin published \/ m \in ready => Fresh(m)
    /\ \A g, h \in handlers : g.msg = h.msg => g = h
    /\ \A h \in handlers : h.pc # "ack" => handled[h.msg] = 0
    /\ \A m \in Msg : handled[m] <= 1

OnceInv == TypeOK /\ Counted /\ (overlap \/ OneHandler)

\* Every command is processed, refused, or lost with the queue: failing
\* handlers never use up the prefetch count, and no queue is left without a
\* consumer that takes from it, unless the loop ended before there was one.
NoCommandWaits ==
    \A m \in Msg : (m \in published) ~> (handled[m] > 0 \/ m \in over \/ (pc = "ended" /\ declared))

\* A worker that has lost RabbitMQ gets back to it, unless it was told to stop
\* or has given up, which it does only if it is configured so.
Recovers == (pc # "consume") ~> (pc = "consume" \/ quit # "no" \/ (pc = "ended" /\ ~infinite))

\* StopConsuming returns, unless the consume that it addresses ends with an
\* error, before or after: then nobody receives from stopChan any more.
StopReturns == (quit = "blocked") ~> (quit = "done" \/ stopChan \in failed)
=============================================================================
