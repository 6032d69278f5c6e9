--------------------------- MODULE NotifyChannel ----------------------------
(***************************************************************************)
(* What IoT Discovery promises of its availability notifications: each one *)
(* is sent until its subscriber acknowledged it.  A notification may reach *)
(* the subscriber more than once, and in any order with others.            *)
(***************************************************************************)

VARIABLES
    outstanding,   \* notifications not acknowledged yet
    received       \* notifications that reached their subscriber

Send == outstanding \subseteq outstanding' /\ UNCHANGED received

Receive ==
    \E n \in outstanding :
        /\ received' = received \cup {n}
        /\ outstanding' \in {outstanding, outstanding \ {n}}

ChannelInit == outstanding = {} /\ received = {}
ChannelNext == Send \/ Receive

\* Only a notification that was received leaves the channel, and only one
\* that was sent is received.
ChannelSafety == ChannelInit /\ [][ChannelNext]_<<outstanding, received>>
=============================================================================
