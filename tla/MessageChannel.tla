--------------------------- MODULE MessageChannel ---------------------------
(***************************************************************************)
(* What RTMessageQueue promises its two users: a bounded first-in first-   *)
(* out channel of whole messages, used in atomic steps.                    *)
(***************************************************************************)
EXTENDS Integers, Sequences

CONSTANTS
  Message,     \* the messages the producer sends
  NoMessage,   \* what a consumer that received nothing holds
  Capacity     \* how many messages fit

VARIABLES
  channel,     \* the messages on their way, first sent first
  doomed,      \* how many of them the clear() under way drops
  sendResult,  \* what the last trySend returned, "none" while one runs
  received     \* the last message tryReceive delivered

vars == <<channel, doomed, sendResult, received>>

Init == channel = <<>> /\ doomed = 0 /\ sendResult = "none" /\ received = NoMessage

CallSend == sendResult' = "none" /\ UNCHANGED <<channel, doomed, received>>

Send(m) ==
  /\ Len(channel) < Capacity
  /\ channel' = Append(channel, m)
  /\ sendResult' = "sent"
  /\ UNCHANGED <<doomed, received>>

\* Only a full channel refuses a message.
Refuse ==
  /\ Len(channel) = Capacity
  /\ sendResult' = "full"
  /\ UNCHANGED <<channel, doomed, received>>

\* The consumer receives only while it does not clear.
Receive ==
  /\ doomed = 0
  /\ channel # <<>>
  /\ received' = Head(channel)
  /\ channel' = Tail(channel)
  /\ UNCHANGED <<doomed, sendResult>>

\* clear() drops all that is on its way when it begins, and no later message.
Clear ==
  /\ doomed = 0
  /\ doomed' = Len(channel)
  /\ UNCHANGED <<channel, sendResult, received>>

Drop ==
  /\ channel' = SubSeq(channel, doomed + 1, Len(channel))
  /\ doomed' = 0
  /\ UNCHANGED <<sendResult, received>>

Next == CallSend \/ Refuse \/ Receive \/ Clear \/ Drop \/ \E m \in Message : Send(m)

Spec == Init /\ [][Next]_vars
=============================================================================
