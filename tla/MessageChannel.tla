-------------------------- MODULE MessageChannel --------------------------
(***************************************************************************)
(* What one hardware mailbox promises the two CPUs it connects: a channel  *)
(* that holds at most one message, hands over each message it accepted     *)
(* once, whole and in order, and refuses a message while it holds one.     *)
(* When the receiver has its interrupt enabled as well, the channel is     *)
(* lossy: a message it holds can vanish.                                   *)
(* Mailbox is the device and its driver; DecoderPipeline uses four         *)
(* channels in their place.                                                *)
(***************************************************************************)
EXTENDS Integers, Sequences

CONSTANTS Messages, Empty

VARIABLES
  channel,    \* the message in the channel, or Empty
  delivered,  \* the messages the receiver has taken, in order
  lossy       \* the receiver's interrupt routine reads the channel too

channelVars == <<channel, delivered, lossy>>

Init == channel = Empty /\ delivered = << >> /\ lossy \in BOOLEAN

Post(m) ==
  /\ channel = Empty
  /\ channel' = m
  /\ UNCHANGED <<delivered, lossy>>

Take ==
  /\ channel # Empty
  /\ delivered' = Append(delivered, channel)
  /\ channel' = Empty
  /\ UNCHANGED lossy

Lose ==
  /\ lossy /\ channel # Empty
  /\ channel' = Empty
  /\ UNCHANGED <<delivered, lossy>>

Next == Take \/ Lose \/ \E m \in Messages : Post(m)

Spec == Init /\ [][Next]_channelVars /\ WF_channelVars(Take)
=============================================================================
