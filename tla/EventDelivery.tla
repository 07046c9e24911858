---------------------------- MODULE EventDelivery ----------------------------
(***************************************************************************)
(* What a producer of conversation events may rely on, whatever lies       *)
(* between it and the archive: the receiver takes one payload of an event  *)
(* and never another one, and an acknowledgement is given once, after the  *)
(* receiver has the payload, and names that payload.                       *)
(*                                                                         *)
(* ConversationOutbox implements it with files and a sink that may be      *)
(* answered twice, late or not at all.                                     *)
(***************************************************************************)

CONSTANTS
  Ids,          \* event ids
  Payloads,     \* payloads an event id may come with
  None          \* nothing stored, nothing acknowledged

VARIABLES
  stored,       \* the payload the receiver has of each event
  ack           \* the payload acknowledged to the producer

channel == <<stored, ack>>

Init ==
  /\ stored \in [Ids -> Payloads \cup {None}]
  /\ ack = [i \in Ids |-> None]

\* The first payload of an event wins.
Accept(i, p) ==
  /\ stored[i] = None
  /\ stored' = [stored EXCEPT ![i] = p]
  /\ UNCHANGED ack

\* The payload the receiver has is acknowledged, once.
Acknowledge(i) ==
  /\ stored[i] # None
  /\ ack[i] = None
  /\ ack' = [ack EXCEPT ![i] = stored[i]]
  /\ UNCHANGED stored

Next == \E i \in Ids : Acknowledge(i) \/ \E p \in Payloads : Accept(i, p)

Spec == Init /\ [][Next]_channel

=============================================================================
