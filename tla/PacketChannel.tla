----------------------------- MODULE PacketChannel -----------------------------
(***************************************************************************)
(* What the reading side promises, without bytes: the packets the broker   *)
(* sent are handed over one at a time, in order, each once and unchanged.  *)
(* The channel closes only at a packet that is above the limit, which is   *)
(* not handed over, or behind one that the client does not accept.         *)
(***************************************************************************)
EXTENDS Sequences, Naturals

VARIABLES
  sent,     \* [packet, oversized, accepted] records
  received, \* packets
  open

Upcoming == sent[Len(received) + 1]
Pending == open /\ Len(received) < Len(sent)

Init == received = <<>> /\ open = TRUE

Receive ==
  /\ Pending /\ ~Upcoming.oversized
  /\ received' = Append(received, Upcoming.packet)
  /\ open' = Upcoming.accepted
  /\ UNCHANGED sent

Reject ==
  /\ Pending /\ Upcoming.oversized
  /\ open' = FALSE
  /\ UNCHANGED <<sent, received>>

Spec == Init /\ [][Receive \/ Reject]_<<sent, received, open>>

=============================================================================
