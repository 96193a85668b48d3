------------------------------ MODULE MCInbound ------------------------------
(* Instances of Inbound for TLC: what is published, at which QoS and where.  *)
EXTENDS Inbound

MixedQoS == <<2, 2, 1, 0>>
TwoTopics == <<"a", "b", "a", "a">>
OneQoS2 == <<2>>
OneOnA == <<"a">>

=============================================================================
