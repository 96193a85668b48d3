----------------------------- MODULE MCKeepalive -----------------------------
(* Instances of Keepalive for TLC.                                          *)
EXTENDS Keepalive

CONSTANTS a, b

=============================================================================
