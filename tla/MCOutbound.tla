------------------------------ MODULE MCOutbound ------------------------------
(* Instances of Outbound for TLC.                                            *)
EXTENDS Outbound

CONSTANTS a, b, c

=============================================================================
