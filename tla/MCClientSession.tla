---------------------------- MODULE MCClientSession ----------------------------
(* Instances of ClientSession for TLC.                                       *)
EXTENDS ClientSession

CONSTANTS s1, s2

Own == (s1 :> "f" @@ s2 :> "g")
Own1 == (s1 :> "f")
Once == (s1 :> 1)
OneRestart == (s1 :> 2 @@ s2 :> 1)

=============================================================================
