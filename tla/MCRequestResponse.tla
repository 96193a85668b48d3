--------------------------- MODULE MCRequestResponse ---------------------------
(* Instances of RequestResponse for TLC: which calls share a response topic  *)
(* and which of them its correlation data too.                               *)
EXTENDS RequestResponse

CONSTANTS r1, r2, r3

Shared == (r1 :> "t" @@ r2 :> "t" @@ r3 :> "t")
SameCorr == (r1 :> "x" @@ r2 :> "y" @@ r3 :> "x")

=============================================================================
