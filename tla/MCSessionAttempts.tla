------------------------- MODULE MCSessionAttempts -------------------------
(* A session with two runs, and one that is listed beside it and never runs. *)
EXTENDS SessionAttempts, TLC

CONSTANTS k1, k2, r1, r2

TwoRuns == r1 :> k1 @@ r2 :> k1
=============================================================================
