------------------------- MODULE MCSessionRotation -------------------------
(* Small instances of SessionRotation for TLC: a tick stands for a few       *)
(* seconds or minutes; only the order of the limits matters.                 *)
EXTENDS SessionRotation, TLC

CONSTANTS c1, c2

OneCall == {c1}
TwoCalls == {c1, c2}
AnyCall == Permutations(Calls)
=============================================================================
