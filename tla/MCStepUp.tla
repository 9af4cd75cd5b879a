----------------------------- MODULE MCStepUp -----------------------------
(***************************************************************************)
(* Small instances of StepUp.                                              *)
(***************************************************************************)
EXTENDS StepUp, TLC

CONSTANTS r1, r2, g1

OneGroup == [r \in Runs |-> g1]

\* handleBulkAction awaits one item before it runs the next.
Loop == (r1 :> None) @@ (r2 :> r1)
=============================================================================
