----------------------------- MODULE MCPosture -----------------------------
(***************************************************************************)
(* Posture for TLC; the bounds are in the configuration.                   *)
(***************************************************************************)
EXTENDS Posture, TLC

\* The operator's addresses are interchangeable.
Symmetry == Permutations(Place)
=============================================================================
