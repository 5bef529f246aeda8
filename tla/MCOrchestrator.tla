--------------------------- MODULE MCOrchestrator ---------------------------
(***************************************************************************)
(* Orchestrator for TLC.  The nodes are interchangeable, which the safety  *)
(* runs use; the bounds are in the configurations.                         *)
(***************************************************************************)
EXTENDS Orchestrator, TLC

Symmetry == Permutations(Node)
=============================================================================
