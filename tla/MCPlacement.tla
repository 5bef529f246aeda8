---------------------------- MODULE MCPlacement ----------------------------
(***************************************************************************)
(* Placement for TLC; the bounds are in the configurations.                *)
(***************************************************************************)
EXTENDS Placement, TLC
=============================================================================
