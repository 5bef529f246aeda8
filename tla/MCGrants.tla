------------------------------ MODULE MCGrants ------------------------------
(***************************************************************************)
(* Grants for TLC; the bounds are in the configurations.                   *)
(***************************************************************************)
EXTENDS Grants, TLC
=============================================================================
