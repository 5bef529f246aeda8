------------------------------ MODULE MCRuntime ------------------------------
(***************************************************************************)
(* Runtime for TLC; the bounds are in the configurations.                  *)
(***************************************************************************)
EXTENDS Runtime, TLC
=============================================================================
