----------------------------- MODULE MCDrivers -----------------------------
(***************************************************************************)
(* Drivers for TLC; the bounds are in the configurations.                  *)
(***************************************************************************)
EXTENDS Drivers, TLC

\* The nodes are interchangeable; servers are numbered as they are launched.
Symmetry == Permutations(Node)
=============================================================================
