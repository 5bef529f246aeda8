---------------------------- MODULE MCLifecycle ----------------------------
(***************************************************************************)
(* Instances of Lifecycle for TLC.                                         *)
(***************************************************************************)
EXTENDS Lifecycle, TLC

\* Commands are told apart only by whether their guards may fail and by what
\* they choose to do.
Symmetry == Permutations(Command \ Fallible)
=============================================================================
