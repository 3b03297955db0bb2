---------------------------- MODULE MCIncremental ----------------------------
(***************************************************************************)
(* Small instances of Incremental: the Builders and the keys are model     *)
(* values, interchangeable among themselves.                               *)
(***************************************************************************)
EXTENDS Incremental, TLC

Symmetry == Permutations(Builders) \cup Permutations(Keys)
=============================================================================
