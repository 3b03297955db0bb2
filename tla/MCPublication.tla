---------------------------- MODULE MCPublication ----------------------------
(***************************************************************************)
(* Small instances of Publication: the processes are model values, and     *)
(* those of one kind are interchangeable.                                  *)
(***************************************************************************)
EXTENDS Publication, TLC

Symmetry == Permutations(Builders) \cup Permutations(Operators)
=============================================================================
