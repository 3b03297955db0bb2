------------------------------- MODULE MCServe -------------------------------
(***************************************************************************)
(* Small instances of Serve: the clients are model values, and the readers *)
(* are interchangeable.                                                    *)
(***************************************************************************)
EXTENDS Serve, TLC

Symmetry == Permutations(Readers)
=============================================================================
