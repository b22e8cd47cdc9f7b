------------------------------ MODULE MCFiles ------------------------------
(***************************************************************************)
(* A model-checking instance of Files.                                     *)
(***************************************************************************)
EXTENDS Files, TLC

Symmetry == Permutations(FProcs)
=============================================================================
