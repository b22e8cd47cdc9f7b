------------------------------- MODULE MCPipe -------------------------------
(***************************************************************************)
(* Model-checking instances of Pipe.                                       *)
(***************************************************************************)
EXTENDS Pipe, TLC

Symmetry == Permutations(Readers) \cup Permutations(Writers) \cup Permutations(Bytes)
=============================================================================
