-------------------------------- MODULE MCBio --------------------------------
(* Small instances of Bio for TLC. *)
EXTENDS Bio, TLC

Symmetry == Permutations(Procs) \cup Permutations(Bufs) \cup Permutations(Good) \cup Permutations(Vals)
=============================================================================
