--------------------------- MODULE MCCustomVector ---------------------------
(* CustomVector with a few vectors and buffers. *)
EXTENDS CustomVector, TLC

Symmetry == Permutations(Vectors) \cup Permutations(Buffers) \cup Permutations(Values)
=============================================================================
