-------------------------- MODULE MCSharedPointer --------------------------
(* SharedPointer with small sets of model values. *)
EXTENDS SharedPointerProofs, TLC

Symmetry == Permutations(Threads) \cup Permutations(Handles)
            \cup Permutations(Objects) \cup Permutations(Blocks)
=============================================================================
