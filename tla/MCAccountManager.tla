-------------------------- MODULE MCAccountManager --------------------------
(* AccountManager with two accounts. *)
EXTENDS AccountManager, TLC

Symmetry == Permutations(Accounts)
=============================================================================
