---------------------------- MODULE MCOrderbook ----------------------------
(* Orderbook on a few orders at a few prices. *)
EXTENDS Orderbook, TLC

Symmetry == Permutations(Ids)
=============================================================================
