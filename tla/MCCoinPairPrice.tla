-------------------------- MODULE MCCoinPairPrice ---------------------------
(* CoinPairPrice on a small instance. *)
EXTENDS CoinPairPrice, TLC

OwnerSymmetry == Permutations(Owners)
=============================================================================
