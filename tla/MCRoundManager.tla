--------------------------- MODULE MCRoundManager ---------------------------
(* RoundManager, with its history, on a small instance. *)
EXTENDS RoundHistory, TLC

OwnerSymmetry == Permutations(Owners)
=============================================================================
