---------------------------- MODULE MCSupporters ----------------------------
(* Supporters on a small instance. *)
EXTENDS Supporters, TLC

OwnerSymmetry == Permutations(Owners)
=============================================================================
