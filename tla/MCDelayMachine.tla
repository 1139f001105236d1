--------------------------- MODULE MCDelayMachine ---------------------------
(* DelayMachine on a small instance. *)
EXTENDS DelayMachine, TLC

OwnerSymmetry == Permutations(Owners)
=============================================================================
