---------------------------- MODULE MCTasksRunner ----------------------------
(* TasksRunner on a small instance. *)
EXTENDS TasksRunner, TLC

OwnerSymmetry == Permutations(Owners)
=============================================================================
