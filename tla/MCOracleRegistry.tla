--------------------------- MODULE MCOracleRegistry ---------------------------
(* OracleRegistry on a small instance. *)
EXTENDS OracleRegistry, TLC

RegistrySymmetry == Permutations(Owners) \cup Permutations(Pairs) \cup Permutations(Contracts)
=============================================================================
