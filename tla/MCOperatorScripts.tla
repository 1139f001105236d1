------------------------- MODULE MCOperatorScripts --------------------------
EXTENDS OperatorScripts, TLC

TerminalSymmetry == Permutations(Terminals)
=============================================================================
