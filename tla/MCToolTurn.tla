----------------------------- MODULE MCToolTurn -----------------------------
(* Small instances of ToolTurn for TLC.                                      *)
EXTENDS ToolTurn

Symmetry == Permutations(Turns) \cup Permutations(Inputs)
=============================================================================
