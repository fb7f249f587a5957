------------------------------- MODULE MCPips -------------------------------
(* Instances of Pips for TLC. *)
EXTENDS Pips, TLC

Symmetry == Permutations(Sessions)
=============================================================================
