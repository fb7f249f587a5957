---------------------------- MODULE MCEmployment ----------------------------
\* Employment for TLC: sessions and places are interchangeable.
EXTENDS Employment, TLC

Symmetry == Permutations(Sessions) \cup Permutations(Places)
=============================================================================
