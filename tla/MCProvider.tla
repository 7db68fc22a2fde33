----------------------------- MODULE MCProvider -----------------------------
EXTENDS Provider, TLC

Symmetry == Permutations(Presence)
=============================================================================
