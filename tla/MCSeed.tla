------------------------------- MODULE MCSeed -------------------------------
EXTENDS Seed, TLC

Symmetry == Permutations(Runs) \cup Permutations(Entries)
=============================================================================
