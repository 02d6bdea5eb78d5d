---------------------------- MODULE MCSoftDelete ----------------------------
EXTENDS SoftDelete, TLC

Symmetry == Permutations(Request) \cup Permutations(Customer)
=============================================================================
