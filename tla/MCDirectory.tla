---------------------------- MODULE MCDirectory ----------------------------
EXTENDS Directory, TLC

Symmetry == Permutations(Request) \cup Permutations(Customer)
=============================================================================
