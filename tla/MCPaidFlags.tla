----------------------------- MODULE MCPaidFlags -----------------------------
EXTENDS PaidFlags, TLC

Symmetry == Permutations(User) \cup Permutations(Remittance)
=============================================================================
