---------------------------- MODULE MCContainers ----------------------------
EXTENDS Containers, TLC

\* every loan is the same customer's
MCOwner == [b \in Loan |-> CHOOSE c \in Customer : TRUE]

Symmetry == Permutations(Clerk) \cup Permutations(Loan) \cup Permutations(Kind)
=============================================================================
