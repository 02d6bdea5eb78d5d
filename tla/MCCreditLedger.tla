--------------------------- MODULE MCCreditLedger ---------------------------
EXTENDS CreditLedger, TLC

\* every line is owed by the same customer
MCOwner == [l \in Line |-> CHOOSE c \in Customer : TRUE]

Symmetry == Permutations(Clerk) \cup Permutations(Line)
=============================================================================
