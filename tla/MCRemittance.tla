---------------------------- MODULE MCRemittance ----------------------------
EXTENDS Remittance, TLC

\* every payment pays the same credit line
MCLineOf == [p \in Payment |-> CHOOSE l \in Line : TRUE]

Symmetry == Permutations(Worker) \cup Permutations(Payment)
=============================================================================
