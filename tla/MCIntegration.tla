--------------------------- MODULE MCIntegration ---------------------------
EXTENDS Integration, TLC
CONSTANTS a1, a2
\* The second submission conflicts with the operator's own commits.
OperatorClash == {{Operator, a2}}
Symmetry == Permutations(Operations)
=============================================================================
