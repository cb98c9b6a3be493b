---------------------------- MODULE MCTaskLedger ----------------------------
EXTENDS TaskLedgerInvariants, TLC
Symmetry ==
    Permutations(Tasks) \cup Permutations(Assignments \ FaultyWorktrees)
        \cup Permutations(IntegrateOps)
=============================================================================
