--------------------------- MODULE MCRunCoordination ---------------------------
(* Instances of RunCoordination for TLC. *)
EXTENDS RunCoordination, TLC

Symmetry == Permutations(Supervisors) \cup Permutations(Projects)
            \cup Permutations(Runs)
=============================================================================
