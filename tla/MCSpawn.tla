------------------------------- MODULE MCSpawn -------------------------------
(* A small run of Spawn for model checking. *)
EXTENDS Spawn, TLC

CONSTANTS o1, o2, t1, t2, a1, a2, worker, writer

Limits == [role \in Roles |-> IF role = worker THEN 1 ELSE 2]

Symmetry ==
    Permutations(Operations) \cup Permutations(Agents) \cup Permutations(Tasks)
=============================================================================
