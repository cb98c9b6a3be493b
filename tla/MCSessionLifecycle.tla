-------------------------- MODULE MCSessionLifecycle --------------------------
(* Instances of SessionLifecycle for TLC. *)
EXTENDS SessionLifecycle, TLC

Symmetry == Permutations(Sessions)
=============================================================================
