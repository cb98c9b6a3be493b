------------------------------ MODULE MCDelivery ------------------------------
(* Instances of Delivery for TLC. *)
EXTENDS Delivery, TLC

Symmetry == Permutations(Deliveries) \cup Permutations(Threads)
=============================================================================
