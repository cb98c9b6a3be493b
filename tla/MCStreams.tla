------------------------------ MODULE MCStreams ------------------------------
(* Instances of Streams for TLC. *)
EXTENDS Streams, TLC
=============================================================================
