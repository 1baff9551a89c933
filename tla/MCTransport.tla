---------------------------- MODULE MCTransport ----------------------------
(* Instances of the publish path for TLC. *)
EXTENDS Transport
=============================================================================
