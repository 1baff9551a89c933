---------------------------- MODULE MCDelivery ----------------------------
(* Instances of devices and bus for TLC. *)
EXTENDS Delivery

CONSTANTS k1, k2, c1, c2

\* One connection slot per device.
MCOwner == [k \in Conn |-> IF k = k1 THEN c1 ELSE c2]
OneDevice == [k \in Conn |-> c1]
=============================================================================
