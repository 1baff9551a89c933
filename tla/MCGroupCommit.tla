--------------------------- MODULE MCGroupCommit ---------------------------
(* Instances of the commit protocol for TLC. *)
EXTENDS GroupCommit, TLC

Symmetry == Permutations(Founder) \cup Permutations(Device \ Founder)

Orderly2 == [timely |-> TRUE, lockstep |-> TRUE, storeFails |-> FALSE, faults |-> 2]
Orderly1 == [Orderly2 EXCEPT !.faults = 1]
Unruly1 == [timely |-> FALSE, lockstep |-> FALSE, storeFails |-> TRUE, faults |-> 1]

SafeRegimes == {Orderly2, Unruly1}
LiveRegimes == {Orderly1}
=============================================================================
