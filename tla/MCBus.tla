------------------------------ MODULE MCBus ------------------------------
(* Instances of the bus for TLC. *)
EXTENDS Bus, TLC

Symmetry == Permutations(Consumer) \cup Permutations(Conn) \cup Permutations(Id)
SymmetrySubjects == Permutations(Consumer) \cup Permutations(Subject)
=============================================================================
