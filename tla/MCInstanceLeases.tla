-------------------------- MODULE MCInstanceLeases --------------------------
(* Instances of InstanceLeases for TLC. Requests are interchangeable.         *)
EXTENDS InstanceLeases, TLC

Symmetry == Permutations(Tasks)

=============================================================================
