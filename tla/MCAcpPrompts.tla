---------------------------- MODULE MCAcpPrompts ----------------------------
(* Instances of AcpPrompts for TLC. Prompts and sessions are interchangeable. *)
EXTENDS AcpPrompts, TLC

Symmetry == Permutations(Tasks) \cup Permutations(Sessions)

=============================================================================
