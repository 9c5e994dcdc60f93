-------------------------- MODULE MCHarnessSessions --------------------------
(* Instances of HarnessSessions for TLC. Tasks are interchangeable, and so are *)
(* session IDs.                                                                *)
EXTENDS HarnessSessions, TLC

Symmetry == Permutations(Tasks) \cup Permutations(Ids)

=============================================================================
