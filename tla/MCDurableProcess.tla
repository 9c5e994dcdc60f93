--------------------------- MODULE MCDurableProcess ---------------------------
(* Instances of DurableProcess for TLC. Processes are interchangeable, and so   *)
(* are clients: the store's order of processes decides nothing in the model.    *)
EXTENDS DurableProcess, TLC

Symmetry == Permutations(Procs) \cup Permutations(Clients)

==============================================================================
