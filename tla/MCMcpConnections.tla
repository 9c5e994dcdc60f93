--------------------------- MODULE MCMcpConnections ---------------------------
(* Instances of McpConnections for TLC. Tasks are interchangeable.             *)
EXTENDS McpConnections, TLC

Symmetry == Permutations(Tasks)

=============================================================================
