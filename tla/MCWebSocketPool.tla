--------------------------- MODULE MCWebSocketPool ---------------------------
(* Instances of WebSocketPool for TLC. Callers, and keys, are interchangeable. *)
EXTENDS WebSocketPool, TLC

Symmetry == Permutations(Tasks) \cup Permutations(Keys)

=============================================================================
