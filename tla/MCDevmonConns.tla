--------------------------- MODULE MCDevmonConns ----------------------------
(* DevmonConns for TLC: clients and values are interchangeable. *)
EXTENDS DevmonConns

Symmetry == Permutations(Clients) \cup Permutations(Values)
=============================================================================
