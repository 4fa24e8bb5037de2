----------------------------- MODULE MCSeedRng ------------------------------
(* SeedRng for TLC: the processes are interchangeable. *)
EXTENDS SeedRng, TLC

Symmetry == Permutations(Procs)
=============================================================================
