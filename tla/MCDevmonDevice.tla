--------------------------- MODULE MCDevmonDevice ---------------------------
(* Model values and symmetry for checking DevmonDevice with TLC. *)
EXTENDS DevmonDevice, TLC

Symmetry == Permutations(Devices) \cup Permutations(Services)

=============================================================================
