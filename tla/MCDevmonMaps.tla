---------------------------- MODULE MCDevmonMaps ----------------------------
(* DevmonMaps for TLC: devices, nodes and numbers are interchangeable. *)
EXTENDS DevmonMaps, TLC

Symmetry ==
    Permutations(Blocks) \cup Permutations(Nodes) \cup Permutations(Links)
    \cup Permutations(Nets) \cup Permutations(Macs)
    \cup Permutations(UsbIds) \cup Permutations(Devnums)
=============================================================================
