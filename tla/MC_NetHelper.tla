--------------------------- MODULE MC_NetHelper ---------------------------
(* Instances of NetHelper for TLC. *)
EXTENDS NetHelper, TLC
Symmetry == Permutations(Callers) \cup Permutations(Ports)
=============================================================================
