-------------------------- MODULE MC_RtspControl --------------------------
(* Instances of RtspControl for TLC. *)
EXTENDS RtspControl, TLC
Symmetry == Permutations(Ports)
=============================================================================
