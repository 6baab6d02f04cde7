-------------------------- MODULE MC_VirtualOutput --------------------------
(* Instances of VirtualOutput for TLC. *)
EXTENDS VirtualOutput, TLC
Symmetry == Permutations(Procs)
=============================================================================
