---------------------------- MODULE MC_AudioSink ----------------------------
(* Instances of AudioSink for TLC. *)
EXTENDS AudioSink, TLC
Symmetry == Permutations(Procs) \cup Permutations(UserSinks)
=============================================================================
