-------------------------- MODULE MC_DaemonSession --------------------------
(* Instances of DaemonSession for TLC. *)
EXTENDS DaemonSession
=============================================================================
