---------------------------- MODULE MC_P2pManager ----------------------------
(* Instances of P2pManager for TLC. *)
EXTENDS P2pManager, TLC

Symmetry == Permutations(Sinks) \cup Permutations(Peers \ Sinks)

\* Nothing looks at another program's group before ours is to be formed, and it may come
\* up then (OtherForms): the search is explored without it.
MCInit == Init /\ up = {}
=============================================================================
