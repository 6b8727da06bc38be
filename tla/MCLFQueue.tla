------------------------------ MODULE MCLFQueue ------------------------------
(* LFQueue on small instances. *)
EXTENDS LFQueue, TLC

Symmetry ==
  Permutations(Producers) \cup Permutations(Consumers) \cup Permutations(Items)
=============================================================================
