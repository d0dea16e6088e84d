----------------------------- MODULE MCBindings -----------------------------
(* The interfaces for other languages, for TLC. *)
EXTENDS Bindings, TLC

Symmetry ==
  Permutations(Threads) \cup Permutations(Objects)
    \cup Permutations(Sessions) \cup Permutations(Handles)
=============================================================================
