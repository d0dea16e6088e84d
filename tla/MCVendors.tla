----------------------------- MODULE MCVendors -----------------------------
(* The vendors for TLC. *)
EXTENDS Vendors, TLC

Symmetry == Permutations(Jobs) \cup Permutations(Sessions)
=============================================================================
