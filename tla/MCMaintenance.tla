--------------------------- MODULE MCMaintenance ---------------------------
(* Model-checking instances of Maintenance. *)
EXTENDS Maintenance, TLC

Symmetry == Permutations(Leases) \cup Permutations(Mids) \cup Permutations(Bodies)
=============================================================================
