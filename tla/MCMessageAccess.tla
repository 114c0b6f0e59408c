-------------------------- MODULE MCMessageAccess --------------------------
(* The registry and message access on a small instance.                     *)
EXTENDS MessageAccess, TLC

Symmetry == Permutations(Requests) \cup Permutations(Tenants) \cup Permutations(Bodies)
=============================================================================
