----------------------------- MODULE MCTenancy -----------------------------
(* Tenancy on small instances; the rows and requests are interchangeable.   *)
EXTENDS Tenancy, TLC

Symmetry ==
    Permutations(Users) \cup Permutations(Bots) \cup Permutations(Tokens)
    \cup Permutations(Requests)
=============================================================================
