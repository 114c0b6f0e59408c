-------------------------- MODULE MCSubscriptions --------------------------
(* Subscriptions on small instances, with symmetry for the safety runs.     *)
EXTENDS Subscriptions, TLC

Symmetry ==
    Permutations(Bots) \cup Permutations(Chats) \cup Permutations(Updates)
    \cup Permutations(Admins)
=============================================================================
