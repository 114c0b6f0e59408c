----------------------------- MODULE MCDelivery -----------------------------
(* Delivery on small instances: symmetry over the interchangeable rows and   *)
(* processes, for the runs that check no liveness.                           *)
EXTENDS Delivery, TLC

Symmetry ==
    Permutations(Messages) \cup Permutations(Destinations)
    \cup Permutations(Workers) \cup Permutations(Dispatchers)
=============================================================================
