---------------------------- MODULE MCSessions -----------------------------
(* Sessions and the limiter on a small instance: one chat message a window, *)
(* two calls of every other group.                                          *)
EXTENDS Sessions, TLC

MCLimit == [g \in Groups |-> IF g = "chat" THEN 1 ELSE 2]
Symmetry == Permutations(Callers) \cup Permutations(Users)
=============================================================================
