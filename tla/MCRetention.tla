---------------------------- MODULE MCRetention ----------------------------
(* Retention on a small instance: one tenant with two deliveries at a time,  *)
(* one with an update, so that the logs of the first, each expiring in its   *)
(* turn, can starve the second.                                              *)
EXTENDS Retention, TLC

CONSTANTS t1, t2, l1, l2, u1

MCTenantOf == (l1 :> t1) @@ (l2 :> t1) @@ (u1 :> t2)
=============================================================================
