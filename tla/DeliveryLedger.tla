--------------------------- MODULE DeliveryLedger ---------------------------
(***************************************************************************)
(* What the pipeline promises a client about each accepted delivery,       *)
(* without workers, tasks and dispatchers: it reaches Telegram at most     *)
(* once, its outcome is written once and never changed, and the outcome    *)
(* says what happened: sent exactly if Telegram took it.  The retention    *)
(* purge may drop a row at any time.                                       *)
(***************************************************************************)
EXTENDS Naturals

CONSTANT Logs

VARIABLES status, delivered

Init ==
    /\ status = [l \in Logs |-> "absent"]
    /\ delivered = [l \in Logs |-> 0]

Accept(S) ==
    /\ S # {} /\ \A l \in S : status[l] = "absent"
    /\ status' = [l \in Logs |-> IF l \in S THEN "queued" ELSE status[l]]
    /\ UNCHANGED delivered

Deliver(l) ==
    /\ status[l] \in {"queued", "purged"} /\ delivered[l] = 0
    /\ delivered' = [delivered EXCEPT ![l] = 1]
    /\ UNCHANGED status

Settle(l) ==
    /\ status[l] = "queued"
    /\ status' = [status EXCEPT ![l] = IF delivered[l] = 1 THEN "sent"
                                                          ELSE "failed"]
    /\ UNCHANGED delivered

Purge(l) ==
    /\ status[l] \in {"queued", "sent", "failed"}
    /\ status' = [status EXCEPT ![l] = "purged"]
    /\ UNCHANGED delivered

Next ==
    \/ \E S \in SUBSET Logs : Accept(S)
    \/ \E l \in Logs : Deliver(l) \/ Settle(l) \/ Purge(l)

Spec == Init /\ [][Next]_<<status, delivered>>
=============================================================================
