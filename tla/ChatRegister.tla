---------------------------- MODULE ChatRegister ----------------------------
(***************************************************************************)
(* What the module of destinations promises about a chat, without requests *)
(* and transactions: a chat is registered together with its first          *)
(* subscription, which is active; the subscriptions of a registered chat   *)
(* are created active and change their status one at a time, but none      *)
(* vanishes; and the chat is removed with all of them at once, so that a   *)
(* later registration starts anew.                                         *)
(***************************************************************************)
CONSTANTS Bots, Chats

SubStatus == {"active", "unsubscribed", "blocked"}

VARIABLES registered, status

Init ==
    /\ registered \subseteq Chats
    /\ status \in [Bots \X Chats -> SubStatus \cup {"none"}]
    /\ \A b \in Bots, c \in Chats :
          c \notin registered => status[<<b, c>>] = "none"

Enlist(b, c) ==
    /\ c \notin registered
    /\ registered' = registered \cup {c}
    /\ status' = [status EXCEPT ![<<b, c>>] = "active"]

Change(b, c, new) ==
    /\ c \in registered
    /\ status[<<b, c>>] = "none" => new = "active"
    /\ status' = [status EXCEPT ![<<b, c>>] = new]
    /\ UNCHANGED registered

Remove(c) ==
    /\ c \in registered
    /\ registered' = registered \ {c}
    /\ status' = [s \in Bots \X Chats |-> IF s[2] = c THEN "none" ELSE status[s]]

Next ==
    \E c \in Chats :
        \/ Remove(c)
        \/ \E b \in Bots : \/ Enlist(b, c)
                           \/ \E new \in SubStatus : Change(b, c, new)

Spec == Init /\ [][Next]_<<registered, status>>
=============================================================================
