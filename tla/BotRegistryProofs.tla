------------------------- MODULE BotRegistryProofs -------------------------
(***************************************************************************)
(* Proofs about the registration of bots, for any number of requests,      *)
(* tenants, bots and keys, while organizations are deleted (MessageAccess) *)
(* and whatever fails, times out or dies.                                  *)
(***************************************************************************)
EXTENDS MessageAccess, FiniteSetTheorems, TLAPS

-----------------------------------------------------------------------------
(* The inductive invariant *)

\* A request is on the way of its kind and has the row that this takes.
ReqOK(q) ==
    /\ q.kind = "none" <=> q.pc = "idle"
    /\ q.kind = "register" =>
          /\ q.tg \in TelegramBots /\ q.tenant \in Tenants
          /\ q.pc \in {"getMe", "check", "insert", "setWebhook", "commit"}
          /\ q.row # 0 <=> q.pc \in {"setWebhook", "commit"}
    /\ q.kind \in {"regenerate", "delete"} =>
          /\ q.row \in Rows /\ bots[q.row].status \in {"live", "deleted"}
          /\ q.pc \in {"get", "write", "commit"}

\* A registration whose INSERT was flushed.
Pending(q) == q.kind = "register" /\ q.row # 0

\* Updates of Telegram's bot b go to row r, or to that of a late call.
Reached(b, r) ==
    webhook[b] = r \/ (webhook[b] # 0 /\ stray[webhook[b]] = "landed")

\* The row of a pending registration is its own, as is its Telegram bot.
PendingOK ==
    \A p \in Requests : Pending(reg[p]) =>
        /\ bots[reg[p].row].status = "none"
        /\ \A r \in Rows : Live(r) => bots[r].tg # reg[p].tg
        /\ reg[p].pc = "commit" => Reached(reg[p].tg, reg[p].row)
        /\ \A q \in Requests \ {p} : Pending(reg[q]) =>
              reg[q].tg # reg[p].tg /\ reg[q].row # reg[p].row

LiveOK ==
    /\ \A r \in Rows : Live(r) => bots[r].tg \in TelegramBots
    /\ \A r \in Rows : Live(r) => Reached(bots[r].tg, r)
    /\ \A r, s \in Rows : Live(r) /\ Live(s) /\ bots[r].tg = bots[s].tg => r = s

RegInv ==
    /\ RegistryTypeOK
    /\ \A p \in Requests : ReqOK(reg[p])
    /\ \A r \in Rows : stray[r] # "no" =>
          bots[r].tg \in TelegramBots /\ bots[r].status = "lost"
    /\ PendingOK
    /\ LiveOK

BotType ==
    [status : {"none", "live", "deleted", "lost"}, tg : TelegramBots \cup {Nobody},
     tenant : Tenants \cup {Nobody}, key : ApiKeys \cup {0}]

RegType ==
    [pc : {"idle", "getMe", "check", "insert", "setWebhook", "get", "write", "commit"},
     kind : {"none", "register", "regenerate", "delete"},
     tg : TelegramBots \cup {Nobody}, tenant : Tenants \cup {Nobody},
     row : Rows \cup {0}, key : ApiKeys \cup {0}]

\* The type invariant with its record types named.
LEMMA RegistryTyped ==
    RegistryTypeOK <=>
        /\ bots \in [Rows -> BotType]
        /\ keys \in [ApiKeys -> {"unused", "generated", "shown"}]
        /\ webhook \in [TelegramBots -> Rows \cup {0}]
        /\ stray \in [Rows -> {"no", "pending", "landed"}]
        /\ reg \in [Requests -> RegType]
        /\ faults \in 0..MaxFaults
BY DEF RegistryTypeOK, BotType, RegType

\* Both properties follow.
LEMMA RegInvImplies == RegInv => OneLivePerTelegramBot /\ LiveBotReachable
<1> SUFFICES ASSUME RegInv PROVE OneLivePerTelegramBot /\ LiveBotReachable
  OBVIOUS
<1>1. LiveBotReachable
  BY DEF RegInv, LiveOK, Reached, LiveBotReachable
<1>2. ASSUME NEW b \in TelegramBots PROVE Cardinality(LiveRows(b)) <= 1
  <2>1. CASE LiveRows(b) = {}
    BY <2>1, FS_EmptySet
  <2>2. ASSUME NEW r \in LiveRows(b) PROVE Cardinality(LiveRows(b)) <= 1
    <3>1. LiveRows(b) = {r}
      BY DEF LiveRows, RegInv, LiveOK
    <3>2. Cardinality({r}) = 1
      BY FS_Singleton
    <3> QED
      BY <3>1, <3>2
  <2> QED
    BY <2>1, <2>2
<1> QED
  BY <1>1, <1>2 DEF OneLivePerTelegramBot

\* No bot is registered to begin with, or one.
LEMMA RegistryInitInv == RegistryInit => RegInv
<1> SUFFICES ASSUME RegistryInit PROVE RegInv
  OBVIOUS
<1>1. /\ stray = [r \in Rows |-> "no"] /\ reg = [p \in Requests |-> Idle] /\ faults = 0
      /\ Idle \in RegType /\ NoBot \in BotType
      /\ Idle.kind = "none" /\ Idle.pc = "idle" /\ NoBot.status = "none"
      /\ 0 \in 0..MaxFaults
  BY BotRegistryAssumption DEF RegistryInit, Idle, NoBot, RegType, BotType
<1>2. (\A p \in Requests : ReqOK(reg[p])) /\ PendingOK
  BY <1>1 DEF ReqOK, PendingOK, Pending
<1>3. CASE /\ bots = [r \in Rows |-> NoBot]
           /\ keys = [k \in ApiKeys |-> "unused"]
           /\ webhook = [b \in TelegramBots |-> 0]
  <2>1. RegistryTypeOK
    BY <1>1, <1>3, RegistryTyped
  <2>2. LiveOK
    BY <1>1, <1>3 DEF LiveOK, Live
  <2> QED
    BY <1>1, <1>2, <2>1, <2>2 DEF RegInv
<1>4. ASSUME NEW b \in TelegramBots, NEW t \in Tenants, NEW r \in Lowest(Rows),
             NEW k \in Lowest(ApiKeys),
             bots = [s \in Rows |->
                       IF s = r
                       THEN [status |-> "live", tg |-> b, tenant |-> t, key |-> k]
                       ELSE NoBot],
             keys = [j \in ApiKeys |-> IF j = k THEN "shown" ELSE "unused"],
             webhook = [c \in TelegramBots |-> IF c = b THEN r ELSE 0]
      PROVE  RegInv
  <2>1. r \in Rows /\ k \in ApiKeys
    BY DEF Lowest
  <2>2. [status |-> "live", tg |-> b, tenant |-> t, key |-> k] \in BotType
    BY <2>1 DEF BotType
  <2>3. RegistryTypeOK
    BY <1>1, <1>4, <2>1, <2>2, RegistryTyped
  <2>4. \A s \in Rows : Live(s) => s = r /\ bots[s].tg = b
    BY <1>1, <1>4 DEF Live
  <2>5. webhook[b] = r
    BY <1>4
  <2>6. LiveOK
    BY <2>4, <2>5 DEF LiveOK, Reached
  <2> QED
    BY <1>1, <1>2, <2>3, <2>6 DEF RegInv
<1> QED
  BY <1>3, <1>4 DEF RegistryInit

-----------------------------------------------------------------------------
(* Steps *)

\* A step that makes no bot live, moves no webhook and leaves the pending
\* registrations alone, or ends them.
LEMMA RegistryShrinks ==
    ASSUME RegInv, RegistryTypeOK', webhook' = webhook,
           \A r \in Rows : Live(r)' => Live(r) /\ bots'[r].tg = bots[r].tg,
           \A r \in Rows : stray[r] = "landed" => stray'[r] = "landed",
           \A r \in Rows : stray'[r] # "no" =>
              bots'[r].tg \in TelegramBots /\ bots'[r].status = "lost",
           \A q \in Requests : ReqOK(reg[q])',
           \A q \in Requests : Pending(reg'[q]) =>
                 reg'[q] = reg[q] /\ bots'[reg[q].row].status = "none"
    PROVE  RegInv'
<1>1. \A b \in TelegramBots, r \in Rows : Reached(b, r) => Reached(b, r)'
  BY RegistryTyped DEF Reached, RegInv
<1>2. LiveOK'
  BY <1>1 DEF RegInv, LiveOK
<1>3. \A q \in Requests : Pending(reg[q]) => reg[q].tg \in TelegramBots /\ reg[q].row \in Rows
  BY RegistryTyped DEF RegInv, ReqOK, Pending, RegType
<1>4. PendingOK'
  <2> SUFFICES ASSUME NEW p \in Requests, Pending(reg'[p])
               PROVE  /\ bots'[reg'[p].row].status = "none"
                      /\ \A r \in Rows : Live(r)' => bots'[r].tg # reg'[p].tg
                      /\ reg'[p].pc = "commit" => Reached(reg[p].tg, reg[p].row)'
                      /\ \A q \in Requests \ {p} : Pending(reg'[q]) =>
                            reg'[q].tg # reg'[p].tg /\ reg'[q].row # reg'[p].row
    BY DEF PendingOK, Pending
  <2>1. reg'[p] = reg[p] /\ Pending(reg[p]) /\ bots'[reg[p].row].status = "none"
    OBVIOUS
  <2>2. /\ \A r \in Rows : Live(r) => bots[r].tg # reg[p].tg
        /\ reg[p].pc = "commit" => Reached(reg[p].tg, reg[p].row)
        /\ \A q \in Requests \ {p} : Pending(reg[q]) =>
              reg[q].tg # reg[p].tg /\ reg[q].row # reg[p].row
    BY <2>1 DEF RegInv, PendingOK
  <2>3. reg[p].pc = "commit" => Reached(reg[p].tg, reg[p].row)'
    BY <1>1, <1>3, <2>1, <2>2 DEF Reached
  <2> QED
    BY <2>1, <2>2, <2>3
<1> QED
  BY <1>2, <1>4 DEF RegInv

\* A request goes on, neither with a pending registration before nor after.
LEMMA RequestMoves ==
    ASSUME RegInv, NEW p \in Requests, NEW next \in RegType,
           ReqOK(next), ~Pending(next),
           keys' \in [ApiKeys -> {"unused", "generated", "shown"}],
           faults' \in 0..MaxFaults,
           reg' = [reg EXCEPT ![p] = next], UNCHANGED <<bots, webhook, stray>>
    PROVE  RegInv'
<1>1. RegistryTypeOK'
  BY DEF RegInv, RegistryTypeOK, RegType
<1>2. \A q \in Requests : reg'[q] = IF q = p THEN next ELSE reg[q]
  BY RegistryTyped DEF RegInv
<1>3. \A q \in Requests : ReqOK(reg[q])'
  BY <1>2 DEF RegInv, ReqOK
<1>4. \A q \in Requests : Pending(reg'[q]) =>
          reg'[q] = reg[q] /\ bots'[reg[q].row].status = "none"
  BY <1>2 DEF RegInv, PendingOK
<1> QED
  BY <1>1, <1>3, <1>4, RegistryShrinks DEF RegInv, Live

\* A request ends without a commit; its pending row is lost.
LEMMA RequestEnds ==
    ASSUME RegInv, NEW p \in Requests,
           reg' = [reg EXCEPT ![p] = Idle], bots' = RolledBack(p),
           faults' \in 0..MaxFaults, UNCHANGED <<keys, webhook, stray>>
    PROVE  RegInv'
<1>1. /\ Idle \in RegType /\ Idle.kind = "none" /\ Idle.pc = "idle"
  BY DEF Idle, RegType
<1>2. \A q \in Requests : reg'[q] = IF q = p THEN Idle ELSE reg[q]
  BY RegistryTyped DEF RegInv
<1>3. /\ bots \in [Rows -> BotType] /\ reg[p] \in RegType /\ reg \in [Requests -> RegType]
      /\ keys \in [ApiKeys -> {"unused", "generated", "shown"}]
      /\ webhook \in [TelegramBots -> Rows \cup {0}]
      /\ stray \in [Rows -> {"no", "pending", "landed"}]
  BY RegistryTyped DEF RegInv
<1>4. \A r \in Rows : /\ bots'[r].tg = bots[r].tg
                      /\ bots'[r] \in BotType
                      /\ IF Pending(reg[p]) /\ r = reg[p].row
                         THEN bots'[r].status = "lost" ELSE bots'[r] = bots[r]
  BY <1>3, SMTT(20) DEF RolledBack, Pending, BotType
<1>5. bots' \in [Rows -> BotType]
  BY <1>3, <1>4 DEF RolledBack
<1>6. RegistryTypeOK'
  BY <1>1, <1>3, <1>5 DEF RegistryTypeOK, BotType, RegType
<1>7. \A q \in Requests \ {p} : reg[q].kind \in {"regenerate", "delete"} =>
         bots'[reg[q].row] = bots[reg[q].row]
  <2> SUFFICES ASSUME NEW q \in Requests \ {p}, reg[q].kind \in {"regenerate", "delete"}
               PROVE  bots'[reg[q].row] = bots[reg[q].row]
    OBVIOUS
  <2>1. reg[q].row \in Rows /\ bots[reg[q].row].status \in {"live", "deleted"}
    BY DEF RegInv, ReqOK
  <2>2. Pending(reg[p]) => bots[reg[p].row].status = "none"
    BY DEF RegInv, PendingOK
  <2> QED
    BY <1>4, <2>1, <2>2
<1>8. \A q \in Requests : ReqOK(reg[q])'
  BY <1>1, <1>2, <1>7 DEF RegInv, ReqOK
<1>9. \A q \in Requests : Pending(reg'[q]) =>
          reg'[q] = reg[q] /\ bots'[reg[q].row].status = "none"
  <2> SUFFICES ASSUME NEW q \in Requests, Pending(reg'[q])
               PROVE  reg'[q] = reg[q] /\ bots'[reg[q].row].status = "none"
    OBVIOUS
  <2>1. q # p /\ reg'[q] = reg[q] /\ Pending(reg[q])
    BY <1>1, <1>2 DEF Pending
  <2>2. /\ bots[reg[q].row].status = "none" /\ reg[q].row \in Rows
        /\ Pending(reg[p]) => reg[p].row # reg[q].row
    BY <1>3, <2>1 DEF RegInv, PendingOK, Pending, RegType
  <2> QED
    BY <1>4, <2>1, <2>2
<1>10. \A r \in Rows : Live(r)' => Live(r) /\ bots'[r].tg = bots[r].tg
  BY <1>4 DEF Live
<1> QED
  BY <1>4, <1>6, <1>8, <1>9, <1>10, RegistryShrinks DEF RegInv

\* The INSERT reserves a row and the Telegram bot.
LEMMA InsertedInv ==
    ASSUME RegInv, NEW p \in Requests, NEW r \in Rows, NEW k \in ApiKeys,
           reg[p].pc = "insert", LiveRows(reg[p].tg) = {},
           \A q \in Requests \ {p} : Pending(reg[q]) => reg[q].tg # reg[p].tg,
           Inserted(p, r, k)
    PROVE  RegInv'
<1> DEFINE next == [reg[p] EXCEPT !.pc = "setWebhook", !.row = r, !.key = k]
<1>1. /\ reg' = [reg EXCEPT ![p] = next]
      /\ keys' = [keys EXCEPT ![k] = "generated"]
      /\ UNCHANGED <<bots, webhook, stray, faults>>
      /\ bots[r].status = "none" /\ \A q \in Requests : reg[q].row # r
      /\ r # 0
  BY BotRegistryAssumption DEF Inserted, Lowest, FreeRows
<1>2. /\ reg[p] \in RegType /\ reg \in [Requests -> RegType] /\ reg[p].kind = "register"
      /\ reg[p].tg \in TelegramBots /\ reg[p].tenant \in Tenants
  BY RegistryTyped DEF RegInv, ReqOK, RegType
<1>3. /\ next \in RegType /\ next.pc = "setWebhook" /\ next.row = r
      /\ next.kind = "register" /\ next.tg = reg[p].tg /\ next.tenant = reg[p].tenant
  BY <1>2 DEF RegType
<1> HIDE DEF next
<1>4. \A q \in Requests : reg'[q] = IF q = p THEN next ELSE reg[q]
  BY <1>1, <1>2
<1>5. RegistryTypeOK'
  BY <1>1, <1>3 DEF RegInv, RegistryTypeOK, RegType
<1>6. \A q \in Requests : ReqOK(reg[q])'
  BY <1>1, <1>2, <1>3, <1>4 DEF RegInv, ReqOK
<1>7. LiveOK'
  BY <1>1 DEF RegInv, LiveOK, Live, Reached
<1>8. \A s \in Rows : Live(s) => bots[s].tg # reg[p].tg
  BY DEF LiveRows
<1>9. PendingOK'
  <2> SUFFICES ASSUME NEW d \in Requests, Pending(reg'[d])
               PROVE  /\ bots[reg'[d].row].status = "none"
                      /\ \A s \in Rows : Live(s) => bots[s].tg # reg'[d].tg
                      /\ reg'[d].pc = "commit" => Reached(reg'[d].tg, reg'[d].row)
                      /\ \A q \in Requests \ {d} : Pending(reg'[q]) =>
                            reg'[q].tg # reg'[d].tg /\ reg'[q].row # reg'[d].row
    BY <1>1 DEF PendingOK, Pending, Live, Reached
  <2>1. CASE d = p
    BY <1>1, <1>3, <1>4, <1>8, <2>1
  <2>2. CASE d # p
    BY <1>1, <1>3, <1>4, <2>2 DEF RegInv, PendingOK
  <2> QED
    BY <2>1, <2>2
<1> QED
  BY <1>1, <1>5, <1>6, <1>7, <1>9 DEF RegInv

\* Telegram takes the webhook of a pending registration, whose bot no live row
\* and no other registration has.
LEMMA SetWebhookInv ==
    ASSUME RegInv, NEW p \in Requests, SetWebhook(p)
    PROVE  RegInv'
<1> DEFINE next == [reg[p] EXCEPT !.pc = "commit"]
<1>1. /\ reg[p] \in RegType /\ reg \in [Requests -> RegType] /\ reg[p].kind = "register"
      /\ reg[p].tg \in TelegramBots /\ reg[p].tenant \in Tenants
      /\ reg[p].row \in Rows /\ reg[p].pc = "setWebhook" /\ Pending(reg[p])
  BY RegistryTyped DEF RegInv, ReqOK, RegType, SetWebhook, Pending
<1>2. CASE Fail(p)
  BY <1>2, RequestEnds DEF Fail, RegInv, RegistryTypeOK
<1>3. CASE /\ webhook' = [webhook EXCEPT ![reg[p].tg] = reg[p].row]
           /\ reg' = [reg EXCEPT ![p].pc = "commit"]
           /\ UNCHANGED <<bots, keys, stray, faults>>
  <2>1. /\ next \in RegType /\ next.pc = "commit" /\ next.row = reg[p].row
        /\ next.kind = "register" /\ next.tg = reg[p].tg /\ next.tenant = reg[p].tenant
    BY <1>1 DEF RegType
  <2>2. reg' = [reg EXCEPT ![p] = next]
    BY <1>3
  <2> HIDE DEF next
  <2>3. \A q \in Requests : reg'[q] = IF q = p THEN next ELSE reg[q]
    BY <1>1, <2>2
  <2>4. \A b \in TelegramBots :
           webhook'[b] = IF b = reg[p].tg THEN reg[p].row ELSE webhook[b]
    BY <1>3 DEF RegInv, RegistryTypeOK
  <2>5. RegistryTypeOK'
    <3>1. webhook' \in [TelegramBots -> Rows \cup {0}]
      BY <1>1, <1>3 DEF RegInv, RegistryTypeOK
    <3>2. reg' \in [Requests -> RegType]
      BY <1>1, <2>1, <2>2
    <3> QED
      BY <1>3, <3>1, <3>2 DEF RegInv, RegistryTypeOK, RegType
  <2>6. \A q \in Requests : ReqOK(reg[q])'
    BY <1>1, <1>3, <2>1, <2>3 DEF RegInv, ReqOK
  <2>7. /\ \A r \in Rows : Live(r) => bots[r].tg # reg[p].tg
        /\ \A q \in Requests \ {p} : Pending(reg[q]) =>
              reg[q].tg # reg[p].tg /\ reg[q].row # reg[p].row
        /\ bots[reg[p].row].status = "none"
    BY <1>1 DEF RegInv, PendingOK
  <2>8. \A b \in TelegramBots, r \in Rows :
           b # reg[p].tg /\ Reached(b, r) => Reached(b, r)'
    BY <1>3, <2>4 DEF Reached
  <2>9. Reached(reg[p].tg, reg[p].row)'
    <3>1. webhook'[reg[p].tg] = reg[p].row
      BY <1>1, <2>4
    <3>2. reg'[p].tg = reg[p].tg /\ reg'[p].row = reg[p].row
      BY <2>1, <2>3
    <3> QED
      BY <3>1, <3>2 DEF Reached
  <2>10. LiveOK'
    BY <1>3, <2>7, <2>8 DEF RegInv, LiveOK, Live
  <2>11. PendingOK'
    <3> SUFFICES ASSUME NEW d \in Requests, Pending(reg'[d])
                 PROVE  /\ bots[reg'[d].row].status = "none"
                        /\ \A s \in Rows : Live(s) => bots[s].tg # reg'[d].tg
                        /\ reg'[d].pc = "commit" => Reached(reg[d].tg, reg[d].row)'
                        /\ \A q \in Requests \ {d} : Pending(reg'[q]) =>
                              reg'[q].tg # reg'[d].tg /\ reg'[q].row # reg'[d].row
      BY <1>3 DEF PendingOK, Pending, Live, Reached
    <3>1. CASE d = p
      BY <2>1, <2>3, <2>7, <2>9, <3>1
    <3>2. CASE d # p
      <4>1. reg'[d] = reg[d] /\ Pending(reg[d])
        BY <2>3, <3>2
      <4>2. /\ bots[reg[d].row].status = "none"
            /\ \A s \in Rows : Live(s) => bots[s].tg # reg[d].tg
            /\ reg[d].pc = "commit" => Reached(reg[d].tg, reg[d].row)
            /\ \A q \in Requests \ {d} : Pending(reg[q]) =>
                  reg[q].tg # reg[d].tg /\ reg[q].row # reg[d].row
        BY <4>1 DEF RegInv, PendingOK
      <4>3. /\ reg[d].tg # reg[p].tg /\ reg[d].row # reg[p].row
            /\ reg[d].tg \in TelegramBots /\ reg[d].row \in Rows
        BY <1>1, <2>7, <3>2, <4>1 DEF RegInv, ReqOK, Pending, RegType
      <4>4. reg[d].pc = "commit" => Reached(reg[d].tg, reg[d].row)'
        BY <1>3, <2>4, <4>1, <4>2, <4>3 DEF Reached
      <4>5. \A q \in Requests \ {d} : Pending(reg'[q]) =>
               reg'[q].tg # reg'[d].tg /\ reg'[q].row # reg'[d].row
        BY <1>1, <2>1, <2>3, <4>1, <4>2, <4>3
      <4> QED
        BY <4>1, <4>2, <4>4, <4>5
    <3> QED
      BY <3>1, <3>2
  <2> QED
    BY <1>3, <2>5, <2>6, <2>10, <2>11 DEF RegInv
<1> QED
  BY <1>2, <1>3 DEF SetWebhook

\* A call that times out: the row is lost, but the webhook may still land.
LEMMA SetWebhookTimesOutInv ==
    ASSUME RegInv, NEW p \in Requests, SetWebhookTimesOut(p)
    PROVE  RegInv'
<1>1. /\ reg[p] \in RegType /\ reg \in [Requests -> RegType] /\ reg[p].kind = "register"
      /\ reg[p].tg \in TelegramBots /\ reg[p].row \in Rows /\ reg[p].row # 0
      /\ Pending(reg[p])
  BY RegistryTyped DEF RegInv, ReqOK, RegType, SetWebhookTimesOut, Pending
<1>2. /\ stray' = [stray EXCEPT ![reg[p].row] = "pending"]
      /\ reg' = [reg EXCEPT ![p] = Idle]
      /\ bots' = [RolledBack(p) EXCEPT ![reg[p].row].tg = reg[p].tg]
      /\ UNCHANGED <<keys, webhook>> /\ faults' \in 0..MaxFaults
  BY BotRegistryAssumption DEF SetWebhookTimesOut, RegInv, RegistryTypeOK
<1>3. /\ bots \in [Rows -> BotType] /\ stray \in [Rows -> {"no", "pending", "landed"}]
      /\ Idle \in RegType /\ Idle.kind = "none" /\ Idle.pc = "idle"
  BY RegistryTyped DEF RegInv, Idle, RegType
<1>4. bots[reg[p].row].status = "none"
  BY <1>1 DEF RegInv, PendingOK
<1> DEFINE lost == [[bots[reg[p].row] EXCEPT !.status = "lost"] EXCEPT !.tg = reg[p].tg]
<1>5. /\ lost \in BotType /\ lost.status = "lost" /\ lost.tg = reg[p].tg
  BY <1>1, <1>3, ZenonT(40) DEF BotType
<1>6. bots' = [bots EXCEPT ![reg[p].row] = lost]
  <2>1. RolledBack(p) = [bots EXCEPT ![reg[p].row] = [@ EXCEPT !.status = "lost"]]
    BY <1>1 DEF RolledBack
  <2> QED
    BY <1>1, <1>2, <1>3, <2>1
<1> HIDE DEF lost
<1>7. \A r \in Rows : bots'[r] = IF r = reg[p].row THEN lost ELSE bots[r]
  BY <1>3, <1>6
<1>8. RegistryTypeOK'
  <2>1. bots' \in [Rows -> BotType]
    BY <1>3, <1>5, <1>6
  <2>2. reg' \in [Requests -> RegType]
    BY <1>1, <1>2, <1>3
  <2>3. stray' \in [Rows -> {"no", "pending", "landed"}]
    BY <1>2, <1>3
  <2> QED
    BY <1>2, <2>1, <2>2, <2>3 DEF RegInv, RegistryTypeOK, BotType, RegType
<1>9. \A q \in Requests : reg'[q] = IF q = p THEN Idle ELSE reg[q]
  BY <1>1, <1>2
<1>10. \A q \in Requests : ReqOK(reg[q])'
  <2>1. \A q \in Requests \ {p} : reg[q].kind \in {"regenerate", "delete"} =>
           bots'[reg[q].row] = bots[reg[q].row]
    BY <1>4, <1>7 DEF RegInv, ReqOK
  <2> QED
    BY <1>3, <1>9, <2>1 DEF RegInv, ReqOK
<1>11. \A q \in Requests : Pending(reg'[q]) =>
          reg'[q] = reg[q] /\ bots'[reg[q].row].status = "none"
  <2> SUFFICES ASSUME NEW q \in Requests, Pending(reg'[q])
               PROVE  reg'[q] = reg[q] /\ bots'[reg[q].row].status = "none"
    OBVIOUS
  <2>1. q # p /\ reg'[q] = reg[q] /\ Pending(reg[q])
    BY <1>3, <1>9 DEF Pending
  <2>2. /\ bots[reg[q].row].status = "none" /\ reg[q].row \in Rows
        /\ reg[p].row # reg[q].row
    BY <1>1, <2>1 DEF RegInv, PendingOK, Pending, RegType
  <2> QED
    BY <1>7, <2>1, <2>2
<1>12. \A r \in Rows : Live(r)' => Live(r) /\ bots'[r].tg = bots[r].tg
  BY <1>5, <1>7 DEF Live
<1>13. \A r \in Rows : stray[r] = "landed" => stray'[r] = "landed"
  <2>1. stray[reg[p].row] = "no"
    BY <1>1, <1>4 DEF RegInv
  <2> QED
    BY <1>2, <1>3, <2>1
<1>14. \A r \in Rows : stray'[r] # "no" =>
          bots'[r].tg \in TelegramBots /\ bots'[r].status = "lost"
  <2>1. ASSUME NEW r \in Rows, r # reg[p].row, stray'[r] # "no"
        PROVE  bots'[r].tg \in TelegramBots /\ bots'[r].status = "lost"
    BY <1>1, <1>2, <1>3, <1>7, <2>1 DEF RegInv
  <2>2. bots'[reg[p].row].tg \in TelegramBots /\ bots'[reg[p].row].status = "lost"
    BY <1>1, <1>2, <1>3, <1>5, <1>7
  <2> QED
    BY <2>1, <2>2
<1> QED
  BY <1>2, <1>8, <1>10, <1>11, <1>12, <1>13, <1>14, RegistryShrinks

\* A late webhook takes the updates of a Telegram bot away from any other row.
LEMMA StrayLandsInv ==
    ASSUME RegInv, NEW r \in Rows, StrayLands(r)
    PROVE  RegInv'
<1>1. /\ stray \in [Rows -> {"no", "pending", "landed"}]
      /\ webhook \in [TelegramBots -> Rows \cup {0}]
      /\ bots[r].tg \in TelegramBots /\ r # 0
      /\ stray' = [stray EXCEPT ![r] = "landed"]
      /\ webhook' = [webhook EXCEPT ![bots[r].tg] = r]
      /\ UNCHANGED <<bots, keys, reg, faults>>
  BY BotRegistryAssumption DEF StrayLands, RegInv, RegistryTypeOK
<1>2. stray[r] = "pending"
  BY DEF StrayLands
<1>3. RegistryTypeOK'
  BY <1>1 DEF RegInv, RegistryTypeOK
<1>4. \A b \in TelegramBots, s \in Rows : Reached(b, s) => Reached(b, s)'
  BY <1>1 DEF Reached
<1>5. LiveOK'
  BY <1>1, <1>4 DEF RegInv, LiveOK, Live
<1>6. \A q \in Requests : Pending(reg[q]) =>
         /\ reg[q].tg \in TelegramBots /\ reg[q].row \in Rows
         /\ reg[q].pc = "commit" => Reached(reg[q].tg, reg[q].row)'
  <2>1. \A q \in Requests : Pending(reg[q]) =>
           /\ reg[q].tg \in TelegramBots /\ reg[q].row \in Rows
           /\ reg[q].pc = "commit" => Reached(reg[q].tg, reg[q].row)
    BY RegistryTyped DEF RegInv, ReqOK, Pending, RegType, PendingOK
  <2> QED
    BY <1>1, <2>1 DEF Reached
<1>7. PendingOK'
  <2> SUFFICES ASSUME NEW q \in Requests, Pending(reg[q])
               PROVE  /\ bots[reg[q].row].status = "none"
                      /\ \A s \in Rows : Live(s) => bots[s].tg # reg[q].tg
                      /\ reg[q].pc = "commit" => Reached(reg[q].tg, reg[q].row)'
                      /\ \A d \in Requests \ {q} : Pending(reg[d]) =>
                            reg[d].tg # reg[q].tg /\ reg[d].row # reg[q].row
    BY <1>1 DEF PendingOK, Pending, Live, Reached
  <2> QED
    BY <1>6 DEF RegInv, PendingOK
<1>8. \A q \in Requests : ReqOK(reg[q])'
  BY <1>1 DEF RegInv, ReqOK
<1> QED
  BY <1>1, <1>2, <1>3, <1>5, <1>7, <1>8 DEF RegInv

\* A registration becomes live; a key or a deletion is committed.
LEMMA RegistryCommitInv ==
    ASSUME RegInv, NEW p \in Requests, RegistryCommit(p)
    PROVE  RegInv'
<1>1. /\ reg[p] \in RegType /\ reg \in [Requests -> RegType] /\ ReqOK(reg[p])
      /\ bots \in [Rows -> BotType] /\ reg[p].pc = "commit"
      /\ bots' = Written(p) /\ reg' = [reg EXCEPT ![p] = Idle]
      /\ UNCHANGED <<webhook, stray, faults>>
      /\ keys' = IF reg[p].key # 0 THEN [keys EXCEPT ![reg[p].key] = "shown"] ELSE keys
      /\ Idle \in RegType /\ Idle.kind = "none" /\ Idle.pc = "idle"
  BY RegistryTyped DEF RegInv, RegistryCommit, Idle, RegType
<1>2. \A q \in Requests : reg'[q] = IF q = p THEN Idle ELSE reg[q]
  BY <1>1
<1>3. keys' \in [ApiKeys -> {"unused", "generated", "shown"}]
  BY <1>1 DEF RegInv, RegistryTypeOK
<1>4. /\ reg[p].row \in Rows /\ reg[p].kind \in {"register", "regenerate", "delete"}
      /\ reg[p].kind = "register" => reg[p].tg \in TelegramBots /\ reg[p].tenant \in Tenants
  BY <1>1 DEF ReqOK, RegType
<1> DEFINE old == bots[reg[p].row]
           new == CASE reg[p].kind = "register" ->
                          [status |-> "live", tg |-> reg[p].tg,
                           tenant |-> reg[p].tenant, key |-> reg[p].key]
                    [] reg[p].kind = "regenerate" -> [old EXCEPT !.key = reg[p].key]
                    [] reg[p].kind = "delete" -> [old EXCEPT !.status = "deleted"]
<1>5. bots' = [bots EXCEPT ![reg[p].row] = new]
  BY <1>1 DEF Written
<1>6. /\ new \in BotType
      /\ reg[p].kind = "register" => new.status = "live" /\ new.tg = reg[p].tg
      /\ reg[p].kind # "register" => /\ new.tg = old.tg
                                    /\ new.status \in {old.status, "deleted"}
  BY <1>1, <1>4 DEF BotType, RegType
<1> HIDE DEF new, old
<1>7. \A r \in Rows : bots'[r] = IF r = reg[p].row THEN new ELSE bots[r]
  BY <1>1, <1>5
<1>8. RegistryTypeOK'
  <2>1. bots' \in [Rows -> BotType] /\ reg' \in [Requests -> RegType]
    BY <1>1, <1>5, <1>6
  <2> QED
    BY <1>1, <1>3, <2>1 DEF RegInv, RegistryTypeOK, BotType, RegType
<1>9. CASE reg[p].kind # "register"
  <2>1. old.status \in {"live", "deleted"}
    BY <1>1, <1>4, <1>9 DEF ReqOK, old
  <2>2. \A r \in Rows : Live(r)' => Live(r) /\ bots'[r].tg = bots[r].tg
    BY <1>6, <1>7, <1>9 DEF Live, old
  <2>3. \A q \in Requests : ReqOK(reg[q])'
    BY <1>1, <1>2, <1>6, <1>7, <1>9, <2>1 DEF RegInv, ReqOK, old
  <2>4. \A q \in Requests : Pending(reg'[q]) =>
            reg'[q] = reg[q] /\ bots'[reg[q].row].status = "none"
    <3> SUFFICES ASSUME NEW q \in Requests, Pending(reg'[q])
                 PROVE  reg'[q] = reg[q] /\ bots'[reg[q].row].status = "none"
      OBVIOUS
    <3>1. q # p /\ reg'[q] = reg[q] /\ Pending(reg[q])
      BY <1>1, <1>2 DEF Pending
    <3>2. bots[reg[q].row].status = "none" /\ reg[q].row \in Rows
      BY <1>1, <3>1 DEF RegInv, PendingOK, Pending, RegType
    <3> QED
      BY <1>7, <2>1, <3>1, <3>2 DEF old
  <2>5. \A r \in Rows : stray'[r] # "no" =>
           bots'[r].tg \in TelegramBots /\ bots'[r].status = "lost"
    BY <1>1, <1>7, <2>1 DEF RegInv, old
  <2> QED
    BY <1>1, <1>8, <2>2, <2>3, <2>4, <2>5, RegistryShrinks
<1>10. CASE reg[p].kind = "register"
  <2>1. /\ Pending(reg[p]) /\ old.status = "none"
        /\ \A r \in Rows : Live(r) => bots[r].tg # reg[p].tg
        /\ Reached(reg[p].tg, reg[p].row)
        /\ \A q \in Requests \ {p} : Pending(reg[q]) =>
              reg[q].tg # reg[p].tg /\ reg[q].row # reg[p].row
    BY <1>1, <1>10 DEF RegInv, PendingOK, Pending, ReqOK, old
  <2>2. \A r \in Rows : Live(r)' => IF r = reg[p].row THEN bots'[r].tg = reg[p].tg
                                    ELSE Live(r) /\ bots'[r] = bots[r]
    BY <1>6, <1>7, <1>10 DEF Live
  <2>3. \A b \in TelegramBots, r \in Rows : Reached(b, r)' <=> Reached(b, r)
    BY <1>1 DEF Reached
  <2>4. LiveOK'
    <3>1. \A r \in Rows : Live(r)' => bots'[r].tg \in TelegramBots
      BY <1>4, <1>10, <2>2 DEF RegInv, LiveOK
    <3>2. \A r \in Rows : Live(r)' => Reached(bots'[r].tg, r)
      BY <2>1, <2>2 DEF RegInv, LiveOK
    <3>3. \A r, s \in Rows : Live(r)' /\ Live(s)' /\ bots'[r].tg = bots'[s].tg => r = s
      BY <2>1, <2>2 DEF RegInv, LiveOK
    <3> QED
      BY <1>1, <3>1, <3>2, <3>3 DEF LiveOK, Reached
  <2>5. \A q \in Requests : ReqOK(reg[q])'
    BY <1>1, <1>2, <1>7, <2>1 DEF RegInv, ReqOK, old
  <2>6. PendingOK'
    <3> SUFFICES ASSUME NEW d \in Requests, Pending(reg'[d])
                 PROVE  /\ bots'[reg'[d].row].status = "none"
                        /\ \A s \in Rows : Live(s)' => bots'[s].tg # reg'[d].tg
                        /\ reg'[d].pc = "commit" => Reached(reg'[d].tg, reg'[d].row)
                        /\ \A q \in Requests \ {d} : Pending(reg'[q]) =>
                              reg'[q].tg # reg'[d].tg /\ reg'[q].row # reg'[d].row
      BY <1>1 DEF PendingOK, Pending, Reached
    <3>1. d # p /\ reg'[d] = reg[d] /\ Pending(reg[d])
      BY <1>1, <1>2 DEF Pending
    <3>2. /\ bots[reg[d].row].status = "none" /\ reg[d].row \in Rows
          /\ \A s \in Rows : Live(s) => bots[s].tg # reg[d].tg
          /\ reg[d].pc = "commit" => Reached(reg[d].tg, reg[d].row)
          /\ \A q \in Requests \ {d} : Pending(reg[q]) =>
                reg[q].tg # reg[d].tg /\ reg[q].row # reg[d].row
      BY <1>1, <3>1 DEF RegInv, PendingOK, Pending, RegType
    <3>3. reg[d].tg # reg[p].tg /\ reg[d].row # reg[p].row
      BY <2>1, <3>1
    <3>4. \A s \in Rows : Live(s)' => bots'[s].tg # reg[d].tg
      BY <2>2, <3>2, <3>3
    <3>5. \A q \in Requests \ {d} : Pending(reg'[q]) => Pending(reg[q]) /\ reg'[q] = reg[q]
      BY <1>1, <1>2 DEF Pending
    <3> QED
      BY <1>7, <3>1, <3>2, <3>3, <3>4, <3>5
  <2>7. \A r \in Rows : stray'[r] # "no" =>
           bots'[r].tg \in TelegramBots /\ bots'[r].status = "lost"
    BY <1>1, <1>7, <2>1 DEF RegInv, old
  <2> QED
    BY <1>8, <2>4, <2>5, <2>6, <2>7 DEF RegInv
<1> QED
  BY <1>9, <1>10

\* An organization is deleted with its bots, whose rows nobody is writing.
LEMMA DeleteOrganizationInv ==
    ASSUME RegInv, NEW t \in Tenants, DeleteOrganization(t)
    PROVE  RegInv'
<1> DEFINE own == {r \in Rows : bots[r].tenant = t}
<1>1. /\ bots' = [r \in Rows |-> IF r \in own /\ Live(r)
                                 THEN [bots[r] EXCEPT !.status = "deleted"]
                                 ELSE bots[r]]
      /\ UNCHANGED <<keys, webhook, stray, reg, faults>>
  BY DEF DeleteOrganization
<1>2. bots \in [Rows -> BotType] /\ reg \in [Requests -> RegType]
  BY RegistryTyped DEF RegInv
<1>3. \A r \in Rows : /\ bots'[r] \in BotType /\ bots'[r].tg = bots[r].tg
                      /\ IF r \in own /\ Live(r) THEN bots'[r].status = "deleted"
                                                ELSE bots'[r] = bots[r]
  BY <1>1, <1>2 DEF BotType
<1> HIDE DEF own
<1>4. RegistryTypeOK'
  BY <1>1, <1>3 DEF RegInv, RegistryTypeOK, BotType
<1>5. \A r \in Rows : Live(r)' => Live(r) /\ bots'[r].tg = bots[r].tg
  BY <1>3 DEF Live
<1>6. \A q \in Requests : ReqOK(reg[q])'
  BY <1>1, <1>3 DEF RegInv, ReqOK, Live
<1>7. \A q \in Requests : Pending(reg'[q]) =>
          reg'[q] = reg[q] /\ bots'[reg[q].row].status = "none"
  <2>1. \A q \in Requests : Pending(reg[q]) =>
           bots[reg[q].row].status = "none" /\ reg[q].row \in Rows
    BY <1>2 DEF RegInv, PendingOK, Pending, RegType
  <2> QED
    BY <1>1, <1>3, <2>1 DEF Live
<1>8. \A r \in Rows : stray'[r] # "no" =>
          bots'[r].tg \in TelegramBots /\ bots'[r].status = "lost"
  BY <1>1, <1>3 DEF RegInv, Live
<1> QED
  BY <1>1, <1>4, <1>5, <1>6, <1>7, <1>8, RegistryShrinks

\* Every step of the registry.
LEMMA RegistryNextInv == RegInv /\ RegistryNext => RegInv'
<1> SUFFICES ASSUME RegInv, RegistryNext PROVE RegInv'
  OBVIOUS
<1>1. /\ reg \in [Requests -> RegType] /\ faults \in 0..MaxFaults
      /\ keys \in [ApiKeys -> {"unused", "generated", "shown"}]
  BY RegistryTyped DEF RegInv
<1>2. ASSUME NEW p \in Requests, Fail(p) PROVE RegInv'
  BY <1>1, <1>2, RequestEnds DEF Fail
<1>3. ASSUME NEW p \in Requests, NEW next \in RegType, ReqOK(next), ~Pending(next),
             Continue(p, next)
      PROVE  RegInv'
  BY <1>1, <1>3, RequestMoves DEF Continue
<1>4. ASSUME NEW p \in Requests, BeginRegistry(p) PROVE RegInv'
  <2>1. ASSUME NEW b \in TelegramBots, NEW t \in Tenants, RegisterBot(p, b, t)
        PROVE  RegInv'
    <3> DEFINE next == [Idle EXCEPT !.pc = "getMe", !.kind = "register",
                                    !.tg = b, !.tenant = t]
    <3>1. next \in RegType /\ ReqOK(next) /\ ~Pending(next)
      BY DEF Idle, RegType, ReqOK, Pending
    <3> QED
      BY <1>3, <2>1, <3>1 DEF RegisterBot
  <2>2. ASSUME NEW kind \in {"regenerate", "delete"}, NEW r \in Rows, ChangeBot(p, kind, r)
        PROVE  RegInv'
    <3> DEFINE next == [Idle EXCEPT !.pc = "get", !.kind = kind, !.row = r]
    <3>1. next \in RegType /\ ReqOK(next) /\ ~Pending(next)
      BY <2>2 DEF ChangeBot, Idle, RegType, ReqOK, Pending
    <3> QED
      BY <1>3, <2>2, <3>1 DEF ChangeBot
  <2> QED
    BY <1>4, <2>1, <2>2 DEF BeginRegistry
<1>5. ASSUME NEW p \in Requests, RegistryStep(p) PROVE RegInv'
  <2>1. reg[p] \in RegType /\ ReqOK(reg[p])
    BY <1>1 DEF RegInv
  <2>2. CASE GetMe(p)
    <3>1. CASE Continue(p, [reg[p] EXCEPT !.pc = "check"])
      <4> DEFINE next == [reg[p] EXCEPT !.pc = "check"]
      <4>1. next \in RegType /\ ReqOK(next) /\ ~Pending(next)
        BY <2>1, <2>2 DEF GetMe, RegType, ReqOK, Pending
      <4> QED
        BY <1>3, <3>1, <4>1
    <3> QED
      BY <1>2, <2>2, <3>1 DEF GetMe
  <2>3. CASE CheckRegistered(p)
    <3>1. CASE Continue(p, [reg[p] EXCEPT !.pc = "insert"])
      <4> DEFINE next == [reg[p] EXCEPT !.pc = "insert"]
      <4>1. next \in RegType /\ ReqOK(next) /\ ~Pending(next)
        BY <2>1, <2>3 DEF CheckRegistered, RegType, ReqOK, Pending
      <4> QED
        BY <1>3, <3>1, <4>1
    <3> QED
      BY <1>2, <2>3, <3>1 DEF CheckRegistered
  <2>4. CASE InsertBot(p)
    BY <1>2, <2>4, InsertedInv DEF InsertBot, Pending
  <2>5. CASE GetBot(p)
    <3>1. CASE Continue(p, [reg[p] EXCEPT !.pc = "write"])
      <4> DEFINE next == [reg[p] EXCEPT !.pc = "write"]
      <4>1. reg[p].kind \in {"regenerate", "delete"}
        BY <2>1, <2>5 DEF GetBot, ReqOK, RegType
      <4>2. next \in RegType /\ ReqOK(next) /\ ~Pending(next)
        BY <2>1, <4>1 DEF RegType, ReqOK, Pending
      <4> QED
        BY <1>3, <3>1, <4>2
    <3> QED
      BY <1>2, <2>5, <3>1 DEF GetBot
  <2>6. ASSUME NEW k \in ApiKeys, WriteKey(p, k) PROVE RegInv'
    <3> DEFINE next == [reg[p] EXCEPT !.pc = "commit", !.key = k]
    <3>1. next \in RegType /\ ReqOK(next) /\ ~Pending(next)
      BY <2>1, <2>6 DEF WriteKey, RegType, ReqOK, Pending
    <3>2. /\ reg' = [reg EXCEPT ![p] = next] /\ UNCHANGED <<bots, webhook, stray>>
          /\ keys' \in [ApiKeys -> {"unused", "generated", "shown"}]
          /\ faults' \in 0..MaxFaults
      BY <1>1, <2>6 DEF WriteKey
    <3> QED
      BY <3>1, <3>2, RequestMoves
  <2>7. CASE WriteDeletion(p)
    <3> DEFINE next == [reg[p] EXCEPT !.pc = "commit"]
    <3>1. next \in RegType /\ ReqOK(next) /\ ~Pending(next)
      BY <2>1, <2>7 DEF WriteDeletion, RegType, ReqOK, Pending
    <3> QED
      BY <1>3, <2>7, <3>1 DEF WriteDeletion
  <2>8. CASE RegistryDies(p)
    <3>1. faults' \in 0..MaxFaults
      BY <1>1, <2>8, BotRegistryAssumption DEF RegistryDies
    <3> QED
      BY <2>8, <3>1, RequestEnds DEF RegistryDies
  <2> QED
    BY <1>5, <2>2, <2>3, <2>4, <2>5, <2>6, <2>7, <2>8, SetWebhookInv,
       SetWebhookTimesOutInv, RegistryCommitInv DEF RegistryStep
<1> QED
  BY <1>4, <1>5, StrayLandsInv DEF RegistryNext

\* Requests to send, and what else others commit, leave the registry alone.
LEMMA AccessNextInv == RegInv /\ [Next]_vars => RegInv'
<1> SUFFICES ASSUME RegInv, [Next]_vars PROVE RegInv'
  OBVIOUS
<1>1. ASSUME UNCHANGED registryVars PROVE RegInv'
  BY <1>1
  DEF registryVars, RegInv, RegistryTypeOK, ReqOK, PendingOK, Pending, LiveOK, Live, Reached
<1>2. CASE \E p \in Requests : BeginAccess(p) \/ AccessStep(p)
  BY <1>1, <1>2 DEF BeginAccess, AccessStep
<1>3. CASE RegistryTurn
  BY <1>3, RegistryNextInv DEF RegistryTurn
<1>4. CASE ChangeNext
  BY <1>1, <1>4, DeleteOrganizationInv
  DEF ChangeNext, ChangeRole, Assign, Unassign, Subscribe, Unsubscribe
<1>5. CASE UNCHANGED vars
  BY <1>1, <1>5 DEF vars
<1> QED
  BY <1>2, <1>3, <1>4, <1>5 DEF Next

-----------------------------------------------------------------------------
\* Whichever tenants race to register it, a Telegram bot is live once on the
\* whole platform.
THEOREM TelegramBotsLiveOnce == Spec => []OneLivePerTelegramBot
<1>1. Init => RegInv
  BY RegistryInitInv DEF Init
<1> QED
  BY <1>1, AccessNextInv, RegInvImplies, PTL DEF Spec

\* A bot that is live gets its updates, whichever registrations failed, died or
\* raced, unless a call to Telegram that timed out is carried out late.
THEOREM LiveBotsReachable == Spec => []LiveBotReachable
<1>1. Init => RegInv
  BY RegistryInitInv DEF Init
<1> QED
  BY <1>1, AccessNextInv, RegInvImplies, PTL DEF Spec
=============================================================================
