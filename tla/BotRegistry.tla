---------------------------- MODULE BotRegistry ----------------------------
(***************************************************************************)
(* Bots, their API keys and their webhooks at Telegram (modules/bots).     *)
(* register_bot calls Telegram twice, the second time with its INSERT still *)
(* uncommitted; regenerate_api_key and delete_bot UPDATE the row by its    *)
(* primary key.  A request is a READ COMMITTED transaction whose statements *)
(* and calls interleave with those of the others.                          *)
(***************************************************************************)
EXTENDS Naturals, FiniteSets

CONSTANTS
    Requests,
    TelegramBots, \* a bot as Telegram knows it: telegram_bot_id
    Tenants,
    Rows,         \* Bot rows: 1, 2, ...; an id and its webhook secret are one
    ApiKeys,      \* 1, 2, ...
    Nobody,
    MaxFaults     \* bound on calls to Telegram that fail ambiguously and on
                  \* requests that die

ASSUME BotRegistryAssumption ==
    /\ Rows \subseteq Nat \ {0} /\ ApiKeys \subseteq Nat \ {0}
    /\ MaxFaults \in Nat
    /\ Nobody \notin TelegramBots \cup Tenants

VARIABLES
    bots,    \* Bot rows; a "lost" one was inserted and rolled back
    keys,    \* API keys: unused, generated, or shown to their owner
    webhook, \* at Telegram: the row whose URL and secret a bot's updates go to
    stray,   \* rows whose setWebhook timed out: pending at Telegram, or landed
    reg,     \* requests that register, change or delete bots
    faults

registryVars == <<bots, keys, webhook, stray, reg, faults>>

NoBot == [status |-> "none", tg |-> Nobody, tenant |-> Nobody, key |-> 0]

Idle == [pc |-> "idle", kind |-> "none", tg |-> Nobody, tenant |-> Nobody,
         row |-> 0, key |-> 0]

RegistryTypeOK ==
    /\ bots \in [Rows -> [status : {"none", "live", "deleted", "lost"},
                          tg : TelegramBots \cup {Nobody},
                          tenant : Tenants \cup {Nobody}, key : ApiKeys \cup {0}]]
    /\ keys \in [ApiKeys -> {"unused", "generated", "shown"}]
    /\ webhook \in [TelegramBots -> Rows \cup {0}]
    /\ stray \in [Rows -> {"no", "pending", "landed"}]
    /\ reg \in [Requests ->
                  [pc : {"idle", "getMe", "check", "insert", "setWebhook",
                         "get", "write", "commit"},
                   kind : {"none", "register", "regenerate", "delete"},
                   tg : TelegramBots \cup {Nobody}, tenant : Tenants \cup {Nobody},
                   row : Rows \cup {0}, key : ApiKeys \cup {0}]]
    /\ faults \in 0..MaxFaults

\* Rows and keys are taken in their order.
Lowest(S) == {x \in S : \A y \in S : x <= y}

\* A bot may be registered already.
RegistryInit ==
    /\ \/ /\ bots = [r \in Rows |-> NoBot]
          /\ keys = [k \in ApiKeys |-> "unused"]
          /\ webhook = [b \in TelegramBots |-> 0]
       \/ \E b \in TelegramBots, t \in Tenants, r \in Lowest(Rows), k \in Lowest(ApiKeys) :
             /\ bots = [s \in Rows |->
                          IF s = r
                          THEN [status |-> "live", tg |-> b, tenant |-> t, key |-> k]
                          ELSE NoBot]
             /\ keys = [j \in ApiKeys |-> IF j = k THEN "shown" ELSE "unused"]
             /\ webhook = [c \in TelegramBots |-> IF c = b THEN r ELSE 0]
    /\ stray = [r \in Rows |-> "no"]
    /\ reg = [p \in Requests |-> Idle]
    /\ faults = 0

Live(r) == bots[r].status = "live"

-----------------------------------------------------------------------------
(* The end of a request *)

\* An error response: what was inserted is rolled back.
RolledBack(p) ==
    IF reg[p].kind = "register" /\ reg[p].row # 0
    THEN [bots EXCEPT ![reg[p].row].status = "lost"]
    ELSE bots

Fail(p) ==
    /\ reg' = [reg EXCEPT ![p] = Idle]
    /\ bots' = RolledBack(p)
    /\ UNCHANGED <<keys, webhook, stray, faults>>

Continue(p, next) ==
    /\ reg' = [reg EXCEPT ![p] = next]
    /\ UNCHANGED <<bots, keys, webhook, stray, faults>>

RegistryDies(p) ==
    /\ reg[p].pc # "idle" /\ faults < MaxFaults
    /\ reg' = [reg EXCEPT ![p] = Idle]
    /\ bots' = RolledBack(p)
    /\ faults' = faults + 1
    /\ UNCHANGED <<keys, webhook, stray>>

\* What the flushed statement of p did: an UPDATE sets its own columns alone.
Written(p) ==
    LET q == reg[p]
    IN  [bots EXCEPT ![q.row] =
            CASE q.kind = "register" ->
                    [status |-> "live", tg |-> q.tg, tenant |-> q.tenant, key |-> q.key]
              [] q.kind = "regenerate" -> [@ EXCEPT !.key = q.key]
              [] q.kind = "delete" -> [@ EXCEPT !.status = "deleted"]]

\* Mutant: the request leaves its transaction open behind its answer.
RegistryCommitKeepsRequest(p) ==
    /\ reg[p].pc = "commit"
    /\ bots' = Written(p)
    /\ reg' = [reg EXCEPT ![p].pc = "answered"]
    /\ UNCHANGED <<keys, webhook, stray, faults>>

\* The router commits and shows the key, once.
RegistryCommit(p) ==
    /\ reg[p].pc = "commit"
    /\ bots' = Written(p)
    /\ keys' = IF reg[p].key # 0 THEN [keys EXCEPT ![reg[p].key] = "shown"] ELSE keys
    /\ reg' = [reg EXCEPT ![p] = Idle]
    /\ UNCHANGED <<webhook, stray, faults>>

-----------------------------------------------------------------------------
(* register_bot *)

RegisterBot(p, b, t) ==
    /\ \E r \in Rows : bots[r].status = "none"
    /\ Continue(p, [Idle EXCEPT !.pc = "getMe", !.kind = "register",
                                !.tg = b, !.tenant = t])

\* Telegram knows the token, or the request ends.
GetMe(p) ==
    /\ reg[p].pc = "getMe"
    /\ Fail(p) \/ Continue(p, [reg[p] EXCEPT !.pc = "check"])

LiveRows(b) == {r \in Rows : Live(r) /\ bots[r].tg = b}

\* get_active_by_telegram_bot_id, whatever the tenant.
CheckRegistered(p) ==
    /\ reg[p].pc = "check"
    /\ IF LiveRows(reg[p].tg) # {} THEN Fail(p)
       ELSE Continue(p, [reg[p] EXCEPT !.pc = "insert"])

FreshKeys == {k \in ApiKeys : keys[k] = "unused"}

\* Rows not taken, committed or not.
FreeRows == {r \in Rows : bots[r].status = "none" /\ \A q \in Requests : reg[q].row # r}

Inserted(p, r, k) ==
    /\ r \in Lowest(FreeRows) /\ k \in Lowest(FreshKeys)
    /\ reg' = [reg EXCEPT ![p].pc = "setWebhook", ![p].row = r, ![p].key = k]
    /\ keys' = [keys EXCEPT ![k] = "generated"]
    /\ UNCHANGED <<bots, webhook, stray, faults>>

\* Mutant: telegram_bot_id is unique within a tenant only.
InsertBotPerTenant(p) ==
    /\ reg[p].pc = "insert"
    /\ \A q \in Requests \ {p} :
          ~(reg[q].kind = "register" /\ reg[q].row # 0
            /\ reg[q].tg = reg[p].tg /\ reg[q].tenant = reg[p].tenant)
    /\ IF \E r \in LiveRows(reg[p].tg) : bots[r].tenant = reg[p].tenant
       THEN Fail(p) ELSE \E r \in Rows, k \in ApiKeys : Inserted(p, r, k)

\* INSERT under the partial unique index: it waits for an uncommitted insert
\* or deletion of the same Telegram bot, and is an IntegrityError if there is
\* a live row.
InsertBot(p) ==
    /\ reg[p].pc = "insert"
    /\ \A q \in Requests \ {p} :
          /\ reg[q].kind = "register" /\ reg[q].row # 0 => reg[q].tg # reg[p].tg
          /\ reg[q].kind = "delete" /\ reg[q].pc = "commit" =>
                bots[reg[q].row].tg # reg[p].tg
    /\ IF LiveRows(reg[p].tg) # {} THEN Fail(p)
       ELSE \E r \in Rows, k \in ApiKeys : Inserted(p, r, k)

\* Mutant: a TelegramAPIError is swallowed.
SetWebhookAnyway(p) ==
    /\ reg[p].pc = "setWebhook"
    /\ webhook' \in {webhook, [webhook EXCEPT ![reg[p].tg] = reg[p].row]}
    /\ reg' = [reg EXCEPT ![p].pc = "commit"]
    /\ UNCHANGED <<bots, keys, stray, faults>>

\* Telegram takes the webhook, or refuses it and the registration is undone.
SetWebhook(p) ==
    /\ reg[p].pc = "setWebhook"
    /\ \/ /\ webhook' = [webhook EXCEPT ![reg[p].tg] = reg[p].row]
          /\ reg' = [reg EXCEPT ![p].pc = "commit"]
          /\ UNCHANGED <<bots, keys, stray, faults>>
       \/ Fail(p)

\* The call times out, a TelegramAPIError like any other, or the process dies
\* during it: Telegram may still carry it out.
SetWebhookTimesOut(p) ==
    /\ reg[p].pc = "setWebhook" /\ faults < MaxFaults
    /\ stray' = [stray EXCEPT ![reg[p].row] = "pending"]
    /\ reg' = [reg EXCEPT ![p] = Idle]
    /\ bots' = [RolledBack(p) EXCEPT ![reg[p].row].tg = reg[p].tg]
    /\ faults' = faults + 1
    /\ UNCHANGED <<keys, webhook>>

StrayLands(r) ==
    /\ stray[r] = "pending"
    /\ stray' = [stray EXCEPT ![r] = "landed"]
    /\ webhook' = [webhook EXCEPT ![bots[r].tg] = r]
    /\ UNCHANGED <<bots, keys, reg, faults>>

-----------------------------------------------------------------------------
(* regenerate_api_key, delete_bot *)

ChangeBot(p, kind, r) ==
    /\ kind \in {"regenerate", "delete"} /\ bots[r].status \in {"live", "deleted"}
    /\ Continue(p, [Idle EXCEPT !.pc = "get", !.kind = kind, !.row = r])

GetBot(p) ==
    /\ reg[p].pc = "get"
    /\ IF Live(reg[p].row) THEN Continue(p, [reg[p] EXCEPT !.pc = "write"]) ELSE Fail(p)

RowFree(p) ==
    \A q \in Requests \ {p} : ~(reg[q].pc = "commit" /\ reg[q].row = reg[p].row)

\* UPDATE of the key ...
WriteKey(p, k) ==
    /\ reg[p].pc = "write" /\ reg[p].kind = "regenerate" /\ RowFree(p)
    /\ k \in Lowest(FreshKeys)
    /\ reg' = [reg EXCEPT ![p].pc = "commit", ![p].key = k]
    /\ keys' = [keys EXCEPT ![k] = "generated"]
    /\ UNCHANGED <<bots, webhook, stray, faults>>

\* ... or of deleted_at; the webhook at Telegram stays.
WriteDeletion(p) ==
    /\ reg[p].pc = "write" /\ reg[p].kind = "delete" /\ RowFree(p)
    /\ Continue(p, [reg[p] EXCEPT !.pc = "commit"])

-----------------------------------------------------------------------------
RegistryStep(p) ==
    \/ GetMe(p)
    \/ CheckRegistered(p)
    \/ InsertBot(p)
    \/ SetWebhook(p)
    \/ SetWebhookTimesOut(p)
    \/ GetBot(p)
    \/ \E k \in ApiKeys : WriteKey(p, k)
    \/ WriteDeletion(p)
    \/ RegistryCommit(p)
    \/ RegistryDies(p)

BeginRegistry(p) ==
    /\ reg[p].pc = "idle"
    /\ \/ \E b \in TelegramBots, t \in Tenants : RegisterBot(p, b, t)
       \/ \E kind \in {"regenerate", "delete"}, r \in Rows : ChangeBot(p, kind, r)

RegistryNext ==
    \/ \E p \in Requests : BeginRegistry(p) \/ RegistryStep(p)
    \/ \E r \in Rows : StrayLands(r)

RegistrySpec == RegistryInit /\ [][RegistryNext]_registryVars

-----------------------------------------------------------------------------
(* Properties *)

\* A Telegram bot is live once on the whole platform, whichever tenants race
\* to register it.
OneLivePerTelegramBot ==
    \A b \in TelegramBots : Cardinality(LiveRows(b)) <= 1

\* No half-finished registration is ever committed (docstring of register_bot):
\* Telegram sends a live bot's updates to its own URL with its own secret,
\* whatever registrations failed or crashed before or since, unless a call
\* that timed out is carried out late.
LiveBotReachable ==
    \A r \in Rows :
        Live(r) => LET w == webhook[bots[r].tg]
                   IN  w = r \/ (w # 0 /\ stray[w] = "landed")
=============================================================================
