--------------------------- MODULE Subscriptions ---------------------------
(***************************************************************************)
(* Destinations and their bot subscriptions: the Telegram webhook commands *)
(* /start, /stop and /status (modules/webhooks) race with each other and   *)
(* with the dashboard (modules/destinations), each in a READ COMMITTED     *)
(* transaction of its own.                                                 *)
(*                                                                         *)
(* A request is a transaction: it sees what others have committed, its own *)
(* writes take row or unique-index locks when they are flushed and become  *)
(* visible when the router commits.  Each action is one statement, or the  *)
(* commit.  Other statements on a locked row wait for the holder.          *)
(***************************************************************************)
EXTENDS Naturals, FiniteSets

CONSTANTS
    Bots, Chats,
    Rows,       \* how often a chat can be registered (bound)
    Updates,    \* updates Telegram has in flight at a time
    Admins,     \* concurrent dashboard requests
    NoDest,     \* no destination chosen yet
    BotChanges, \* whether bots are closed, opened and deleted meanwhile
    MaxFaults   \* bound on the requests that die or go unanswered

ASSUME SubscriptionsAssumption ==
    /\ MaxFaults \in Nat
    /\ BotChanges \in BOOLEAN
    /\ NoDest \notin Chats \X Rows

Requests == Updates \cup Admins

\* A Destination row: one registration of a chat.  Its id is never reused.
Dests == Chats \X Rows
ChatOf(d) == d[1]

SubStatus == {"active", "unsubscribed", "blocked"}
UpdateKinds == {"start", "stop", "status", "other"}
Kinds == UpdateKinds \cup {"create", "set", "delete"}

VARIABLES
    bots,    \* Bot: webhook_enabled, or soft-deleted
    dest,    \* Destination rows
    sub,     \* BotDestinationSubscription rows
    tx,      \* the requests and their open transactions
    optOut,  \* <<bot, chat>> whose last settled wish is /stop
    faults

vars == <<bots, dest, sub, tx, optOut, faults>>

Idle == [pc |-> "idle", kind |-> "none", bot |-> "none", chat |-> "none",
         dest |-> NoDest, seen |-> "none", want |-> "none",
         destWrite |-> "none", subWrites |-> {}, todo |-> {},
         contested |-> FALSE]

PCs == {"idle", "lookup", "find", "insert", "sub", "write", "list", "cascade",
        "commit", "failed"}

Request ==
    [pc : PCs, kind : Kinds \cup {"none"}, bot : Bots \cup {"none"},
     chat : Chats \cup {"none"}, dest : Dests \cup {NoDest},
     seen : SubStatus \cup {"none"}, want : SubStatus \cup {"deleted", "none"},
     destWrite : {"none", "insert", "delete"}, subWrites : SUBSET Bots,
     todo : SUBSET Bots, contested : BOOLEAN]

TypeOK ==
    /\ bots \in [Bots -> {"open", "closed", "deleted"}]
    /\ dest \in [Dests -> {"none", "live", "deleted"}]
    /\ sub \in [Bots \X Dests -> SubStatus \cup {"none", "deleted"}]
    /\ tx \in [Requests -> Request]
    /\ optOut \subseteq Bots \X Chats
    /\ faults \in 0..MaxFaults

\* Bots are open or closed, and some chats are registered already, with
\* subscriptions of any status (to bots outside Bots alone, if there is none).
Init ==
    /\ bots \in [Bots -> {"open", "closed"}]
    /\ dest \in {f \in [Dests -> {"none", "live"}] :
                  \A d \in Dests : f[d] = "live" => d[2] = 1}
    /\ sub \in {f \in [Bots \X Dests -> SubStatus \cup {"none"}] :
                 \A b \in Bots, d \in Dests :
                    dest[d] = "none" => f[<<b, d>>] = "none"}
    /\ tx = [p \in Requests |-> Idle]
    /\ optOut = {}
    /\ faults = 0

-----------------------------------------------------------------------------
(* Reads *)

LiveDests(c) == {d \in Dests : ChatOf(d) = c /\ dest[d] = "live"}

\* SubscriptionRepository.get_active: any row that is not soft-deleted.
Visible(b, d) == sub[<<b, d>>] \in SubStatus

\* is_actively_subscribed: what lets a message through to the chat.
Sendable(b, c) == \E d \in LiveDests(c) : sub[<<b, d>>] = "active"

(* Locks *)

\* The partial unique index on the chat: an insert waits for an uncommitted
\* insert, and for an uncommitted soft-delete of the live row.
ChatBusy(p) ==
    \E q \in Requests \ {p} :
        /\ tx[q].chat = tx[p].chat
        /\ \/ tx[q].destWrite = "insert"
           \/ tx[q].destWrite = "delete" /\ dest[tx[q].dest] = "live"

DestBusy(p) ==
    \E q \in Requests \ {p} :
        tx[q].destWrite # "none" /\ tx[q].dest = tx[p].dest

\* The subscription row, or its key in the unique constraint, is taken.
SubBusy(p, b) ==
    \E q \in Requests \ {p} : tx[q].dest = tx[p].dest /\ b \in tx[q].subWrites

-----------------------------------------------------------------------------
(* The end of a request *)

\* Mutant: the webhook answers 200 to an update it could not process.
UnansweredSwallowed(p) == Idle

\* An error response: the session closes without a commit.  Telegram sends an
\* update again until it gets its 200.
Unanswered(p) ==
    IF tx[p].kind \in UpdateKinds
    THEN [Idle EXCEPT !.pc = "failed", !.kind = tx[p].kind, !.bot = tx[p].bot,
                      !.chat = tx[p].chat, !.want = tx[p].want,
                      !.contested = tx[p].contested]
    ELSE Idle

Fail(p) ==
    /\ tx' = [tx EXCEPT ![p] = Unanswered(p)]
    /\ UNCHANGED <<bots, dest, sub, optOut, faults>>

\* A /stop that overlapped with no request to subscribe is the last word.
Wish(p) == optOut' = IF tx[p].kind = "stop" /\ ~tx[p].contested
                     THEN optOut \cup {<<tx[p].bot, tx[p].chat>>}
                     ELSE optOut

\* _reply, which fails or not, and a 200 without any write to commit.
Done(p) ==
    /\ tx' = [tx EXCEPT ![p] = Idle]
    /\ Wish(p)
    /\ UNCHANGED <<bots, dest, sub, faults>>

Move(p, pc) ==
    /\ tx' = [tx EXCEPT ![p].pc = pc]
    /\ UNCHANGED <<bots, dest, sub, optOut, faults>>

\* Mutant: an UPDATE writes the whole row back, deleted_at included.
AppliedWholeRow(p) ==
    /\ dest' = [dest EXCEPT ![tx[p].dest] =
                  CASE tx[p].destWrite = "insert" -> "live"
                    [] tx[p].destWrite = "delete" -> "deleted"
                    [] OTHER -> @]
    /\ sub' = [s \in Bots \X Dests |->
                 IF s[2] = tx[p].dest /\ s[1] \in tx[p].subWrites
                 THEN tx[p].want ELSE sub[s]]

\* What the flushed statements of p did, visible from the commit on.  They
\* write only the columns they changed, so a soft-deleted row stays deleted.
Applied(p) ==
    /\ dest' = [dest EXCEPT ![tx[p].dest] =
                  CASE tx[p].destWrite = "insert" -> "live"
                    [] tx[p].destWrite = "delete" -> "deleted"
                    [] OTHER -> @]
    /\ sub' = [s \in Bots \X Dests |->
                 IF s[2] = tx[p].dest /\ s[1] \in tx[p].subWrites
                    /\ sub[s] # "deleted"
                 THEN tx[p].want ELSE sub[s]]

\* Mutant: a request leaves its transaction open behind its answer.
CommitKeepsTask(p) ==
    /\ tx[p].pc = "commit"
    /\ Applied(p)
    /\ tx' = [tx EXCEPT ![p].pc = "done"]
    /\ Wish(p)
    /\ UNCHANGED <<bots, faults>>

\* The router commits and answers.
Commit(p) ==
    /\ tx[p].pc = "commit"
    /\ Applied(p)
    /\ tx' = [tx EXCEPT ![p] = Idle]
    /\ Wish(p)
    /\ UNCHANGED <<bots, faults>>

-----------------------------------------------------------------------------
(* Requests begin *)

Rival(kind) == kind \in {"start", "create", "set"}

Begin(p, kind, b, c, d, want) ==
    LET same == {q \in Requests : tx[q].bot = b /\ tx[q].chat = c}
        new == [Idle EXCEPT !.pc = "lookup", !.kind = kind, !.bot = b,
                            !.chat = c, !.dest = d, !.want = want,
                            !.contested = /\ kind = "stop"
                                          /\ \E q \in same : Rival(tx[q].kind)]
    IN  /\ tx[p].pc = "idle"
        /\ tx' = [q \in Requests |->
                    IF q = p THEN new
                    ELSE IF Rival(kind) /\ q \in same /\ tx[q].kind = "stop"
                         THEN [tx[q] EXCEPT !.contested = TRUE]
                         ELSE tx[q]]
        /\ optOut' = IF Rival(kind) THEN optOut \ {<<b, c>>} ELSE optOut
        /\ UNCHANGED <<bots, dest, sub, faults>>

ChatTypes == {"private", "group", "channel"}
Commands == {"start", "stop", "status", "help"}

\* _extract_command and _resolve_destination_context: /help, /about, a channel
\* and everything else touch no destination.
Asked(command, type) ==
    IF type = "channel" \/ command = "help" THEN "other" ELSE command

\* handle_telegram_update: a user sends a command.
Receive(u, command, type, b, c) ==
    LET kind == Asked(command, type)
    IN  Begin(u, kind, b, c, NoDest,
              CASE kind = "start" -> "active"
                [] kind = "stop" -> "unsubscribed"
                [] OTHER -> "none")

Redeliver(u) == tx[u].pc = "failed" /\ Move(u, "lookup")

\* POST /destinations
BeginCreate(a, b, c) == Begin(a, "create", b, c, NoDest, "active")

\* PATCH of a subscription's status from the dashboard
BeginSet(a, b, d, status) ==
    dest[d] # "none" /\ Begin(a, "set", b, ChatOf(d), d, status)

\* DELETE /destinations/{id}; the guard bounds how often a chat registers.
BeginDelete(a, d) ==
    /\ dest[d] # "none"
    /\ \E e \in Dests : ChatOf(e) = ChatOf(d) /\ dest[e] = "none"
    /\ Begin(a, "delete", "none", ChatOf(d), d, "deleted")

-----------------------------------------------------------------------------
(* Requests go on *)

\* get_bot_for_webhook, get_bot
NoBot(p) == tx[p].kind # "delete" /\ bots[tx[p].bot] = "deleted"

\* get_destination
NoDestination(p) == tx[p].kind \in {"set", "delete"} /\ dest[tx[p].dest] # "live"

\* The policy check: a closed bot answers /start without creating anything.
Start(p) ==
    /\ tx[p].kind = "start"
    /\ \/ bots[tx[p].bot] = "closed" /\ Done(p)
       \/ bots[tx[p].bot] = "open" /\ Move(p, "find")

Lookup(p) ==
    /\ tx[p].pc = "lookup"
    /\ IF NoBot(p) \/ NoDestination(p) THEN Fail(p)
       ELSE \/ Start(p)
            \/ tx[p].kind = "other" /\ Done(p)
            \/ tx[p].kind \in {"stop", "status", "create"} /\ Move(p, "find")
            \/ tx[p].kind = "set" /\ Move(p, "sub")
            \/ tx[p].kind = "delete" /\ Move(p, "list")

Found(p, d) ==
    /\ tx' = [tx EXCEPT ![p].pc = "sub", ![p].dest = d]
    /\ UNCHANGED <<bots, dest, sub, optOut, faults>>

\* get_or_create_destination
FindOrCreate(p) ==
    /\ tx[p].kind = "start"
    /\ \/ LiveDests(tx[p].chat) = {} /\ Move(p, "insert")
       \/ \E d \in LiveDests(tx[p].chat) : Found(p, d)

\* unsubscribe_via_stop, get_subscription_status
FindToReply(p) ==
    /\ tx[p].kind \in {"stop", "status"}
    /\ \/ LiveDests(tx[p].chat) = {} /\ Done(p)
       \/ \E d \in LiveDests(tx[p].chat) : Found(p, d)

\* create_destination registers a chat once.
FindDuplicate(p) ==
    /\ tx[p].kind = "create"
    /\ IF LiveDests(tx[p].chat) = {} THEN Move(p, "insert") ELSE Fail(p)

\* Mutant: get_active_by_chat forgets deleted_at IS NULL.
FindAnyDest(p) ==
    /\ tx[p].pc = "find"
    /\ \/ \E d \in Dests : ChatOf(d) = tx[p].chat /\ dest[d] # "none" /\ Found(p, d)
       \/ /\ LiveDests(tx[p].chat) = {}
          /\ IF tx[p].kind = "stop" THEN Done(p) ELSE Move(p, "insert")

\* get_active_by_chat
FindDest(p) ==
    tx[p].pc = "find" /\ (FindOrCreate(p) \/ FindToReply(p) \/ FindDuplicate(p))

\* Mutant: the chat has no unique index.
InsertDestUnchecked(p, d) ==
    /\ tx[p].pc = "insert"
    /\ ChatOf(d) = tx[p].chat /\ dest[d] = "none"
    /\ tx' = [tx EXCEPT ![p].pc = "write", ![p].dest = d,
                        ![p].destWrite = "insert"]
    /\ UNCHANGED <<bots, dest, sub, optOut, faults>>

\* Mutant: the new destination is committed before its subscription is written.
InsertDestCommitsEarly(p, d) ==
    /\ tx[p].pc = "insert" /\ ~ChatBusy(p)
    /\ ChatOf(d) = tx[p].chat /\ dest[d] = "none"
    /\ LiveDests(tx[p].chat) = {}
    /\ dest' = [dest EXCEPT ![d] = "live"]
    /\ tx' = [tx EXCEPT ![p].pc = "write", ![p].dest = d]
    /\ UNCHANGED <<bots, sub, optOut, faults>>

\* INSERT INTO destinations; the new row has no subscription yet.
InsertDest(p, d) ==
    /\ tx[p].pc = "insert" /\ ~ChatBusy(p)
    /\ ChatOf(d) = tx[p].chat /\ dest[d] = "none"
    /\ LiveDests(tx[p].chat) = {}
    /\ tx' = [tx EXCEPT ![p].pc = "write", ![p].dest = d,
                        ![p].destWrite = "insert"]
    /\ UNCHANGED <<bots, dest, sub, optOut, faults>>

\* IntegrityError of the partial unique index.
InsertConflicts(p) ==
    /\ tx[p].pc = "insert" /\ ~ChatBusy(p)
    /\ LiveDests(tx[p].chat) # {}
    /\ Fail(p)

\* The row was read; what is written depends on what was seen.
Selected(p, writes) ==
    /\ tx' = [tx EXCEPT ![p].pc = IF writes THEN "write" ELSE "commit",
                        ![p].seen = IF Visible(tx[p].bot, tx[p].dest)
                                    THEN sub[<<tx[p].bot, tx[p].dest>>] ELSE "none"]
    /\ UNCHANGED <<bots, dest, sub, optOut, faults>>

\* activate_subscription: an active or blocked row is left alone.
ActivateSub(p) ==
    /\ tx[p].kind = "start"
    /\ Selected(p, \/ ~Visible(tx[p].bot, tx[p].dest)
                   \/ sub[<<tx[p].bot, tx[p].dest>>] = "unsubscribed")

\* unsubscribe_via_stop
UnsubscribeSub(p) ==
    /\ tx[p].kind = "stop"
    /\ IF Visible(tx[p].bot, tx[p].dest)
       THEN Selected(p, sub[<<tx[p].bot, tx[p].dest>>] # tx[p].want) ELSE Done(p)

\* update_subscription_status; the ORM emits no UPDATE for a status that does
\* not change.
SetSub(p) ==
    /\ tx[p].kind = "set"
    /\ IF Visible(tx[p].bot, tx[p].dest)
       THEN Selected(p, sub[<<tx[p].bot, tx[p].dest>>] # tx[p].want) ELSE Fail(p)

\* _handle_status tells what was read and writes nothing.
ReportStatus(p) == tx[p].kind = "status" /\ Done(p)

SelectSub(p) ==
    /\ tx[p].pc = "sub"
    /\ ActivateSub(p) \/ UnsubscribeSub(p) \/ SetSub(p) \/ ReportStatus(p)

\* INSERT of a new subscription, which the unique constraint on (bot,
\* destination) refuses if there is any row, soft-deleted ones included; or
\* UPDATE of the status of the row that was read.
WriteSub(p) ==
    /\ tx[p].pc = "write" /\ ~SubBusy(p, tx[p].bot)
    /\ IF tx[p].seen = "none" /\ sub[<<tx[p].bot, tx[p].dest>>] # "none"
       THEN Fail(p)
       ELSE /\ tx' = [tx EXCEPT ![p].pc = "commit",
                                ![p].subWrites = {tx[p].bot}]
            /\ UNCHANGED <<bots, dest, sub, optOut, faults>>

\* delete_destination: list_active_for_destination ...
ListSubs(p) ==
    /\ tx[p].pc = "list"
    /\ tx' = [tx EXCEPT ![p].pc = "cascade",
                        ![p].todo = {b \in Bots : Visible(b, tx[p].dest)}]
    /\ UNCHANGED <<bots, dest, sub, optOut, faults>>

\* ... soft_delete of each, flushed one by one in no particular order ...
CascadeSub(p, b) ==
    /\ tx[p].pc = "cascade" /\ b \in tx[p].todo /\ ~SubBusy(p, b)
    /\ tx' = [tx EXCEPT ![p].todo = @ \ {b}, ![p].subWrites = @ \cup {b}]
    /\ UNCHANGED <<bots, dest, sub, optOut, faults>>

\* Mutant: the destination itself is not deleted.
RemoveNothing(p) ==
    /\ tx[p].pc = "cascade" /\ tx[p].todo = {} /\ ~DestBusy(p)
    /\ Move(p, "commit")

\* ... and of the destination.
RemoveDest(p) ==
    /\ tx[p].pc = "cascade" /\ tx[p].todo = {} /\ ~DestBusy(p)
    /\ tx' = [tx EXCEPT ![p].pc = "commit", ![p].destWrite = "delete"]
    /\ UNCHANGED <<bots, dest, sub, optOut, faults>>

\* Two deletions wait for each other's subscription rows: PostgreSQL aborts
\* one of them.
DeadlockVictim(p) ==
    /\ tx[p].pc = "cascade" /\ tx[p].todo # {}
    /\ \A b \in tx[p].todo : SubBusy(p, b)
    /\ \E q \in Requests \ {p} :
          /\ tx[q].pc = "cascade" /\ tx[q].dest = tx[p].dest
          /\ tx[q].todo \cap tx[p].subWrites # {}
          /\ tx[p].todo \cap tx[q].subWrites # {}
    /\ Fail(p)

-----------------------------------------------------------------------------
(* Bots change, requests die *)

\* update_subscription_policy
SetPolicy(b, policy) ==
    /\ BotChanges
    /\ bots[b] # "deleted" /\ bots[b] # policy
    /\ bots' = [bots EXCEPT ![b] = policy]
    /\ UNCHANGED <<dest, sub, tx, optOut, faults>>

\* delete_bot cascades to nothing.
DeleteBot(b) ==
    /\ BotChanges
    /\ bots[b] # "deleted"
    /\ bots' = [bots EXCEPT ![b] = "deleted"]
    /\ UNCHANGED <<dest, sub, tx, optOut, faults>>

\* The process or its connection dies before the commit.
RequestDies(p) ==
    /\ faults < MaxFaults /\ tx[p].pc \notin {"idle", "failed"}
    /\ tx' = [tx EXCEPT ![p] = Unanswered(p)]
    /\ faults' = faults + 1
    /\ UNCHANGED <<bots, dest, sub, optOut>>

\* The commit succeeds but Telegram does not see the 200.
AnswerLost(u) ==
    /\ faults < MaxFaults /\ tx[u].pc = "commit"
    /\ tx[u].kind \in UpdateKinds
    /\ Applied(u)
    /\ tx' = [tx EXCEPT ![u] = Unanswered(u)]
    /\ faults' = faults + 1
    /\ UNCHANGED <<bots, optOut>>

-----------------------------------------------------------------------------
Step(p) ==
    \/ Redeliver(p)
    \/ Lookup(p)
    \/ FindDest(p)
    \/ \E d \in Dests : InsertDest(p, d)
    \/ InsertConflicts(p)
    \/ SelectSub(p)
    \/ WriteSub(p)
    \/ ListSubs(p)
    \/ \E b \in Bots : CascadeSub(p, b)
    \/ RemoveDest(p)
    \/ DeadlockVictim(p)
    \/ Commit(p)

BeginNext ==
    \/ \E u \in Updates, command \in Commands, type \in ChatTypes,
         b \in Bots, c \in Chats : Receive(u, command, type, b, c)
    \/ \E a \in Admins :
          \/ \E b \in Bots, c \in Chats : BeginCreate(a, b, c)
          \/ \E b \in Bots, d \in Dests, status \in SubStatus :
                BeginSet(a, b, d, status)
          \/ \E d \in Dests : BeginDelete(a, d)

EnvironmentNext ==
    \/ \E b \in Bots, policy \in {"open", "closed"} : SetPolicy(b, policy)
    \/ \E b \in Bots : DeleteBot(b)
    \/ \E p \in Requests : RequestDies(p)
    \/ \E u \in Updates : AnswerLost(u)

Next ==
    \/ BeginNext
    \/ \E p \in Requests : Step(p)
    \/ EnvironmentNext

Spec == Init /\ [][Next]_vars

\* A request that was begun goes on, and the lock queues of PostgreSQL are
\* first come, first served, so that a waiting statement gets its turn (SF).
FairSpec == Spec /\ \A p \in Requests : SF_vars(Step(p))

-----------------------------------------------------------------------------
(* Properties *)

\* A chat never has two live destinations, whoever raced to register it: a
\* second one would make every later get_active_by_chat raise.
OneLiveDestination == \A c \in Chats : Cardinality(LiveDests(c)) <= 1

\* A soft-deleted subscription only hangs off a soft-deleted destination.
\* Otherwise the unique constraint, which counts soft-deleted rows, would
\* refuse every further /start of the chat.
TombstonesOffLiveDests ==
    \A b \in Bots, d \in Dests :
        sub[<<b, d>>] = "deleted" => dest[d] = "deleted"

\* No status update that was under way when a destination was deleted brings
\* its rows back.
DeletionIsFinal ==
    [][/\ \A d \in Dests : dest[d] = "deleted" => dest'[d] = "deleted"
       /\ \A s \in Bots \X Dests : sub[s] = "deleted" => sub'[s] = "deleted"]_vars

\* After a /stop that no concurrent request contested, the chat gets no more
\* messages of the bot until a later /start or dashboard request.
OptOutHonoured ==
    \A b \in Bots, c \in Chats : <<b, c>> \in optOut => ~Sendable(b, c)

\* To the one who looks at live destinations only, every commit is one operation
\* on its chat, whatever it overlapped with: the transactions implement
\* ChatRegister.
Registered == {c \in Chats : LiveDests(c) # {}}
LiveDest(c) == CHOOSE d \in LiveDests(c) : TRUE
StatusOf == [s \in Bots \X Chats |-> IF s[2] \in Registered
                                     THEN sub[<<s[1], LiveDest(s[2])>>]
                                     ELSE "none"]
Register == INSTANCE ChatRegister WITH registered <- Registered,
                                       status <- StatusOf
RegisterSpec == Register!Spec

\* A blocked subscription stays blocked until the dashboard says otherwise
\* (docstring of activate_subscription).
BlockedStaysBlocked ==
    [][\A s \in Bots \X Dests :
          sub[s] = "blocked" /\ sub'[s] # "blocked" =>
             \E a \in Admins :
                tx[a].pc = "commit" /\ tx[a].kind \in {"set", "delete"}]_vars

\* Every request ends, and Telegram gets its 200 for every update, whatever
\* conflicts, deadlocks and crashes its requests run into, unless the bot is
\* deleted meanwhile.
RequestsEnd ==
    \A p \in Requests :
        tx[p].pc # "idle"
        ~> \/ tx[p].pc = "idle"
           \/ \E b \in Bots : tx[p].bot = b /\ bots[b] = "deleted"

\* The user is told "unsubscribed" before the router commits.  Whatever becomes
\* of that commit, the chat ends up unsubscribed, unless another request
\* contests it.
RepliesComeTrue ==
    \A p \in Requests, b \in Bots, c \in Chats :
        /\ tx[p].pc = "commit" /\ tx[p].kind = "stop"
        /\ tx[p].bot = b /\ tx[p].chat = c
        ~> \/ ~Sendable(b, c)
           \/ tx[p].contested /\ tx[p].bot = b /\ tx[p].chat = c
           \/ bots[b] = "deleted"
=============================================================================
