# TLA+ verification of renot-api

renot-api sends Telegram messages for many organizations. A tenant registers
bots, chats subscribe to them with `/start`, and the dashboard or an external
application posts messages that Celery workers deliver. This directory holds
TLA+ models of the parts in which processes interfere, the TLC configurations
that check them and TLAPS proofs about each of them. Paths below are relative to
`src/app`.

## The system

| Component | State | Operations | Talks to |
|---|---|---|---|
| Message pipeline, `modules/messaging` | `messages`, `delivery_logs` (one row per destination: queued, sent, failed), Celery tasks | create a message, enqueue, dispatch what is due (beat), send with throttle and retries, give up, report a status, cascade of a deleted organization, purge of old logs | Telegram, Redis, broker, bots, destinations, billing |
| Message access, `core/deps.py`, `messaging/deps.py` | `message_templates` | API key or access token, permission, bot and destination checks in front of the pipeline; templates and the text made from them | bots, auth, organizations, destinations |
| Destinations and subscriptions, `modules/destinations` | `destinations`, `bot_destination_subscriptions` (active, unsubscribed, blocked) | register, activate, opt out, set a status, delete with cascade | webhooks, bots, messaging |
| Inbound webhooks, `modules/webhooks` | none of its own | `/start`, `/stop`, `/status`, ...; answers 200 or is called again | Telegram, destinations, billing |
| Organizations, `modules/organizations` | `organizations`, `memberships` | create, add a member, change a role, delete with a cascade over five modules | auth, bots, messaging |
| Bots, `modules/bots` | `bots` (API key hash, webhook secret), `bot_assignments`; the webhook at Telegram | register (`getMe`, then `setWebhook` before the commit), regenerate the key, update, delete, assign, unassign, subscription policy | Telegram, organizations |
| Authentication and authorization, `modules/auth`, `core/deps.py` | `users`, `refresh_tokens` | register, login, rotation, switch of organization, revocation; `require_permission` | organizations, rate limiting |
| Metering and retention, `modules/billing` | `plans`, `organization_plans`, `usage_events` | record an event (Celery, retried), change the plan, daily purge | messaging, webhooks |
| Rate limiting, `core/middleware/rate_limit.py`, the throttle of `messaging/tasks.py` | Redis counters | fixed windows: `INCR`, then `EXPIRE` by who saw 1 | every request, the send task |
| Shell (`main.py`, envelopes, i18n, pagination, logging) | none | | |

Three mechanisms connect them. **Requests** are PostgreSQL transactions at READ
COMMITTED: services flush, the router commits. **Tasks** are published to the
broker only after the commit, because a worker has its own connection; nothing
is transactional across the two. **Telegram** is called in the middle of both,
and calls the webhook until it is answered with 200.

What is hard is therefore: a crash between a commit and a publish; two
dispatchers, workers or requests that read the same row before either writes
it; a call that may or may not have gone through; retries that meet a state
their first attempt has left behind; cascades over tables that other requests
insert into; and a purge that runs beside all of them. `PROJECT.json` lists
these hazards line by line, with the properties that cover each.

What makes each component correct:

- *Pipeline:* a task never precedes its row; scheduled messages wait; `sent`
  implies delivered; nothing accepted is dropped silently; every delivery
  settles; a message is delivered, metered and reported once and truthfully.
- *Subscriptions:* one live destination per chat; an opt-out holds; a block
  holds; deleted rows stay deleted and never obstruct a live chat; requests end,
  and what a user was told before the commit comes true.
- *Bots:* a Telegram bot is live once on the platform; a live bot gets its
  updates, whatever registrations failed.
- *Message access:* nobody is let through who lacked a right during the whole
  request; deleted templates stay deleted.
- *Sessions:* a user per email; a session has one live refresh token.
- *Organizations, bots, tokens:* a complete cascade, after which a deleted
  organization admits nobody; assignees are members; an owner remains.
- *Metering and retention:* only expired rows are deleted, all of them in the
  end; an event keeps its log; metering tasks end.
- *Rate limiting:* at most the limit per window, and keys that expire.

## The modules

One action is the code between two points at which another process can
interfere: a statement that takes or waits for a lock, a commit, a publish, a
call to Telegram. `PROJECT.json` (`map`) gives the lines each definition
stands for. The definitions marked *Mutant* are not part of the models: they
are plausible bugs, each of which some property is known to catch.

### Delivery, DeliveryLedger

`Delivery` is `messaging/service.py`, `messaging/tasks.py` and their
repositories. A delivery log is a pair of a message and a destination.

- `CreateMessage`, `EnqueueImmediate`: the commit of `create_message` and the
  publishes after it; `outbox` is what the API process has yet to publish.
- `DispatchSelect`, `DispatchCommit`, `DispatchEnqueue`, `DispatchEnd`: one run
  of the beat task. The `SELECT` takes no lock, so runs overlap.
- `TakeTask` ... `Acknowledge`: `send_message_to_destination`. `worker[w].pc`
  says what the worker has done: `loaded` (the log is read), `cleared` (lookups
  and throttle passed), `answered` (Telegram accepted), `committed`, `rejected`
  and `failing` (retries exhausted), `acking`. `seen` is the status the ORM
  session loaded: the ORM emits no `UPDATE` when the value does not change, and
  fails with `StaleDataError` when the row is gone (`Written`).
- A throttled task is a *new* task with no retries counted (`Throttled`).
- `DeleteDestination`, `DeleteBot`: deletions elsewhere, as far as they matter
  here. The deletion of the organization (`cascade`) is two actions:
  `SelectPending` finds its messages by `dispatched_at IS NULL`, which is also
  true of each immediate message, and `DeleteOrganization` soft-deletes what was
  found, though a dispatcher may have taken it up meanwhile, and commits;
  `DeletionDies` rolls it back. Messages inserted in between survive. From its
  first statement on the deletion has the bot's row locked, so `DeleteBot` waits.
- `PurgeLog`: retention, by age only. `CrashRedelivers`, `TaskLost`,
  `ApiCrash`, `DispatcherCrash`, and `TelegramFails` with a delivery that timed
  out: the faults, switched on by `FaultKinds`.

`DeliveryLedger` is the promise without any process: a delivery reaches
Telegram at most once and its outcome is final and true. `Delivery` implements
it (`LedgerSpec`, with the rows and the deliveries as the mapping) when there
is one dispatcher, even while tasks are lost and the API process and the
dispatcher die: a delivery that is lost has not happened, or has happened and
been recorded. With redelivery, an ambiguous timeout or two dispatchers it does
not, and no code of this kind could: a worker that dies before its commit and
whose task comes back sends again.

### Subscriptions, ChatRegister

`modules/destinations` and the commands of `modules/webhooks`. A request is a
transaction in `tx`: what it has read (`dest`, `seen`), what it has flushed and
not committed (`destWrite`, `subWrites`) and how far it is. Row locks and waits
on a unique index are the guards `ChatBusy`, `DestBusy` and `SubBusy`. An
`UPDATE` writes only the columns that changed, so it cannot revive a row that
was soft-deleted meanwhile (`Applied`). An update without a 200 is redelivered.
A bot is *open* or *closed* to `/start` (`update_subscription_policy`). Each
chat is initially unknown, or registered with subscriptions of any status: two
bots subscribed to one chat, which takes two `/start`s, are where deletions
deadlock. `BotChanges` lets `update_subscription_policy` and `delete_bot` commit
at any time. `/status` is a request that reads and answers; commands that touch
no subscription are of kind `other`. The reply is sent in the step that enters
`commit`, before the router commits. `contested` notes that a request to
subscribe the chat to the bot was open meanwhile, `optOut` the chats whose last
wish was an uncontested `/stop`; both are read by the properties alone.

`ChatRegister` is what all this is to an observer who looks at live rows only: a
set of registered chats and a status for each bot and chat. A chat is registered
together with its first subscription (`Enlist`), statuses change one at a time
and none vanishes (`Change`), and a chat is removed with all its subscriptions at
once (`Remove`). `Subscriptions` implements it (`RegisterSpec`): the mapping
reads the status of a chat off its live destination, and every commit is one
operation or shows nothing, whatever it overlapped with.

### BotRegistry, MessageAccess

`BotRegistry` is `modules/bots/service.py` up to the assignments:
`RegisterBot`, `GetMe`, `CheckRegistered`, `InsertBot`, `SetWebhook` and
`RegistryCommit` are one registration; its INSERT waits on the partial unique
index for a rival that has not committed. `SetWebhookTimesOut` fails the
registration and leaves a call at Telegram that may be carried out at any later
time (`StrayLands`). `ChangeBot` ... `WriteKey`, `WriteDeletion` are the new
API key and the deletion, each an `UPDATE` by primary key of a row that was read
before.

`MessageAccess` extends it with a request to send or see a message or to change
a template. Each SELECT is an action: `FindBotByKey`, or `ResolveUser`,
`CheckMembership` and `CheckOrganization`; then `FindTarget`, `AssertBotAccess`
and `CheckAssigned`; then one `CheckDestination` each and `ResolveText`. In
between, registrations go on and `ChangeNext` lets others commit: roles,
assignments, subscriptions, and the deletion of an organization.
`seen` is history: what has been true at some time since the request began.
The code takes no lock across its checks, so it cannot promise that all rights
hold at once; `OnlyEntitledPass` is what it does promise.

### RateLimit, Sessions

`RateLimit` is the counter both users share: a call computes its window from
the clock (`StartCall`, `ReadClock`), then `Incr`s, then, having seen 1,
`SetExpiry`; `Tick` lets a second pass between any two of these, and
`CallDies` is a crash. `Classify` is `classify_request`; the send throttle
consumes a key of the bot and then one of the chat. `granted` counts, for the
window the clock is in, the calls that were let through having reached Redis
in the window they had computed.

`Sessions` puts the endpoints of `modules/auth` behind it: a request arrives at
the limiter, is handled or refused (`Handle`), and runs its statements
(`ReadEmail`, `InsertUser`; `SelectToken`, `Revoke`; `CheckUser`, `CheckMember`;
`Issue`) up to `Commit`. `session` names the chain a refresh token belongs to,
`forks` counts refreshes that were committed although another had revoked
their token since they arrived.

### Tenancy

One organization: members, bots, assignments and refresh tokens as one function
`db` from row keys to values, and requests with their flushed `writes`. A check
of permissions is one action with the start of its request. `delete_organization`
goes through assignments, bots, tokens, members and the organization, one
statement after the other.

Rows that other requests commit once the deletion is through with their table,
or once it is committed, are not found by it and stay. History, which only the
properties read, names them: `late` notes that the organization was deleted while
a request was open, `Swept` what a deletion is through with, `races.missed` the
bots, assignments and memberships that were committed too late and are still
there, and `races.door` that a membership or a refresh token was, by which a
deleted organization can still be entered: `switch_organization` and `refresh` do
not ask whether it is active, and issue tokens. `raced` marks a change of roles
that overlapped with another, `races.roles` that one was committed and no owner
has come since.

`update_member_role` counts its owners from rows that may be stale: SQLAlchemy's
identity map returns an object that is still referenced as it was loaded. It
refers to its objects weakly, and only the target's membership is held by a local
variable; the actor's is let go when `_assert_can_manage_members` returns, and
read anew (`Owners`).

### Retention

`modules/billing`: metering tasks (`RecordEvent`, `RecordFails`;
`RecordAnswerLost`, whose commit is applied but answers with an exception and
counts as a retry; `RecordRedelivered`, whose worker dies after its commit and
which `acks_late` runs again with the retries it had) and the daily purge
(`BeginPurge`, `PurgeEvents`, `PurgeLogs`, and `NextTenant`, which is also the end
of a run). Time is only the age of a row: fresh, then expired, a log before its
events. Traffic never ends: a row that was deleted and whose metering is settled
stands for the next delivery or update. The foreign key from an event to its
log has no `ON DELETE`: a metering task that is late, or the log of a message
that was scheduled days ahead, gives a young event for an old log, and when that
log expires before its event the `DELETE` fails and the run ends for all tenants
that were still to come (`Abort`).

## The runs

| Run | Bounds | Question |
|---|---|---|
| `delivery_faults` | 1 message, 1 destination, 2 workers, 1 dispatcher, 1 retry, 1 fault of any kind, throttle, purge, deletion of bot, destination and organization | Do rows, tasks and Telegram ever contradict each other (`TasksFollowCommit`, `NothingEarly`, `SentMeansDelivered`, `CancelledNeverSent`), is anything lost but by a fault that loses tasks (`NoLostDelivery`), and does every delivery that was not lost settle (`EveryDeliverySettles`)? |
| `delivery_ledger` | 1 message, 2 destinations, 2 workers, 1 dispatcher, 1 retry, throttle, 2 faults of those that lose work (a task, the API process, the dispatcher) | Does the pipeline implement `DeliveryLedger`, meter each sent log once unless its task was lost, and report a truthful status? |
| `subscriptions_webhooks` | 1 bot, 1 chat registered up to twice, 2 requests, of which one may be of the dashboard, 1 crash or lost answer | Can concurrent `/start`s register a chat twice, or undo an uncontested `/stop`? Is every commit one operation of `ChatRegister`? Does every request end, every update get its 200, and the reply to `/stop` come true? |
| `subscriptions_dashboard` | 2 bots that are opened, closed and deleted, 1 chat registered up to twice, 2 dashboard requests | Do deletions, deadlocks included, leave a tombstone under a live chat or revive anything? |
| `tenancy_safety` | 2 users, 1 bot, 2 tokens, 2 requests | Are assignees members? What can outlive the deletion of the organization, and does that let in a request that begins later? Does an owner remain? |
| `retention_purge` | 2 tenants, one with 2 deliveries at a time, one with 1 update, without end; 1 event each at a time, the first tenant's plan changes, 1 retry, batches of 1 | Does the purge delete what is expired and only that, with the foreign key intact? Does it reach everything in the end, and when does it not? Does metering end? |
| `sessions` | 2 callers, 3 calls, 1 death, 2 windows of 2 s, 1 email, 2 users, 4 tokens | Does a window let more than its limit through, do counters expire, do racing registrations make two users of an email, how many live tokens has a session? |
| `message_access` | 2 requests at a time of any kind, 3 in all, 1 Telegram bot, 2 tenants, 2 rows, 2 keys, 1 user, 2 destinations, 1 template, 2 bodies, 1 change by others, 1 fault | Is a Telegram bot live twice or unreachable? Does a request pass that lacked a right throughout? Does an edit revive a template? |

Four runs end in a counterexample, each a disagreement between the code and
what the repository says of it (`findings`):

- `delivery_throttle` (`FailuresBounded`): a throttled delivery forgets the
  failures it has counted, so `max_retries` does not bound them
  (`messaging/tasks.py:362` against lines 14-16).
- `delivery_purge` (`ScheduledStatusTruthful`): logs of a scheduled message are
  as old as the message. Scheduled further ahead than the retention period,
  they are purged while queued; nothing is sent and the status reads `sent`.
- `subscriptions_block` (`BlockedStaysBlocked`): `/stop` turns a blocked
  subscription into an unsubscribed one and `/start` activates it, although
  "blocked stays blocked" (`destinations/service.py:227-231`).
- `tenancy_owner` (`AlwaysAnOwner`): the last-owner check takes no lock; two
  demotions at once leave an organization without an owner.

Seen while modelling, with no run of their own: `MeteringEnds` holds although
an event may be counted twice when the answer to a commit is lost, which
`billing/tasks.py:17-19` rules out; `billing/tasks.py:28-30` says of the purge that
tomorrow's run "catches up" if one fails, which it need not do: while logs of one
tenant go on expiring before their events, each run may abort at that tenant and
the tenants read after it (the query has no `ORDER BY`) are never purged.
`RetentionReached` says when rows are reached and excepts this; without its
disjunct `[]<>Overtaken` TLC finds the starvation, a lasso in which the two logs
of one tenant take turns, even when rows age fairly. Then, two refreshes of one token that overlap both
succeed and leave a session with two live tokens, although `auth/service.py:106`
says that rotation prevents a replay (`SessionsForkOnlyByOverlap` states exactly
how far it does); the comment at `webhooks/service.py:249` says that the state is
committed when the reply is sent, which it is not (`RepliesComeTrue` shows that
redelivery makes up for it); an exception that is not a
`TelegramAPIError` (Redis, the database) ends a send task without a retry.

### Why the bounds are enough

Delivery logs share nothing but the message, the bot and the destination, so one
log shows every race for a row; two destinations are needed for the overall
status. Two workers are what a duplicate takes. One retry instead of five shows
both a retry and its exhaustion. One fault shows the state after each kind of
crash. Two registrations of a chat show the reuse of a chat after its deletion,
two requests every pairwise race. Two users are what the last-owner rule needs;
two tokens a rotation. Two tenants show one starving the other; two deliveries
at a time, of which names are used again, one log overtaking its event while
another takes its place, for ever; a batch of one row, several batches; one event
for a log suffices to hold it back; a plan that changes beside one that does not,
a tenant that leaves the purge or returns to it while a run is under way. Two
windows of two seconds show a call that crosses a boundary, three calls a limit of two exceeded. Four tokens are a session that
forks once and is refreshed again. Two tenants and two rows are what a race for
a Telegram bot takes; three requests in all let one that began before another's
commit meet one that began after it; one change by others is what makes a check
stale, and a second one could only restore it. What takes more of anything (two
dispatchers, three requests for one chat, several changes) is left to the
proofs, which cover any number.

The bounds that are not the program's: `MaxFaults`, `MaxDeaths`, `MaxRequests`,
`MaxChanges`, `MaxCalls`, `MaxTime` on what may happen, `Rows`, `Tokens`,
`ApiKeys`, `MaxEvents` on what may be inserted, `PlanChanges` on whose plan
changes; counters that only need "none, one, more" saturate (`Bump`), and `errs`
counts up to `MaxErrs` (`BumpErr`), which is 0 but in `delivery_throttle`, as no
other run reads it.

In `sessions` TLC exercises the `auth`, `bot` and `chat` counters; those of
general requests and of messages differ in their key only and are covered by
the proof, whose `RequestKeys` has them all.

Symmetry is used in the safety runs alone. Deadlock is not checked because the
models may stop: all messages are sent, all rows used. That nothing stops too
early is what the liveness properties say.

### Fairness

- *Delivery.* Processes that hold work go on (WF). The broker hands every task
  to some worker in the end and a Redis window has room for a delivery that
  keeps asking, as its key is new each second (SF). A throttle resets the
  retries, so a delivery that is refused and throttled in turn for ever would
  not end: `AttemptsEnd` assumes that it is throttled finitely often or that
  Telegram accepts it some time. This assumption is not the code's doing; it is
  the price of `FailuresBounded` being violated.
- *Subscriptions.* A request goes on, and PostgreSQL's lock queues are first
  come, first served, hence SF of a request's steps.
- *Retention.* A worker runs each queued task to its end at last, and beat starts
  the purge daily. That rows expire, that traffic stops or goes on, that a worker
  never dies and that a run succeeds are not assumed.

## The proofs

All are for every value of the constants that satisfies the module's
assumption: any number of rows, requests, workers, retries and faults. Each
module of proofs follows one pattern: an inductive invariant, a lemma that the
initial states satisfy it, one lemma per action or per group of actions of the
same shape, and the theorems as its corollaries.

| Module | Theorems | Invariant |
|---|---|---|
| `DeliveryProofs` | `TypeCorrect`, `SafetyInvariant`, `SentLogsWereDelivered`, `TasksFollowCommits`, `ScheduledMessagesWait`, `CancelledStaysUnsent`, `NothingIsDropped`, `LedgerInvariant`, `PipelineKeepsLedger`, `MeterIsTheLedger`, `StatusIsTruthful`, `RetriesEnd` | `IInv`, `HeldInv`, `LedgerInv`, `RetryInv` |
| `SubscriptionsProofs` | `LiveDestinationUnique`, `NoTombstoneInTheWay`, `OptOutHolds`, `DeletedForGood`, `SubscriptionsTyped`, `RequestsKeepRegister` | `SubsInv`, `AimInv` |
| `TenancyProofs` | `TenancyInvariant`, `AssigneesAreMembers`, `OwnerRemains`, `CascadeIsComplete`, `TenancyTyped` | `TenancyInv` |
| `RetentionProofs` | `EventsKeepTheirLogs`, `PurgeDeletesExpired`, `RetentionTyped` | `RetInv` |
| `RateLimitProofs` | `LimitHolds`, `LimiterTyped`, `CountersAreAccountedFor` | `LimitInv`, `ExpiryInv`, `CountInv` |
| `SessionsProofs` | `SessionsImplementLimiter`, `SessionsWithinLimit`, `SessionsLeaveFewCounters`, `EmailsUnique`, `SessionsRotate`, `SessionsTypeCorrect` | `EmailInv`, `ForkInv`, `IssuedInv` |
| `BotRegistryProofs` | `TelegramBotsLiveOnce`, `LiveBotsReachable` | `RegInv` |
| `MessageAccessProofs` | `AccessInvariant`, `OnlyTheEntitledPass`, `DeletedTemplatesStay`, `AccessIsTyped` | `AccessInv` |

What the invariants add to the properties, and why:

- *Delivery.* `IInv`: flags and logs belong to inserted messages and only due
  messages are dispatched (`RowsConsistent`), a worker holding Telegram's answer
  has called it (`CallsConsistent`), a dispatcher selected only due messages
  (`SelectionConsistent`), a cancelled message is deleted and no worker has been
  cleared to send it (`CancelledConsistent`). The last is why a dispatcher that
  marks a message after its deletion does no harm: the worker's lookup of the
  message fails. `NoLostDelivery` needs `HeldInv` on top: a worker past its
  commit holds a task for nothing, so the log it works on must have left
  `queued` before.
- *The ledger.* `IInv` leaves open how many tasks a delivery has: with
  redelivery or two dispatchers there can be several. `NoRepeats` (no redelivery,
  no ambiguous timeout, one dispatcher) excludes them; it leaves the faults that
  lose work. `LedgerInv` says what remains: there is at most one task, in
  the outbox, in a dispatcher's list, with the broker or with one worker, never
  in two places (`OneHand`); row, Telegram and meter are as far as its holder
  has come (`HandTrue`); a written outcome is true (`OutcomeTrue`). The step
  that needs most of it is `DispatchCommit`: the deliveries it takes up are
  unreleased, hence in nobody's hands (`NothingEarly`), and what it has selected
  no other run has marked (`Unmarked`, false with two dispatchers). A task that
  is lost leaves its row as its holder had written it, which no later step
  touches (`LostLedger`). Each action then maps to one of the ledger or to a
  stutter (`LedgerMap`). `StatusIsTruthful` needs none of this, only `IInv`, rows
  that stay, and finitely many destinations, since the status counts rows.
- *Retries.* `RetriesEnd` delimits the violation of `FailuresBounded`: without
  the throttle, which starts the count again, and without repeated tasks,
  Telegram refuses a delivery at most `max_retries + 1` times. `RetryInv` says
  that a task, wherever it is, carries at least as many retries as the delivery
  has failures, and needs `OneHand`: two tasks would count apart.
- *Subscriptions.* `SubsInv` says for each request what it holds for its kind
  and stage (`ReqOK`); a destination it has flushed is new, its chat has no live
  one, and no other request has flushed one for that chat (`RowOK`, the unique
  index). An uncontested `/stop` will leave the chat muted (`StopOK`): only a
  request that contests it could have inserted or activated what it did not
  see. A chat in `optOut` is muted and no request that could change that is
  under way (`OptOutInv`).
- *The register.* For `RequestsKeepRegister` a commit must be one operation, so
  `AimInv` says what a request is about to write: `active` for a request to
  subscribe, exactly the requester's subscription with a new destination, and a
  change of status only where there is a subscription. The last was read before
  and must still hold at the commit; that no subscription vanishes (`SubsStay`)
  is what keeps it. Tombstones never hang off a live destination
  (`TombstonesOffLiveDests`), so what a commit writes there it writes to a live
  row, and a new destination has no rows at all.
- *Tenancy.* `TenancyInv` says of each row a request is about to write what it
  has read of it, and of two requests that they never hold one row (`Apart`). A
  role change without a rival leaves an owner after its commit (`OwnerOK`); a
  deletion has flushed everything that was alive in the tables it is through
  with, except what others committed since, which is on record (`CascadeOK`);
  once it is committed only that is alive, and every request either was open
  before or issues tokens by a door that was missed (`Gone`, `DoorOK`).
- *Retention.* What a run has selected stays expired until the run deletes it
  (`DueExpired`): rows age in one direction. The foreign key does the rest.
- *Rate limiting.* A counter outlives its window (`OutliveWindows`), because
  its expiry is at least a window's length and is counted from a moment not
  before the window began (`WindowsPast`); so the counter of the clock's window
  has counted every call that was granted in it (`GrantsCounted`). The lemmas on
  `\div` are proved from its definition. By `SessionsImplementLimiter` every
  behaviour of the auth endpoints is one of the limiter, which gives
  `SessionsWithinLimit`. `CountersExpire` compares two sets, so `ExpiryInv` says
  why the first is no larger: each call that still owes an expiry owes it to a
  counter without one, and no two calls to the same. Each step adds one
  element at most to either set, so both stay finite for any set of callers.
  `CountInv` gives the types their bounds: no counter exceeds the calls there
  were (`CallsCounted`).
- *Sessions.* A flushed registration reserves its email and its row
  (`Reserved`): no user and no other flushed registration has them. `ForkInv` is
  what rotation rests on: a request has a row for its token exactly when it is
  about to commit, one that arrived with a revoked token gets no further than
  its SELECT (`Rotating`), the row is nobody else's (`RowsFree`), and every token
  belongs to a session that a login began (`Rooted`). A committed rotation then
  adds its token and takes away the one it replaces, or finds that gone and
  counts a fork. `IssuedInv` adds the times of issue for the type invariant.
- *Bots.* A registration that has flushed its row (`Pending`) is the only one of
  its Telegram bot, no live row has that bot, and from `setWebhook` on
  Telegram's calls reach it (`PendingOK`); a row with a stray call was rolled
  back.
- *Message access.* Each check a request has passed is in `seen` (`PassedOK`),
  and so is whatever holds in the present state; each step then has to show that
  what it checks holds now. A template that a request has written but not
  committed is locked against a second writer (`TemplatesOK`).

Only model-checked: the liveness properties (`EveryDeliverySettles`,
`RequestsEnd`, `RepliesComeTrue`, `MeteringEnds`, `RetentionReached`), as
fairness and `ENABLED` are beyond the prover. Every safety property of a passing
run is a theorem.

What the theorems do not say. `WithinLimit` is about calls that reach Redis in
the window they computed: one that is late may find its counter gone and pass as
the first of a new one. It bounds a window, not any interval of its length:
fixed windows admit up to twice the limit around a boundary. `LiveBotReachable`
excepts a `setWebhook` that timed out and landed late. `OwnerKept` excepts
role changes that overlap, where the code fails (`tenancy_owner`).
`CascadeComplete` excepts what is committed behind the cascade's back, where it
fails too, and says that this lets nobody else in: a membership or a refresh token
that was missed goes on issuing tokens, which open nothing that asks whether the
organization is active.

## Not modelled

- Contents: Telegram payloads and media types, the syntax of templates (a text
  is one its template had), the wording of replies, names, titles and
  descriptions (`update_bot`, `update_destination`, `update_organization`),
  passwords and hashes, the encoding of JWTs, encryption of bot tokens.
- Reads that decide nothing: listings, pagination, usage reports and the
  arithmetic of quotas, log streams.
- Two first reads of an organization's plan that both insert the default
  (`billing/service.py:63`): `Retention` assigns a plan in one step. Added to
  `Tenancy`, where it belongs, the plan triples a run that is near its limit.
- What remains readable of a message after its organization was deleted
  (`messaging/repository.py:133`).
- How chats share a bot's throttle (`messaging/tasks.py:111`): `Delivery` leaves
  the number of throttled attempts open.
- Engine and connection pools, queue routing and priorities, worker bootstrap,
  and the HTTP shell (`main.py`, envelopes, i18n, logging): configuration
  without state of its own. Of the migrations, only constraints that others
  rely on appear: unique indexes and the foreign key of `usage_events`.

External services are modelled from their use: PostgreSQL as READ COMMITTED with
row locks and unique indexes, the broker as a bag of tasks that may be delivered
again, Redis as counters with an expiry, Telegram as a service that accepts,
refuses, or accepts without saying so.

## Plan

Done, in this order: `Delivery` with `DeliveryLedger`; `Subscriptions` with
`ChatRegister`;
`Tenancy`; `Retention`; `RateLimit` and `Sessions`; `BotRegistry` and
`MessageAccess`; a module of proofs for each.

What is left, most important first:

1. `create_message` whose checks precede the commit of `delete_organization` and
   whose own commit follows it, and the default plan assigned
   by two first reads, in a module beside `Tenancy` with a run of its own.
2. Composition of `Delivery` and `Retention`: the purge of logs by tenant and
   the metering of sent deliveries against one another.
3. The fair share of a bot's throttle among its chats.
