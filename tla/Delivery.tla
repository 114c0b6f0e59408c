------------------------------ MODULE Delivery ------------------------------
(***************************************************************************)
(* The message pipeline of src/app/modules/messaging: an API request       *)
(* inserts a Message and one queued DeliveryLog per destination, commits,  *)
(* and only then enqueues one Celery task per log; scheduled messages are  *)
(* enqueued by the beat dispatcher instead.  Workers take a task, re-read  *)
(* the log, look the message, bot and destination up, pass the Redis       *)
(* throttle, call Telegram and commit the outcome.                         *)
(*                                                                         *)
(* One DeliveryLog row is a pair <<message, destination>> (the unique      *)
(* constraint of the table).  Each action is the code between two points   *)
(* at which another process can interfere: a commit, a broker operation or *)
(* the call to Telegram.                                                   *)
(***************************************************************************)
EXTENDS Naturals, FiniteSets

CONSTANTS
    Messages, Destinations, \* rows of the tables; one bot, one tenant
    Workers,                \* prefork children of the Celery worker
    Dispatchers,            \* concurrent runs of dispatch_scheduled_message
    Bot,                    \* the bot row, told apart from the destinations
    MaxRetries,             \* _MAX_SEND_RETRIES
    FaultKinds,             \* which faults may happen (see Faults)
    MaxFaults,              \* bound on the crashes of a behaviour
    MaxErrs,                \* how far the failures of a delivery are counted (bound)
    CanThrottle,            \* whether the Redis window can be full
    Retention               \* whether the tenant's plan has retention_days

Faults == {"redeliver",     \* the whole worker dies: acks_late redelivers
           "lose",          \* child killed, or an exception Celery acks
           "apiCrash",      \* API process dies between commit and enqueue
           "dispatchCrash", \* dispatcher dies between commit and enqueue
           "ambiguous"}     \* Telegram delivered, but the call timed out

ASSUME ConstantsAssumption ==
    /\ MaxRetries \in Nat
    /\ MaxFaults \in Nat
    /\ MaxErrs \in Nat
    /\ FaultKinds \subseteq Faults
    /\ CanThrottle \in BOOLEAN
    /\ Retention \in BOOLEAN
    /\ Bot \notin Destinations

Logs == Messages \X Destinations
Retries == 0..MaxRetries

VARIABLES
    msg,       \* Message rows
    log,       \* DeliveryLog.status, with "absent" and "purged" rows
    gone,      \* soft-deleted destinations, and Bot once the bot is deleted
    outbox,    \* logs the API has committed and not yet enqueued
    disp,      \* local state of the dispatcher runs
    tasks,     \* broker: how many tasks per log and value of request.retries
    worker,    \* local state of the workers
    tg,        \* how often Telegram delivered the log (0, 1 or "more" = 2)
    errs,      \* TelegramAPIErrors of the log, up to MaxErrs
    metered,   \* event_out tasks enqueued for the log (0, 1 or "more" = 2)
    cascade,   \* how far the deletion of the organization is with its messages
    cancelled, \* scheduled messages deleted before they were dispatched
    dropped,   \* logs of which a fault dropped a task
    faults     \* crashes so far

vars == <<msg, log, gone, outbox, disp, tasks, worker, tg, errs, metered,
          cascade, cancelled, dropped, faults>>

Status == {"queued", "sent", "failed"}

IdleWorker == [pc |-> "idle"]
BusyPCs == {"loaded", "cleared", "answered", "committed", "rejected",
            "failing", "acking"}
BusyWorker == [pc : BusyPCs, log : Logs, retries : Retries, seen : Status]

MessageRow == [phase : {"none", "active", "deleted"}, sched : BOOLEAN,
               due : BOOLEAN, dispatched : BOOLEAN]

DispatcherState == [pc : {"idle", "selected", "enqueueing"},
                    rows : SUBSET Messages, todo : SUBSET Logs]

IdleDispatcher == [pc |-> "idle", rows |-> {}, todo |-> {}]

CascadeState == [pc : {"none", "selected", "done"}, rows : SUBSET Messages]

NoCascade == [pc |-> "none", rows |-> {}]

NoMessage == [phase |-> "none", sched |-> FALSE, due |-> FALSE,
              dispatched |-> FALSE]

TypeOK ==
    /\ msg \in [Messages -> MessageRow]
    /\ log \in [Logs -> Status \cup {"absent", "purged"}]
    /\ gone \subseteq Destinations \cup {Bot}
    /\ outbox \subseteq Logs
    /\ disp \in [Dispatchers -> DispatcherState]
    /\ tasks \in [Logs -> [Retries -> Nat]]
    /\ worker \in [Workers -> {IdleWorker} \cup BusyWorker]
    /\ tg \in [Logs -> 0..2]
    /\ errs \in [Logs -> 0..MaxErrs]
    /\ metered \in [Logs -> 0..2]
    /\ cascade \in CascadeState
    /\ cancelled \subseteq Messages
    /\ dropped \subseteq Logs
    /\ faults \in 0..MaxFaults

Init ==
    /\ msg = [m \in Messages |-> NoMessage]
    /\ log = [l \in Logs |-> "absent"]
    /\ gone = {}
    /\ outbox = {}
    /\ disp = [p \in Dispatchers |-> IdleDispatcher]
    /\ tasks = [l \in Logs |-> [r \in Retries |-> 0]]
    /\ worker = [w \in Workers |-> IdleWorker]
    /\ tg = [l \in Logs |-> 0]
    /\ errs = [l \in Logs |-> 0]
    /\ metered = [l \in Logs |-> 0]
    /\ cascade = NoCascade
    /\ cancelled = {}
    /\ dropped = {}
    /\ faults = 0

-----------------------------------------------------------------------------
(* Helpers *)

\* The row exists in delivery_logs.
Exists(l) == log[l] \in Status

LogsOf(m) == {l \in Logs : l[1] = m /\ Exists(l)}

\* Counters that only tell "none", "one" and "more than one" apart, or count as
\* far as MaxErrs.
Bump(n) == IF n < 2 THEN n + 1 ELSE n
BumpErr(n) == IF n < MaxErrs THEN n + 1 ELSE n

Publish(q, l, r) == [q EXCEPT ![l][r] = @ + 1]

\* mark_sent / mark_failed and the commit: the ORM emits the UPDATE of the
\* status only if it differs from the value the session loaded, and raises
\* StaleDataError if the row is gone.
Written(l, seen, status) ==
    IF log[l] = "purged" \/ seen = status
    THEN log ELSE [log EXCEPT ![l] = status]

\* get_active, get_bot and get_destination of _process_delivery all succeed.
Deliverable(l) ==
    /\ msg[l[1]].phase = "active"
    /\ Bot \notin gone
    /\ l[2] \notin gone

\* Mutant: one sent row is enough to call the message sent.
OverallStatusAnySent(m) ==
    IF msg[m].sched /\ ~msg[m].dispatched THEN "scheduled"
    ELSE IF \E l \in LogsOf(m) : log[l] = "sent" THEN "sent"
    ELSE "in_progress"

\* compute_overall_status, from the rows GET /messages/{id}/status reads.
OverallStatus(m) ==
    LET Count(status) == Cardinality({l \in LogsOf(m) : log[l] = status})
        total == Cardinality(LogsOf(m))
    IN  IF msg[m].sched /\ ~msg[m].dispatched THEN "scheduled"
        ELSE IF total = 0 THEN "sent"
        ELSE IF Count("queued") = total THEN "queued"
        ELSE IF Count("queued") > 0 THEN "in_progress"
        ELSE IF Count("failed") = 0 THEN "sent"
        ELSE IF Count("sent") = 0 THEN "failed"
        ELSE "partially_failed"

\* Mutant: the SELECT forgets scheduled_at <= now.
DueWithoutClock ==
    {m \in Messages : /\ msg[m].phase = "active"
                      /\ msg[m].sched /\ ~msg[m].dispatched}

\* list_due_for_dispatch
DueForDispatch ==
    {m \in Messages : /\ msg[m].phase = "active"
                      /\ msg[m].sched /\ msg[m].due
                      /\ ~msg[m].dispatched}

Works(w, l) == worker[w].pc # "idle" /\ worker[w].log = l

Goto(w, pc) == worker' = [worker EXCEPT ![w].pc = pc]

-----------------------------------------------------------------------------
(* API requests, each one a committed transaction *)

\* Mutant: the tasks are enqueued before the transaction commits.
CreateMessageEnqueuesFirst(m, D, sched) ==
    /\ msg[m].phase = "none"
    /\ D # {} /\ D \cap gone = {} /\ Bot \notin gone
    /\ \/ /\ ~sched /\ outbox' = outbox \cup ({m} \X D)
          /\ UNCHANGED <<msg, log>>
       \/ /\ msg' = [msg EXCEPT ![m].phase = "active", ![m].sched = sched]
          /\ log' = [l \in Logs |-> IF l[1] = m /\ l[2] \in D
                                    THEN "queued" ELSE log[l]]
          /\ UNCHANGED outbox
    /\ UNCHANGED <<gone, disp, tasks, worker, tg, errs, metered, cascade,
                   cancelled, dropped, faults>>

\* create_message: bot and destinations looked up, a scheduled_at must lie in
\* the future; rows inserted and committed.  Only an immediate message is
\* left for enqueue_immediate_deliveries.
CreateMessage(m, D, sched) ==
    /\ msg[m].phase = "none"
    /\ D # {} /\ D \cap gone = {} /\ Bot \notin gone
    /\ msg' = [msg EXCEPT ![m] = [NoMessage EXCEPT !.phase = "active",
                                                   !.sched = sched]]
    /\ log' = [l \in Logs |-> IF l[1] = m /\ l[2] \in D
                              THEN "queued" ELSE log[l]]
    /\ outbox' = IF sched THEN outbox ELSE outbox \cup ({m} \X D)
    /\ UNCHANGED <<gone, disp, tasks, worker, tg, errs, metered, cascade,
                   cancelled, dropped, faults>>

EnqueueImmediate(l) ==
    /\ l \in outbox
    /\ outbox' = outbox \ {l}
    /\ tasks' = Publish(tasks, l, 0)
    /\ UNCHANGED <<msg, log, gone, disp, worker, tg, errs, metered, cascade,
                   cancelled, dropped, faults>>

DeleteDestination(d) ==
    /\ d \notin gone
    /\ gone' = gone \cup {d}
    /\ UNCHANGED <<msg, log, outbox, disp, tasks, worker, tg, errs, metered,
                   cascade, cancelled, dropped, faults>>

\* delete_bot cascades to nothing: its messages fail when they are sent.  It waits
\* for a deletion of the organization, which has flushed the bot by then.
DeleteBot ==
    /\ Bot \notin gone /\ cascade.pc # "selected"
    /\ gone' = gone \cup {Bot}
    /\ UNCHANGED <<msg, log, outbox, disp, tasks, worker, tg, errs, metered,
                   cascade, cancelled, dropped, faults>>

\* delete_organization, as far as it touches the pipeline: once the bots are
\* flushed, list_pending_for_tenant finds every message whose dispatched_at is
\* NULL, which an immediate message's always is ...
SelectPending ==
    /\ cascade.pc = "none"
    /\ cascade' = [pc |-> "selected",
                   rows |-> {m \in Messages : /\ msg[m].phase = "active"
                                              /\ ~msg[m].dispatched}]
    /\ UNCHANGED <<msg, log, gone, outbox, disp, tasks, worker, tg, errs,
                   metered, cancelled, dropped, faults>>

\* ... and soft-deletes them by primary key, though they may have been dispatched
\* meanwhile; the commit makes bots and messages disappear together ...
DeleteOrganization ==
    /\ cascade.pc = "selected"
    /\ gone' = gone \cup {Bot}
    /\ msg' = [m \in Messages |-> IF m \in cascade.rows
                                  THEN [msg[m] EXCEPT !.phase = "deleted"]
                                  ELSE msg[m]]
    /\ cancelled' = cancelled \cup {m \in cascade.rows : /\ msg[m].sched
                                                        /\ ~msg[m].dispatched}
    /\ cascade' = [pc |-> "done", rows |-> {}]
    /\ UNCHANGED <<log, outbox, disp, tasks, worker, tg, errs, metered, dropped,
                   faults>>

\* ... or the request dies, and the deletion may be asked for again.
DeletionDies ==
    /\ cascade.pc = "selected"
    /\ cascade' = NoCascade
    /\ UNCHANGED <<msg, log, gone, outbox, disp, tasks, worker, tg, errs,
                   metered, cancelled, dropped, faults>>

-----------------------------------------------------------------------------
(* The beat task dispatch_scheduled_message *)

\* The clock reaches scheduled_at.
BecomeDue(m) ==
    /\ msg[m].phase # "none" /\ msg[m].sched /\ ~msg[m].due
    /\ msg' = [msg EXCEPT ![m].due = TRUE]
    /\ UNCHANGED <<log, gone, outbox, disp, tasks, worker, tg, errs, metered,
                   cascade, cancelled, dropped, faults>>

\* The SELECT of the due messages takes no row lock.
DispatchSelect(p) ==
    /\ disp[p].pc = "idle"
    /\ DueForDispatch # {}
    /\ disp' = [disp EXCEPT ![p] = [pc |-> "selected", rows |-> DueForDispatch,
                                    todo |-> {}]]
    /\ UNCHANGED <<msg, log, gone, outbox, tasks, worker, tg, errs, metered,
                   cascade, cancelled, dropped, faults>>

\* Mutant: the dispatcher enqueues without mark_dispatched.
DispatchUnmarked(p) ==
    /\ disp[p].pc = "selected"
    /\ disp' = [disp EXCEPT ![p] =
                  [pc |-> "enqueueing", rows |-> {},
                   todo |-> UNION {LogsOf(m) : m \in disp[p].rows}]]
    /\ UNCHANGED <<msg, log, gone, outbox, tasks, worker, tg, errs, metered,
                   cascade, cancelled, dropped, faults>>

\* Every selected row is marked by primary key, whatever has become of it.
DispatchCommit(p) ==
    /\ disp[p].pc = "selected"
    /\ msg' = [m \in Messages |-> IF m \in disp[p].rows
                                  THEN [msg[m] EXCEPT !.dispatched = TRUE]
                                  ELSE msg[m]]
    /\ disp' = [disp EXCEPT ![p] =
                  [pc |-> "enqueueing", rows |-> {},
                   todo |-> UNION {LogsOf(m) : m \in disp[p].rows}]]
    /\ UNCHANGED <<log, gone, outbox, tasks, worker, tg, errs, metered, cascade,
                   cancelled, dropped, faults>>

DispatchEnqueue(p, l) ==
    /\ disp[p].pc = "enqueueing" /\ l \in disp[p].todo
    /\ disp' = [disp EXCEPT ![p].todo = @ \ {l}]
    /\ tasks' = Publish(tasks, l, 0)
    /\ UNCHANGED <<msg, log, gone, outbox, worker, tg, errs, metered, cascade,
                   cancelled, dropped, faults>>

DispatchEnd(p) ==
    /\ disp[p].pc = "enqueueing" /\ disp[p].todo = {}
    /\ disp' = [disp EXCEPT ![p] = IdleDispatcher]
    /\ UNCHANGED <<msg, log, gone, outbox, tasks, worker, tg, errs, metered,
                   cascade, cancelled, dropped, faults>>

-----------------------------------------------------------------------------
(* The task send_message_to_destination *)

\* A worker receives the task and reads its log; a missing row, or one that
\* is already sent, ends the task.
TakeTask(w, l, r) ==
    /\ worker[w].pc = "idle" /\ tasks[l][r] > 0
    /\ tasks' = [tasks EXCEPT ![l][r] = @ - 1]
    /\ worker' = IF log[l] \in {"queued", "failed"}
                 THEN [worker EXCEPT ![w] = [pc |-> "loaded", log |-> l,
                                             retries |-> r, seen |-> log[l]]]
                 ELSE worker
    /\ UNCHANGED <<msg, log, gone, outbox, disp, tg, errs, metered, cascade,
                   cancelled, dropped, faults>>

\* Message, bot or destination is gone: mark_failed and commit.
Undeliverable(w) ==
    /\ worker[w].pc = "loaded" /\ ~Deliverable(worker[w].log)
    /\ log' = Written(worker[w].log, worker[w].seen, "failed")
    /\ Goto(w, "acking")
    /\ UNCHANGED <<msg, gone, outbox, disp, tasks, tg, errs, metered, cascade,
                   cancelled, dropped, faults>>

\* Mutant: the task trusts the rows it was enqueued for.
PassThrottleUnchecked(w) ==
    /\ worker[w].pc = "loaded"
    /\ Goto(w, "cleared")
    /\ UNCHANGED <<msg, log, gone, outbox, disp, tasks, tg, errs, metered,
                   cascade, cancelled, dropped, faults>>

\* The lookups succeed and the Redis windows have room.
PassThrottle(w) ==
    /\ worker[w].pc = "loaded" /\ Deliverable(worker[w].log)
    /\ Goto(w, "cleared")
    /\ UNCHANGED <<msg, log, gone, outbox, disp, tasks, tg, errs, metered,
                   cascade, cancelled, dropped, faults>>

\* A full window: a NEW task, whose request.retries starts at 0 again.
Throttled(w) ==
    /\ CanThrottle
    /\ worker[w].pc = "loaded" /\ Deliverable(worker[w].log)
    /\ tasks' = Publish(tasks, worker[w].log, 0)
    /\ Goto(w, "acking")
    /\ UNCHANGED <<msg, log, gone, outbox, disp, tg, errs, metered, cascade,
                   cancelled, dropped, faults>>

TelegramAccepts(w) ==
    /\ worker[w].pc = "cleared"
    /\ tg' = [tg EXCEPT ![worker[w].log] = Bump(@)]
    /\ Goto(w, "answered")
    /\ UNCHANGED <<msg, log, gone, outbox, disp, tasks, errs, metered, cascade,
                   cancelled, dropped, faults>>

\* Mutant: the last retry gives up without recording the failure.
TelegramFailsQuietly(w, delivered) ==
    LET l == worker[w].log IN
    /\ worker[w].pc = "cleared"
    /\ delivered => "ambiguous" \in FaultKinds
    /\ tg' = IF delivered THEN [tg EXCEPT ![l] = Bump(@)] ELSE tg
    /\ errs' = [errs EXCEPT ![l] = BumpErr(@)]
    /\ tasks' = IF worker[w].retries >= MaxRetries THEN tasks
                ELSE Publish(tasks, l, worker[w].retries + 1)
    /\ Goto(w, "acking")
    /\ UNCHANGED <<msg, log, gone, outbox, disp, metered, cascade, cancelled,
                   dropped, faults>>

\* TelegramAPIError: an ok:false answer, or any httpx.HTTPError, a read
\* timeout after the delivery included.  Retried until max_retries.
TelegramFails(w, delivered) ==
    LET l == worker[w].log IN
    /\ worker[w].pc = "cleared"
    /\ delivered => "ambiguous" \in FaultKinds
    /\ tg' = IF delivered THEN [tg EXCEPT ![l] = Bump(@)] ELSE tg
    /\ errs' = [errs EXCEPT ![l] = BumpErr(@)]
    /\ IF worker[w].retries >= MaxRetries
       THEN /\ Goto(w, "rejected")
            /\ UNCHANGED tasks
       ELSE /\ Goto(w, "acking")
            /\ tasks' = Publish(tasks, l, worker[w].retries + 1)
    /\ UNCHANGED <<msg, log, gone, outbox, disp, metered, cascade, cancelled,
                   dropped, faults>>

\* Mutant: mark_sent is committed before the call to Telegram.
CommitSentFirst(w) ==
    /\ worker[w].pc = "cleared"
    /\ log' = Written(worker[w].log, worker[w].seen, "sent")
    /\ UNCHANGED <<msg, gone, outbox, disp, tasks, worker, tg, errs, metered,
                   cascade, cancelled, dropped, faults>>

\* mark_sent and commit; StaleDataError when the row was purged meanwhile.
CommitSent(w) ==
    LET l == worker[w].log IN
    /\ worker[w].pc = "answered"
    /\ log' = Written(l, worker[w].seen, "sent")
    /\ Goto(w, IF log[l] = "purged" THEN "acking" ELSE "committed")
    /\ UNCHANGED <<msg, gone, outbox, disp, tasks, tg, errs, metered, cascade,
                   cancelled, dropped, faults>>

\* Mutant: the usage event is enqueued before mark_sent is committed.
MeterBeforeCommit(w) ==
    /\ worker[w].pc = "answered" /\ metered[worker[w].log] = 0
    /\ metered' = [metered EXCEPT ![worker[w].log] = Bump(@)]
    /\ UNCHANGED <<msg, log, gone, outbox, disp, tasks, worker, tg, errs,
                   cascade, cancelled, dropped, faults>>

\* enqueue_event_out, then the best-effort outbound callback.
MeterEventOut(w) ==
    /\ worker[w].pc = "committed"
    /\ metered' = [metered EXCEPT ![worker[w].log] = Bump(@)]
    /\ Goto(w, "acking")
    /\ UNCHANGED <<msg, log, gone, outbox, disp, tasks, tg, errs, cascade,
                   cancelled, dropped, faults>>

\* _mark_delivery_failed_permanently reads the log in a fresh session ...
GiveUpLoad(w) ==
    LET l == worker[w].log IN
    /\ worker[w].pc = "rejected"
    /\ worker' = IF Exists(l)
                 THEN [worker EXCEPT ![w].pc = "failing", ![w].seen = log[l]]
                 ELSE [worker EXCEPT ![w].pc = "acking"]
    /\ UNCHANGED <<msg, log, gone, outbox, disp, tasks, tg, errs, metered,
                   cascade, cancelled, dropped, faults>>

\* ... and marks it failed whatever its status is.
GiveUpCommit(w) ==
    /\ worker[w].pc = "failing"
    /\ log' = Written(worker[w].log, worker[w].seen, "failed")
    /\ Goto(w, "acking")
    /\ UNCHANGED <<msg, gone, outbox, disp, tasks, tg, errs, metered, cascade,
                   cancelled, dropped, faults>>

\* Mutant: the worker does not clear its task.
AcknowledgeKeepsTask(w) ==
    /\ worker[w].pc = "acking"
    /\ Goto(w, "idle")
    /\ UNCHANGED <<msg, log, gone, outbox, disp, tasks, tg, errs, metered,
                   cascade, cancelled, dropped, faults>>

\* acks_late: the broker forgets the task only when the function returned.
Acknowledge(w) ==
    /\ worker[w].pc = "acking"
    /\ worker' = [worker EXCEPT ![w] = IdleWorker]
    /\ UNCHANGED <<msg, log, gone, outbox, disp, tasks, tg, errs, metered,
                   cascade, cancelled, dropped, faults>>

-----------------------------------------------------------------------------
(* The retention purge, and faults *)

\* purge_delivery_logs_batch hard-deletes old rows whatever their status.
PurgeLog(l) ==
    /\ Retention /\ Exists(l)
    /\ log' = [log EXCEPT ![l] = "purged"]
    /\ UNCHANGED <<msg, gone, outbox, disp, tasks, worker, tg, errs, metered,
                   cascade, cancelled, dropped, faults>>

Fault(kind) ==
    /\ kind \in FaultKinds /\ faults < MaxFaults
    /\ faults' = faults + 1

\* A worker that dies during the call leaves open whether it went through.
DiesInCall(w, delivered) ==
    /\ worker[w].pc # "idle"
    /\ delivered => worker[w].pc = "cleared"
    /\ tg' = IF delivered THEN [tg EXCEPT ![worker[w].log] = Bump(@)] ELSE tg
    /\ worker' = [worker EXCEPT ![w] = IdleWorker]

\* Mutant: tasks are acknowledged early, so a dead worker's is not redelivered.
CrashAcksEarly(w, delivered) ==
    /\ Fault("redeliver")
    /\ DiesInCall(w, delivered)
    /\ UNCHANGED <<msg, log, gone, outbox, disp, tasks, errs, metered, cascade,
                   cancelled, dropped>>

\* The worker process group dies: the unacknowledged task is delivered again.
CrashRedelivers(w, delivered) ==
    /\ Fault("redeliver")
    /\ DiesInCall(w, delivered)
    /\ tasks' = Publish(tasks, worker[w].log, worker[w].retries)
    /\ UNCHANGED <<msg, log, gone, outbox, disp, errs, metered, cascade,
                   cancelled, dropped>>

\* The child is killed (task_reject_on_worker_lost is off), or the task
\* raises anything but TelegramAPIError: the task is acknowledged.
TaskLost(w, delivered) ==
    /\ Fault("lose")
    /\ DiesInCall(w, delivered)
    /\ dropped' = dropped \cup {worker[w].log}
    /\ UNCHANGED <<msg, log, gone, outbox, disp, tasks, errs, metered, cascade,
                   cancelled>>

ApiCrash(m) ==
    /\ Fault("apiCrash")
    /\ \E l \in outbox : l[1] = m
    /\ outbox' = {l \in outbox : l[1] # m}
    /\ dropped' = dropped \cup {l \in outbox : l[1] = m}
    /\ UNCHANGED <<msg, log, gone, disp, tasks, worker, tg, errs, metered,
                   cascade, cancelled>>

DispatcherCrash(p) ==
    /\ Fault("dispatchCrash")
    /\ disp[p].pc # "idle"
    /\ disp' = [disp EXCEPT ![p] = IdleDispatcher]
    /\ dropped' = dropped \cup disp[p].todo
    /\ UNCHANGED <<msg, log, gone, outbox, tasks, worker, tg, errs, metered,
                   cascade, cancelled>>

-----------------------------------------------------------------------------
ApiNext ==
    \/ \E m \in Messages, D \in SUBSET Destinations, sched \in BOOLEAN :
          CreateMessage(m, D, sched)
    \/ \E l \in Logs : EnqueueImmediate(l)
    \/ \E d \in Destinations : DeleteDestination(d)
    \/ DeleteBot
    \/ SelectPending
    \/ DeleteOrganization
    \/ DeletionDies

DispatchNext ==
    \/ \E m \in Messages : BecomeDue(m)
    \/ \E p \in Dispatchers : \/ DispatchSelect(p)
                              \/ DispatchCommit(p)
                              \/ \E l \in Logs : DispatchEnqueue(p, l)
                              \/ DispatchEnd(p)

WorkerNext(w) ==
    \/ \E l \in Logs, r \in Retries : TakeTask(w, l, r)
    \/ Undeliverable(w)
    \/ PassThrottle(w)
    \/ Throttled(w)
    \/ TelegramAccepts(w)
    \/ \E delivered \in BOOLEAN : TelegramFails(w, delivered)
    \/ CommitSent(w)
    \/ MeterEventOut(w)
    \/ GiveUpLoad(w)
    \/ GiveUpCommit(w)
    \/ Acknowledge(w)

EnvironmentNext ==
    \/ \E l \in Logs : PurgeLog(l)
    \/ \E w \in Workers, delivered \in BOOLEAN :
          CrashRedelivers(w, delivered) \/ TaskLost(w, delivered)
    \/ \E m \in Messages : ApiCrash(m)
    \/ \E p \in Dispatchers : DispatcherCrash(p)

Next ==
    \/ ApiNext
    \/ DispatchNext
    \/ \E w \in Workers : WorkerNext(w)
    \/ EnvironmentNext

Spec == Init /\ [][Next]_vars

\* Fairness: processes that hold work go on (WF), the broker hands every task
\* to a worker in the end, and the Redis window of a chat, which is a new key
\* each second, has room for a delivery that keeps asking (SF).
Fairness ==
    /\ \A l \in Logs : WF_vars(EnqueueImmediate(l))
    /\ \A m \in Messages : WF_vars(BecomeDue(m))
    /\ \A p \in Dispatchers :
          WF_vars(\/ DispatchSelect(p)
                  \/ DispatchCommit(p)
                  \/ \E l \in Logs : DispatchEnqueue(p, l)
                  \/ DispatchEnd(p))
    /\ \A l \in Logs, r \in Retries : SF_vars(\E w \in Workers : TakeTask(w, l, r))
    /\ \A w \in Workers : WF_vars(worker[w].pc # "idle" /\ WorkerNext(w))
    /\ \A l \in Logs :
          SF_vars(\E w \in Workers : Works(w, l) /\ PassThrottle(w))

\* Attempts of one delivery end: either it is throttled finitely often, so that
\* request.retries reaches its limit, or Telegram does not refuse it for ever.
AttemptsEnd(l) ==
    \/ <>[][~\E w \in Workers : Works(w, l) /\ Throttled(w)]_vars
    \/ SF_vars(\E w \in Workers : Works(w, l) /\ TelegramAccepts(w))

FairSpec == Spec /\ Fairness /\ \A l \in Logs : AttemptsEnd(l)

-----------------------------------------------------------------------------
(* Safety *)

\* create_message's contract with the dispatcher: a message may be handed to
\* workers once it is immediate or marked dispatched.
Released(m) == ~msg[m].sched \/ msg[m].dispatched

\* Some process still has the log's task in its hands.
InFlight(l) ==
    \/ l \in outbox
    \/ \E p \in Dispatchers : l \in disp[p].todo
    \/ \E r \in Retries : tasks[l][r] > 0
    \/ \E w \in Workers : Works(w, l)

\* A log reads "sent" only if Telegram took the message at least once,
\* whichever workers, retries, purges and crashes raced for it.
SentMeansDelivered == \A l \in Logs : log[l] = "sent" => tg[l] > 0

\* A task never runs ahead of the transaction that inserts its row: whatever
\* holds a task holds it for a committed row (service.py, module docstring).
TasksFollowCommit == \A l \in Logs : InFlight(l) => log[l] # "absent"

\* Nothing of a scheduled message is handed to a worker or reaches Telegram
\* before scheduled_at has passed and its dispatcher has committed.
NothingEarly ==
    \A l \in Logs : InFlight(l) \/ tg[l] > 0 =>
        /\ Released(l[1])
        /\ msg[l[1]].sched => msg[l[1]].due

\* A scheduled message that the organization cascade deleted before it was
\* dispatched never reaches Telegram, even if a dispatcher had selected it.
CancelledNeverSent == \A l \in Logs : l[1] \in cancelled => tg[l] = 0

\* An accepted, released delivery is settled or still in flight, unless one of
\* the faults that drop tasks hit it: no redelivery, race, retry, throttle or
\* dispatch drops it silently.
NoLostDelivery ==
    \A l \in Logs :
        log[l] = "queued" /\ Released(l[1]) => InFlight(l) \/ l \in dropped

\* Unless a task is redelivered or a timeout hides a delivery, one dispatcher at
\* a time keeps the promise of DeliveryLedger, whatever else is lost: at most one
\* delivery, one final outcome, and the outcome is the truth.
Ledger == INSTANCE DeliveryLedger WITH status <- log, delivered <- tg
LedgerSpec == Ledger!Spec

\* The usage meter agrees with the ledger: one event_out per sent log, or none if
\* a fault took its task.
MeterMatchesLedger ==
    \A l \in Logs :
        /\ metered[l] < 2
        /\ metered[l] > 0 => log[l] \in {"sent", "purged"}
        /\ log[l] = "sent" /\ ~InFlight(l) /\ l \notin dropped => metered[l] = 1

\* What GET /messages/{id}/status calls sent was delivered to every accepted
\* destination.
StatusTruthful ==
    \A l \in Logs :
        log[l] # "absent" /\ OverallStatus(l[1]) = "sent" => tg[l] > 0

\* The same for scheduled messages only, whose rows may outlive the retention
\* period before the dispatcher looks at them.
ScheduledStatusTruthful ==
    \A l \in Logs :
        /\ log[l] # "absent" /\ msg[l[1]].sched /\ msg[l[1]].phase = "active"
        /\ OverallStatus(l[1]) = "sent"
        => tg[l] > 0

\* Telegram failures of one delivery are bounded by max_retries.
FailuresBounded == \A l \in Logs : errs[l] <= MaxRetries + 1

-----------------------------------------------------------------------------
(* The inductive invariant that the safety properties rest on *)

\* Rows of delivery_logs belong to inserted messages; flags of a message that
\* was not inserted are down, and only a due message is dispatched.
RowsConsistent ==
    /\ \A l \in Logs : log[l] # "absent" => msg[l[1]].phase # "none"
    /\ \A m \in Messages :
          msg[m].phase = "none" => ~msg[m].sched /\ ~msg[m].dispatched
    /\ \A m \in Messages : msg[m].dispatched => msg[m].sched /\ msg[m].due

\* Telegram was called only for inserted rows, and a worker that has its
\* answer has called it.
CallsConsistent ==
    /\ \A l \in Logs : tg[l] > 0 => log[l] # "absent"
    /\ \A w \in Workers : worker[w].pc = "answered" => tg[worker[w].log] > 0

\* What a dispatcher selected was due, and is dispatched once it enqueues.
SelectionConsistent ==
    \A p \in Dispatchers : \A m \in disp[p].rows :
        /\ disp[p].pc = "selected"
        /\ msg[m].phase # "none" /\ msg[m].sched /\ msg[m].due

\* A cancelled message is deleted, so no worker is about to send it.
CancelledConsistent ==
    /\ \A m \in cancelled : msg[m].phase = "deleted"
    /\ \A w \in Workers :
          worker[w].pc = "cleared" => worker[w].log[1] \notin cancelled

IInv ==
    /\ TypeOK
    /\ RowsConsistent
    /\ CallsConsistent
    /\ SelectionConsistent
    /\ CancelledConsistent
    /\ TasksFollowCommit
    /\ NothingEarly
    /\ SentMeansDelivered
    /\ CancelledNeverSent

\* What keeps a delivery from being dropped: a process that has yet to act on
\* the task holds it, a worker that read anything but "queued" works on a log
\* that has left that status for good, and a dispatcher has something left to
\* enqueue only while it enqueues.
Held(l) ==
    \/ l \in outbox
    \/ \E p \in Dispatchers : l \in disp[p].todo
    \/ \E r \in Retries : tasks[l][r] > 0
    \/ \E w \in Workers : Works(w, l) /\ worker[w].pc \notin {"committed", "acking"}

HeldInv ==
    /\ \A l \in Logs : 
          log[l] = "queued" /\ Released(l[1]) => Held(l) \/ l \in dropped
    /\ \A w \in Workers :
          worker[w].pc # "idle" /\ worker[w].seen # "queued"
          => log[worker[w].log] # "queued"
    /\ \A p \in Dispatchers : disp[p].pc # "enqueueing" => disp[p].todo = {}

-----------------------------------------------------------------------------
(* Liveness *)

\* Every accepted delivery is settled in the end: sent, failed, purged,
\* cancelled with its scheduled message, or dropped by a fault.
EveryDeliverySettles ==
    \A l \in Logs :
        log[l] = "queued"
        ~> \/ log[l] # "queued"
           \/ l[1] \in cancelled
           \/ l \in dropped
=============================================================================
