----------------------------- MODULE Retention -----------------------------
(***************************************************************************)
(* Usage metering and the retention purge (modules/billing).               *)
(*                                                                         *)
(* A sent delivery and a received update are each metered by a Celery task *)
(* that inserts a usage_events row.  Once a day purge_expired_usage_data   *)
(* deletes what is older than the retention of its organization, tenant by *)
(* tenant, events before delivery_logs, in committed batches.  An event of *)
(* a delivery refers to its log: usage_events.delivery_log_id is a foreign *)
(* key without ON DELETE, and the event is the younger row of the two.     *)
(*                                                                         *)
(* Time is the age of the rows: a row may expire at any time after it is   *)
(* inserted, a log before its events.  Deliveries and updates go on for    *)
(* ever: the name of a deleted row whose metering is settled is used again *)
(* for a new row.                                                          *)
(***************************************************************************)
EXTENDS Naturals, FiniteSets

CONSTANTS
    Tenants,
    Logs,           \* delivery_logs rows
    Updates,        \* webhook updates, metered without a log
    TenantOf,       \* the tenant of each log and update
    MAX_RETRIES,    \* _MAX_METERING_RETRIES
    BATCH_SIZE,     \* _PURGE_BATCH_SIZE
    PlanChanges,    \* tenants whose plan changes; the others keep one with a
                    \* retention (bound)
    MaxEvents       \* usage_events rows one task may insert (bound)

\* The two tables have no row in common.
ASSUME RetentionAssumption ==
    /\ TenantOf \in [Logs \cup Updates -> Tenants]
    /\ MAX_RETRIES \in Nat
    /\ BATCH_SIZE \in Nat \ {0}
    /\ PlanChanges \subseteq Tenants
    /\ Logs \cap ((Logs \cup Updates) \X (1..MaxEvents)) = {}
    /\ "none" \notin Tenants

Items == Logs \cup Updates
Events == Items \X (1..MaxEvents)
Rows == Logs \cup Events

Item(r) == IF r \in Events THEN r[1] ELSE r
Owner(r) == TenantOf[Item(r)]

VARIABLES
    row,        \* the rows of both tables, with their age
    meter,      \* the metering of each item: where it is, and its retries
    keeps,      \* tenants without an active plan that has retention_days
    purge       \* the running purge

vars == <<row, meter, keeps, purge>>

Live(r) == row[r] # "none"

NoPurge == [pc |-> "idle", targets |-> {}, tenant |-> "none", due |-> {}]

MeterPCs == {"idle", "enqueue", "queued", "ended"}

TypeOK ==
    /\ row \in [Rows -> {"none", "fresh", "expired"}]
    /\ meter \in [Items -> [pc : MeterPCs, retries : 0..MAX_RETRIES]]
    /\ keeps \subseteq Tenants
    /\ purge \in [pc : {"idle", "events", "logs"}, targets : SUBSET Tenants,
                  tenant : Tenants \cup {"none"}, due : SUBSET Rows]
    /\ purge.pc = "idle" => purge = NoPurge
    /\ purge.pc # "idle" => purge.tenant \in Tenants

Init ==
    /\ row = [r \in Rows |-> "none"]
    /\ meter = [x \in Items |-> [pc |-> "idle", retries |-> 0]]
    /\ keeps \in SUBSET PlanChanges
    /\ purge = NoPurge

-----------------------------------------------------------------------------
(* Deliveries and updates *)

Meter(x, pc) == meter' = [meter EXCEPT ![x] = [pc |-> pc, retries |-> 0]]

\* No metering of x is under way.
Settled(x) == meter[x].pc \in {"idle", "ended"}

\* A log is metered once, an update whenever it comes again.
End(x) == Meter(x, IF x \in Updates THEN "idle" ELSE "ended")

\* A delivery log is inserted with its message.
InsertLog(l) ==
    /\ ~Live(l) /\ Settled(l)
    /\ row' = [row EXCEPT ![l] = "fresh"]
    /\ Meter(l, "idle")
    /\ UNCHANGED <<keeps, purge>>

\* mark_sent, once for each log, or the writes of a webhook are committed.
CommitItem(x) ==
    /\ meter[x].pc = "idle" /\ (x \in Logs => Live(x))
    /\ Meter(x, "enqueue")
    /\ UNCHANGED <<row, keeps, purge>>

\* enqueue_event_out, enqueue_event_in
EnqueueEvent(x) ==
    /\ meter[x].pc = "enqueue"
    /\ Meter(x, "queued")
    /\ UNCHANGED <<row, keeps, purge>>

\* The process dies, or the broker refuses, between the commit and the enqueue.
\* Telegram sends the update again; a redelivered send task finds its log no
\* longer queued and returns.
EnqueueFails(x) ==
    /\ meter[x].pc = "enqueue"
    /\ End(x)
    /\ UNCHANGED <<row, keeps, purge>>

-----------------------------------------------------------------------------
(* record_usage_event *)

\* create_usage_event and the commit; the foreign key asks for the log.
Insert(x) ==
    /\ x \in Logs => Live(x)
    /\ \E e \in {x} \X (1..MaxEvents) :
          /\ row[e] = "none"
          /\ row' = [row EXCEPT ![e] = "fresh"]

RecordEvent(x) ==
    /\ meter[x].pc = "queued"
    /\ Insert(x)
    /\ End(x)
    /\ UNCHANGED <<keeps, purge>>

\* Mutant: the retries are not counted.
RetryForever(x) == UNCHANGED meter

\* self.retry, or the error is logged and the event is not recorded.
RetryOrDrop(x) ==
    IF meter[x].retries < MAX_RETRIES
    THEN meter' = [meter EXCEPT ![x].retries = @ + 1]
    ELSE End(x)

\* The database cannot be reached, or the log is gone.
RecordFails(x) ==
    /\ meter[x].pc = "queued"
    /\ RetryOrDrop(x)
    /\ UNCHANGED <<row, keeps, purge>>

\* The commit is applied but its answer is lost: the exception is like any.
RecordAnswerLost(x) ==
    /\ meter[x].pc = "queued"
    /\ Insert(x)
    /\ RetryOrDrop(x)
    /\ UNCHANGED <<keeps, purge>>

\* The worker dies after its commit: the task is not acknowledged and runs again,
\* with the retries it was sent with.
RecordRedelivered(x) ==
    /\ meter[x].pc = "queued"
    /\ Insert(x)
    /\ UNCHANGED <<meter, keeps, purge>>

-----------------------------------------------------------------------------
(* Age, and the plans *)

\* An event is younger than its log.
Expire(r) ==
    /\ row[r] = "fresh"
    /\ r \in Events /\ r[1] \in Logs => row[r[1]] # "fresh"
    /\ row' = [row EXCEPT ![r] = "expired"]
    /\ UNCHANGED <<meter, keeps, purge>>

\* subscribe_plan, or _ensure_organization_plan for a tenant without a plan.
ChangePlan(t) ==
    /\ keeps' = IF t \in keeps THEN keeps \ {t} ELSE keeps \cup {t}
    /\ UNCHANGED <<row, meter, purge>>

-----------------------------------------------------------------------------
(* purge_expired_usage_data *)

\* Mutant: the cutoff is the present.
DueNow == {r \in Rows : Live(r)}

\* created_at < cutoff: now is read once, when the run begins.
Due == {r \in Rows : row[r] = "expired"}

\* Mutant: the next run starts from what this one left.
NextTenantKeepsDue(targets, due) ==
    IF targets = {}
    THEN purge' = [purge EXCEPT !.pc = "idle"]
    ELSE \E t \in targets : purge' = [pc |-> "events", targets |-> targets \ {t},
                                      tenant |-> t, due |-> due]

\* The next of the tenants still to be processed, in any order, or the end.
NextTenant(targets, due) ==
    IF targets = {}
    THEN purge' = NoPurge
    ELSE \E t \in targets : purge' = [pc |-> "events", targets |-> targets \ {t},
                                      tenant |-> t, due |-> due]

\* get_purge_targets
BeginPurge ==
    /\ purge.pc = "idle"
    /\ NextTenant(Tenants \ keeps, {r \in Due : Owner(r) \notin keeps})
    /\ UNCHANGED <<row, meter, keeps>>

\* What one DELETE may select: at most BATCH_SIZE of the tenant's due rows.
Batches(table) ==
    LET rows == {r \in purge.due \cap table : Owner(r) = purge.tenant} IN
    {B \in SUBSET rows :
        Cardinality(B) = IF Cardinality(rows) < BATCH_SIZE
                         THEN Cardinality(rows) ELSE BATCH_SIZE}

\* A batch is deleted and committed.
Delete(B) ==
    /\ row' = [r \in Rows |-> IF r \in B THEN "none" ELSE row[r]]
    /\ purge' = [purge EXCEPT !.due = @ \ B]
    /\ UNCHANGED <<meter, keeps>>

PurgeEvents ==
    /\ purge.pc = "events"
    /\ \/ \E B \in Batches(Events) \ {{}} : Delete(B)
       \/ /\ Batches(Events) = {{}}
          /\ purge' = [purge EXCEPT !.pc = "logs"]
          /\ UNCHANGED <<row, meter, keeps>>

Referenced(l) == \E e \in {l} \X (1..MaxEvents) : Live(e)

\* The exception of a run propagates: the remaining tenants are not processed.
Abort ==
    /\ purge' = NoPurge
    /\ UNCHANGED <<row, meter, keeps>>

\* A DELETE that deletes nothing ends the tenant's turn.
LogsExhausted ==
    /\ Batches(Logs) = {{}}
    /\ NextTenant(purge.targets, purge.due)
    /\ UNCHANGED <<row, meter, keeps>>

\* Mutant: the foreign key is dropped.
PurgeLogsAnyway ==
    /\ purge.pc = "logs"
    /\ LogsExhausted \/ \E B \in Batches(Logs) \ {{}} : Delete(B)

\* Mutant: the run retries the batch that failed, with the same cutoff.
PurgeLogsRetries ==
    /\ purge.pc = "logs"
    /\ \/ \E B \in Batches(Logs) \ {{}} : (\A l \in B : ~Referenced(l)) /\ Delete(B)
       \/ LogsExhausted

\* A batch with a log that an event still refers to is an IntegrityError.
PurgeLogs ==
    /\ purge.pc = "logs"
    /\ \/ \E B \in Batches(Logs) \ {{}} :
             IF \E l \in B : Referenced(l) THEN Abort ELSE Delete(B)
       \/ LogsExhausted

-----------------------------------------------------------------------------
Record(x) == RecordEvent(x) \/ RecordFails(x) \/ RecordAnswerLost(x)
Age == \E r \in Rows : Expire(r)
Purge == BeginPurge \/ PurgeEvents \/ PurgeLogs

Next ==
    \/ \E l \in Logs : InsertLog(l)
    \/ \E x \in Items : \/ CommitItem(x) \/ EnqueueEvent(x) \/ EnqueueFails(x)
                         \/ Record(x) \/ RecordRedelivered(x)
    \/ \E t \in PlanChanges : ChangePlan(t)
    \/ Age \/ Purge

Spec == Init /\ [][Next]_vars

\* Each queued task is run to its end at last, by a worker that does not die, and
\* beat starts the purge every day.  Nothing has to expire.
FairSpec ==
    /\ Spec
    /\ \A x \in Items : WF_vars(Record(x))
    /\ WF_vars(Purge)

-----------------------------------------------------------------------------
(* Properties *)

\* The purge deletes only expired rows, and only of the tenant it is at,
\* whatever plans and rows did since it read its targets and its cutoff.
OnlyExpiredPurged ==
    [][\A r \in Rows : Live(r) /\ row'[r] = "none" =>
          row[r] = "expired" /\ Owner(r) = purge.tenant]_vars

\* An event of a delivery is never left without its log.
EventsHaveTheirLog == \A l \in Logs : Referenced(l) => Live(l)

\* A metering task is recorded or given up: it does not retry for ever.
MeteringEnds ==
    \A x \in Items : []<>(meter[x].pc # "queued")

\* An event outlives the log it refers to, which has expired: a run that comes to
\* that log fails.
Overtaken == \E l \in Logs : /\ row[l] = "expired"
                             /\ \E e \in {l} \X (1..MaxEvents) : row[e] = "fresh"

\* However long deliveries and updates go on and however often a run fails, every
\* expired row is deleted in the end, unless its tenant comes to keep its data, or
\* logs expire again and again before their events: then every run may fail, and
\* what it leaves is never reached.
RetentionReached ==
    \/ []<>Overtaken
    \/ \A r \in Rows :
          []<>(row[r] # "expired" \/ Owner(r) \in keeps)
=============================================================================
