-------------------------- MODULE RetentionProofs --------------------------
(***************************************************************************)
(* Proofs about metering and the retention purge, for any number of        *)
(* tenants, deliveries and updates, any batch size and any schedule of     *)
(* runs, plan changes and failures.                                        *)
(***************************************************************************)
EXTENDS Retention, TLAPS

-----------------------------------------------------------------------------
(* The inductive invariant *)

\* What a run has selected stays expired until the run deletes it.
DueExpired == \A r \in purge.due : row[r] = "expired"

RetInv == TypeOK /\ DueExpired /\ EventsHaveTheirLog

\* An event is no log, and its item is the delivery or update it meters.
LEMMA EventFacts ==
    /\ \A x \in Items, n \in 1..MaxEvents : <<x, n>> \in Events
    /\ \A x \in Items : {x} \X (1..MaxEvents) \subseteq Events
    /\ \A l \in Logs : l \in Items /\ l \in Rows /\ l \notin Events
    /\ Events \subseteq Rows
BY RetentionAssumption DEF Items, Events, Rows

LEMMA RetentionInitInv == Init => RetInv
<1> SUFFICES ASSUME Init PROVE RetInv
  OBVIOUS
<1>1. TypeOK
  BY RetentionAssumption DEF Init, TypeOK, MeterPCs, NoPurge
<1>2. DueExpired
  BY DEF Init, DueExpired, NoPurge
<1>3. EventsHaveTheirLog
  BY EventFacts DEF Init, EventsHaveTheirLog, Referenced, Live
<1> QED
  BY <1>1, <1>2, <1>3 DEF RetInv

-----------------------------------------------------------------------------
(* Steps *)

\* A step of metering, or of time, on one row.
LEMMA RowStep ==
    ASSUME RetInv, NEW r \in Rows, NEW age \in {"fresh", "expired"},
           row' = [row EXCEPT ![r] = age], UNCHANGED purge,
           r \in purge.due => age = "expired",
           meter' \in [Items -> [pc : MeterPCs, retries : 0..MAX_RETRIES]],
           keeps' \subseteq Tenants,
           \A l \in Logs : r \in {l} \X (1..MaxEvents) => Live(l)
    PROVE  RetInv'
<1>1. row \in [Rows -> {"none", "fresh", "expired"}]
  BY DEF RetInv, TypeOK
<1>2. TypeOK'
  BY <1>1 DEF RetInv, TypeOK
<1>3. DueExpired'
  BY <1>1 DEF RetInv, DueExpired, TypeOK
<1>4. EventsHaveTheirLog'
  <2> SUFFICES ASSUME NEW l \in Logs, NEW e \in {l} \X (1..MaxEvents), Live(e)'
               PROVE  Live(l)'
    BY DEF EventsHaveTheirLog, Referenced
  <2>1. e \in Rows /\ l \in Rows
    BY EventFacts
  <2>2. Live(l)
    <3>1. CASE e = r
      BY <3>1
    <3>2. CASE e # r
      BY <1>1, <2>1, <3>2 DEF RetInv, EventsHaveTheirLog, Referenced, Live
    <3> QED
      BY <3>1, <3>2
  <2> QED
    BY <1>1, <2>1, <2>2 DEF Live
<1> QED
  BY <1>2, <1>3, <1>4 DEF RetInv

\* A step that leaves the rows alone.
LEMMA OtherStep ==
    ASSUME RetInv, UNCHANGED row, TypeOK', DueExpired'
    PROVE  RetInv'
BY DEF RetInv, EventsHaveTheirLog, Referenced, Live

\* Metering never selects what is to be purged.
LEMMA MeterTyped ==
    ASSUME RetInv, NEW x \in Items
    PROVE  /\ \A pc \in MeterPCs : Meter(x, pc) =>
                 meter' \in [Items -> [pc : MeterPCs, retries : 0..MAX_RETRIES]]
           /\ RetryOrDrop(x) \/ End(x) \/ UNCHANGED meter =>
                 meter' \in [Items -> [pc : MeterPCs, retries : 0..MAX_RETRIES]]
<1>1. meter \in [Items -> [pc : MeterPCs, retries : 0..MAX_RETRIES]]
  BY DEF RetInv, TypeOK
<1>2. ASSUME NEW pc \in MeterPCs, Meter(x, pc)
      PROVE  meter' \in [Items -> [pc : MeterPCs, retries : 0..MAX_RETRIES]]
  BY <1>1, <1>2, RetentionAssumption DEF Meter
<1>3. ASSUME RetryOrDrop(x)
      PROVE  meter' \in [Items -> [pc : MeterPCs, retries : 0..MAX_RETRIES]]
  <2>1. CASE meter[x].retries < MAX_RETRIES
    <3> DEFINE next == [meter[x] EXCEPT !.retries = @ + 1]
    <3>1. next \in [pc : MeterPCs, retries : 0..MAX_RETRIES]
      BY <1>1, <2>1, RetentionAssumption
    <3>2. meter' = [meter EXCEPT ![x] = next]
      BY <1>1, <1>3, <2>1 DEF RetryOrDrop
    <3> QED
      BY <1>1, <3>1, <3>2
  <2>2. CASE ~(meter[x].retries < MAX_RETRIES)
    BY <1>2, <1>3, <2>2 DEF RetryOrDrop, End, MeterPCs
  <2> QED
    BY <2>1, <2>2
<1>4. ASSUME End(x) \/ UNCHANGED meter
      PROVE  meter' \in [Items -> [pc : MeterPCs, retries : 0..MAX_RETRIES]]
  BY <1>1, <1>2, <1>4 DEF End, MeterPCs
<1> QED
  BY <1>2, <1>3, <1>4

LEMMA MeteringInv ==
    ASSUME RetInv, NEW x \in Items,
           CommitItem(x) \/ EnqueueEvent(x) \/ EnqueueFails(x) \/ RecordFails(x)
    PROVE  RetInv'
<1>1. UNCHANGED <<row, keeps, purge>>
  BY DEF CommitItem, EnqueueEvent, EnqueueFails, RecordFails
<1>2. meter' \in [Items -> [pc : MeterPCs, retries : 0..MAX_RETRIES]]
  BY MeterTyped DEF CommitItem, EnqueueEvent, EnqueueFails, RecordFails, MeterPCs
<1> QED
  BY <1>1, <1>2, OtherStep DEF RetInv, TypeOK, DueExpired

LEMMA InsertInv ==
    ASSUME RetInv, NEW x \in Items,
           RecordEvent(x) \/ RecordAnswerLost(x) \/ RecordRedelivered(x)
    PROVE  RetInv'
<1>1. UNCHANGED <<keeps, purge>> /\ Insert(x)
  BY DEF RecordEvent, RecordAnswerLost, RecordRedelivered
<1>2. meter' \in [Items -> [pc : MeterPCs, retries : 0..MAX_RETRIES]]
  BY MeterTyped DEF RecordEvent, RecordAnswerLost, RecordRedelivered
<1>3. PICK e \in {x} \X (1..MaxEvents) : row[e] = "none" /\ row' = [row EXCEPT ![e] = "fresh"]
  BY <1>1 DEF Insert
<1>4. e \in Rows /\ e \notin purge.due
  BY <1>3, EventFacts DEF RetInv, DueExpired
<1>5. \A l \in Logs : e \in {l} \X (1..MaxEvents) => Live(l)
  <2>1. \A l : e \in {l} \X (1..MaxEvents) => l = x
    OBVIOUS
  <2>2. x \in Logs => Live(x)
    BY <1>1 DEF Insert
  <2> QED
    BY <2>1, <2>2
<1> QED
  BY <1>1, <1>2, <1>3, <1>4, <1>5, RowStep DEF RetInv, TypeOK

LEMMA InsertLogInv ==
    ASSUME RetInv, NEW l \in Logs, InsertLog(l)
    PROVE  RetInv'
<1>1. /\ l \in Rows /\ l \notin purge.due
      /\ \A k \in Logs : l \notin {k} \X (1..MaxEvents)
  BY EventFacts DEF RetInv, DueExpired, InsertLog, Live
<1>2. meter' \in [Items -> [pc : MeterPCs, retries : 0..MAX_RETRIES]]
  BY MeterTyped, EventFacts DEF InsertLog, MeterPCs
<1> QED
  BY <1>1, <1>2, RowStep DEF InsertLog, RetInv, TypeOK

LEMMA ExpireInv ==
    ASSUME RetInv, NEW r \in Rows, Expire(r)
    PROVE  RetInv'
<1>1. \A l \in Logs : r \in {l} \X (1..MaxEvents) => Live(l)
  BY DEF RetInv, EventsHaveTheirLog, Referenced, Live, Expire
<1> QED
  BY <1>1, RowStep DEF Expire, RetInv, TypeOK

\* A batch, whose rows are due and of the tenant.
LEMMA BatchFacts ==
    ASSUME NEW table, NEW B \in Batches(table)
    PROVE  \A r \in B : r \in purge.due /\ r \in table /\ Owner(r) = purge.tenant
BY DEF Batches

\* A batch is deleted: events, or logs that nothing refers to.
LEMMA DeleteInv ==
    ASSUME RetInv, NEW table, NEW B \in Batches(table), Delete(B),
           \/ table = Events
           \/ table = Logs /\ \A l \in B : ~Referenced(l)
    PROVE  RetInv'
<1>1. /\ row \in [Rows -> {"none", "fresh", "expired"}]
      /\ row' = [r \in Rows |-> IF r \in B THEN "none" ELSE row[r]]
      /\ purge' = [purge EXCEPT !.due = @ \ B] /\ UNCHANGED <<meter, keeps>>
  BY DEF RetInv, TypeOK, Delete
<1>2. TypeOK'
  <2>1. row' \in [Rows -> {"none", "fresh", "expired"}]
    BY <1>1
  <2>2. /\ purge' \in [pc : {"idle", "events", "logs"}, targets : SUBSET Tenants,
                       tenant : Tenants \cup {"none"}, due : SUBSET Rows]
        /\ purge'.pc = purge.pc /\ purge'.targets = purge.targets
        /\ purge'.tenant = purge.tenant /\ purge'.due = purge.due \ B
    BY <1>1 DEF RetInv, TypeOK
  <2>3. purge.pc = "idle" => purge' = NoPurge
    <3> SUFFICES ASSUME purge.pc = "idle" PROVE purge' = NoPurge
      OBVIOUS
    <3>1. purge = NoPurge
      BY DEF RetInv, TypeOK
    <3> QED
      BY <1>1, <3>1 DEF NoPurge
  <2> QED
    BY <1>1, <2>1, <2>2, <2>3 DEF RetInv, TypeOK
<1>3. DueExpired'
  BY <1>1 DEF RetInv, DueExpired, TypeOK
<1>4. EventsHaveTheirLog'
  <2> SUFFICES ASSUME NEW l \in Logs, NEW e \in {l} \X (1..MaxEvents), Live(e)'
               PROVE  Live(l)'
    BY DEF EventsHaveTheirLog, Referenced
  <2>1. e \in Rows /\ l \in Rows /\ l \notin Events
    BY EventFacts
  <2>2. e \notin B /\ Live(e)
    BY <1>1, <2>1 DEF Live
  <2>3. Referenced(l) /\ Live(l)
    BY <2>2 DEF RetInv, EventsHaveTheirLog, Referenced
  <2>4. l \notin B
    BY <2>1, <2>3, BatchFacts
  <2> QED
    BY <1>1, <2>1, <2>3, <2>4 DEF Live
<1> QED
  BY <1>2, <1>3, <1>4 DEF RetInv

\* A run moves on without deleting anything.
LEMMA PurgeMoves ==
    ASSUME RetInv, UNCHANGED <<row, meter, keeps>>,
           purge' \in [pc : {"idle", "events", "logs"}, targets : SUBSET Tenants,
                       tenant : Tenants \cup {"none"}, due : SUBSET Rows],
           purge'.pc = "idle" => purge' = NoPurge,
           purge'.pc # "idle" => purge'.tenant \in Tenants,
           \A r \in purge'.due : row[r] = "expired"
    PROVE  RetInv'
BY OtherStep DEF RetInv, TypeOK, DueExpired

\* A run begins, or goes on, with a tenant, or ends.
LEMMA NextTenantInv ==
    ASSUME RetInv, NEW targets \in SUBSET Tenants, NEW due \in SUBSET Rows,
           \A r \in due : row[r] = "expired",
           NextTenant(targets, due), UNCHANGED <<row, meter, keeps>>
    PROVE  RetInv'
<1>1. CASE targets = {}
  BY <1>1, PurgeMoves DEF NextTenant, NoPurge
<1>2. CASE targets # {}
  <2>1. PICK t \in targets : purge' = [pc |-> "events", targets |-> targets \ {t},
                                      tenant |-> t, due |-> due]
    BY <1>2 DEF NextTenant
  <2> QED
    BY <2>1, PurgeMoves
<1> QED
  BY <1>1, <1>2

LEMMA PurgeInv == RetInv /\ Purge => RetInv'
<1> SUFFICES ASSUME RetInv, Purge PROVE RetInv'
  OBVIOUS
<1> DEFINE Type == [pc : {"idle", "events", "logs"}, targets : SUBSET Tenants,
                    tenant : Tenants \cup {"none"}, due : SUBSET Rows]
<1>1. /\ purge \in Type
      /\ purge.pc # "idle" => purge.tenant \in Tenants
      /\ \A r \in purge.due : row[r] = "expired"
      /\ purge.targets \in SUBSET Tenants /\ purge.due \in SUBSET Rows
  BY DEF RetInv, TypeOK, DueExpired
<1>2. CASE BeginPurge
  <2> DEFINE due == {r \in Due : Owner(r) \notin keeps}
  <2>1. due \in SUBSET Rows /\ \A r \in due : row[r] = "expired"
    BY DEF Due
  <2>2. NextTenant(Tenants \ keeps, due) /\ UNCHANGED <<row, meter, keeps>>
    BY <1>2 DEF BeginPurge
  <2> QED
    BY <2>1, <2>2, NextTenantInv
<1>3. CASE PurgeEvents
  <2>1. ASSUME NEW B \in Batches(Events) \ {{}}, Delete(B) PROVE RetInv'
    BY <2>1, DeleteInv
  <2>2. ASSUME purge' = [purge EXCEPT !.pc = "logs"], UNCHANGED <<row, meter, keeps>>
        PROVE  RetInv'
    <3>1. /\ purge' \in Type /\ purge'.pc = "logs" /\ purge'.tenant = purge.tenant
          /\ purge'.due = purge.due
      BY <1>1, <2>2
    <3>2. purge.pc = "events"
      BY <1>3 DEF PurgeEvents
    <3> QED
      BY <1>1, <2>2, <3>1, <3>2, PurgeMoves
  <2> QED
    BY <1>3, <2>1, <2>2 DEF PurgeEvents
<1>4. CASE PurgeLogs
  <2>1. ASSUME NEW B \in Batches(Logs) \ {{}}, \A l \in B : ~Referenced(l), Delete(B)
        PROVE  RetInv'
    BY <2>1, DeleteInv
  <2>2. CASE LogsExhausted
    BY <1>1, <2>2, NextTenantInv DEF LogsExhausted
  <2>3. CASE Abort
    BY <2>3, PurgeMoves DEF Abort, NoPurge
  <2> QED
    BY <1>4, <2>1, <2>2, <2>3 DEF PurgeLogs
<1> QED
  BY <1>2, <1>3, <1>4 DEF Purge

LEMMA RetentionNextInv == RetInv /\ [Next]_vars => RetInv'
<1> SUFFICES ASSUME RetInv, [Next]_vars PROVE RetInv'
  OBVIOUS
<1>1. ASSUME NEW t \in PlanChanges, ChangePlan(t) PROVE RetInv'
  BY <1>1, OtherStep, RetentionAssumption DEF ChangePlan, RetInv, TypeOK, DueExpired
<1>2. CASE UNCHANGED vars
  BY <1>2, OtherStep DEF vars, RetInv, TypeOK, DueExpired
<1> QED
  BY <1>1, <1>2, MeteringInv, InsertInv, InsertLogInv, ExpireInv, PurgeInv
  DEF Next, Record, Age

LEMMA RetentionInvariant == Spec => []RetInv
<1> QED
  BY RetentionInitInv, RetentionNextInv, PTL DEF Spec

-----------------------------------------------------------------------------
(* Theorems *)

\* Every variable keeps its type.
THEOREM RetentionTyped == Spec => []TypeOK
<1>1. RetInv => TypeOK
  BY DEF RetInv
<1> QED
  BY <1>1, RetentionInvariant, PTL

\* No event is left behind without the log it refers to, however the purge and
\* late metering tasks meet.
THEOREM EventsKeepTheirLogs == Spec => []EventsHaveTheirLog
<1>1. RetInv => EventsHaveTheirLog
  BY DEF RetInv
<1> QED
  BY <1>1, RetentionInvariant, PTL

\* What the purge deletes was expired when its run began and belongs to the
\* tenant the run is at.
THEOREM PurgeDeletesExpired == Spec => OnlyExpiredPurged
<1> DEFINE Kept(r) == Live(r) /\ row'[r] = "none" =>
                         row[r] = "expired" /\ Owner(r) = purge.tenant
<1>1. RetInv /\ [Next]_vars => [\A r \in Rows : Kept(r)]_vars
  <2> SUFFICES ASSUME RetInv, Next, NEW r \in Rows PROVE Kept(r)
    OBVIOUS
  <2>1. row \in [Rows -> {"none", "fresh", "expired"}]
    BY DEF RetInv, TypeOK
  <2>2. ASSUME NEW table, NEW B \in Batches(table), Delete(B)
        PROVE  Kept(r)
    <3>1. row'[r] = IF r \in B THEN "none" ELSE row[r]
      BY <2>2 DEF Delete
    <3>2. r \in B => row[r] = "expired" /\ Owner(r) = purge.tenant
      BY BatchFacts DEF RetInv, DueExpired
    <3> QED
      BY <3>1, <3>2 DEF Live
  <2>3. ASSUME UNCHANGED row PROVE Kept(r)
    BY <2>3 DEF Live
  <2>4. ASSUME NEW s \in Rows, NEW age \in {"fresh", "expired"},
               row' = [row EXCEPT ![s] = age]
        PROVE  Kept(r)
    BY <2>1, <2>4 DEF Live
  <2>5. CASE Purge
    BY <2>2, <2>3, <2>5 DEF Purge, BeginPurge, PurgeEvents, PurgeLogs, LogsExhausted,
       Abort
  <2>6. ASSUME NEW x \in Items, Insert(x) PROVE Kept(r)
    BY <2>4, <2>6, EventFacts DEF Insert
  <2>7. CASE ~Purge
    BY <2>3, <2>4, <2>6, <2>7, EventFacts DEF Next, InsertLog, CommitItem, EnqueueEvent,
       EnqueueFails, ChangePlan, Record, RecordEvent, RecordFails, RecordAnswerLost,
       RecordRedelivered, Age, Expire
  <2> QED
    BY <2>5, <2>7
<1>2. [][\A r \in Rows : Kept(r)]_vars => OnlyExpiredPurged
  BY DEF OnlyExpiredPurged
<1> QED
  BY <1>1, <1>2, RetentionInvariant, PTL DEF Spec
=============================================================================
