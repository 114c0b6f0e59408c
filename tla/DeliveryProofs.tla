--------------------------- MODULE DeliveryProofs ---------------------------
(***************************************************************************)
(* Proofs about the message pipeline, for any number of messages,          *)
(* destinations, workers and dispatcher runs and under every fault of      *)
(* Delivery unless a theorem says otherwise.                               *)
(***************************************************************************)
EXTENDS Delivery, TLAPS, FiniteSetTheorems

-----------------------------------------------------------------------------
(* Facts about the model's data *)

\* A delivery log names a message and a destination.
LEMMA LogParts ==
    ASSUME NEW l \in Logs
    PROVE  l[1] \in Messages /\ l[2] \in Destinations
BY DEF Logs

\* A worker that is not idle holds a task.
LEMMA BusyHoldsTask ==
    ASSUME TypeOK, NEW w \in Workers, worker[w].pc # "idle"
    PROVE  /\ worker[w] \in BusyWorker
           /\ worker[w].pc \in BusyPCs
           /\ worker[w].log \in Logs
           /\ worker[w].log[1] \in Messages
           /\ worker[w].retries \in Retries
           /\ worker[w].seen \in Status
<1>1. worker[w] \in {IdleWorker} \cup BusyWorker
  BY DEF TypeOK
<1>2. worker[w] # IdleWorker
  BY DEF IdleWorker
<1>3. worker[w] \in BusyWorker
  BY <1>1, <1>2
<1> QED
  BY <1>3, LogParts DEF BusyWorker

\* The task a busy worker holds is in flight.
LEMMA BusyInFlight ==
    ASSUME NEW w \in Workers, worker[w].pc # "idle"
    PROVE  InFlight(worker[w].log)
BY DEF InFlight, Works

\* Changing the program counter of a busy worker keeps the workers typed.
LEMMA GotoType ==
    ASSUME TypeOK, NEW w \in Workers, worker[w].pc # "idle",
           NEW pc \in BusyPCs, Goto(w, pc)
    PROVE  worker' \in [Workers -> {IdleWorker} \cup BusyWorker]
<1>1. worker[w] \in BusyWorker
  BY BusyHoldsTask
<1>2. [worker[w] EXCEPT !.pc = pc] \in BusyWorker
  BY <1>1 DEF BusyWorker
<1> QED
  BY <1>2 DEF Goto, TypeOK

\* It moves that worker only, and no worker changes its log.
LEMMA GotoWorks ==
    ASSUME TypeOK, NEW w \in Workers, worker[w].pc # "idle",
           NEW pc \in BusyPCs, Goto(w, pc)
    PROVE  /\ \A v \in Workers : v # w => worker'[v] = worker[v]
           /\ worker'[w].pc = pc /\ worker'[w].seen = worker[w].seen
           /\ \A v \in Workers, l \in Logs : Works(v, l)' <=> Works(v, l)
<1>1. worker[w] \in BusyWorker
  BY BusyHoldsTask
<1>2. /\ \A v \in Workers : v # w => worker'[v] = worker[v]
      /\ worker'[w].pc = pc /\ worker'[w].seen = worker[w].seen
      /\ worker'[w].log = worker[w].log
  BY <1>1 DEF Goto, TypeOK, BusyWorker
<1> QED
  BY <1>2 DEF Works, BusyPCs

\* Publishing a task keeps the broker typed.
LEMMA PublishType ==
    ASSUME TypeOK, NEW l \in Logs, NEW r \in Retries
    PROVE  Publish(tasks, l, r) \in [Logs -> [Retries -> Nat]]
BY DEF TypeOK, Publish

\* Once published a task is in the broker, and no other task leaves it.
LEMMA PublishHolds ==
    ASSUME TypeOK, NEW l \in Logs, NEW r \in Retries,
           tasks' = Publish(tasks, l, r)
    PROVE  /\ tasks'[l][r] > 0
           /\ \A k \in Logs, q \in Retries :
                 tasks[k][q] > 0 => tasks'[k][q] > 0
BY DEF TypeOK, Publish

-----------------------------------------------------------------------------
(* Type correctness *)

LEMMA TypeStep == ASSUME TypeOK, [Next]_vars PROVE TypeOK'
<1> USE ConstantsAssumption
<1>1. ASSUME NEW m \in Messages, NEW D \in SUBSET Destinations, NEW sched \in BOOLEAN,
             CreateMessage(m, D, sched)
      PROVE  TypeOK'
  <2>1. msg' \in [Messages -> MessageRow]
    BY <1>1 DEF TypeOK, CreateMessage, MessageRow, NoMessage
  <2>2. log' \in [Logs -> Status \cup {"absent", "purged"}]
    BY <1>1 DEF TypeOK, CreateMessage, Status, Written, Exists
  <2>3. outbox' \in SUBSET Logs
    BY <1>1 DEF TypeOK, CreateMessage, Logs
  <2> QED
    BY <1>1, <2>1, <2>2, <2>3 DEF TypeOK, CreateMessage
<1>2. ASSUME NEW l \in Logs, EnqueueImmediate(l) PROVE TypeOK'
  <2>1. outbox' \in SUBSET Logs
    BY <1>2 DEF TypeOK, EnqueueImmediate, Logs
  <2>2. tasks' \in [Logs -> [Retries -> Nat]]
    <3>1. tasks' = Publish(tasks, l, 0) /\ 0 \in Retries
      BY <1>2 DEF EnqueueImmediate, Retries
    <3> QED
      BY <3>1, PublishType
  <2> QED
    BY <1>2, <2>1, <2>2 DEF TypeOK, EnqueueImmediate
<1>3. ASSUME NEW d \in Destinations, DeleteDestination(d) PROVE TypeOK'
  <2>1. gone' \in SUBSET (Destinations \cup {Bot})
    BY <1>3 DEF TypeOK, DeleteDestination
  <2> QED
    BY <1>3, <2>1 DEF TypeOK, DeleteDestination
<1>4. ASSUME DeleteOrganization PROVE TypeOK'
  <2>1. gone' \in SUBSET (Destinations \cup {Bot})
    BY <1>4 DEF TypeOK, DeleteOrganization
  <2>2. msg' \in [Messages -> MessageRow]
    <3>1. \A m \in Messages : [msg[m] EXCEPT !.phase = "deleted"] \in MessageRow
      BY DEF TypeOK, MessageRow
    <3> QED
      BY <1>4, <3>1 DEF TypeOK, DeleteOrganization
  <2>3. cancelled' \in SUBSET Messages
    BY <1>4 DEF TypeOK, DeleteOrganization, CascadeState
  <2>4. cascade' \in CascadeState
    BY <1>4 DEF DeleteOrganization, CascadeState
  <2> QED
    BY <1>4, <2>1, <2>2, <2>3, <2>4 DEF TypeOK, DeleteOrganization
<1>5. ASSUME NEW m \in Messages, BecomeDue(m) PROVE TypeOK'
  <2>1. msg' \in [Messages -> MessageRow]
    BY <1>5, ZenonT(40) DEF TypeOK, BecomeDue, MessageRow, NoMessage
  <2> QED
    BY <1>5, <2>1 DEF TypeOK, BecomeDue
<1>6. ASSUME NEW p \in Dispatchers, DispatchSelect(p) PROVE TypeOK'
  <2>1. disp' \in [Dispatchers -> DispatcherState]
    BY <1>6 DEF TypeOK, DispatchSelect, DispatcherState, IdleDispatcher,
          LogsOf, DueForDispatch
  <2> QED
    BY <1>6, <2>1 DEF TypeOK, DispatchSelect
<1>7. ASSUME NEW p \in Dispatchers, DispatchCommit(p) PROVE TypeOK'
  <2>1. msg' \in [Messages -> MessageRow]
    BY <1>7, ZenonT(40) DEF TypeOK, DispatchCommit, MessageRow, NoMessage
  <2>2. disp' \in [Dispatchers -> DispatcherState]
    BY <1>7 DEF TypeOK, DispatchCommit, DispatcherState, IdleDispatcher,
          LogsOf, DueForDispatch
  <2> QED
    BY <1>7, <2>1, <2>2 DEF TypeOK, DispatchCommit
<1>8. ASSUME NEW p \in Dispatchers, NEW l \in Logs,
             DispatchEnqueue(p, l)
      PROVE  TypeOK'
  <2>1. disp' \in [Dispatchers -> DispatcherState]
    <3>1. [disp[p] EXCEPT !.todo = @ \ {l}] \in DispatcherState
      BY ZenonT(40) DEF TypeOK, DispatcherState
    <3> QED
      BY <1>8, <3>1 DEF DispatchEnqueue, TypeOK
  <2>2. tasks' \in [Logs -> [Retries -> Nat]]
    <3>1. tasks' = Publish(tasks, l, 0) /\ 0 \in Retries
      BY <1>8 DEF DispatchEnqueue, Retries
    <3> QED
      BY <3>1, PublishType
  <2> QED
    BY <1>8, <2>1, <2>2 DEF TypeOK, DispatchEnqueue
<1>9. ASSUME NEW p \in Dispatchers, DispatchEnd(p) PROVE TypeOK'
  <2>1. disp' \in [Dispatchers -> DispatcherState]
    BY <1>9 DEF TypeOK, DispatchEnd, DispatcherState, IdleDispatcher, LogsOf,
          DueForDispatch
  <2> QED
    BY <1>9, <2>1 DEF TypeOK, DispatchEnd
<1>10. ASSUME NEW w \in Workers, NEW l \in Logs, NEW r \in Retries,
              TakeTask(w, l, r)
       PROVE  TypeOK'
  <2>1. tasks' \in [Logs -> [Retries -> Nat]]
    <3>1. tasks[l][r] - 1 \in Nat
      BY <1>10 DEF TakeTask, TypeOK
    <3> QED
      BY <1>10, <3>1 DEF TakeTask, TypeOK
  <2>2. worker' \in [Workers -> {IdleWorker} \cup BusyWorker]
    BY <1>10, GotoType DEF TypeOK, TakeTask, BusyWorker, BusyPCs, Status,
          Exists
  <2> QED
    BY <1>10, <2>1, <2>2 DEF TypeOK, TakeTask
<1>11. ASSUME NEW w \in Workers, Undeliverable(w) PROVE TypeOK'
  <2>1. worker[w].pc # "idle"
    BY <1>11 DEF Undeliverable
  <2>2. log' \in [Logs -> Status \cup {"absent", "purged"}]
    BY <1>11, <2>1, BusyHoldsTask DEF TypeOK, Undeliverable, Status, Written,
          Exists
  <2>3. worker' \in [Workers -> {IdleWorker} \cup BusyWorker]
    BY <1>11, <2>1, BusyHoldsTask, GotoType DEF TypeOK, Undeliverable,
          BusyWorker, BusyPCs, Status, Exists
  <2> QED
    BY <1>11, <2>2, <2>3 DEF TypeOK, Undeliverable
<1>12. ASSUME NEW w \in Workers, PassThrottle(w) PROVE TypeOK'
  <2>1. worker[w].pc # "idle"
    BY <1>12 DEF PassThrottle
  <2>2. worker' \in [Workers -> {IdleWorker} \cup BusyWorker]
    BY <1>12, <2>1, BusyHoldsTask, GotoType DEF TypeOK, PassThrottle,
          BusyWorker, BusyPCs, Status, Exists
  <2> QED
    BY <1>12, <2>2 DEF TypeOK, PassThrottle
<1>13. ASSUME NEW w \in Workers, Throttled(w) PROVE TypeOK'
  <2>1. worker[w].pc # "idle"
    BY <1>13 DEF Throttled
  <2>2. tasks' \in [Logs -> [Retries -> Nat]]
    <3>1. tasks' = Publish(tasks, worker[w].log, 0)
      BY <1>13 DEF Throttled
    <3>2. 0 \in Retries
      BY <2>1, BusyHoldsTask DEF Retries
    <3> QED
      BY <3>1, <3>2, <2>1, BusyHoldsTask, PublishType
  <2>3. worker' \in [Workers -> {IdleWorker} \cup BusyWorker]
    BY <1>13, <2>1, BusyHoldsTask, GotoType DEF TypeOK, Throttled, BusyWorker,
          BusyPCs, Status, Exists
  <2> QED
    BY <1>13, <2>2, <2>3 DEF TypeOK, Throttled
<1>14. ASSUME NEW w \in Workers, TelegramAccepts(w) PROVE TypeOK'
  <2>1. worker[w].pc # "idle"
    BY <1>14 DEF TelegramAccepts
  <2>2. tg' \in [Logs -> 0..2]
    <3>1. worker[w].log \in Logs /\ tg[worker[w].log] \in 0..2
      BY <2>1, BusyHoldsTask DEF TypeOK
    <3>2. Bump(tg[worker[w].log]) \in 0..2
      BY <3>1 DEF Bump
    <3> QED
      BY <1>14, <3>1, <3>2 DEF TypeOK, TelegramAccepts
  <2>3. worker' \in [Workers -> {IdleWorker} \cup BusyWorker]
    BY <1>14, <2>1, BusyHoldsTask, GotoType DEF TypeOK, TelegramAccepts,
          BusyWorker, BusyPCs, Status, Exists
  <2> QED
    BY <1>14, <2>2, <2>3 DEF TypeOK, TelegramAccepts
<1>15. ASSUME NEW w \in Workers, NEW delivered \in BOOLEAN,
              TelegramFails(w, delivered)
       PROVE  TypeOK'
  <2>1. worker[w].pc # "idle"
    BY <1>15 DEF TelegramFails
  <2>2. tg' \in [Logs -> 0..2]
    <3>1. Bump(tg[worker[w].log]) \in 0..2
      BY <2>1, BusyHoldsTask DEF TypeOK, Bump
    <3> QED
      BY <1>15, <3>1 DEF TelegramFails, TypeOK
  <2>3. errs' \in [Logs -> 0..MaxErrs]
    BY <1>15, <2>1, BusyHoldsTask DEF TypeOK, TelegramFails, BumpErr
  <2>4. worker' \in [Workers -> {IdleWorker} \cup BusyWorker]
    BY <1>15, <2>1, BusyHoldsTask, GotoType DEF TypeOK, TelegramFails,
          BusyWorker, BusyPCs, Status, Exists
  <2>5. tasks' \in [Logs -> [Retries -> Nat]]
    <3>1. CASE worker[w].retries >= MaxRetries
      BY <1>15, <3>1 DEF TelegramFails, TypeOK
    <3>2. CASE ~(worker[w].retries >= MaxRetries)
      <4>1. worker[w].retries + 1 \in Retries
        BY <3>2, <2>1, BusyHoldsTask DEF Retries
      <4>2. tasks' = Publish(tasks, worker[w].log, worker[w].retries + 1)
        BY <1>15, <3>2 DEF TelegramFails
      <4> QED
        BY <4>1, <4>2, <2>1, BusyHoldsTask, PublishType
    <3> QED
      BY <3>1, <3>2
  <2> QED
    BY <1>15, <2>2, <2>3, <2>4, <2>5 DEF TypeOK, TelegramFails
<1>16. ASSUME NEW w \in Workers, CommitSent(w) PROVE TypeOK'
  <2>1. worker[w].pc # "idle"
    BY <1>16 DEF CommitSent
  <2>2. log' \in [Logs -> Status \cup {"absent", "purged"}]
    BY <1>16, <2>1, BusyHoldsTask DEF TypeOK, CommitSent, Status, Written,
          Exists
  <2>3. worker' \in [Workers -> {IdleWorker} \cup BusyWorker]
    BY <1>16, <2>1, BusyHoldsTask, GotoType DEF TypeOK, CommitSent,
          BusyWorker, BusyPCs, Status, Exists
  <2> QED
    BY <1>16, <2>2, <2>3 DEF TypeOK, CommitSent
<1>17. ASSUME NEW w \in Workers, MeterEventOut(w) PROVE TypeOK'
  <2>1. worker[w].pc # "idle"
    BY <1>17 DEF MeterEventOut
  <2>2. metered' \in [Logs -> 0..2]
    BY <1>17, <2>1, BusyHoldsTask DEF TypeOK, MeterEventOut, Bump
  <2>3. worker' \in [Workers -> {IdleWorker} \cup BusyWorker]
    BY <1>17, <2>1, BusyHoldsTask, GotoType DEF TypeOK, MeterEventOut,
          BusyWorker, BusyPCs, Status, Exists
  <2> QED
    BY <1>17, <2>2, <2>3 DEF TypeOK, MeterEventOut
<1>18. ASSUME NEW w \in Workers, GiveUpLoad(w) PROVE TypeOK'
  <2>1. worker[w].pc # "idle"
    BY <1>18 DEF GiveUpLoad
  <2>2. worker' \in [Workers -> {IdleWorker} \cup BusyWorker]
    <3>1. CASE Exists(worker[w].log)
      <4>1. [worker[w] EXCEPT !.pc = "failing", !.seen = log[worker[w].log]]
            \in BusyWorker
        BY <2>1, <3>1, BusyHoldsTask DEF BusyWorker, BusyPCs, Exists
      <4> QED
        BY <1>18, <3>1, <4>1 DEF GiveUpLoad, TypeOK
    <3>2. CASE ~Exists(worker[w].log)
      BY <1>18, <3>2, <2>1, GotoType DEF GiveUpLoad, Goto, BusyPCs
    <3> QED
      BY <3>1, <3>2
  <2> QED
    BY <1>18, <2>2 DEF TypeOK, GiveUpLoad
<1>19. ASSUME NEW w \in Workers, GiveUpCommit(w) PROVE TypeOK'
  <2>1. worker[w].pc # "idle"
    BY <1>19 DEF GiveUpCommit
  <2>2. log' \in [Logs -> Status \cup {"absent", "purged"}]
    BY <1>19, <2>1, BusyHoldsTask DEF TypeOK, GiveUpCommit, Status, Written,
          Exists
  <2>3. worker' \in [Workers -> {IdleWorker} \cup BusyWorker]
    BY <1>19, <2>1, BusyHoldsTask, GotoType DEF TypeOK, GiveUpCommit,
          BusyWorker, BusyPCs, Status, Exists
  <2> QED
    BY <1>19, <2>2, <2>3 DEF TypeOK, GiveUpCommit
<1>20. ASSUME NEW w \in Workers, Acknowledge(w) PROVE TypeOK'
  <2>1. worker[w].pc # "idle"
    BY <1>20 DEF Acknowledge
  <2>2. worker' \in [Workers -> {IdleWorker} \cup BusyWorker]
    BY <1>20, <2>1, BusyHoldsTask, GotoType DEF TypeOK, Acknowledge,
          BusyWorker, BusyPCs, Status, Exists
  <2> QED
    BY <1>20, <2>2 DEF TypeOK, Acknowledge
<1>21. ASSUME NEW l \in Logs, PurgeLog(l) PROVE TypeOK'
  <2>1. log' \in [Logs -> Status \cup {"absent", "purged"}]
    BY <1>21 DEF TypeOK, PurgeLog, Status, Written, Exists
  <2> QED
    BY <1>21, <2>1 DEF TypeOK, PurgeLog
<1>22. ASSUME NEW w \in Workers, NEW delivered \in BOOLEAN,
              CrashRedelivers(w, delivered)
       PROVE  TypeOK'
  <2>1. worker[w].pc # "idle"
    BY <1>22 DEF CrashRedelivers, DiesInCall
  <2>2. tg' \in [Logs -> 0..2]
    BY <1>22, <2>1, BusyHoldsTask, SMTT(20) DEF TypeOK, CrashRedelivers, DiesInCall,
          Bump
  <2>3. worker' \in [Workers -> {IdleWorker} \cup BusyWorker]
    BY <1>22, <2>1, BusyHoldsTask, GotoType DEF TypeOK, CrashRedelivers,
          DiesInCall, BusyWorker, BusyPCs, Status, Exists
  <2>4. tasks' \in [Logs -> [Retries -> Nat]]
    <3>1. tasks' = Publish(tasks, worker[w].log, worker[w].retries)
      BY <1>22 DEF CrashRedelivers
    <3>2. worker[w].retries \in Retries
      BY <2>1, BusyHoldsTask DEF Retries
    <3> QED
      BY <3>1, <3>2, <2>1, BusyHoldsTask, PublishType
  <2>5. faults' \in 0..MaxFaults
    BY <1>22, <2>1, BusyHoldsTask DEF TypeOK, CrashRedelivers, DiesInCall,
          Fault
  <2> QED
    BY <1>22, <2>2, <2>3, <2>4, <2>5 DEF TypeOK, CrashRedelivers, Fault
<1>23. ASSUME NEW w \in Workers, NEW delivered \in BOOLEAN,
              TaskLost(w, delivered)
       PROVE  TypeOK'
  <2>1. worker[w].pc # "idle"
    BY <1>23 DEF TaskLost, DiesInCall
  <2>2. tg' \in [Logs -> 0..2]
    BY <1>23, <2>1, BusyHoldsTask DEF TypeOK, TaskLost, DiesInCall, Bump
  <2>3. worker' \in [Workers -> {IdleWorker} \cup BusyWorker]
    BY <1>23, <2>1, BusyHoldsTask, GotoType DEF TypeOK, TaskLost, DiesInCall,
          BusyWorker, BusyPCs, Status, Exists
  <2>4. dropped' \in SUBSET Logs
    BY <1>23, <2>1, BusyHoldsTask DEF TypeOK, TaskLost, DiesInCall
  <2>5. faults' \in 0..MaxFaults
    BY <1>23, <2>1, BusyHoldsTask DEF TypeOK, TaskLost, DiesInCall, Fault
  <2> QED
    BY <1>23, <2>2, <2>3, <2>4, <2>5 DEF TypeOK, TaskLost, Fault
<1>24. ASSUME NEW m \in Messages, ApiCrash(m) PROVE TypeOK'
  <2>1. outbox' \in SUBSET Logs
    BY <1>24 DEF TypeOK, ApiCrash, Logs
  <2>2. dropped' \in SUBSET Logs
    BY <1>24 DEF TypeOK, ApiCrash
  <2>3. faults' \in 0..MaxFaults
    BY <1>24 DEF TypeOK, ApiCrash, Fault
  <2> QED
    BY <1>24, <2>1, <2>2, <2>3 DEF TypeOK, ApiCrash
<1>25. ASSUME NEW p \in Dispatchers, DispatcherCrash(p) PROVE TypeOK'
  <2>1. disp' \in [Dispatchers -> DispatcherState]
    BY <1>25 DEF TypeOK, DispatcherCrash, DispatcherState, IdleDispatcher,
          LogsOf, DueForDispatch
  <2>2. dropped' \in SUBSET Logs
    <3>1. disp[p] \in DispatcherState
      BY <1>25 DEF TypeOK
    <3> QED
      BY <1>25, <3>1 DEF TypeOK, DispatcherCrash, DispatcherState
  <2>3. faults' \in 0..MaxFaults
    BY <1>25 DEF TypeOK, DispatcherCrash, Fault
  <2> QED
    BY <1>25, <2>1, <2>2, <2>3 DEF TypeOK, DispatcherCrash
<1>26. CASE UNCHANGED vars
  BY <1>26 DEF vars, TypeOK
<1>27. ASSUME DeleteBot PROVE TypeOK'
  <2>1. gone' \in SUBSET (Destinations \cup {Bot})
    BY <1>27 DEF TypeOK, DeleteBot
  <2> QED
    BY <1>27, <2>1 DEF TypeOK, DeleteBot
<1>28. ASSUME SelectPending \/ DeletionDies PROVE TypeOK'
  <2>1. cascade' \in CascadeState
    BY <1>28 DEF SelectPending, DeletionDies, CascadeState, NoCascade
  <2> QED
    BY <1>28, <2>1 DEF TypeOK, SelectPending, DeletionDies
<1> QED
  BY <1>1, <1>2, <1>3, <1>4, <1>5, <1>6, <1>7, <1>8, <1>9, <1>10, <1>11,
        <1>12, <1>13, <1>14, <1>15, <1>16, <1>17, <1>18, <1>19, <1>20, <1>21,
        <1>22, <1>23, <1>24, <1>25, <1>26, <1>27, <1>28 DEF Next, ApiNext,
        DispatchNext, WorkerNext, EnvironmentNext

\* Every variable keeps its type, whatever the processes and the faults do.
THEOREM TypeCorrect == Spec => []TypeOK
<1>1. Init => TypeOK
  BY ConstantsAssumption
     DEF Init, TypeOK, MessageRow, NoMessage, DispatcherState, IdleDispatcher,
         CascadeState, NoCascade
<1>2. TypeOK /\ [Next]_vars => TypeOK'
  BY TypeStep
<1> QED
  BY <1>1, <1>2, PTL DEF Spec

-----------------------------------------------------------------------------
(* The safety invariant *)

\* Each action preserves the inductive invariant.  What an action may add to
\* the tasks in flight is established first; the invariants follow from it.
LEMMA IInvStep == ASSUME IInv, [Next]_vars, TypeOK' PROVE IInv'
<1> USE ConstantsAssumption DEF IInv
<1>1. ASSUME NEW m \in Messages, NEW D \in SUBSET Destinations, NEW sched \in BOOLEAN,
             CreateMessage(m, D, sched)
      PROVE  IInv'
  <2>1. ASSUME NEW k \in Logs, InFlight(k)'
       PROVE  InFlight(k) \/ (k[1] = m /\ ~sched /\ k[2] \in D)
    BY <1>1, <2>1 DEF InFlight, Works, TypeOK, CreateMessage, Logs
  <2>2. RowsConsistent'
    BY <1>1, LogParts DEF TypeOK, CreateMessage, RowsConsistent, NoMessage,
          MessageRow, SelectionConsistent, TasksFollowCommit, Written, Exists,
          Status
  <2>3. CallsConsistent'
    BY <1>1, LogParts DEF TypeOK, CreateMessage, CallsConsistent,
          TasksFollowCommit, Written, Exists, Status
  <2>4. SelectionConsistent'
    BY <1>1, LogParts DEF TypeOK, CreateMessage, SelectionConsistent,
          DispatcherState, IdleDispatcher, MessageRow, NoMessage,
          DueForDispatch, RowsConsistent, Written, Exists, Status
  <2>5. CancelledConsistent'
    BY <1>1, LogParts DEF TypeOK, CreateMessage, CancelledConsistent,
          Deliverable, MessageRow, RowsConsistent, Written, Exists, Status
  <2>6. TasksFollowCommit'
    BY <1>1, LogParts, <2>1 DEF TypeOK, CreateMessage, TasksFollowCommit,
          Written, Exists, Status
  <2>7. NothingEarly'
    BY <1>1, LogParts, <2>1 DEF TypeOK, CreateMessage, NothingEarly, Released,
          RowsConsistent, CallsConsistent, TasksFollowCommit,
          SelectionConsistent, Bump, MessageRow, NoMessage, Written, Exists,
          Status
  <2>8. SentMeansDelivered'
    BY <1>1, LogParts DEF TypeOK, CreateMessage, SentMeansDelivered,
          CallsConsistent, Written, Bump, Exists, Status
  <2> QED
    BY <1>1, <2>2, <2>3, <2>4, <2>5, <2>6, <2>7, <2>8 DEF CreateMessage,
          CancelledNeverSent
<1>2. ASSUME NEW l \in Logs, EnqueueImmediate(l) PROVE IInv'
  <2>1. ASSUME NEW k \in Logs, InFlight(k)'
       PROVE  InFlight(k)
    BY <1>2, <2>1 DEF InFlight, Works, TypeOK, EnqueueImmediate, Publish
  <2>2. TasksFollowCommit'
    BY <1>2, LogParts, <2>1 DEF TypeOK, EnqueueImmediate, TasksFollowCommit
  <2>3. NothingEarly'
    BY <1>2, LogParts, <2>1 DEF TypeOK, EnqueueImmediate, NothingEarly,
          Released, RowsConsistent, CallsConsistent, TasksFollowCommit,
          SelectionConsistent, Bump, MessageRow, NoMessage
  <2> QED
    BY <1>2, <2>2, <2>3 DEF EnqueueImmediate, RowsConsistent, CallsConsistent,
          SelectionConsistent, CancelledConsistent, SentMeansDelivered,
          CancelledNeverSent
<1>3. ASSUME NEW d \in Destinations, DeleteDestination(d) PROVE IInv'
  <2> QED
    BY <1>3 DEF DeleteDestination, RowsConsistent, CallsConsistent,
          SelectionConsistent, CancelledConsistent, TasksFollowCommit,
          NothingEarly, SentMeansDelivered, CancelledNeverSent, InFlight,
          Works, Released
<1>4. ASSUME DeleteOrganization PROVE IInv'
  <2>1. RowsConsistent'
    BY <1>4, LogParts DEF TypeOK, DeleteOrganization, RowsConsistent,
          NoMessage, MessageRow, SelectionConsistent, TasksFollowCommit
  <2>2. SelectionConsistent'
    BY <1>4, LogParts DEF TypeOK, DeleteOrganization, SelectionConsistent,
          DispatcherState, IdleDispatcher, MessageRow, NoMessage,
          DueForDispatch, RowsConsistent
  <2>3. CancelledConsistent'
    <3>1. ASSUME NEW m \in cancelled' PROVE msg'[m].phase = "deleted"
      BY <1>4, <3>1 DEF DeleteOrganization, CancelledConsistent, TypeOK, MessageRow
    <3>2. ASSUME NEW w \in Workers, worker[w].pc = "cleared"
         PROVE  worker[w].log[1] \notin cancelled'
      <4>1. InFlight(worker[w].log)
        BY <3>2, BusyInFlight
      <4>2. Released(worker[w].log[1])
        BY <4>1, <3>2, BusyHoldsTask DEF NothingEarly
      <4> QED
        BY <1>4, <3>2, <4>2 DEF DeleteOrganization, CancelledConsistent, Released
    <3> QED
      BY <1>4, <3>1, <3>2 DEF DeleteOrganization, CancelledConsistent
  <2>4. NothingEarly'
    BY <1>4, LogParts DEF TypeOK, DeleteOrganization, NothingEarly, Released,
          RowsConsistent, CallsConsistent, TasksFollowCommit,
          SelectionConsistent, Bump, MessageRow, NoMessage, InFlight, Works
  <2>5. CancelledNeverSent'
    <3> SUFFICES ASSUME NEW l \in Logs, l[1] \in cancelled' PROVE tg[l] = 0
      BY <1>4 DEF DeleteOrganization, CancelledNeverSent
    <3>1. tg[l] \in 0..2
      BY DEF TypeOK
    <3>2. tg[l] > 0 => Released(l[1])
      BY DEF NothingEarly
    <3>3. l[1] \in cancelled \/ ~Released(l[1])
      BY <1>4 DEF DeleteOrganization, Released
    <3> QED
      BY <3>1, <3>2, <3>3 DEF CancelledNeverSent
  <2> QED
    BY <1>4, <2>1, <2>2, <2>3, <2>4, <2>5 DEF DeleteOrganization,
          CallsConsistent, TasksFollowCommit, SentMeansDelivered, InFlight,
          Works, Released
<1>5. ASSUME NEW m \in Messages, BecomeDue(m) PROVE IInv'
  <2>1. RowsConsistent'
    BY <1>5, LogParts DEF TypeOK, BecomeDue, RowsConsistent, NoMessage,
          MessageRow, SelectionConsistent, TasksFollowCommit
  <2>2. SelectionConsistent'
    BY <1>5, LogParts DEF TypeOK, BecomeDue, SelectionConsistent,
          DispatcherState, IdleDispatcher, MessageRow, NoMessage,
          DueForDispatch, RowsConsistent
  <2>3. CancelledConsistent'
    BY <1>5, LogParts DEF TypeOK, BecomeDue, CancelledConsistent, Deliverable,
          MessageRow, RowsConsistent
  <2>4. NothingEarly'
    BY <1>5, LogParts DEF TypeOK, BecomeDue, NothingEarly, Released,
          RowsConsistent, CallsConsistent, TasksFollowCommit,
          SelectionConsistent, Bump, MessageRow, NoMessage, InFlight, Works
  <2> QED
    BY <1>5, <2>1, <2>2, <2>3, <2>4 DEF BecomeDue, CallsConsistent,
          TasksFollowCommit, SentMeansDelivered, CancelledNeverSent, InFlight,
          Works, Released
<1>6. ASSUME NEW p \in Dispatchers, DispatchSelect(p) PROVE IInv'
  <2>1. ASSUME NEW k \in Logs, InFlight(k)'
       PROVE  InFlight(k)
    BY <1>6, <2>1 DEF InFlight, Works, TypeOK, DispatchSelect,
          DispatcherState, IdleDispatcher, LogsOf
  <2>2. SelectionConsistent'
    BY <1>6, LogParts DEF TypeOK, DispatchSelect, SelectionConsistent,
          DispatcherState, IdleDispatcher, MessageRow, NoMessage,
          DueForDispatch, RowsConsistent
  <2>3. TasksFollowCommit'
    BY <1>6, LogParts, <2>1 DEF TypeOK, DispatchSelect, TasksFollowCommit
  <2>4. NothingEarly'
    BY <1>6, LogParts, <2>1 DEF TypeOK, DispatchSelect, NothingEarly,
          Released, RowsConsistent, CallsConsistent, TasksFollowCommit,
          SelectionConsistent, Bump, MessageRow, NoMessage
  <2> QED
    BY <1>6, <2>2, <2>3, <2>4 DEF DispatchSelect, RowsConsistent,
          CallsConsistent, CancelledConsistent, SentMeansDelivered,
          CancelledNeverSent
<1>7. ASSUME NEW p \in Dispatchers, DispatchCommit(p) PROVE IInv'
  <2>1. ASSUME NEW k \in Logs, InFlight(k)'
       PROVE  InFlight(k) \/ (k[1] \in disp[p].rows /\ Exists(k))
    BY <1>7, <2>1 DEF InFlight, Works, TypeOK, DispatchCommit,
          DispatcherState, IdleDispatcher, LogsOf
  <2>2. RowsConsistent'
    BY <1>7, LogParts DEF TypeOK, DispatchCommit, RowsConsistent, NoMessage,
          MessageRow, SelectionConsistent, TasksFollowCommit, Written, Exists,
          Status
  <2>3. SelectionConsistent'
    BY <1>7, LogParts DEF TypeOK, DispatchCommit, SelectionConsistent,
          DispatcherState, IdleDispatcher, MessageRow, NoMessage,
          DueForDispatch, RowsConsistent, Written, Exists, Status
  <2>4. CancelledConsistent'
    BY <1>7, LogParts DEF TypeOK, DispatchCommit, CancelledConsistent,
          Deliverable, MessageRow, RowsConsistent, Written, Exists, Status
  <2>5. TasksFollowCommit'
    BY <1>7, LogParts, <2>1 DEF TypeOK, DispatchCommit, TasksFollowCommit,
          Written, Exists, Status
  <2>6. NothingEarly'
    BY <1>7, LogParts, <2>1 DEF TypeOK, DispatchCommit, NothingEarly,
          Released, RowsConsistent, CallsConsistent, TasksFollowCommit,
          SelectionConsistent, Bump, MessageRow, NoMessage, Written, Exists,
          Status
  <2> QED
    BY <1>7, <2>2, <2>3, <2>4, <2>5, <2>6 DEF DispatchCommit, CallsConsistent,
          SentMeansDelivered, CancelledNeverSent
<1>8. ASSUME NEW p \in Dispatchers, NEW l \in Logs,
             DispatchEnqueue(p, l)
      PROVE  IInv'
  <2>1. ASSUME NEW k \in Logs, InFlight(k)'
       PROVE  InFlight(k)
    BY <1>8, <2>1 DEF InFlight, Works, TypeOK, DispatchEnqueue, Publish,
          DispatcherState, IdleDispatcher, LogsOf
  <2>2. SelectionConsistent'
    BY <1>8, LogParts DEF TypeOK, DispatchEnqueue, SelectionConsistent,
          DispatcherState, IdleDispatcher, MessageRow, NoMessage,
          DueForDispatch, RowsConsistent
  <2>3. TasksFollowCommit'
    BY <1>8, LogParts, <2>1 DEF TypeOK, DispatchEnqueue, TasksFollowCommit
  <2>4. NothingEarly'
    BY <1>8, LogParts, <2>1 DEF TypeOK, DispatchEnqueue, NothingEarly,
          Released, RowsConsistent, CallsConsistent, TasksFollowCommit,
          SelectionConsistent, Bump, MessageRow, NoMessage
  <2> QED
    BY <1>8, <2>2, <2>3, <2>4 DEF DispatchEnqueue, RowsConsistent,
          CallsConsistent, CancelledConsistent, SentMeansDelivered,
          CancelledNeverSent
<1>9. ASSUME NEW p \in Dispatchers, DispatchEnd(p) PROVE IInv'
  <2>1. ASSUME NEW k \in Logs, InFlight(k)'
       PROVE  InFlight(k)
    BY <1>9, <2>1 DEF InFlight, Works, TypeOK, DispatchEnd, DispatcherState,
          IdleDispatcher, LogsOf
  <2>2. SelectionConsistent'
    BY <1>9, LogParts DEF TypeOK, DispatchEnd, SelectionConsistent,
          DispatcherState, IdleDispatcher, MessageRow, NoMessage,
          DueForDispatch, RowsConsistent
  <2>3. TasksFollowCommit'
    BY <1>9, LogParts, <2>1 DEF TypeOK, DispatchEnd, TasksFollowCommit
  <2>4. NothingEarly'
    BY <1>9, LogParts, <2>1 DEF TypeOK, DispatchEnd, NothingEarly, Released,
          RowsConsistent, CallsConsistent, TasksFollowCommit,
          SelectionConsistent, Bump, MessageRow, NoMessage
  <2> QED
    BY <1>9, <2>2, <2>3, <2>4 DEF DispatchEnd, RowsConsistent,
          CallsConsistent, CancelledConsistent, SentMeansDelivered,
          CancelledNeverSent
<1>10. ASSUME NEW w \in Workers, NEW l \in Logs, NEW r \in Retries,
              TakeTask(w, l, r)
       PROVE  IInv'
  <2>1. ASSUME NEW k \in Logs, InFlight(k)'
       PROVE  InFlight(k)
    BY <1>10, <2>1 DEF InFlight, Works, TypeOK, TakeTask, Goto, BusyWorker,
          IdleWorker, Publish
  <2>2. CallsConsistent'
    BY <1>10, LogParts DEF TypeOK, TakeTask, CallsConsistent,
          TasksFollowCommit, Goto, BusyWorker, IdleWorker
  <2>3. CancelledConsistent'
    BY <1>10, LogParts DEF TypeOK, TakeTask, CancelledConsistent, Deliverable,
          MessageRow, RowsConsistent, Goto, BusyWorker, IdleWorker
  <2>4. TasksFollowCommit'
    BY <1>10, LogParts, <2>1 DEF TypeOK, TakeTask, TasksFollowCommit, Goto,
          BusyWorker, IdleWorker
  <2>5. NothingEarly'
    BY <1>10, LogParts, <2>1 DEF TypeOK, TakeTask, NothingEarly, Released,
          RowsConsistent, CallsConsistent, TasksFollowCommit,
          SelectionConsistent, Bump, MessageRow, NoMessage, Goto, BusyWorker,
          IdleWorker
  <2> QED
    BY <1>10, <2>2, <2>3, <2>4, <2>5 DEF TakeTask, RowsConsistent,
          SelectionConsistent, SentMeansDelivered, CancelledNeverSent
<1>11. ASSUME NEW w \in Workers, Undeliverable(w) PROVE IInv'
  <2>1. worker[w].pc # "idle"
    BY <1>11 DEF Undeliverable
  <2>2. /\ worker[w] \in BusyWorker /\ InFlight(worker[w].log)
        /\ worker[w].log \in Logs /\ worker[w].log[1] \in Messages
    BY <2>1, BusyHoldsTask, BusyInFlight
  <2>3. ASSUME NEW k \in Logs, InFlight(k)'
       PROVE  InFlight(k)
    BY <1>11, <2>3, <2>1, <2>2 DEF InFlight, Works, TypeOK, Undeliverable,
          Goto, BusyWorker, IdleWorker
  <2>4. RowsConsistent'
    BY <1>11, <2>1, <2>2, LogParts DEF TypeOK, Undeliverable, RowsConsistent,
          NoMessage, MessageRow, SelectionConsistent, TasksFollowCommit, Goto,
          BusyWorker, IdleWorker, Written, Exists, Status
  <2>5. CallsConsistent'
    BY <1>11, <2>1, <2>2, LogParts DEF TypeOK, Undeliverable, CallsConsistent,
          TasksFollowCommit, Goto, BusyWorker, IdleWorker, Written, Exists,
          Status
  <2>6. CancelledConsistent'
    BY <1>11, <2>1, <2>2, LogParts DEF TypeOK, Undeliverable,
          CancelledConsistent, Deliverable, MessageRow, RowsConsistent, Goto,
          BusyWorker, IdleWorker, Written, Exists, Status
  <2>7. TasksFollowCommit'
    BY <1>11, <2>1, <2>2, LogParts, <2>3 DEF TypeOK, Undeliverable,
          TasksFollowCommit, Goto, BusyWorker, IdleWorker, Written, Exists,
          Status
  <2>8. NothingEarly'
    BY <1>11, <2>1, <2>2, LogParts, <2>3 DEF TypeOK, Undeliverable,
          NothingEarly, Released, RowsConsistent, CallsConsistent,
          TasksFollowCommit, SelectionConsistent, Bump, MessageRow, NoMessage,
          Goto, BusyWorker, IdleWorker, Written, Exists, Status
  <2>9. SentMeansDelivered'
    BY <1>11, <2>1, <2>2, LogParts DEF TypeOK, Undeliverable,
          SentMeansDelivered, CallsConsistent, Written, Bump, Goto,
          BusyWorker, IdleWorker, Exists, Status
  <2> QED
    BY <1>11, <2>4, <2>5, <2>6, <2>7, <2>8, <2>9 DEF Undeliverable,
          SelectionConsistent, CancelledNeverSent
<1>12. ASSUME NEW w \in Workers, PassThrottle(w) PROVE IInv'
  <2>1. worker[w].pc # "idle"
    BY <1>12 DEF PassThrottle
  <2>2. /\ worker[w] \in BusyWorker /\ InFlight(worker[w].log)
        /\ worker[w].log \in Logs /\ worker[w].log[1] \in Messages
    BY <2>1, BusyHoldsTask, BusyInFlight
  <2>3. ASSUME NEW k \in Logs, InFlight(k)'
       PROVE  InFlight(k)
    BY <1>12, <2>3, <2>1, <2>2 DEF InFlight, Works, TypeOK, PassThrottle,
          Goto, BusyWorker, IdleWorker
  <2>4. CallsConsistent'
    BY <1>12, <2>1, <2>2, LogParts DEF TypeOK, PassThrottle, CallsConsistent,
          TasksFollowCommit, Goto, BusyWorker, IdleWorker
  <2>5. CancelledConsistent'
    BY <1>12, <2>1, <2>2, LogParts DEF TypeOK, PassThrottle,
          CancelledConsistent, Deliverable, MessageRow, RowsConsistent, Goto,
          BusyWorker, IdleWorker
  <2>6. TasksFollowCommit'
    BY <1>12, <2>1, <2>2, LogParts, <2>3 DEF TypeOK, PassThrottle,
          TasksFollowCommit, Goto, BusyWorker, IdleWorker
  <2>7. NothingEarly'
    BY <1>12, <2>1, <2>2, LogParts, <2>3 DEF TypeOK, PassThrottle,
          NothingEarly, Released, RowsConsistent, CallsConsistent,
          TasksFollowCommit, SelectionConsistent, Bump, MessageRow, NoMessage,
          Goto, BusyWorker, IdleWorker
  <2> QED
    BY <1>12, <2>4, <2>5, <2>6, <2>7 DEF PassThrottle, RowsConsistent,
          SelectionConsistent, SentMeansDelivered, CancelledNeverSent
<1>13. ASSUME NEW w \in Workers, Throttled(w) PROVE IInv'
  <2>1. worker[w].pc # "idle"
    BY <1>13 DEF Throttled
  <2>2. /\ worker[w] \in BusyWorker /\ InFlight(worker[w].log)
        /\ worker[w].log \in Logs /\ worker[w].log[1] \in Messages
    BY <2>1, BusyHoldsTask, BusyInFlight
  <2>3. ASSUME NEW k \in Logs, InFlight(k)'
       PROVE  InFlight(k)
    BY <1>13, <2>3, <2>1, <2>2 DEF InFlight, Works, TypeOK, Throttled, Goto,
          BusyWorker, IdleWorker, Publish
  <2>4. CallsConsistent'
    BY <1>13, <2>1, <2>2, LogParts DEF TypeOK, Throttled, CallsConsistent,
          TasksFollowCommit, Goto, BusyWorker, IdleWorker
  <2>5. CancelledConsistent'
    BY <1>13, <2>1, <2>2, LogParts DEF TypeOK, Throttled, CancelledConsistent,
          Deliverable, MessageRow, RowsConsistent, Goto, BusyWorker,
          IdleWorker
  <2>6. TasksFollowCommit'
    BY <1>13, <2>1, <2>2, LogParts, <2>3 DEF TypeOK, Throttled,
          TasksFollowCommit, Goto, BusyWorker, IdleWorker
  <2>7. NothingEarly'
    BY <1>13, <2>1, <2>2, LogParts, <2>3 DEF TypeOK, Throttled, NothingEarly,
          Released, RowsConsistent, CallsConsistent, TasksFollowCommit,
          SelectionConsistent, Bump, MessageRow, NoMessage, Goto, BusyWorker,
          IdleWorker
  <2> QED
    BY <1>13, <2>4, <2>5, <2>6, <2>7 DEF Throttled, RowsConsistent,
          SelectionConsistent, SentMeansDelivered, CancelledNeverSent
<1>14. ASSUME NEW w \in Workers, TelegramAccepts(w) PROVE IInv'
  <2>1. worker[w].pc # "idle"
    BY <1>14 DEF TelegramAccepts
  <2>2. /\ worker[w] \in BusyWorker /\ InFlight(worker[w].log)
        /\ worker[w].log \in Logs /\ worker[w].log[1] \in Messages
    BY <2>1, BusyHoldsTask, BusyInFlight
  <2>3. ASSUME NEW k \in Logs, InFlight(k)'
       PROVE  InFlight(k)
    BY <1>14, <2>3, <2>1, <2>2 DEF InFlight, Works, TypeOK, TelegramAccepts,
          Goto, BusyWorker, IdleWorker
  <2>4. CallsConsistent'
    BY <1>14, <2>1, <2>2, LogParts DEF TypeOK, TelegramAccepts,
          CallsConsistent, TasksFollowCommit, Goto, BusyWorker, IdleWorker,
          Bump
  <2>5. CancelledConsistent'
    BY <1>14, <2>1, <2>2, LogParts DEF TypeOK, TelegramAccepts,
          CancelledConsistent, Deliverable, MessageRow, RowsConsistent, Goto,
          BusyWorker, IdleWorker, Bump
  <2>6. TasksFollowCommit'
    BY <1>14, <2>1, <2>2, LogParts, <2>3 DEF TypeOK, TelegramAccepts,
          TasksFollowCommit, Goto, BusyWorker, IdleWorker, Bump
  <2>7. NothingEarly'
    BY <1>14, <2>1, <2>2, LogParts, <2>3 DEF TypeOK, TelegramAccepts,
          NothingEarly, Released, RowsConsistent, CallsConsistent,
          TasksFollowCommit, SelectionConsistent, Bump, MessageRow, NoMessage,
          Goto, BusyWorker, IdleWorker
  <2>8. SentMeansDelivered'
    BY <1>14, <2>1, <2>2, LogParts DEF TypeOK, TelegramAccepts,
          SentMeansDelivered, CallsConsistent, Written, Bump, Goto,
          BusyWorker, IdleWorker
  <2>9. CancelledNeverSent'
    BY <1>14, <2>1, <2>2, LogParts DEF TypeOK, TelegramAccepts,
          CancelledNeverSent, CancelledConsistent, NothingEarly, Released,
          MessageRow, Goto, BusyWorker, IdleWorker, Bump
  <2> QED
    BY <1>14, <2>4, <2>5, <2>6, <2>7, <2>8, <2>9 DEF TelegramAccepts,
          RowsConsistent, SelectionConsistent
<1>15. ASSUME NEW w \in Workers, NEW delivered \in BOOLEAN,
              TelegramFails(w, delivered)
       PROVE  IInv'
  <2>1. worker[w].pc # "idle"
    BY <1>15 DEF TelegramFails
  <2>2. /\ worker[w] \in BusyWorker /\ InFlight(worker[w].log)
        /\ worker[w].log \in Logs /\ worker[w].log[1] \in Messages
    BY <2>1, BusyHoldsTask, BusyInFlight
  <2>3. ASSUME NEW k \in Logs, InFlight(k)'
       PROVE  InFlight(k)
    <3>1. CASE k = worker[w].log
      BY <3>1, <2>2
    <3>2. CASE k # worker[w].log
      <4>1. PICK pc \in BusyPCs : Goto(w, pc)
        BY <1>15 DEF TelegramFails, BusyPCs
      <4>2. \A v \in Workers : Works(v, k)' => Works(v, k)
        BY <4>1, <2>1, <3>2, GotoWorks
      <4>3. tasks'[k] = tasks[k]
        BY <1>15, <3>2 DEF TelegramFails, Publish, TypeOK
      <4> QED
        BY <1>15, <2>3, <4>2, <4>3 DEF TelegramFails, InFlight
    <3> QED
      BY <3>1, <3>2
  <2>4. CallsConsistent'
    <3>1. PICK pc \in {"rejected", "acking"} : Goto(w, pc)
      BY <1>15 DEF TelegramFails
    <3>2. \A v \in Workers : worker'[v].pc = "answered" => worker'[v] = worker[v]
      BY <3>1, <2>1, GotoWorks DEF BusyPCs
    <3>3. log[worker[w].log] # "absent"
      BY <2>2 DEF TasksFollowCommit
    <3>4. \A l \in Logs :
             /\ tg[l] > 0 => tg'[l] > 0
             /\ tg'[l] > 0 => tg[l] > 0 \/ l = worker[w].log
      <4>1. tg \in [Logs -> 0..2]
        BY DEF TypeOK
      <4>2. CASE delivered
        <5>1. tg' = [tg EXCEPT ![worker[w].log] = Bump(@)]
          BY <1>15, <4>2 DEF TelegramFails
        <5> QED
          BY <4>1, <5>1 DEF Bump
      <4>3. CASE ~delivered
        BY <1>15, <4>3 DEF TelegramFails
      <4> QED
        BY <4>2, <4>3
    <3>5. \A v \in Workers : worker[v].pc = "answered" => worker[v].log \in Logs
      BY BusyHoldsTask
    <3>6. \A l \in Logs : tg'[l] > 0 => log'[l] # "absent"
      BY <1>15, <3>3, <3>4 DEF TelegramFails, CallsConsistent
    <3>7. ASSUME NEW v \in Workers, worker'[v].pc = "answered"
         PROVE  tg'[worker'[v].log] > 0
      <4>1. worker'[v] = worker[v] /\ worker[v].pc = "answered"
        BY <3>2, <3>7
      <4>2. tg[worker[v].log] > 0 /\ worker[v].log \in Logs
        BY <4>1, <3>5 DEF CallsConsistent
      <4>3. tg'[worker[v].log] > 0
        BY <4>2, <3>4 DEF TypeOK
      <4> QED
        BY <4>1, <4>3, Zenon
    <3> QED
      BY <3>6, <3>7 DEF CallsConsistent
  <2>5. CancelledConsistent'
    <3>1. PICK pc \in {"rejected", "acking"} : Goto(w, pc)
      BY <1>15 DEF TelegramFails
    <3>2. \A v \in Workers : worker'[v].pc = "cleared" => worker'[v] = worker[v]
      BY <3>1, <2>1, GotoWorks DEF BusyPCs
    <3> QED
      BY <1>15, <3>2 DEF TelegramFails, CancelledConsistent
  <2>6. TasksFollowCommit'
    BY <1>15, <2>1, <2>2, LogParts, <2>3 DEF TypeOK, TelegramFails,
          TasksFollowCommit, Goto, BusyWorker, IdleWorker, Bump
  <2>7. NothingEarly'
    BY <1>15, <2>1, <2>2, LogParts, <2>3 DEF TypeOK, TelegramFails,
          NothingEarly, Released, RowsConsistent, CallsConsistent,
          TasksFollowCommit, SelectionConsistent, Bump, MessageRow, NoMessage,
          Goto, BusyWorker, IdleWorker
  <2>8. SentMeansDelivered'
    BY <1>15, <2>1, <2>2, LogParts DEF TypeOK, TelegramFails,
          SentMeansDelivered, CallsConsistent, Written, Bump, Goto,
          BusyWorker, IdleWorker
  <2>9. CancelledNeverSent'
    BY <1>15, <2>1, <2>2, LogParts DEF TypeOK, TelegramFails,
          CancelledNeverSent, CancelledConsistent, NothingEarly, Released,
          MessageRow, Goto, BusyWorker, IdleWorker, Bump
  <2> QED
    BY <1>15, <2>4, <2>5, <2>6, <2>7, <2>8, <2>9 DEF TelegramFails,
          RowsConsistent, SelectionConsistent
<1>16. ASSUME NEW w \in Workers, CommitSent(w) PROVE IInv'
  <2>1. worker[w].pc # "idle"
    BY <1>16 DEF CommitSent
  <2>2. /\ worker[w] \in BusyWorker /\ InFlight(worker[w].log)
        /\ worker[w].log \in Logs /\ worker[w].log[1] \in Messages
    BY <2>1, BusyHoldsTask, BusyInFlight
  <2>3. ASSUME NEW k \in Logs, InFlight(k)'
       PROVE  InFlight(k)
    BY <1>16, <2>3, <2>1, <2>2 DEF InFlight, Works, TypeOK, CommitSent, Goto,
          BusyWorker, IdleWorker
  <2>4. RowsConsistent'
    BY <1>16, <2>1, <2>2, LogParts DEF TypeOK, CommitSent, RowsConsistent,
          NoMessage, MessageRow, SelectionConsistent, TasksFollowCommit, Goto,
          BusyWorker, IdleWorker, Written, Exists, Status
  <2>5. CallsConsistent'
    BY <1>16, <2>1, <2>2, LogParts DEF TypeOK, CommitSent, CallsConsistent,
          TasksFollowCommit, Goto, BusyWorker, IdleWorker, Written, Exists,
          Status
  <2>6. CancelledConsistent'
    BY <1>16, <2>1, <2>2, LogParts DEF TypeOK, CommitSent,
          CancelledConsistent, Deliverable, MessageRow, RowsConsistent, Goto,
          BusyWorker, IdleWorker, Written, Exists, Status
  <2>7. TasksFollowCommit'
    BY <1>16, <2>1, <2>2, LogParts, <2>3 DEF TypeOK, CommitSent,
          TasksFollowCommit, Goto, BusyWorker, IdleWorker, Written, Exists,
          Status
  <2>8. NothingEarly'
    BY <1>16, <2>1, <2>2, LogParts, <2>3 DEF TypeOK, CommitSent, NothingEarly,
          Released, RowsConsistent, CallsConsistent, TasksFollowCommit,
          SelectionConsistent, Bump, MessageRow, NoMessage, Goto, BusyWorker,
          IdleWorker, Written, Exists, Status
  <2>9. SentMeansDelivered'
    BY <1>16, <2>1, <2>2, LogParts DEF TypeOK, CommitSent, SentMeansDelivered,
          CallsConsistent, Written, Bump, Goto, BusyWorker, IdleWorker,
          Exists, Status
  <2> QED
    BY <1>16, <2>4, <2>5, <2>6, <2>7, <2>8, <2>9 DEF CommitSent,
          SelectionConsistent, CancelledNeverSent
<1>17. ASSUME NEW w \in Workers, MeterEventOut(w) PROVE IInv'
  <2>1. worker[w].pc # "idle"
    BY <1>17 DEF MeterEventOut
  <2>2. /\ worker[w] \in BusyWorker /\ InFlight(worker[w].log)
        /\ worker[w].log \in Logs /\ worker[w].log[1] \in Messages
    BY <2>1, BusyHoldsTask, BusyInFlight
  <2>3. ASSUME NEW k \in Logs, InFlight(k)'
       PROVE  InFlight(k)
    BY <1>17, <2>3, <2>1, <2>2 DEF InFlight, Works, TypeOK, MeterEventOut,
          Goto, BusyWorker, IdleWorker
  <2>4. CallsConsistent'
    BY <1>17, <2>1, <2>2, LogParts DEF TypeOK, MeterEventOut, CallsConsistent,
          TasksFollowCommit, Goto, BusyWorker, IdleWorker
  <2>5. CancelledConsistent'
    BY <1>17, <2>1, <2>2, LogParts DEF TypeOK, MeterEventOut,
          CancelledConsistent, Deliverable, MessageRow, RowsConsistent, Goto,
          BusyWorker, IdleWorker
  <2>6. TasksFollowCommit'
    BY <1>17, <2>1, <2>2, LogParts, <2>3 DEF TypeOK, MeterEventOut,
          TasksFollowCommit, Goto, BusyWorker, IdleWorker
  <2>7. NothingEarly'
    BY <1>17, <2>1, <2>2, LogParts, <2>3 DEF TypeOK, MeterEventOut,
          NothingEarly, Released, RowsConsistent, CallsConsistent,
          TasksFollowCommit, SelectionConsistent, Bump, MessageRow, NoMessage,
          Goto, BusyWorker, IdleWorker
  <2> QED
    BY <1>17, <2>4, <2>5, <2>6, <2>7 DEF MeterEventOut, RowsConsistent,
          SelectionConsistent, SentMeansDelivered, CancelledNeverSent
<1>18. ASSUME NEW w \in Workers, GiveUpLoad(w) PROVE IInv'
  <2>1. worker[w].pc # "idle"
    BY <1>18 DEF GiveUpLoad
  <2>2. /\ worker[w] \in BusyWorker /\ InFlight(worker[w].log)
        /\ worker[w].log \in Logs /\ worker[w].log[1] \in Messages
    BY <2>1, BusyHoldsTask, BusyInFlight
  <2>3. ASSUME NEW k \in Logs, InFlight(k)'
       PROVE  InFlight(k)
    BY <1>18, <2>3, <2>1, <2>2 DEF InFlight, Works, TypeOK, GiveUpLoad, Goto,
          BusyWorker, IdleWorker
  <2>4. CallsConsistent'
    BY <1>18, <2>1, <2>2, LogParts DEF TypeOK, GiveUpLoad, CallsConsistent,
          TasksFollowCommit, Goto, BusyWorker, IdleWorker
  <2>5. CancelledConsistent'
    BY <1>18, <2>1, <2>2, LogParts DEF TypeOK, GiveUpLoad,
          CancelledConsistent, Deliverable, MessageRow, RowsConsistent, Goto,
          BusyWorker, IdleWorker
  <2>6. TasksFollowCommit'
    BY <1>18, <2>1, <2>2, LogParts, <2>3 DEF TypeOK, GiveUpLoad,
          TasksFollowCommit, Goto, BusyWorker, IdleWorker
  <2>7. NothingEarly'
    BY <1>18, <2>1, <2>2, LogParts, <2>3 DEF TypeOK, GiveUpLoad, NothingEarly,
          Released, RowsConsistent, CallsConsistent, TasksFollowCommit,
          SelectionConsistent, Bump, MessageRow, NoMessage, Goto, BusyWorker,
          IdleWorker
  <2> QED
    BY <1>18, <2>4, <2>5, <2>6, <2>7 DEF GiveUpLoad, RowsConsistent,
          SelectionConsistent, SentMeansDelivered, CancelledNeverSent
<1>19. ASSUME NEW w \in Workers, GiveUpCommit(w) PROVE IInv'
  <2>1. worker[w].pc # "idle"
    BY <1>19 DEF GiveUpCommit
  <2>2. /\ worker[w] \in BusyWorker /\ InFlight(worker[w].log)
        /\ worker[w].log \in Logs /\ worker[w].log[1] \in Messages
    BY <2>1, BusyHoldsTask, BusyInFlight
  <2>3. ASSUME NEW k \in Logs, InFlight(k)'
       PROVE  InFlight(k)
    BY <1>19, <2>3, <2>1, <2>2 DEF InFlight, Works, TypeOK, GiveUpCommit,
          Goto, BusyWorker, IdleWorker
  <2>4. RowsConsistent'
    BY <1>19, <2>1, <2>2, LogParts DEF TypeOK, GiveUpCommit, RowsConsistent,
          NoMessage, MessageRow, SelectionConsistent, TasksFollowCommit, Goto,
          BusyWorker, IdleWorker, Written, Exists, Status
  <2>5. CallsConsistent'
    BY <1>19, <2>1, <2>2, LogParts DEF TypeOK, GiveUpCommit, CallsConsistent,
          TasksFollowCommit, Goto, BusyWorker, IdleWorker, Written, Exists,
          Status
  <2>6. CancelledConsistent'
    BY <1>19, <2>1, <2>2, LogParts DEF TypeOK, GiveUpCommit,
          CancelledConsistent, Deliverable, MessageRow, RowsConsistent, Goto,
          BusyWorker, IdleWorker, Written, Exists, Status
  <2>7. TasksFollowCommit'
    BY <1>19, <2>1, <2>2, LogParts, <2>3 DEF TypeOK, GiveUpCommit,
          TasksFollowCommit, Goto, BusyWorker, IdleWorker, Written, Exists,
          Status
  <2>8. NothingEarly'
    BY <1>19, <2>1, <2>2, LogParts, <2>3 DEF TypeOK, GiveUpCommit,
          NothingEarly, Released, RowsConsistent, CallsConsistent,
          TasksFollowCommit, SelectionConsistent, Bump, MessageRow, NoMessage,
          Goto, BusyWorker, IdleWorker, Written, Exists, Status
  <2>9. SentMeansDelivered'
    BY <1>19, <2>1, <2>2, LogParts DEF TypeOK, GiveUpCommit,
          SentMeansDelivered, CallsConsistent, Written, Bump, Goto,
          BusyWorker, IdleWorker, Exists, Status
  <2> QED
    BY <1>19, <2>4, <2>5, <2>6, <2>7, <2>8, <2>9 DEF GiveUpCommit,
          SelectionConsistent, CancelledNeverSent
<1>20. ASSUME NEW w \in Workers, Acknowledge(w) PROVE IInv'
  <2>1. worker[w].pc # "idle"
    BY <1>20 DEF Acknowledge
  <2>2. /\ worker[w] \in BusyWorker /\ InFlight(worker[w].log)
        /\ worker[w].log \in Logs /\ worker[w].log[1] \in Messages
    BY <2>1, BusyHoldsTask, BusyInFlight
  <2>3. ASSUME NEW k \in Logs, InFlight(k)'
       PROVE  InFlight(k)
    BY <1>20, <2>3, <2>1, <2>2 DEF InFlight, Works, TypeOK, Acknowledge, Goto,
          BusyWorker, IdleWorker
  <2>4. CallsConsistent'
    BY <1>20, <2>1, <2>2, LogParts DEF TypeOK, Acknowledge, CallsConsistent,
          TasksFollowCommit, Goto, BusyWorker, IdleWorker
  <2>5. CancelledConsistent'
    BY <1>20, <2>1, <2>2, LogParts DEF TypeOK, Acknowledge,
          CancelledConsistent, Deliverable, MessageRow, RowsConsistent, Goto,
          BusyWorker, IdleWorker
  <2>6. TasksFollowCommit'
    BY <1>20, <2>1, <2>2, LogParts, <2>3 DEF TypeOK, Acknowledge,
          TasksFollowCommit, Goto, BusyWorker, IdleWorker
  <2>7. NothingEarly'
    BY <1>20, <2>1, <2>2, LogParts, <2>3 DEF TypeOK, Acknowledge,
          NothingEarly, Released, RowsConsistent, CallsConsistent,
          TasksFollowCommit, SelectionConsistent, Bump, MessageRow, NoMessage,
          Goto, BusyWorker, IdleWorker
  <2> QED
    BY <1>20, <2>4, <2>5, <2>6, <2>7 DEF Acknowledge, RowsConsistent,
          SelectionConsistent, SentMeansDelivered, CancelledNeverSent
<1>21. ASSUME NEW l \in Logs, PurgeLog(l) PROVE IInv'
  <2>1. RowsConsistent'
    BY <1>21, LogParts DEF TypeOK, PurgeLog, RowsConsistent, NoMessage,
          MessageRow, SelectionConsistent, TasksFollowCommit, Written, Exists,
          Status
  <2>2. CallsConsistent'
    BY <1>21, LogParts DEF TypeOK, PurgeLog, CallsConsistent,
          TasksFollowCommit, Written, Exists, Status
  <2>3. TasksFollowCommit'
    BY <1>21, LogParts DEF TypeOK, PurgeLog, TasksFollowCommit, InFlight,
          Works, Written, Exists, Status
  <2>4. SentMeansDelivered'
    BY <1>21, LogParts DEF TypeOK, PurgeLog, SentMeansDelivered,
          CallsConsistent, Written, Bump, Exists, Status
  <2> QED
    BY <1>21, <2>1, <2>2, <2>3, <2>4 DEF PurgeLog, SelectionConsistent,
          CancelledConsistent, NothingEarly, CancelledNeverSent, InFlight,
          Works, Released
<1>22. ASSUME NEW w \in Workers, NEW delivered \in BOOLEAN,
              CrashRedelivers(w, delivered)
       PROVE  IInv'
  <2>1. worker[w].pc # "idle"
    BY <1>22 DEF CrashRedelivers, DiesInCall
  <2>2. /\ worker[w] \in BusyWorker /\ InFlight(worker[w].log)
        /\ worker[w].log \in Logs /\ worker[w].log[1] \in Messages
    BY <2>1, BusyHoldsTask, BusyInFlight
  <2>3. ASSUME NEW k \in Logs, InFlight(k)'
       PROVE  InFlight(k)
    BY <1>22, <2>3, <2>1, <2>2 DEF InFlight, Works, TypeOK, CrashRedelivers,
          DiesInCall, Goto, BusyWorker, IdleWorker, Publish
  <2>4. CallsConsistent'
    BY <1>22, <2>1, <2>2, LogParts DEF TypeOK, CrashRedelivers,
          CallsConsistent, TasksFollowCommit, DiesInCall, Goto, BusyWorker,
          IdleWorker, Bump
  <2>5. CancelledConsistent'
    BY <1>22, <2>1, <2>2, LogParts DEF TypeOK, CrashRedelivers,
          CancelledConsistent, Deliverable, MessageRow, RowsConsistent,
          DiesInCall, Goto, BusyWorker, IdleWorker, Bump
  <2>6. TasksFollowCommit'
    BY <1>22, <2>1, <2>2, LogParts, <2>3 DEF TypeOK, CrashRedelivers,
          TasksFollowCommit, DiesInCall, Goto, BusyWorker, IdleWorker, Bump
  <2>7. NothingEarly'
    BY <1>22, <2>1, <2>2, LogParts, <2>3 DEF TypeOK, CrashRedelivers,
          NothingEarly, Released, RowsConsistent, CallsConsistent,
          TasksFollowCommit, SelectionConsistent, Bump, MessageRow, NoMessage,
          DiesInCall, Goto, BusyWorker, IdleWorker
  <2>8. SentMeansDelivered'
    BY <1>22, <2>1, <2>2, LogParts DEF TypeOK, CrashRedelivers,
          SentMeansDelivered, CallsConsistent, Written, Bump, DiesInCall,
          Goto, BusyWorker, IdleWorker
  <2>9. CancelledNeverSent'
    BY <1>22, <2>1, <2>2, LogParts DEF TypeOK, CrashRedelivers,
          CancelledNeverSent, CancelledConsistent, NothingEarly, Released,
          MessageRow, DiesInCall, Goto, BusyWorker, IdleWorker, Bump
  <2> QED
    BY <1>22, <2>4, <2>5, <2>6, <2>7, <2>8, <2>9 DEF CrashRedelivers,
          RowsConsistent, SelectionConsistent, Fault
<1>23. ASSUME NEW w \in Workers, NEW delivered \in BOOLEAN,
              TaskLost(w, delivered)
       PROVE  IInv'
  <2>1. worker[w].pc # "idle"
    BY <1>23 DEF TaskLost, DiesInCall
  <2>2. /\ worker[w] \in BusyWorker /\ InFlight(worker[w].log)
        /\ worker[w].log \in Logs /\ worker[w].log[1] \in Messages
    BY <2>1, BusyHoldsTask, BusyInFlight
  <2>3. ASSUME NEW k \in Logs, InFlight(k)'
       PROVE  InFlight(k)
    BY <1>23, <2>3, <2>1, <2>2 DEF InFlight, Works, TypeOK, TaskLost,
          DiesInCall, Goto, BusyWorker, IdleWorker
  <2>4. CallsConsistent'
    BY <1>23, <2>1, <2>2, LogParts DEF TypeOK, TaskLost, CallsConsistent,
          TasksFollowCommit, DiesInCall, Goto, BusyWorker, IdleWorker, Bump
  <2>5. CancelledConsistent'
    BY <1>23, <2>1, <2>2, LogParts DEF TypeOK, TaskLost, CancelledConsistent,
          Deliverable, MessageRow, RowsConsistent, DiesInCall, Goto,
          BusyWorker, IdleWorker, Bump
  <2>6. TasksFollowCommit'
    BY <1>23, <2>1, <2>2, LogParts, <2>3 DEF TypeOK, TaskLost,
          TasksFollowCommit, DiesInCall, Goto, BusyWorker, IdleWorker, Bump
  <2>7. NothingEarly'
    BY <1>23, <2>1, <2>2, LogParts, <2>3 DEF TypeOK, TaskLost, NothingEarly,
          Released, RowsConsistent, CallsConsistent, TasksFollowCommit,
          SelectionConsistent, Bump, MessageRow, NoMessage, DiesInCall, Goto,
          BusyWorker, IdleWorker
  <2>8. SentMeansDelivered'
    BY <1>23, <2>1, <2>2, LogParts DEF TypeOK, TaskLost, SentMeansDelivered,
          CallsConsistent, Written, Bump, DiesInCall, Goto, BusyWorker,
          IdleWorker
  <2>9. CancelledNeverSent'
    BY <1>23, <2>1, <2>2, LogParts DEF TypeOK, TaskLost, CancelledNeverSent,
          CancelledConsistent, NothingEarly, Released, MessageRow, DiesInCall,
          Goto, BusyWorker, IdleWorker, Bump
  <2> QED
    BY <1>23, <2>4, <2>5, <2>6, <2>7, <2>8, <2>9 DEF TaskLost, RowsConsistent,
          SelectionConsistent, Fault
<1>24. ASSUME NEW m \in Messages, ApiCrash(m) PROVE IInv'
  <2>1. ASSUME NEW k \in Logs, InFlight(k)'
       PROVE  InFlight(k)
    BY <1>24, <2>1 DEF InFlight, Works, TypeOK, ApiCrash
  <2>2. TasksFollowCommit'
    BY <1>24, LogParts, <2>1 DEF TypeOK, ApiCrash, TasksFollowCommit
  <2>3. NothingEarly'
    BY <1>24, LogParts, <2>1 DEF TypeOK, ApiCrash, NothingEarly, Released,
          RowsConsistent, CallsConsistent, TasksFollowCommit,
          SelectionConsistent, Bump, MessageRow, NoMessage
  <2> QED
    BY <1>24, <2>2, <2>3 DEF ApiCrash, RowsConsistent, CallsConsistent,
          SelectionConsistent, CancelledConsistent, SentMeansDelivered,
          CancelledNeverSent, Fault
<1>25. ASSUME NEW p \in Dispatchers, DispatcherCrash(p) PROVE IInv'
  <2>1. ASSUME NEW k \in Logs, InFlight(k)'
       PROVE  InFlight(k)
    BY <1>25, <2>1 DEF InFlight, Works, TypeOK, DispatcherCrash,
          DispatcherState, IdleDispatcher, LogsOf
  <2>2. SelectionConsistent'
    BY <1>25, LogParts DEF TypeOK, DispatcherCrash, SelectionConsistent,
          DispatcherState, IdleDispatcher, MessageRow, NoMessage,
          DueForDispatch, RowsConsistent
  <2>3. TasksFollowCommit'
    BY <1>25, LogParts, <2>1 DEF TypeOK, DispatcherCrash, TasksFollowCommit
  <2>4. NothingEarly'
    BY <1>25, LogParts, <2>1 DEF TypeOK, DispatcherCrash, NothingEarly,
          Released, RowsConsistent, CallsConsistent, TasksFollowCommit,
          SelectionConsistent, Bump, MessageRow, NoMessage
  <2> QED
    BY <1>25, <2>2, <2>3, <2>4 DEF DispatcherCrash, RowsConsistent,
          CallsConsistent, CancelledConsistent, SentMeansDelivered,
          CancelledNeverSent, Fault
<1>26. CASE UNCHANGED vars
  BY <1>26 DEF vars, RowsConsistent, CallsConsistent, SelectionConsistent,
        CancelledConsistent, TasksFollowCommit, NothingEarly,
        SentMeansDelivered, CancelledNeverSent, InFlight, Works, Released
<1>27. ASSUME DeleteBot PROVE IInv'
  BY <1>27 DEF DeleteBot, RowsConsistent, CallsConsistent,
        SelectionConsistent, CancelledConsistent, TasksFollowCommit,
        NothingEarly, SentMeansDelivered, CancelledNeverSent, InFlight,
        Works, Released
<1>28. ASSUME SelectPending \/ DeletionDies PROVE IInv'
  BY <1>28 DEF SelectPending, DeletionDies, RowsConsistent, CallsConsistent,
        SelectionConsistent, CancelledConsistent, TasksFollowCommit,
        NothingEarly, SentMeansDelivered, CancelledNeverSent, InFlight,
        Works, Released
<1> QED
  BY <1>1, <1>2, <1>3, <1>4, <1>5, <1>6, <1>7, <1>8, <1>9, <1>10, <1>11,
        <1>12, <1>13, <1>14, <1>15, <1>16, <1>17, <1>18, <1>19, <1>20, <1>21,
        <1>22, <1>23, <1>24, <1>25, <1>26, <1>27, <1>28 DEF Next, ApiNext,
        DispatchNext, WorkerNext, EnvironmentNext

\* The inductive invariant of the pipeline holds in every reachable state.
THEOREM SafetyInvariant == Spec => []IInv
<1>1. Init => IInv
  <2>1. Init => TypeOK
    BY ConstantsAssumption
       DEF Init, TypeOK, MessageRow, NoMessage, DispatcherState, IdleDispatcher,
         CascadeState, NoCascade
  <2>2. Init => RowsConsistent /\ CallsConsistent /\ SelectionConsistent
    BY LogParts DEF Init, RowsConsistent, CallsConsistent, SelectionConsistent,
          NoMessage, IdleDispatcher, IdleWorker
  <2>3. Init => CancelledConsistent /\ SentMeansDelivered /\ CancelledNeverSent
    BY DEF Init, CancelledConsistent, SentMeansDelivered, CancelledNeverSent,
           IdleWorker
  <2>4. Init => \A l \in Logs : ~InFlight(l) /\ ~(tg[l] > 0)
    BY DEF Init, InFlight, Works, IdleWorker, IdleDispatcher
  <2> QED
    BY <2>1, <2>2, <2>3, <2>4 DEF IInv, TasksFollowCommit, NothingEarly
<1>2. IInv /\ [Next]_vars => IInv'
  <2> SUFFICES ASSUME IInv, [Next]_vars PROVE IInv'
    OBVIOUS
  <2>1. TypeOK'
    BY TypeStep DEF IInv
  <2> QED
    BY <2>1, IInvStep
<1> QED
  BY <1>1, <1>2, PTL DEF Spec

\* A log that reads "sent" was delivered, in every state of every behaviour:
\* mark_sent is reached only through an answered Telegram call.
THEOREM SentLogsWereDelivered == Spec => []SentMeansDelivered
BY SafetyInvariant, PTL DEF IInv

\* No task of any kind is ahead of the commit that inserts its row.
THEOREM TasksFollowCommits == Spec => []TasksFollowCommit
BY SafetyInvariant, PTL DEF IInv

\* No scheduled message is worked on or delivered before it is due and
\* dispatched, however dispatchers overlap.
THEOREM ScheduledMessagesWait == Spec => []NothingEarly
BY SafetyInvariant, PTL DEF IInv

\* A cancelled scheduled message never reaches Telegram, even when a
\* dispatcher selected it before the cascade and marks it afterwards.
THEOREM CancelledStaysUnsent == Spec => []CancelledNeverSent
BY SafetyInvariant, PTL DEF IInv
-----------------------------------------------------------------------------
(* No delivery is dropped but by the faults that drop tasks *)

\* Each action preserves HeldInv: an action that takes a task out of one hand
\* settles the log, puts the task into another hand, or is a fault that is
\* recorded in dropped.
LEMMA HeldStep ==
    ASSUME IInv, HeldInv, [Next]_vars
    PROVE  HeldInv'
<1> DEFINE Kept ==
              \A k \in Logs :
                 log[k] = "queued" /\ Released(k[1])
                 => Held(k) \/ k \in dropped
           Seen ==
              \A v \in Workers :
                 worker[v].pc # "idle" /\ worker[v].seen # "queued"
                 => log[worker[v].log] # "queued"
           Empty ==
              \A p \in Dispatchers :
                 disp[p].pc # "enqueueing" => disp[p].todo = {}
<1>0. TypeOK /\ Kept /\ Seen /\ Empty
  BY DEF IInv, HeldInv
<1> USE ConstantsAssumption
<1> HIDE DEF Kept, Seen, Empty
<1>1. ASSUME NEW m \in Messages, NEW D \in SUBSET Destinations, NEW sched \in BOOLEAN,
             CreateMessage(m, D, sched)
      PROVE  HeldInv'
  <2>1. ASSUME NEW k \in Logs, log'[k] = "queued", Released(k[1])'
       PROVE  Held(k)' \/ k \in dropped'
    <3>1. CASE k[1] = m /\ k[2] \in D
      <4>1. ~sched
        BY <1>1, <2>1, <3>1, <1>0 DEF CreateMessage, Released, TypeOK,
              NoMessage
      <4>2. k \in outbox'
        BY <1>1, <3>1, <4>1 DEF CreateMessage, Logs
      <4> QED
        BY <4>2 DEF Held
    <3>2. CASE ~(k[1] = m /\ k[2] \in D)
      <4>1. log[k] = "queued"
        BY <1>1, <2>1, <3>2 DEF CreateMessage
      <4>2. k[1] # m
        BY <1>1, <4>1 DEF IInv, RowsConsistent, CreateMessage
      <4>3. Released(k[1])
        BY <1>1, <2>1, <4>2, <1>0, LogParts
           DEF CreateMessage, Released, TypeOK
      <4>4. Held(k) \/ k \in dropped
        BY <4>1, <4>3, <1>0 DEF Kept
      <4> QED
        BY <1>1, <4>4 DEF CreateMessage, Held, Works
    <3> QED
      BY <3>1, <3>2
  <2>2. Seen'
    <3>1. \A k \in Logs : log[k] # "absent" => log'[k] = log[k]
      BY <1>1 DEF CreateMessage, IInv, RowsConsistent
    <3>2. ASSUME NEW v \in Workers, worker[v].pc # "idle"
         PROVE  log'[worker[v].log] = log[worker[v].log]
      BY <3>1, <3>2, <1>0, BusyHoldsTask, BusyInFlight DEF IInv,
            TasksFollowCommit
    <3> QED
      BY <1>1, <3>2, <1>0 DEF CreateMessage, Seen
  <2>3. Empty'
    BY <1>1, <1>0 DEF Empty, CreateMessage
  <2> QED
    BY <2>1, <2>2, <2>3 DEF Kept, Seen, Empty, HeldInv
<1>2. ASSUME NEW l \in Logs, EnqueueImmediate(l) PROVE HeldInv'
  <2>1. ASSUME NEW k \in Logs, log'[k] = "queued", Released(k[1])'
       PROVE  Held(k)' \/ k \in dropped'
    <3>1. log[k] = "queued" /\ Released(k[1])
      BY <1>2, <2>1 DEF Released, EnqueueImmediate
    <3>2. Held(k) \/ k \in dropped
      BY <3>1, <1>0 DEF Kept
    <3> QED
      BY <1>2, <3>1, <3>2, <1>0 DEF Held, Works, TypeOK, EnqueueImmediate,
            Publish, Retries
  <2>2. Seen'
    BY <1>2, <1>0 DEF Seen, EnqueueImmediate
  <2>3. Empty'
    BY <1>2, <1>0 DEF Empty, EnqueueImmediate
  <2> QED
    BY <2>1, <2>2, <2>3 DEF Kept, Seen, Empty, HeldInv
<1>3. ASSUME NEW d \in Destinations, DeleteDestination(d) PROVE HeldInv'
  <2>1. Kept'
    BY <1>3, <1>0, LogParts DEF Kept, Seen, Held, Works, Released, TypeOK,
          DeleteDestination
  <2>2. Seen'
    BY <1>3, <1>0 DEF Seen, DeleteDestination
  <2>3. Empty'
    BY <1>3, <1>0 DEF Empty, DeleteDestination
  <2> QED
    BY <2>1, <2>2, <2>3 DEF Kept, Seen, Empty, HeldInv
<1>4. ASSUME DeleteOrganization PROVE HeldInv'
  <2>1. ASSUME NEW k \in Logs, log'[k] = "queued", Released(k[1])'
       PROVE  Held(k)' \/ k \in dropped'
    <3>1. log[k] = "queued" /\ Released(k[1])
      BY <1>4, <2>1, <1>0, LogParts DEF Released, TypeOK, DeleteOrganization,
            MessageRow
    <3>2. Held(k) \/ k \in dropped
      BY <3>1, <1>0 DEF Kept
    <3> QED
      BY <1>4, <3>1, <3>2, <1>0 DEF Held, Works, TypeOK, DeleteOrganization,
            MessageRow, NoMessage
  <2>2. Seen'
    BY <1>4, <1>0 DEF Seen, DeleteOrganization
  <2>3. Empty'
    BY <1>4, <1>0 DEF Empty, DeleteOrganization
  <2> QED
    BY <2>1, <2>2, <2>3 DEF Kept, Seen, Empty, HeldInv
<1>5. ASSUME NEW m \in Messages, BecomeDue(m) PROVE HeldInv'
  <2>1. ASSUME NEW k \in Logs, log'[k] = "queued", Released(k[1])'
       PROVE  Held(k)' \/ k \in dropped'
    <3>1. log[k] = "queued" /\ Released(k[1])
      BY <1>5, <2>1, <1>0, LogParts DEF Released, TypeOK, BecomeDue,
            MessageRow
    <3>2. Held(k) \/ k \in dropped
      BY <3>1, <1>0 DEF Kept
    <3> QED
      BY <1>5, <3>1, <3>2, <1>0 DEF Held, Works, TypeOK, BecomeDue,
            MessageRow, NoMessage
  <2>2. Seen'
    BY <1>5, <1>0 DEF Seen, BecomeDue
  <2>3. Empty'
    BY <1>5, <1>0 DEF Empty, BecomeDue
  <2> QED
    BY <2>1, <2>2, <2>3 DEF Kept, Seen, Empty, HeldInv
<1>6. ASSUME NEW p \in Dispatchers, DispatchSelect(p) PROVE HeldInv'
  <2>1. ASSUME NEW k \in Logs, log'[k] = "queued", Released(k[1])'
       PROVE  Held(k)' \/ k \in dropped'
    <3>1. log[k] = "queued" /\ Released(k[1])
      BY <1>6, <2>1 DEF Released, DispatchSelect
    <3>2. Held(k) \/ k \in dropped
      BY <3>1, <1>0 DEF Kept
    <3> QED
      BY <1>6, <3>1, <3>2, <1>0 DEF Held, Works, TypeOK, DispatchSelect,
            Empty, DispatcherState, IdleDispatcher
  <2>2. Seen'
    BY <1>6, <1>0 DEF Seen, DispatchSelect
  <2>3. Empty'
    BY <1>6, <1>0 DEF Empty, TypeOK, DispatchSelect, DispatcherState,
          IdleDispatcher
  <2> QED
    BY <2>1, <2>2, <2>3 DEF Kept, Seen, Empty, HeldInv
<1>7. ASSUME NEW p \in Dispatchers, DispatchCommit(p) PROVE HeldInv'
  <2>1. ASSUME NEW k \in Logs, log'[k] = "queued", Released(k[1])'
       PROVE  Held(k)' \/ k \in dropped'
    <3>1. CASE k[1] \in disp[p].rows
      <4>1. k \in LogsOf(k[1])
        BY <1>7, <2>1 DEF DispatchCommit, LogsOf, Exists, Status
      <4>2. k \in disp'[p].todo
        BY <1>7, <1>0, <3>1, <4>1 DEF DispatchCommit, TypeOK
      <4> QED
        BY <4>2 DEF Held
    <3>2. CASE k[1] \notin disp[p].rows
      <4>1. log[k] = "queued" /\ Released(k[1])
        BY <1>7, <2>1, <3>2, LogParts DEF DispatchCommit, Released
      <4>2. (Held(k) \/ k \in dropped) /\ disp[p].todo = {}
        BY <1>7, <4>1, <1>0 DEF Kept, Empty, DispatchCommit
      <4>3. \A q \in Dispatchers : k \in disp[q].todo => k \in disp'[q].todo
        BY <1>7, <1>0, <4>2 DEF DispatchCommit, TypeOK
      <4> QED
        BY <1>7, <4>2, <4>3 DEF DispatchCommit, Held, Works
    <3> QED
      BY <3>1, <3>2
  <2>2. Seen'
    BY <1>7, <1>0 DEF Seen, DispatchCommit
  <2>3. Empty'
    BY <1>7, <1>0 DEF Empty, TypeOK, DispatchCommit, DispatcherState,
          IdleDispatcher
  <2> QED
    BY <2>1, <2>2, <2>3 DEF Kept, Seen, Empty, HeldInv
<1>8. ASSUME NEW p \in Dispatchers, NEW l \in Logs,
             DispatchEnqueue(p, l)
      PROVE  HeldInv'
  <2>1. ASSUME NEW k \in Logs, log'[k] = "queued", Released(k[1])'
       PROVE  Held(k)' \/ k \in dropped'
    <3>1. log[k] = "queued" /\ Released(k[1])
      BY <1>8, <2>1 DEF DispatchEnqueue, Released
    <3>2. Held(k) \/ k \in dropped
      BY <3>1, <1>0 DEF Kept
    <3>3. 0 \in Retries /\ tasks' = Publish(tasks, l, 0)
      BY <1>8 DEF DispatchEnqueue, Retries
    <3>4. CASE k = l
      BY <3>3, <3>4, <1>0, PublishHolds DEF Held
    <3>5. CASE k # l
      <4>1. \A q \in Dispatchers : k \in disp[q].todo => k \in disp'[q].todo
        BY <1>8, <3>5, <1>0 DEF DispatchEnqueue, TypeOK, DispatcherState
      <4>2. \A r \in Retries : tasks[k][r] > 0 => tasks'[k][r] > 0
        BY <3>3, <1>0, PublishHolds
      <4> QED
        BY <1>8, <3>2, <4>1, <4>2 DEF DispatchEnqueue, Held, Works
    <3> QED
      BY <3>4, <3>5
  <2>2. Seen'
    BY <1>8, <1>0 DEF Seen, DispatchEnqueue
  <2>3. Empty'
    BY <1>8, <1>0 DEF Empty, TypeOK, DispatchEnqueue, DispatcherState,
          IdleDispatcher
  <2> QED
    BY <2>1, <2>2, <2>3 DEF Kept, Seen, Empty, HeldInv
<1>9. ASSUME NEW p \in Dispatchers, DispatchEnd(p) PROVE HeldInv'
  <2>1. ASSUME NEW k \in Logs, log'[k] = "queued", Released(k[1])'
       PROVE  Held(k)' \/ k \in dropped'
    <3>1. log[k] = "queued" /\ Released(k[1])
      BY <1>9, <2>1 DEF Released, DispatchEnd
    <3>2. Held(k) \/ k \in dropped
      BY <3>1, <1>0 DEF Kept
    <3> QED
      BY <1>9, <3>1, <3>2, <1>0 DEF Held, Works, TypeOK, DispatchEnd, Empty,
            DispatcherState, IdleDispatcher
  <2>2. Seen'
    BY <1>9, <1>0 DEF Seen, DispatchEnd
  <2>3. Empty'
    BY <1>9, <1>0 DEF Empty, TypeOK, DispatchEnd, DispatcherState,
          IdleDispatcher
  <2> QED
    BY <2>1, <2>2, <2>3 DEF Kept, Seen, Empty, HeldInv
<1>10. ASSUME NEW w \in Workers, NEW l \in Logs, NEW r \in Retries,
              TakeTask(w, l, r)
       PROVE  HeldInv'
  <2>1. ASSUME NEW k \in Logs, log'[k] = "queued", Released(k[1])'
       PROVE  Held(k)' \/ k \in dropped'
    <3>1. log[k] = "queued" /\ Released(k[1])
      BY <1>10, <2>1 DEF Released, TakeTask
    <3>2. Held(k) \/ k \in dropped
      BY <3>1, <1>0 DEF Kept
    <3> QED
      BY <1>10, <3>1, <3>2, <1>0 DEF Held, Works, TypeOK, TakeTask, Goto,
            BusyWorker, IdleWorker, BusyPCs, Publish, Retries
  <2>2. Seen'
    BY <1>10, <1>0, BusyHoldsTask, BusyInFlight DEF Seen, TypeOK, IInv,
          TasksFollowCommit, TakeTask, Goto, BusyWorker, IdleWorker, BusyPCs,
          Retries
  <2>3. Empty'
    BY <1>10, <1>0 DEF Empty, TakeTask
  <2> QED
    BY <2>1, <2>2, <2>3 DEF Kept, Seen, Empty, HeldInv
<1>11. ASSUME NEW w \in Workers, Undeliverable(w) PROVE HeldInv'
  <2>1. worker[w].pc # "idle"
    BY <1>11 DEF Undeliverable
  <2>2. /\ worker[w] \in BusyWorker /\ worker[w].retries \in Retries
        /\ worker[w].log \in Logs /\ worker[w].log[1] \in Messages
    BY <1>0, <2>1, BusyHoldsTask
  <2>3. Kept'
    BY <1>11, <1>0, <2>1, <2>2, LogParts DEF Kept, Seen, Held, Works,
          Released, TypeOK, Undeliverable, Goto, BusyWorker, IdleWorker,
          BusyPCs, Written, Exists, Status
  <2>4. Seen'
    BY <1>11, <1>0, <2>1, <2>2, BusyHoldsTask, BusyInFlight DEF Seen, TypeOK,
          IInv, TasksFollowCommit, Undeliverable, Goto, BusyWorker,
          IdleWorker, BusyPCs, Written, Exists, Status
  <2>5. Empty'
    BY <1>11, <1>0 DEF Empty, Undeliverable
  <2> QED
    BY <2>3, <2>4, <2>5 DEF Kept, Seen, Empty, HeldInv
<1>12. ASSUME NEW w \in Workers, PassThrottle(w) PROVE HeldInv'
  <2>1. worker[w].pc # "idle"
    BY <1>12 DEF PassThrottle
  <2>2. /\ worker[w] \in BusyWorker /\ worker[w].retries \in Retries
        /\ worker[w].log \in Logs /\ worker[w].log[1] \in Messages
    BY <1>0, <2>1, BusyHoldsTask
  <2>3. Kept'
    BY <1>12, <1>0, <2>1, <2>2, LogParts DEF Kept, Seen, Held, Works,
          Released, TypeOK, PassThrottle, Goto, BusyWorker, IdleWorker,
          BusyPCs
  <2>4. Seen'
    BY <1>12, <1>0, <2>1, <2>2, BusyHoldsTask, BusyInFlight DEF Seen, TypeOK,
          IInv, TasksFollowCommit, PassThrottle, Goto, BusyWorker, IdleWorker,
          BusyPCs
  <2>5. Empty'
    BY <1>12, <1>0 DEF Empty, PassThrottle
  <2> QED
    BY <2>3, <2>4, <2>5 DEF Kept, Seen, Empty, HeldInv
<1>13. ASSUME NEW w \in Workers, Throttled(w) PROVE HeldInv'
  <2>1. worker[w].pc # "idle"
    BY <1>13 DEF Throttled
  <2>2. /\ worker[w] \in BusyWorker /\ worker[w].retries \in Retries
        /\ worker[w].log \in Logs /\ worker[w].log[1] \in Messages
    BY <1>0, <2>1, BusyHoldsTask
  <2>3. ASSUME NEW k \in Logs, log'[k] = "queued", Released(k[1])'
       PROVE  Held(k)' \/ k \in dropped'
    <3>1. log[k] = "queued" /\ Released(k[1])
      BY <1>13, <2>3 DEF Released, Throttled
    <3>2. Held(k) \/ k \in dropped
      BY <3>1, <1>0 DEF Kept
    <3> QED
      BY <1>13, <3>1, <3>2, <1>0, <2>1, <2>2 DEF Held, Works, TypeOK,
            Throttled, Goto, BusyWorker, IdleWorker, BusyPCs, Publish, Retries
  <2>4. Seen'
    BY <1>13, <1>0, <2>1, <2>2, BusyHoldsTask, BusyInFlight DEF Seen, TypeOK,
          IInv, TasksFollowCommit, Throttled, Goto, BusyWorker, IdleWorker,
          BusyPCs, Retries
  <2>5. Empty'
    BY <1>13, <1>0 DEF Empty, Throttled
  <2> QED
    BY <2>3, <2>4, <2>5 DEF Kept, Seen, Empty, HeldInv
<1>14. ASSUME NEW w \in Workers, TelegramAccepts(w) PROVE HeldInv'
  <2>1. worker[w].pc # "idle"
    BY <1>14 DEF TelegramAccepts
  <2>2. /\ worker[w] \in BusyWorker /\ worker[w].retries \in Retries
        /\ worker[w].log \in Logs /\ worker[w].log[1] \in Messages
    BY <1>0, <2>1, BusyHoldsTask
  <2>3. Kept'
    BY <1>14, <1>0, <2>1, <2>2, LogParts DEF Kept, Seen, Held, Works,
          Released, TypeOK, TelegramAccepts, Goto, BusyWorker, IdleWorker,
          BusyPCs
  <2>4. Seen'
    BY <1>14, <1>0, <2>1, <2>2, BusyHoldsTask, BusyInFlight DEF Seen, TypeOK,
          IInv, TasksFollowCommit, TelegramAccepts, Goto, BusyWorker,
          IdleWorker, BusyPCs
  <2>5. Empty'
    BY <1>14, <1>0 DEF Empty, TelegramAccepts
  <2> QED
    BY <2>3, <2>4, <2>5 DEF Kept, Seen, Empty, HeldInv
<1>15. ASSUME NEW w \in Workers, NEW delivered \in BOOLEAN,
              TelegramFails(w, delivered)
       PROVE  HeldInv'
  <2>1. worker[w].pc # "idle"
    BY <1>15 DEF TelegramFails
  <2>2. /\ worker[w] \in BusyWorker /\ worker[w].retries \in Retries
        /\ worker[w].log \in Logs /\ worker[w].log[1] \in Messages
    BY <1>0, <2>1, BusyHoldsTask
  <2>3. ASSUME NEW k \in Logs, log'[k] = "queued", Released(k[1])'
       PROVE  Held(k)' \/ k \in dropped'
    <3>1. PICK pc \in BusyPCs : Goto(w, pc)
      BY <1>15 DEF TelegramFails, BusyPCs
    <3>2. log[k] = "queued" /\ Released(k[1])
      BY <1>15, <2>3 DEF TelegramFails, Released
    <3>3. Held(k) \/ k \in dropped
      BY <3>2, <1>0 DEF Kept
    <3>4. CASE worker[w].retries >= MaxRetries
      <4>1. Goto(w, "rejected") /\ tasks' = tasks
        BY <1>15, <3>4 DEF TelegramFails
      <4>2. \A v \in Workers :
               /\ Works(v, k)' <=> Works(v, k)
               /\ worker'[v].pc \in {worker[v].pc, "rejected"}
        BY <4>1, <2>1, <1>0, GotoWorks DEF BusyPCs
      <4> QED
        BY <1>15, <3>3, <4>1, <4>2 DEF TelegramFails, Held
    <3>5. CASE ~(worker[w].retries >= MaxRetries)
      <4>1. /\ worker[w].retries + 1 \in Retries
            /\ tasks' = Publish(tasks, worker[w].log, worker[w].retries + 1)
        BY <1>15, <3>5, <2>2 DEF TelegramFails, Retries
      <4>2. CASE k = worker[w].log
        BY <4>1, <4>2, <1>0, PublishHolds DEF Held
      <4>3. CASE k # worker[w].log
        <5>1. \A r \in Retries : tasks[k][r] > 0 => tasks'[k][r] > 0
          BY <4>1, <2>2, <1>0, PublishHolds
        <5>2. \A v \in Workers : Works(v, k) => worker'[v] = worker[v]
          BY <3>1, <4>3, <2>1, <1>0, GotoWorks DEF Works
        <5> QED
          BY <1>15, <3>3, <5>1, <5>2 DEF TelegramFails, Held, Works
      <4> QED
        BY <4>2, <4>3
    <3> QED
      BY <3>4, <3>5
  <2>4. Seen'
    <3>1. PICK pc \in BusyPCs : Goto(w, pc)
      BY <1>15 DEF TelegramFails, BusyPCs
    <3>2. ASSUME NEW v \in Workers, worker'[v].pc # "idle"
         PROVE  /\ worker[v].pc # "idle"
                /\ worker'[v].seen = worker[v].seen
                /\ worker'[v].log = worker[v].log
      <4>1. CASE v # w
        BY <3>1, <3>2, <4>1, <2>1, <1>0, GotoWorks
      <4>2. CASE v = w
        BY <3>1, <4>2, <2>1, <2>2, <1>0 DEF Goto, TypeOK, BusyWorker
      <4> QED
        BY <4>1, <4>2
    <3> QED
      BY <1>15, <3>2, <1>0 DEF TelegramFails, Seen
  <2>5. Empty'
    BY <1>15, <1>0 DEF Empty, TelegramFails
  <2> QED
    BY <2>3, <2>4, <2>5 DEF Kept, Seen, Empty, HeldInv
<1>16. ASSUME NEW w \in Workers, CommitSent(w) PROVE HeldInv'
  <2>1. worker[w].pc # "idle"
    BY <1>16 DEF CommitSent
  <2>2. /\ worker[w] \in BusyWorker /\ worker[w].retries \in Retries
        /\ worker[w].log \in Logs /\ worker[w].log[1] \in Messages
    BY <1>0, <2>1, BusyHoldsTask
  <2>3. Kept'
    BY <1>16, <1>0, <2>1, <2>2, LogParts, SMTT(20) DEF Kept, Seen, Held,
          Works, Released, TypeOK, CommitSent, Goto, BusyWorker, IdleWorker,
          BusyPCs, Written, Exists, Status
  <2>4. Seen'
    BY <1>16, <1>0, <2>1, <2>2, BusyHoldsTask, BusyInFlight DEF Seen, TypeOK,
          IInv, TasksFollowCommit, CommitSent, Goto, BusyWorker, IdleWorker,
          BusyPCs, Written, Exists, Status
  <2>5. Empty'
    BY <1>16, <1>0 DEF Empty, CommitSent
  <2> QED
    BY <2>3, <2>4, <2>5 DEF Kept, Seen, Empty, HeldInv
<1>17. ASSUME NEW w \in Workers, MeterEventOut(w) PROVE HeldInv'
  <2>1. worker[w].pc # "idle"
    BY <1>17 DEF MeterEventOut
  <2>2. /\ worker[w] \in BusyWorker /\ worker[w].retries \in Retries
        /\ worker[w].log \in Logs /\ worker[w].log[1] \in Messages
    BY <1>0, <2>1, BusyHoldsTask
  <2>3. Kept'
    BY <1>17, <1>0, <2>1, <2>2, LogParts DEF Kept, Seen, Held, Works,
          Released, TypeOK, MeterEventOut, Goto, BusyWorker, IdleWorker,
          BusyPCs
  <2>4. Seen'
    BY <1>17, <1>0, <2>1, <2>2, BusyHoldsTask, BusyInFlight DEF Seen, TypeOK,
          IInv, TasksFollowCommit, MeterEventOut, Goto, BusyWorker,
          IdleWorker, BusyPCs
  <2>5. Empty'
    BY <1>17, <1>0 DEF Empty, MeterEventOut
  <2> QED
    BY <2>3, <2>4, <2>5 DEF Kept, Seen, Empty, HeldInv
<1>18. ASSUME NEW w \in Workers, GiveUpLoad(w) PROVE HeldInv'
  <2>1. worker[w].pc # "idle"
    BY <1>18 DEF GiveUpLoad
  <2>2. /\ worker[w] \in BusyWorker /\ worker[w].retries \in Retries
        /\ worker[w].log \in Logs /\ worker[w].log[1] \in Messages
    BY <1>0, <2>1, BusyHoldsTask
  <2>3. ASSUME NEW k \in Logs, log'[k] = "queued", Released(k[1])'
       PROVE  Held(k)' \/ k \in dropped'
    <3>1. log[k] = "queued" /\ Released(k[1])
      BY <1>18, <2>3 DEF Released, GiveUpLoad
    <3>2. Held(k) \/ k \in dropped
      BY <3>1, <1>0 DEF Kept
    <3> QED
      BY <1>18, <3>1, <3>2, <1>0, <2>1, <2>2 DEF Held, Works, TypeOK,
            GiveUpLoad, Goto, BusyWorker, IdleWorker, BusyPCs, Written,
            Exists, Status
  <2>4. Seen'
    BY <1>18, <1>0, <2>1, <2>2, BusyHoldsTask, BusyInFlight DEF Seen, TypeOK,
          IInv, TasksFollowCommit, GiveUpLoad, Goto, BusyWorker, IdleWorker,
          BusyPCs, Written, Exists, Status
  <2>5. Empty'
    BY <1>18, <1>0 DEF Empty, GiveUpLoad
  <2> QED
    BY <2>3, <2>4, <2>5 DEF Kept, Seen, Empty, HeldInv
<1>19. ASSUME NEW w \in Workers, GiveUpCommit(w) PROVE HeldInv'
  <2>1. worker[w].pc # "idle"
    BY <1>19 DEF GiveUpCommit
  <2>2. /\ worker[w] \in BusyWorker /\ worker[w].retries \in Retries
        /\ worker[w].log \in Logs /\ worker[w].log[1] \in Messages
    BY <1>0, <2>1, BusyHoldsTask
  <2>3. Kept'
    BY <1>19, <1>0, <2>1, <2>2, LogParts DEF Kept, Seen, Held, Works,
          Released, TypeOK, GiveUpCommit, Goto, BusyWorker, IdleWorker,
          BusyPCs, Written, Exists, Status
  <2>4. Seen'
    BY <1>19, <1>0, <2>1, <2>2, BusyHoldsTask, BusyInFlight DEF Seen, TypeOK,
          IInv, TasksFollowCommit, GiveUpCommit, Goto, BusyWorker, IdleWorker,
          BusyPCs, Written, Exists, Status
  <2>5. Empty'
    BY <1>19, <1>0 DEF Empty, GiveUpCommit
  <2> QED
    BY <2>3, <2>4, <2>5 DEF Kept, Seen, Empty, HeldInv
<1>20. ASSUME NEW w \in Workers, Acknowledge(w) PROVE HeldInv'
  <2>1. worker[w].pc # "idle"
    BY <1>20 DEF Acknowledge
  <2>2. /\ worker[w] \in BusyWorker /\ worker[w].retries \in Retries
        /\ worker[w].log \in Logs /\ worker[w].log[1] \in Messages
    BY <1>0, <2>1, BusyHoldsTask
  <2>3. Kept'
    BY <1>20, <1>0, <2>1, <2>2, LogParts DEF Kept, Seen, Held, Works,
          Released, TypeOK, Acknowledge, Goto, BusyWorker, IdleWorker, BusyPCs
  <2>4. Seen'
    BY <1>20, <1>0, <2>1, <2>2, BusyHoldsTask, BusyInFlight DEF Seen, TypeOK,
          IInv, TasksFollowCommit, Acknowledge, Goto, BusyWorker, IdleWorker,
          BusyPCs
  <2>5. Empty'
    BY <1>20, <1>0 DEF Empty, Acknowledge
  <2> QED
    BY <2>3, <2>4, <2>5 DEF Kept, Seen, Empty, HeldInv
<1>21. ASSUME NEW l \in Logs, PurgeLog(l) PROVE HeldInv'
  <2>1. Kept'
    BY <1>21, <1>0, LogParts DEF Kept, Seen, Held, Works, Released, TypeOK,
          PurgeLog, Written, Exists, Status
  <2>2. Seen'
    BY <1>21, <1>0, BusyHoldsTask, BusyInFlight DEF Seen, TypeOK, IInv,
          TasksFollowCommit, PurgeLog, Written, Exists, Status
  <2>3. Empty'
    BY <1>21, <1>0 DEF Empty, PurgeLog
  <2> QED
    BY <2>1, <2>2, <2>3 DEF Kept, Seen, Empty, HeldInv
<1>22. ASSUME NEW w \in Workers, NEW delivered \in BOOLEAN,
              CrashRedelivers(w, delivered)
       PROVE  HeldInv'
  <2>1. worker[w].pc # "idle"
    BY <1>22 DEF CrashRedelivers, DiesInCall
  <2>2. /\ worker[w] \in BusyWorker /\ worker[w].retries \in Retries
        /\ worker[w].log \in Logs /\ worker[w].log[1] \in Messages
    BY <1>0, <2>1, BusyHoldsTask
  <2>3. ASSUME NEW k \in Logs, log'[k] = "queued", Released(k[1])'
       PROVE  Held(k)' \/ k \in dropped'
    <3>1. log[k] = "queued" /\ Released(k[1])
      BY <1>22, <2>3 DEF Released, CrashRedelivers
    <3>2. Held(k) \/ k \in dropped
      BY <3>1, <1>0 DEF Kept
    <3> QED
      BY <1>22, <3>1, <3>2, <1>0, <2>1, <2>2 DEF Held, Works, TypeOK,
            CrashRedelivers, DiesInCall, Goto, BusyWorker, IdleWorker,
            BusyPCs, Publish, Retries
  <2>4. Seen'
    BY <1>22, <1>0, <2>1, <2>2, BusyHoldsTask, BusyInFlight DEF Seen, TypeOK,
          IInv, TasksFollowCommit, CrashRedelivers, DiesInCall, Goto,
          BusyWorker, IdleWorker, BusyPCs, Retries
  <2>5. Empty'
    BY <1>22, <1>0 DEF Empty, CrashRedelivers
  <2> QED
    BY <2>3, <2>4, <2>5 DEF Kept, Seen, Empty, HeldInv
<1>23. ASSUME NEW w \in Workers, NEW delivered \in BOOLEAN,
              TaskLost(w, delivered)
       PROVE  HeldInv'
  <2>1. worker[w].pc # "idle"
    BY <1>23 DEF TaskLost, DiesInCall
  <2>2. /\ worker[w] \in BusyWorker /\ worker[w].retries \in Retries
        /\ worker[w].log \in Logs /\ worker[w].log[1] \in Messages
    BY <1>0, <2>1, BusyHoldsTask
  <2>3. ASSUME NEW k \in Logs, log'[k] = "queued", Released(k[1])'
       PROVE  Held(k)' \/ k \in dropped'
    <3>1. log[k] = "queued" /\ Released(k[1])
      BY <1>23, <2>3 DEF Released, TaskLost
    <3>2. Held(k) \/ k \in dropped
      BY <3>1, <1>0 DEF Kept
    <3> QED
      BY <1>23, <3>1, <3>2, <1>0, <2>1, <2>2 DEF Held, Works, TypeOK,
            TaskLost, DiesInCall, Goto, BusyWorker, IdleWorker, BusyPCs
  <2>4. Seen'
    BY <1>23, <1>0, <2>1, <2>2, BusyHoldsTask, BusyInFlight DEF Seen, TypeOK,
          IInv, TasksFollowCommit, TaskLost, DiesInCall, Goto, BusyWorker,
          IdleWorker, BusyPCs
  <2>5. Empty'
    BY <1>23, <1>0 DEF Empty, TaskLost
  <2> QED
    BY <2>3, <2>4, <2>5 DEF Kept, Seen, Empty, HeldInv
<1>24. ASSUME NEW m \in Messages, ApiCrash(m) PROVE HeldInv'
  <2>1. ASSUME NEW k \in Logs, log'[k] = "queued", Released(k[1])'
       PROVE  Held(k)' \/ k \in dropped'
    <3>1. log[k] = "queued" /\ Released(k[1])
      BY <1>24, <2>1 DEF Released, ApiCrash
    <3>2. Held(k) \/ k \in dropped
      BY <3>1, <1>0 DEF Kept
    <3> QED
      BY <1>24, <3>1, <3>2, <1>0 DEF Held, Works, TypeOK, ApiCrash
  <2>2. Seen'
    BY <1>24, <1>0 DEF Seen, ApiCrash
  <2>3. Empty'
    BY <1>24, <1>0 DEF Empty, ApiCrash
  <2> QED
    BY <2>1, <2>2, <2>3 DEF Kept, Seen, Empty, HeldInv
<1>25. ASSUME NEW p \in Dispatchers, DispatcherCrash(p) PROVE HeldInv'
  <2>1. ASSUME NEW k \in Logs, log'[k] = "queued", Released(k[1])'
       PROVE  Held(k)' \/ k \in dropped'
    <3>1. log[k] = "queued" /\ Released(k[1])
      BY <1>25, <2>1 DEF Released, DispatcherCrash
    <3>2. Held(k) \/ k \in dropped
      BY <3>1, <1>0 DEF Kept
    <3> QED
      BY <1>25, <3>1, <3>2, <1>0 DEF Held, Works, TypeOK, DispatcherCrash,
            Empty, DispatcherState, IdleDispatcher
  <2>2. Seen'
    BY <1>25, <1>0 DEF Seen, DispatcherCrash
  <2>3. Empty'
    BY <1>25, <1>0 DEF Empty, TypeOK, DispatcherCrash, DispatcherState,
          IdleDispatcher
  <2> QED
    BY <2>1, <2>2, <2>3 DEF Kept, Seen, Empty, HeldInv
<1>26. CASE UNCHANGED vars
  BY <1>26 DEF vars, HeldInv, Held, Works, Released
<1>27. ASSUME DeleteBot PROVE HeldInv'
  <2>1. Kept'
    BY <1>27, <1>0, LogParts DEF Kept, Seen, Held, Works, Released, TypeOK,
          DeleteBot
  <2>2. Seen'
    BY <1>27, <1>0 DEF Seen, DeleteBot
  <2>3. Empty'
    BY <1>27, <1>0 DEF Empty, DeleteBot
  <2> QED
    BY <2>1, <2>2, <2>3 DEF Kept, Seen, Empty, HeldInv
<1>28. ASSUME SelectPending \/ DeletionDies PROVE HeldInv'
  BY <1>28 DEF SelectPending, DeletionDies, HeldInv, Held, Works, Released
<1> QED
  BY <1>1, <1>2, <1>3, <1>4, <1>5, <1>6, <1>7, <1>8, <1>9, <1>10, <1>11,
        <1>12, <1>13, <1>14, <1>15, <1>16, <1>17, <1>18, <1>19, <1>20, <1>21,
        <1>22, <1>23, <1>24, <1>25, <1>26, <1>27, <1>28 DEF Next, ApiNext,
        DispatchNext, WorkerNext, EnvironmentNext

\* Every accepted and released delivery is settled or still in some process's
\* hands, unless a fault that drops tasks hit it: acks_late, retry, throttle,
\* dispatch and purge drop nothing.
THEOREM NothingIsDropped == Spec => []NoLostDelivery
<1>1. Init => HeldInv
  BY DEF Init, HeldInv, IdleWorker, IdleDispatcher
<1>2. IInv /\ HeldInv /\ [Next]_vars => HeldInv'
  BY HeldStep
<1>3. HeldInv => NoLostDelivery
  BY DEF HeldInv, NoLostDelivery, Held, InFlight, Works
<1> QED
  BY <1>1, <1>2, <1>3, SafetyInvariant, PTL DEF Spec

-----------------------------------------------------------------------------
(***************************************************************************)
(* The ledger, with one dispatcher and whatever tasks are lost.  IInv says *)
(* nothing of how many tasks a log has; LedgerInv adds that there is one   *)
(* at most, in one process's hands, and that what the rows, Telegram and   *)
(* the meter show is exactly as far as that process has come.              *)
(***************************************************************************)

\* Nothing repeats a delivery: no task is redelivered, no timeout hides what
\* Telegram accepted, and one run of the dispatcher is at work at a time.
\* Workers, API processes and the dispatcher may die and lose their tasks.
NoRepeats ==
    /\ FaultKinds \cap {"redeliver", "ambiguous"} = {}
    /\ \A p, q \in Dispatchers : p = q

\* A worker that is not done with the log.
Active(w, l) == Works(w, l) /\ worker[w].pc # "acking"

Idling(l) == \A w \in Workers : ~Active(w, l)
NoTask(l) == \A r \in Retries : tasks[l][r] = 0
NoTodo(l) == \A p \in Dispatchers : l \notin disp[p].todo

\* The task of a log is in one place at a time, and there is one of it.
OneHand(l) ==
    /\ l \in outbox => NoTodo(l) /\ NoTask(l) /\ Idling(l)
    /\ ~NoTodo(l) => NoTask(l) /\ Idling(l)
    /\ ~NoTask(l) => Idling(l)
    /\ \A r, q \in Retries : tasks[l][r] > 0 /\ tasks[l][q] > 0 => r = q
    /\ \A r \in Retries : tasks[l][r] <= 1
    /\ \A v, w \in Workers : Active(v, l) /\ Active(w, l) => v = w

\* Nothing has been delivered and no outcome was written.
Fresh(l) == log[l] \in {"queued", "purged"} /\ tg[l] = 0 /\ metered[l] = 0

\* What has been done is as far as the one who has the task.
HandTrue(l) ==
    /\ l \in outbox \/ ~NoTodo(l) \/ ~NoTask(l) => Fresh(l)
    /\ \A w \in Workers : Active(w, l) =>
          /\ worker[w].pc \in {"loaded", "cleared", "rejected", "failing"}
                => Fresh(l)
          /\ worker[w].pc = "answered" =>
                log[l] \in {"queued", "purged"} /\ tg[l] = 1 /\ metered[l] = 0
          /\ worker[w].pc = "committed" =>
                log[l] \in {"sent", "purged"} /\ tg[l] = 1 /\ metered[l] = 0
          /\ worker[w].pc \notin {"committed", "rejected"}
                => worker[w].seen = "queued"

\* An outcome is true, was written for a released message, and is metered unless
\* the task was lost.
OutcomeTrue(l) ==
    /\ metered[l] < 2
    /\ metered[l] > 0 => log[l] \in {"sent", "purged"} /\ tg[l] > 0
    /\ log[l] = "sent" =>
          \/ metered[l] = 1 \/ l \in dropped
          \/ \E w \in Workers : Active(w, l) /\ worker[w].pc = "committed"
    /\ log[l] = "failed" => Released(l[1])

\* What the dispatcher has selected, no other has marked.
Unmarked == \A p \in Dispatchers : \A m \in disp[p].rows : ~msg[m].dispatched

LogInv(l) == OneHand(l) /\ HandTrue(l) /\ OutcomeTrue(l)
LedgerInv == Unmarked /\ \A l \in Logs : LogInv(l)

\* A log's invariant speaks of the log's own rows, tasks and workers.
LEMMA LogFrame ==
    ASSUME NEW k \in Logs, LogInv(k),
           log'[k] = log[k], tg'[k] = tg[k], metered'[k] = metered[k],
           k \in outbox' <=> k \in outbox,
           \A p \in Dispatchers : k \in disp'[p].todo <=> k \in disp[p].todo,
           tasks'[k] = tasks[k],
           \A w \in Workers : /\ Active(w, k)' <=> Active(w, k)
                              /\ Active(w, k) => worker'[w] = worker[w],
           Released(k[1]) => Released(k[1])', k \in dropped => k \in dropped'
    PROVE  LogInv(k)'
<1>1. /\ NoTask(k)' <=> NoTask(k)
      /\ NoTodo(k)' <=> NoTodo(k)
      /\ Idling(k)' <=> Idling(k)
      /\ Fresh(k)' <=> Fresh(k)
  BY DEF NoTask, NoTodo, Idling, Fresh
<1>2. OneHand(k)'
  BY <1>1 DEF LogInv, OneHand
<1>3. HandTrue(k)'
  BY <1>1 DEF LogInv, HandTrue
<1>4. OutcomeTrue(k)'
  BY DEF LogInv, OutcomeTrue
<1> QED
  BY <1>2, <1>3, <1>4 DEF LogInv

\* A worker that has the task is the only one who has.
LEMMA WorkerAlone ==
    ASSUME NEW w \in Workers, NEW l \in Logs, LogInv(l), Active(w, l)
    PROVE  /\ l \notin outbox /\ NoTodo(l) /\ NoTask(l)
           /\ \A v \in Workers : Active(v, l) => v = w
BY DEF LogInv, OneHand, Idling

\* It keeps the task ...
LEMMA WorkerGoesOn ==
    ASSUME NEW w \in Workers, NEW l \in Logs, LogInv(l), Active(w, l),
           \A v \in Workers : v # w => worker'[v] = worker[v],
           worker'[w].log = l, worker'[w].pc \notin {"idle", "acking"},
           outbox' = outbox, disp' = disp, tasks' = tasks
    PROVE  /\ OneHand(l)'
           /\ l \notin outbox' /\ NoTodo(l)' /\ NoTask(l)'
           /\ \A v \in Workers : Active(v, l)' <=> v = w
<1>1. /\ l \notin outbox /\ NoTodo(l) /\ NoTask(l)
      /\ \A v \in Workers : Active(v, l) => v = w
  BY WorkerAlone
<1>2. \A v \in Workers : Active(v, l)' <=> v = w
  BY <1>1 DEF Active, Works
<1>3. l \notin outbox' /\ NoTodo(l)' /\ NoTask(l)'
  BY <1>1 DEF NoTodo, NoTask
<1> QED
  BY <1>2, <1>3 DEF OneHand, NoTask

\* ... or is through with it ...
LEMMA WorkerEnds ==
    ASSUME TypeOK, NEW w \in Workers, NEW l \in Logs, LogInv(l), Active(w, l),
           Goto(w, "acking"), outbox' = outbox, disp' = disp, tasks' = tasks
    PROVE  /\ OneHand(l)' /\ l \notin outbox' /\ NoTodo(l)' /\ NoTask(l)'
           /\ Idling(l)'
<1>1. /\ l \notin outbox /\ NoTodo(l) /\ NoTask(l)
      /\ \A v \in Workers : Active(v, l) => v = w
  BY WorkerAlone
<1>2. worker[w].pc # "idle"
  BY DEF Active, Works
<1>3. worker'[w].pc = "acking" /\ \A v \in Workers : v # w => worker'[v] = worker[v]
  BY <1>2, GotoWorks DEF BusyPCs
<1>4. Idling(l)'
  BY <1>1, <1>3 DEF Idling, Active, Works
<1>5. l \notin outbox' /\ NoTodo(l)' /\ NoTask(l)'
  BY <1>1 DEF NoTodo, NoTask
<1> QED
  BY <1>4, <1>5 DEF OneHand, NoTask, Idling

\* A published task is the only one if there was none.
LEMMA OneTask ==
    ASSUME TypeOK, NEW l \in Logs, NEW r \in Retries, NoTask(l),
           tasks' = Publish(tasks, l, r)
    PROVE  /\ \A q \in Retries : tasks'[l][q] = IF q = r THEN 1 ELSE 0
           /\ \A k \in Logs : k # l => tasks'[k] = tasks[k]
BY DEF TypeOK, Publish, NoTask

\* ... or hands it back to the broker.
LEMMA WorkerPublishes ==
    ASSUME TypeOK, NEW w \in Workers, NEW l \in Logs, LogInv(l), Active(w, l),
           Goto(w, "acking"), outbox' = outbox, disp' = disp,
           NEW r \in Retries, tasks' = Publish(tasks, l, r)
    PROVE  /\ OneHand(l)' /\ l \notin outbox' /\ NoTodo(l)' /\ Idling(l)'
           /\ \A k \in Logs : k # l => tasks'[k] = tasks[k]
<1>1. /\ l \notin outbox /\ NoTodo(l) /\ NoTask(l)
      /\ \A v \in Workers : Active(v, l) => v = w
  BY WorkerAlone
<1>2. worker[w].pc # "idle"
  BY DEF Active, Works
<1>3. worker'[w].pc = "acking" /\ \A v \in Workers : v # w => worker'[v] = worker[v]
  BY <1>2, GotoWorks DEF BusyPCs
<1>4. Idling(l)'
  BY <1>1, <1>3 DEF Idling, Active, Works
<1>5. l \notin outbox' /\ NoTodo(l)'
  BY <1>1 DEF NoTodo
<1>6. /\ \A q \in Retries : tasks'[l][q] = IF q = r THEN 1 ELSE 0
      /\ \A k \in Logs : k # l => tasks'[k] = tasks[k]
  BY <1>1, OneTask
<1>7. \A q, s \in Retries : tasks'[l][q] > 0 /\ tasks'[l][s] > 0 => q = s
  BY <1>6
<1>8. \A q \in Retries : tasks'[l][q] <= 1
  BY <1>6
<1> QED
  BY <1>4, <1>5, <1>6, <1>7, <1>8 DEF OneHand, Idling

\* The first case, for a worker whose program counter alone moves.
LEMMA WorkerMoves ==
    ASSUME TypeOK, NEW w \in Workers, NEW l \in Logs, LogInv(l), Active(w, l),
           NEW pc \in BusyPCs, pc # "acking", Goto(w, pc),
           outbox' = outbox, disp' = disp, tasks' = tasks
    PROVE  /\ worker'[w].pc = pc /\ worker'[w].seen = worker[w].seen
           /\ OneHand(l)' /\ l \notin outbox' /\ NoTodo(l)' /\ NoTask(l)'
           /\ \A v \in Workers : Active(v, l)' <=> v = w
<1>1. worker[w].pc # "idle" /\ worker[w].log = l /\ Works(w, l)
  BY DEF Active, Works
<1>2. /\ \A v \in Workers : v # w => worker'[v] = worker[v]
      /\ worker'[w].pc = pc /\ worker'[w].seen = worker[w].seen
      /\ Works(w, l)'
  BY <1>1, GotoWorks
<1>3. worker'[w].log = l /\ worker'[w].pc \notin {"idle", "acking"}
  BY <1>2 DEF BusyPCs, Works
<1> QED
  BY <1>2, <1>3, WorkerGoesOn

\* A worker's step touches one log: the others keep their invariant.
LEMMA OthersHold ==
    ASSUME LedgerInv, NEW w \in Workers, NEW l \in Logs, LogInv(l)',
           \A v \in Workers : v # w => worker'[v] = worker[v],
           \A k \in Logs : k # l => ~Works(w, k) /\ ~Works(w, k)',
           msg' = msg, outbox' = outbox, disp' = disp, dropped' = dropped,
           \A k \in Logs : k # l => /\ log'[k] = log[k] /\ tg'[k] = tg[k]
                                    /\ metered'[k] = metered[k]
                                    /\ tasks'[k] = tasks[k]
    PROVE  LedgerInv'
<1>1. ASSUME NEW k \in Logs, k # l PROVE LogInv(k)'
  <2>1. LogInv(k)
    BY DEF LedgerInv
  <2>2. \A v \in Workers : /\ Active(v, k)' <=> Active(v, k)
                           /\ Active(v, k) => worker'[v] = worker[v]
    BY <1>1 DEF Active, Works
  <2>3. Released(k[1]) => Released(k[1])'
    BY DEF Released
  <2> QED
    BY <1>1, <2>1, <2>2, <2>3, LogFrame
<1>2. Unmarked'
  BY DEF LedgerInv, Unmarked
<1> QED
  BY <1>1, <1>2 DEF LedgerInv

\* The same for a worker that moves on with its log.
LEMMA GotoOthers ==
    ASSUME TypeOK, LedgerInv, NEW w \in Workers, worker[w].pc # "idle",
           NEW l \in Logs, worker[w].log = l,
           NEW pc \in BusyPCs, Goto(w, pc), LogInv(l)',
           msg' = msg, outbox' = outbox, disp' = disp, dropped' = dropped,
           \A k \in Logs : k # l => /\ log'[k] = log[k] /\ tg'[k] = tg[k]
                                    /\ metered'[k] = metered[k]
                                    /\ tasks'[k] = tasks[k]
    PROVE  LedgerInv'
<1>1. /\ \A v \in Workers : v # w => worker'[v] = worker[v]
      /\ \A v \in Workers, k \in Logs : Works(v, k)' <=> Works(v, k)
  BY GotoWorks
<1>2. \A k \in Logs : k # l => ~Works(w, k) /\ ~Works(w, k)'
  BY <1>1 DEF Works
<1> QED
  BY <1>1, <1>2, OthersHold

\* A step of a worker that is not the acknowledgement keeps the ledger true.
LEMMA WorkerLedger ==
    ASSUME "ambiguous" \notin FaultKinds, IInv, LedgerInv, NEW w \in Workers, NEW l \in Logs,
           worker[w].pc \notin {"idle", "acking"}, worker[w].log = l,
           WorkerNext(w)
    PROVE  LedgerInv'
<1>0. /\ TypeOK /\ l \in Logs /\ l[1] \in Messages
      /\ worker[w].retries \in Retries
      /\ worker[w].pc \in BusyPCs /\ worker[w] \in BusyWorker
      /\ LogInv(l) /\ Active(w, l) /\ Released(l[1])
  <2>1. TypeOK
    BY DEF IInv
  <2>2. l \in Logs /\ l[1] \in Messages /\ worker[w].retries \in Retries
        /\ worker[w].pc \in BusyPCs /\ worker[w] \in BusyWorker
    BY <2>1, BusyHoldsTask
  <2>3. Released(l[1])
    BY <2>2, BusyInFlight DEF IInv, NothingEarly
  <2> QED
    BY <2>1, <2>2, <2>3 DEF LedgerInv, Active, Works
<1>01. worker[w].log = l
  OBVIOUS
<1>02. /\ l \notin outbox /\ NoTodo(l) /\ NoTask(l)
       /\ \A v \in Workers : Active(v, l) => v = w
  BY <1>0, WorkerAlone
<1>03. log[l] \in Status \cup {"absent", "purged"} /\ tg[l] \in 0..2
       /\ metered[l] \in 0..2
  BY <1>0 DEF TypeOK
<1>04. dropped' = dropped
  BY DEF WorkerNext, TakeTask, Undeliverable, PassThrottle, Throttled, TelegramAccepts,
         TelegramFails, CommitSent, MeterEventOut, GiveUpLoad, GiveUpCommit, Acknowledge
<1>1. CASE Undeliverable(w)
  <2>1. /\ Goto(w, "acking") /\ outbox' = outbox /\ disp' = disp
        /\ tasks' = tasks /\ msg' = msg /\ tg' = tg /\ metered' = metered
        /\ worker[w].pc = "loaded"
        /\ log' = Written(l, worker[w].seen, "failed")
    BY <1>1, <1>01 DEF Undeliverable
  <2>2. /\ OneHand(l)' /\ l \notin outbox' /\ NoTodo(l)' /\ NoTask(l)'
        /\ Idling(l)'
    BY <2>1, <1>0, WorkerEnds
  <2>3. Fresh(l) /\ worker[w].seen = "queued"
    BY <2>1, <1>0 DEF LogInv, HandTrue
  <2>4. /\ log'[l] \in {"failed", "purged"}
        /\ \A k \in Logs : k # l => log'[k] = log[k]
    BY <2>1, <2>3, <1>0 DEF Written, Fresh, TypeOK
  <2>5. HandTrue(l)'
    BY <2>2 DEF HandTrue, Idling
  <2>6. OutcomeTrue(l)'
    BY <2>1, <2>3, <2>4, <1>0 DEF OutcomeTrue, Fresh, Released
  <2>7. LogInv(l)'
    BY <2>2, <2>5, <2>6 DEF LogInv
  <2> QED
    BY <2>1, <2>4, <2>7, <1>0, <1>01, <1>04, GotoOthers DEF BusyPCs
<1>2. CASE PassThrottle(w)
  <2>1. /\ Goto(w, "cleared") /\ outbox' = outbox /\ disp' = disp
        /\ tasks' = tasks /\ msg' = msg /\ tg' = tg /\ metered' = metered
        /\ worker[w].pc = "loaded" /\ log' = log
    BY <1>2 DEF PassThrottle
  <2>3. /\ worker'[w].pc = "cleared" /\ worker'[w].seen = worker[w].seen
        /\ OneHand(l)' /\ l \notin outbox' /\ NoTodo(l)' /\ NoTask(l)'
        /\ \A v \in Workers : Active(v, l)' <=> v = w
    BY <2>1, <1>0, WorkerMoves DEF BusyPCs
  <2>4. Fresh(l) /\ worker[w].seen = "queued"
    BY <2>1, <1>0 DEF LogInv, HandTrue
  <2>5. HandTrue(l)'
    BY <2>1, <2>3, <2>4 DEF HandTrue, Fresh
  <2>6. OutcomeTrue(l)'
    BY <2>1, <2>4, <1>0 DEF OutcomeTrue, Fresh, Released
  <2>7. LogInv(l)'
    BY <2>3, <2>5, <2>6 DEF LogInv
  <2> QED
    BY <2>1, <2>7, <1>0, <1>01, <1>04, GotoOthers DEF BusyPCs
<1>3. CASE Throttled(w)
  <2>1. /\ Goto(w, "acking") /\ outbox' = outbox /\ disp' = disp
        /\ tasks' = Publish(tasks, l, 0) /\ msg' = msg /\ tg' = tg
        /\ metered' = metered /\ worker[w].pc = "loaded" /\ log' = log
    BY <1>3, <1>01 DEF Throttled
  <2>2. 0 \in Retries
    BY ConstantsAssumption DEF Retries
  <2>3. /\ OneHand(l)' /\ l \notin outbox' /\ NoTodo(l)' /\ Idling(l)'
        /\ \A k \in Logs : k # l => tasks'[k] = tasks[k]
    BY <2>1, <2>2, <1>0, WorkerPublishes
  <2>4. Fresh(l)'
    BY <2>1, <1>0 DEF LogInv, HandTrue, Fresh
  <2>5. HandTrue(l)'
    BY <2>3, <2>4 DEF HandTrue, Idling
  <2>6. OutcomeTrue(l)'
    BY <2>4 DEF OutcomeTrue, Fresh
  <2>7. LogInv(l)'
    BY <2>3, <2>5, <2>6 DEF LogInv
  <2> QED
    BY <2>1, <2>3, <2>7, <1>0, <1>01, <1>04, GotoOthers DEF BusyPCs
<1>4. CASE TelegramAccepts(w)
  <2>1. /\ Goto(w, "answered") /\ outbox' = outbox /\ disp' = disp
        /\ tasks' = tasks /\ msg' = msg /\ tg' = [tg EXCEPT ![l] = Bump(@)]
        /\ metered' = metered /\ worker[w].pc = "cleared" /\ log' = log
    BY <1>4, <1>01 DEF TelegramAccepts
  <2>3. /\ worker'[w].pc = "answered" /\ worker'[w].seen = worker[w].seen
        /\ OneHand(l)' /\ l \notin outbox' /\ NoTodo(l)' /\ NoTask(l)'
        /\ \A v \in Workers : Active(v, l)' <=> v = w
    BY <2>1, <1>0, WorkerMoves DEF BusyPCs
  <2>4. Fresh(l) /\ worker[w].seen = "queued"
    BY <2>1, <1>0 DEF LogInv, HandTrue
  <2>5. tg'[l] = 1 /\ \A k \in Logs : k # l => tg'[k] = tg[k]
    BY <2>1, <2>4, <1>0 DEF Fresh, Bump, TypeOK
  <2>6. HandTrue(l)'
    BY <2>1, <2>3, <2>4, <2>5 DEF HandTrue, Fresh
  <2>7. OutcomeTrue(l)'
    BY <2>1, <2>4, <1>0 DEF OutcomeTrue, Fresh, Released
  <2>8. LogInv(l)'
    BY <2>3, <2>6, <2>7 DEF LogInv
  <2> QED
    BY <2>1, <2>5, <2>8, <1>0, <1>01, <1>04, GotoOthers DEF BusyPCs
<1>5. ASSUME NEW delivered \in BOOLEAN, TelegramFails(w, delivered)
      PROVE  LedgerInv'
  <2>0. ~delivered
    BY <1>5 DEF TelegramFails
  <2>1. /\ outbox' = outbox /\ disp' = disp /\ msg' = msg /\ tg' = tg
        /\ metered' = metered /\ worker[w].pc = "cleared" /\ log' = log
    BY <1>5, <2>0 DEF TelegramFails
  <2>2. Fresh(l) /\ Fresh(l)'
    BY <2>1, <1>0 DEF LogInv, HandTrue, Fresh
  <2>3. OutcomeTrue(l)'
    BY <2>2 DEF OutcomeTrue, Fresh
  <2>4. CASE worker[w].retries >= MaxRetries
    <3>1. Goto(w, "rejected") /\ tasks' = tasks
      BY <1>5, <2>4 DEF TelegramFails
    <3>3. /\ worker'[w].pc = "rejected" /\ worker'[w].seen = worker[w].seen
          /\ OneHand(l)' /\ l \notin outbox' /\ NoTodo(l)' /\ NoTask(l)'
          /\ \A v \in Workers : Active(v, l)' <=> v = w
      BY <2>1, <3>1, <1>0, WorkerMoves DEF BusyPCs
    <3>4. HandTrue(l)'
      BY <2>2, <3>3 DEF HandTrue
    <3>5. LogInv(l)'
      BY <2>3, <3>3, <3>4 DEF LogInv
    <3> QED
      BY <2>1, <3>1, <3>5, <1>0, <1>01, <1>04, GotoOthers DEF BusyPCs
  <2>5. CASE ~(worker[w].retries >= MaxRetries)
    <3>1. Goto(w, "acking") /\ tasks' = Publish(tasks, l, worker[w].retries + 1)
      BY <1>5, <2>5, <1>01 DEF TelegramFails
    <3>2. worker[w].retries + 1 \in Retries
      BY <2>5, <1>0, ConstantsAssumption DEF Retries
    <3>3. /\ OneHand(l)' /\ l \notin outbox' /\ NoTodo(l)' /\ Idling(l)'
          /\ \A k \in Logs : k # l => tasks'[k] = tasks[k]
      BY <2>1, <3>1, <3>2, <1>0, WorkerPublishes
    <3>4. HandTrue(l)'
      BY <2>2, <3>3 DEF HandTrue, Idling
    <3>5. LogInv(l)'
      BY <2>3, <3>3, <3>4 DEF LogInv
    <3> QED
      BY <2>1, <3>1, <3>3, <3>5, <1>0, <1>01, <1>04, GotoOthers DEF BusyPCs
  <2> QED
    BY <2>4, <2>5
<1>6. CASE CommitSent(w)
  <2>1. /\ outbox' = outbox /\ disp' = disp /\ tasks' = tasks /\ msg' = msg
        /\ tg' = tg /\ metered' = metered /\ worker[w].pc = "answered"
        /\ log' = Written(l, worker[w].seen, "sent")
    BY <1>6, <1>01 DEF CommitSent
  <2>2. /\ log[l] \in {"queued", "purged"} /\ tg[l] = 1 /\ metered[l] = 0
        /\ worker[w].seen = "queued"
    BY <2>1, <1>0 DEF LogInv, HandTrue
  <2>3. /\ log'[l] = IF log[l] = "purged" THEN "purged" ELSE "sent"
        /\ \A k \in Logs : k # l => log'[k] = log[k]
    BY <2>1, <2>2, <1>0 DEF Written, TypeOK
  <2>4. CASE log[l] = "purged"
    <3>1. Goto(w, "acking")
      BY <1>6, <2>4, <1>01 DEF CommitSent
    <3>2. /\ OneHand(l)' /\ l \notin outbox' /\ NoTodo(l)' /\ NoTask(l)'
          /\ Idling(l)'
      BY <2>1, <3>1, <1>0, WorkerEnds
    <3>3. HandTrue(l)'
      BY <3>2 DEF HandTrue, Idling
    <3>4. OutcomeTrue(l)'
      BY <2>1, <2>2, <2>3, <2>4 DEF OutcomeTrue
    <3>5. LogInv(l)'
      BY <3>2, <3>3, <3>4 DEF LogInv
    <3> QED
      BY <2>1, <2>3, <3>1, <3>5, <1>0, <1>01, <1>04, GotoOthers DEF BusyPCs
  <2>5. CASE log[l] # "purged"
    <3>1. Goto(w, "committed")
      BY <1>6, <2>5, <1>01 DEF CommitSent
    <3>3. /\ worker'[w].pc = "committed" /\ worker'[w].seen = worker[w].seen
          /\ OneHand(l)' /\ l \notin outbox' /\ NoTodo(l)' /\ NoTask(l)'
          /\ \A v \in Workers : Active(v, l)' <=> v = w
      BY <2>1, <3>1, <1>0, WorkerMoves DEF BusyPCs
    <3>4. HandTrue(l)'
      BY <2>1, <2>2, <2>3, <2>5, <3>3 DEF HandTrue
    <3>5. OutcomeTrue(l)'
      <4>1. /\ metered'[l] = 0 /\ log'[l] = "sent"
            /\ Active(w, l)' /\ worker'[w].pc = "committed"
        BY <2>1, <2>2, <2>3, <2>5, <3>3
      <4> QED
        BY <4>1 DEF OutcomeTrue
    <3>6. LogInv(l)'
      BY <3>3, <3>4, <3>5 DEF LogInv
    <3> QED
      BY <2>1, <2>3, <3>1, <3>6, <1>0, <1>01, <1>04, GotoOthers DEF BusyPCs
  <2> QED
    BY <2>4, <2>5
<1>7. CASE MeterEventOut(w)
  <2>1. /\ Goto(w, "acking") /\ outbox' = outbox /\ disp' = disp
        /\ tasks' = tasks /\ msg' = msg /\ tg' = tg /\ log' = log
        /\ worker[w].pc = "committed"
        /\ metered' = [metered EXCEPT ![l] = Bump(@)]
    BY <1>7, <1>01 DEF MeterEventOut
  <2>2. /\ OneHand(l)' /\ l \notin outbox' /\ NoTodo(l)' /\ NoTask(l)'
        /\ Idling(l)'
    BY <2>1, <1>0, WorkerEnds
  <2>3. log[l] \in {"sent", "purged"} /\ tg[l] = 1 /\ metered[l] = 0
    BY <2>1, <1>0 DEF LogInv, HandTrue
  <2>4. metered'[l] = 1 /\ \A k \in Logs : k # l => metered'[k] = metered[k]
    BY <2>1, <2>3, <1>0 DEF Bump, TypeOK
  <2>5. HandTrue(l)'
    BY <2>2 DEF HandTrue, Idling
  <2>6. OutcomeTrue(l)'
    BY <2>1, <2>3, <2>4 DEF OutcomeTrue
  <2>7. LogInv(l)'
    BY <2>2, <2>5, <2>6 DEF LogInv
  <2> QED
    BY <2>1, <2>4, <2>7, <1>0, <1>01, <1>04, GotoOthers DEF BusyPCs
<1>8. CASE GiveUpLoad(w)
  <2>1. /\ outbox' = outbox /\ disp' = disp /\ tasks' = tasks /\ msg' = msg
        /\ tg' = tg /\ log' = log /\ metered' = metered
        /\ worker[w].pc = "rejected"
    BY <1>8 DEF GiveUpLoad
  <2>2. Fresh(l) /\ Fresh(l)'
    BY <2>1, <1>0 DEF LogInv, HandTrue, Fresh
  <2>3. OutcomeTrue(l)'
    BY <2>2 DEF OutcomeTrue, Fresh
  <2>4. CASE Exists(l)
    <3> DEFINE x == [worker[w] EXCEPT !.pc = "failing", !.seen = log[l]]
    <3>1. worker' = [worker EXCEPT ![w] = x]
      BY <1>8, <2>4, <1>01 DEF GiveUpLoad
    <3>2. /\ worker'[w].log = l /\ worker'[w].pc = "failing"
          /\ worker'[w].seen = log[l]
      BY <3>1, <1>0, <1>01 DEF BusyWorker, TypeOK
    <3>3. log[l] = "queued"
      BY <2>2, <2>4 DEF Fresh, Exists, Status
    <3>4. \A v \in Workers : v # w => worker'[v] = worker[v]
      BY <3>1, <1>0 DEF TypeOK
    <3>5. /\ OneHand(l)'
          /\ l \notin outbox' /\ NoTodo(l)' /\ NoTask(l)'
          /\ \A v \in Workers : Active(v, l)' <=> v = w
      BY <2>1, <3>2, <3>4, <1>0, WorkerGoesOn
    <3>6. HandTrue(l)'
      BY <2>2, <3>2, <3>3, <3>5 DEF HandTrue
    <3>7. LogInv(l)'
      BY <2>3, <3>5, <3>6 DEF LogInv
    <3>8. \A k \in Logs : k # l => ~Works(w, k) /\ ~Works(w, k)'
      BY <3>2, <1>01 DEF Works
    <3> QED
      BY <2>1, <3>7, <3>4, <3>8, <1>0, <1>04, OthersHold
  <2>5. CASE ~Exists(l)
    <3>1. Goto(w, "acking")
      BY <1>8, <2>5, <1>01 DEF GiveUpLoad, Goto
    <3>2. /\ OneHand(l)' /\ l \notin outbox' /\ NoTodo(l)' /\ NoTask(l)'
          /\ Idling(l)'
      BY <2>1, <3>1, <1>0, WorkerEnds
    <3>3. HandTrue(l)'
      BY <3>2 DEF HandTrue, Idling
    <3>4. LogInv(l)'
      BY <2>3, <3>2, <3>3 DEF LogInv
    <3> QED
      BY <2>1, <3>1, <3>4, <1>0, <1>01, <1>04, GotoOthers DEF BusyPCs
  <2> QED
    BY <2>4, <2>5
<1>9. CASE GiveUpCommit(w)
  <2>1. /\ Goto(w, "acking") /\ outbox' = outbox /\ disp' = disp
        /\ tasks' = tasks /\ msg' = msg /\ tg' = tg /\ metered' = metered
        /\ worker[w].pc = "failing"
        /\ log' = Written(l, worker[w].seen, "failed")
    BY <1>9, <1>01 DEF GiveUpCommit
  <2>2. /\ OneHand(l)' /\ l \notin outbox' /\ NoTodo(l)' /\ NoTask(l)'
        /\ Idling(l)'
    BY <2>1, <1>0, WorkerEnds
  <2>3. Fresh(l) /\ worker[w].seen = "queued"
    BY <2>1, <1>0 DEF LogInv, HandTrue
  <2>4. /\ log'[l] \in {"failed", "purged"}
        /\ \A k \in Logs : k # l => log'[k] = log[k]
    BY <2>1, <2>3, <1>0 DEF Written, Fresh, TypeOK
  <2>5. HandTrue(l)'
    BY <2>2 DEF HandTrue, Idling
  <2>6. OutcomeTrue(l)'
    BY <2>1, <2>3, <2>4, <1>0 DEF OutcomeTrue, Fresh, Released
  <2>7. LogInv(l)'
    BY <2>2, <2>5, <2>6 DEF LogInv
  <2> QED
    BY <2>1, <2>4, <2>7, <1>0, <1>01, <1>04, GotoOthers DEF BusyPCs
<1>10. ASSUME NEW k \in Logs, NEW r \in Retries, TakeTask(w, k, r)
       PROVE  LedgerInv'
  BY <1>10 DEF TakeTask
<1>11. CASE Acknowledge(w)
  BY <1>11 DEF Acknowledge
<1> QED
  BY <1>1, <1>2, <1>3, <1>4, <1>5, <1>6, <1>7, <1>8, <1>9, <1>10, <1>11
     DEF WorkerNext

\* Steps that leave the logs, the tasks and the workers alone.
LEMMA QuietStep ==
    ASSUME LedgerInv, log' = log, tg' = tg, metered' = metered,
           outbox' = outbox, tasks' = tasks, worker' = worker, Unmarked',
           dropped' = dropped,
           \A k \in Logs : \A p \in Dispatchers :
              k \in disp'[p].todo <=> k \in disp[p].todo,
           \A k \in Logs : Released(k[1]) => Released(k[1])'
    PROVE  LedgerInv'
<1>1. ASSUME NEW k \in Logs PROVE LogInv(k)'
  <2>1. LogInv(k)
    BY DEF LedgerInv
  <2>2. \A v \in Workers : /\ Active(v, k)' <=> Active(v, k)
                           /\ Active(v, k) => worker'[v] = worker[v]
    BY DEF Active, Works
  <2> QED
    BY <2>1, <2>2, LogFrame
<1> QED
  BY <1>1 DEF LedgerInv

\* A fault that takes tasks out of the hands of an API process or a dispatcher.
LEMMA TasksGone ==
    ASSUME LedgerInv, log' = log, tg' = tg, metered' = metered, msg' = msg,
           outbox' \subseteq outbox, tasks' = tasks, worker' = worker, Unmarked',
           \A p \in Dispatchers : disp'[p].todo \subseteq disp[p].todo,
           dropped \subseteq dropped'
    PROVE  LedgerInv'
<1> SUFFICES ASSUME NEW k \in Logs PROVE LogInv(k)'
  BY DEF LedgerInv
<1>1. LogInv(k)
  BY DEF LedgerInv
<1>2. \A v \in Workers : Active(v, k)' <=> Active(v, k)
  BY DEF Active, Works
<1>3. /\ NoTask(k)' <=> NoTask(k)
      /\ NoTodo(k) => NoTodo(k)'
      /\ Idling(k)' <=> Idling(k)
      /\ Fresh(k)' <=> Fresh(k)
  BY <1>2 DEF NoTask, NoTodo, Idling, Fresh
<1>4. OneHand(k)'
  BY <1>1, <1>2, <1>3 DEF LogInv, OneHand
<1>5. HandTrue(k)'
  BY <1>1, <1>2, <1>3 DEF LogInv, HandTrue
<1>6. OutcomeTrue(k)'
  BY <1>1, <1>2 DEF LogInv, OutcomeTrue, Released
<1> QED
  BY <1>4, <1>5, <1>6 DEF LogInv

\* A worker that dies takes its task along, and nobody has it any more; it may
\* have been delivered first.
LEMMA LostLedger ==
    ASSUME IInv, LedgerInv, NEW w \in Workers, NEW l \in Logs, worker[w].log = l,
           NEW delivered \in BOOLEAN, TaskLost(w, delivered)
    PROVE  LedgerInv'
<1>1. /\ worker[w].pc # "idle" /\ worker'[w] = IdleWorker
      /\ \A v \in Workers : v # w => worker'[v] = worker[v]
      /\ dropped' = dropped \cup {l}
      /\ UNCHANGED <<msg, log, outbox, disp, tasks, metered>>
      /\ delivered => worker[w].pc = "cleared"
      /\ tg' = IF delivered THEN [tg EXCEPT ![l] = Bump(@)] ELSE tg
  BY DEF TaskLost, DiesInCall, IInv, TypeOK
<1>2. LogInv(l) /\ TypeOK
  BY DEF LedgerInv, IInv
<1>3. ASSUME NEW k \in Logs PROVE \A v \in Workers : v # w => (Active(v, k)' <=> Active(v, k))
  BY <1>1 DEF Active, Works
<1>4. ASSUME NEW k \in Logs PROVE ~Active(w, k)'
  BY <1>1 DEF Active, Works, IdleWorker
<1>5. ASSUME NEW k \in Logs, k # l PROVE LogInv(k)'
  <2>1. tg'[k] = tg[k]
    BY <1>1, <1>2, <1>5 DEF TypeOK
  <2>2. \A v \in Workers : /\ Active(v, k)' <=> Active(v, k)
                           /\ Active(v, k) => worker'[v] = worker[v]
    BY <1>1, <1>3, <1>4, <1>5 DEF Active, Works
  <2>3. LogInv(k)
    BY DEF LedgerInv
  <2> QED
    BY <1>1, <2>1, <2>2, <2>3, LogFrame DEF Released
<1>6. ASSUME Active(w, l) PROVE LogInv(l)'
  <2>1. /\ l \notin outbox' /\ NoTodo(l)' /\ NoTask(l)' /\ Idling(l)'
    BY <1>1, <1>2, <1>3, <1>4, <1>6, WorkerAlone DEF NoTodo, NoTask, Idling
  <2>2. tg'[l] >= tg[l] /\ tg[l] \in Nat /\ tg'[l] \in Nat
    BY <1>1, <1>2 DEF TypeOK, Bump
  <2>3. OneHand(l)'
    BY <2>1 DEF OneHand, Idling, NoTask
  <2>4. HandTrue(l)'
    BY <2>1 DEF HandTrue, Idling
  <2>5. OutcomeTrue(l)'
    BY <1>1, <1>2, <2>2 DEF LogInv, OutcomeTrue, Released
  <2> QED
    BY <2>3, <2>4, <2>5 DEF LogInv
<1>7. ASSUME ~Active(w, l) PROVE LogInv(l)'
  <2>1. worker[w].pc = "acking" /\ tg' = tg
    BY <1>1, <1>7 DEF Active, Works
  <2>2. \A v \in Workers : /\ Active(v, l)' <=> Active(v, l)
                           /\ Active(v, l) => worker'[v] = worker[v]
    BY <1>1, <1>3, <1>4, <1>7
  <2> QED
    BY <1>1, <1>2, <2>1, <2>2, LogFrame DEF Released
<1>8. Unmarked'
  BY <1>1 DEF LedgerInv, Unmarked
<1> QED
  BY <1>5, <1>6, <1>7, <1>8 DEF LedgerInv

\* The strengthening of the ledger's claims is kept by every step.
LEMMA LedgerInvStep ==
    ASSUME NoRepeats, IInv, HeldInv, LedgerInv, [Next]_vars
    PROVE  LedgerInv'
<1>0. /\ TypeOK /\ \A k \in Logs : LogInv(k)
      /\ "redeliver" \notin FaultKinds /\ "ambiguous" \notin FaultKinds
  BY DEF IInv, NoRepeats, LedgerInv
<1>1. ASSUME NEW m \in Messages, NEW D \in SUBSET Destinations,
             NEW sched \in BOOLEAN, CreateMessage(m, D, sched)
      PROVE  LedgerInv'
  <2>1. /\ tg' = tg /\ metered' = metered /\ disp' = disp /\ tasks' = tasks
        /\ worker' = worker /\ dropped' = dropped
        /\ \A n \in Messages : n # m => msg'[n] = msg[n]
        /\ msg'[m].dispatched = FALSE /\ msg'[m].sched = sched
    BY <1>1, <1>0 DEF CreateMessage, TypeOK, NoMessage
  <2>2. ASSUME NEW k \in Logs, k[1] = m, k[2] \in D PROVE LogInv(k)'
    <3>1. log[k] = "absent"
      BY <1>1, <2>2, <1>0 DEF CreateMessage, IInv, RowsConsistent
    <3>2. ~InFlight(k) /\ tg[k] = 0
      BY <3>1, <1>0 DEF IInv, TasksFollowCommit, CallsConsistent, TypeOK
    <3>3. metered[k] = 0
      BY <3>1, <1>0 DEF LogInv, OutcomeTrue, TypeOK
    <3>4. /\ k \notin outbox /\ NoTodo(k) /\ Idling(k)
          /\ \A r \in Retries : ~(tasks[k][r] > 0)
      BY <3>2 DEF InFlight, NoTodo, Idling, Active
    <3>5. NoTask(k)
      BY <3>4, <1>0 DEF NoTask, TypeOK
    <3>6. Fresh(k)' /\ log'[k] = "queued"
      BY <1>1, <2>1, <2>2, <3>2, <3>3 DEF Fresh, CreateMessage
    <3>7. NoTodo(k)' /\ Idling(k)' /\ NoTask(k)'
      BY <2>1, <3>4, <3>5 DEF NoTodo, Idling, NoTask, Active, Works
    <3>8. OneHand(k)'
      BY <3>7 DEF OneHand, Idling, NoTask
    <3>9. HandTrue(k)'
      BY <3>6, <3>7 DEF HandTrue, Idling
    <3>10. OutcomeTrue(k)'
      BY <3>6 DEF OutcomeTrue, Fresh
    <3> QED
      BY <3>8, <3>9, <3>10 DEF LogInv
  <2>3. ASSUME NEW k \in Logs, ~(k[1] = m /\ k[2] \in D) PROVE LogInv(k)'
    <3>1. log'[k] = log[k] /\ (k \in outbox' <=> k \in outbox)
      BY <1>1, <2>3 DEF CreateMessage, Logs
    <3>2. CASE k[1] = m
      <4>1. log[k] = "absent"
        BY <1>1, <3>2, <1>0 DEF CreateMessage, IInv, RowsConsistent
      <4>2. ~InFlight(k)
        BY <4>1, <1>0 DEF IInv, TasksFollowCommit
      <4>3. /\ k \notin outbox /\ NoTodo(k) /\ Idling(k)
            /\ \A r \in Retries : ~(tasks[k][r] > 0)
        BY <4>2 DEF InFlight, NoTodo, Idling, Active
      <4>4. k \notin outbox' /\ NoTodo(k)' /\ Idling(k)' /\ NoTask(k)'
        BY <2>1, <3>1, <4>3, <1>0
           DEF NoTodo, Idling, NoTask, Active, Works, TypeOK
      <4>5. OneHand(k)'
        BY <4>4 DEF OneHand, Idling, NoTask
      <4>6. HandTrue(k)'
        BY <4>4 DEF HandTrue, Idling
      <4>7. OutcomeTrue(k)'
        BY <2>1, <3>1, <4>1, <1>0 DEF LogInv, OutcomeTrue
      <4> QED
        BY <4>5, <4>6, <4>7 DEF LogInv
    <3>3. CASE k[1] # m
      <4>1. Released(k[1]) => Released(k[1])'
        BY <2>1, <3>3, LogParts DEF Released
      <4>2. \A v \in Workers : /\ Active(v, k)' <=> Active(v, k)
                               /\ Active(v, k) => worker'[v] = worker[v]
        BY <2>1 DEF Active, Works
      <4> QED
        BY <2>1, <3>1, <4>1, <4>2, <1>0, LogFrame
    <3> QED
      BY <3>2, <3>3
  <2>4. Unmarked'
    BY <2>1, <1>0 DEF LedgerInv, Unmarked, TypeOK, DispatcherState
  <2> QED
    BY <2>2, <2>3, <2>4 DEF LedgerInv
<1>2. ASSUME NEW l \in Logs, EnqueueImmediate(l) PROVE LedgerInv'
  <2>1. /\ l \in outbox /\ outbox' = outbox \ {l}
        /\ tasks' = Publish(tasks, l, 0) /\ msg' = msg /\ log' = log
        /\ disp' = disp /\ worker' = worker /\ tg' = tg /\ metered' = metered
        /\ dropped' = dropped
    BY <1>2 DEF EnqueueImmediate
  <2>2. NoTodo(l) /\ NoTask(l) /\ Idling(l) /\ Fresh(l)
    BY <2>1, <1>0 DEF LogInv, OneHand, HandTrue
  <2>3. /\ \A q \in Retries : tasks'[l][q] = IF q = 0 THEN 1 ELSE 0
        /\ \A k \in Logs : k # l => tasks'[k] = tasks[k]
    BY <2>1, <2>2, <1>0, OneTask, ConstantsAssumption DEF Retries
  <2>4. l \notin outbox' /\ NoTodo(l)' /\ Idling(l)' /\ Fresh(l)'
    BY <2>1, <2>2 DEF NoTodo, Idling, Active, Works, Fresh
  <2>5. OneHand(l)'
    BY <2>3, <2>4 DEF OneHand, Idling
  <2>6. HandTrue(l)' /\ OutcomeTrue(l)'
    BY <2>4 DEF HandTrue, OutcomeTrue, Idling, Fresh
  <2>7. ASSUME NEW k \in Logs, k # l PROVE LogInv(k)'
    <3>1. \A v \in Workers : /\ Active(v, k)' <=> Active(v, k)
                             /\ Active(v, k) => worker'[v] = worker[v]
      BY <2>1 DEF Active, Works
    <3> QED
      BY <2>1, <2>3, <2>7, <3>1, <1>0, LogFrame DEF Released
  <2>8. Unmarked'
    BY <2>1 DEF LedgerInv, Unmarked
  <2> QED
    BY <2>5, <2>6, <2>7, <2>8 DEF LedgerInv, LogInv
<1>3. ASSUME NEW d \in Destinations, DeleteDestination(d) PROVE LedgerInv'
  BY <1>3, QuietStep DEF DeleteDestination, LedgerInv, Unmarked, Released
<1>4. ASSUME DeleteBot PROVE LedgerInv'
  BY <1>4, QuietStep DEF DeleteBot, LedgerInv, Unmarked, Released
<1>5. ASSUME DeleteOrganization PROVE LedgerInv'
  <2>1. \A m \in Messages : /\ msg'[m].sched = msg[m].sched
                            /\ msg'[m].dispatched = msg[m].dispatched
    BY <1>5, <1>0 DEF DeleteOrganization, TypeOK, MessageRow
  <2>2. Unmarked'
    BY <1>5, <2>1, <1>0
       DEF DeleteOrganization, LedgerInv, Unmarked, TypeOK, DispatcherState
  <2>3. \A k \in Logs : Released(k[1]) => Released(k[1])'
    BY <2>1, LogParts DEF Released
  <2> QED
    BY <1>5, <2>2, <2>3, QuietStep DEF DeleteOrganization
<1>6. ASSUME NEW m \in Messages, BecomeDue(m) PROVE LedgerInv'
  <2>1. \A n \in Messages : /\ msg'[n].sched = msg[n].sched
                            /\ msg'[n].dispatched = msg[n].dispatched
    BY <1>6, <1>0 DEF BecomeDue, TypeOK, MessageRow
  <2>2. Unmarked'
    BY <1>6, <2>1, <1>0
       DEF BecomeDue, LedgerInv, Unmarked, TypeOK, DispatcherState
  <2>3. \A k \in Logs : Released(k[1]) => Released(k[1])'
    BY <2>1, LogParts DEF Released
  <2> QED
    BY <1>6, <2>2, <2>3, QuietStep DEF BecomeDue
<1>7. ASSUME NEW p \in Dispatchers, DispatchSelect(p) PROVE LedgerInv'
  <2>1. /\ disp[p].todo = {} /\ disp'[p].todo = {}
        /\ disp'[p].rows = DueForDispatch
        /\ \A q \in Dispatchers : q # p => disp'[q] = disp[q]
    BY <1>7, <1>0 DEF DispatchSelect, HeldInv, TypeOK
  <2>2. Unmarked'
    BY <1>7, <2>1 DEF DispatchSelect, LedgerInv, Unmarked, DueForDispatch
  <2>3. \A k \in Logs : \A q \in Dispatchers :
           k \in disp'[q].todo <=> k \in disp[q].todo
    BY <2>1
  <2> QED
    BY <1>7, <2>2, <2>3, QuietStep DEF DispatchSelect, Released
<1>8. ASSUME NEW p \in Dispatchers, DispatchCommit(p) PROVE LedgerInv'
  <2>1. /\ disp[p].pc = "selected" /\ disp[p].todo = {}
        /\ disp'[p].todo = UNION {LogsOf(m) : m \in disp[p].rows}
        /\ disp'[p].rows = {} /\ \A q \in Dispatchers : q = p
        /\ disp[p].rows \subseteq Messages
    BY <1>8, <1>0 DEF DispatchCommit, HeldInv, TypeOK, NoRepeats,
       DispatcherState
  <2>2. /\ outbox' = outbox /\ tasks' = tasks /\ log' = log
        /\ worker' = worker /\ tg' = tg /\ metered' = metered /\ dropped' = dropped
    BY <1>8 DEF DispatchCommit
  <2>3. \A m \in Messages : /\ msg'[m].sched = msg[m].sched
                            /\ msg[m].dispatched => msg'[m].dispatched
    BY <1>8, <1>0 DEF DispatchCommit, TypeOK, MessageRow
  <2>4. ASSUME NEW k \in Logs, k \in disp'[p].todo PROVE LogInv(k)'
    <3>1. k[1] \in disp[p].rows /\ Exists(k)
      BY <2>1, <2>4 DEF LogsOf
    <3>2. ~Released(k[1])
      BY <3>1, <2>1
         DEF LedgerInv, Unmarked, IInv, SelectionConsistent, Released
    <3>3. ~InFlight(k) /\ tg[k] = 0
      BY <3>2, <1>0 DEF IInv, NothingEarly, TypeOK
    <3>4. log[k] = "queued" /\ metered[k] = 0
      BY <3>1, <3>2, <3>3, <1>0 DEF LogInv, OutcomeTrue, Exists, Status, IInv,
         SentMeansDelivered, TypeOK
    <3>5. /\ k \notin outbox /\ Idling(k)
          /\ \A r \in Retries : ~(tasks[k][r] > 0)
      BY <3>3 DEF InFlight, Idling, Active
    <3>6. k \notin outbox' /\ NoTask(k)' /\ Idling(k)' /\ Fresh(k)'
      BY <2>2, <3>3, <3>4, <3>5, <1>0
         DEF NoTask, Idling, Active, Works, Fresh, TypeOK
    <3>7. OneHand(k)'
      BY <3>6 DEF OneHand, Idling, NoTask
    <3>8. HandTrue(k)'
      BY <3>6 DEF HandTrue, Idling
    <3>9. OutcomeTrue(k)'
      BY <2>2, <3>4 DEF OutcomeTrue
    <3> QED
      BY <3>7, <3>8, <3>9 DEF LogInv
  <2>5. ASSUME NEW k \in Logs, k \notin disp'[p].todo PROVE LogInv(k)'
    <3>1. \A q \in Dispatchers : k \in disp'[q].todo <=> k \in disp[q].todo
      BY <2>1, <2>5
    <3>2. Released(k[1]) => Released(k[1])'
      BY <2>3, LogParts DEF Released
    <3>3. \A v \in Workers : /\ Active(v, k)' <=> Active(v, k)
                             /\ Active(v, k) => worker'[v] = worker[v]
      BY <2>2 DEF Active, Works
    <3> QED
      BY <2>2, <3>1, <3>2, <3>3, <1>0, LogFrame
  <2>6. Unmarked'
    BY <2>1 DEF Unmarked
  <2> QED
    BY <2>4, <2>5, <2>6 DEF LedgerInv
<1>9. ASSUME NEW p \in Dispatchers, NEW l \in Logs, DispatchEnqueue(p, l)
      PROVE  LedgerInv'
  <2>1. /\ l \in disp[p].todo /\ disp'[p].todo = disp[p].todo \ {l}
        /\ disp'[p].rows = disp[p].rows /\ \A q \in Dispatchers : q = p
        /\ tasks' = Publish(tasks, l, 0) /\ msg' = msg /\ log' = log
        /\ outbox' = outbox /\ worker' = worker /\ tg' = tg
        /\ metered' = metered /\ dropped' = dropped
    BY <1>9, <1>0 DEF DispatchEnqueue, TypeOK, DispatcherState, NoRepeats
  <2>2. l \notin outbox /\ NoTask(l) /\ Idling(l) /\ Fresh(l)
    BY <2>1, <1>0 DEF LogInv, OneHand, HandTrue, NoTodo
  <2>3. /\ \A q \in Retries : tasks'[l][q] = IF q = 0 THEN 1 ELSE 0
        /\ \A k \in Logs : k # l => tasks'[k] = tasks[k]
    BY <2>1, <2>2, <1>0, OneTask, ConstantsAssumption DEF Retries
  <2>4. l \notin outbox' /\ NoTodo(l)' /\ Idling(l)' /\ Fresh(l)'
    BY <2>1, <2>2 DEF NoTodo, Idling, Active, Works, Fresh
  <2>5. OneHand(l)'
    BY <2>3, <2>4 DEF OneHand, Idling
  <2>6. HandTrue(l)' /\ OutcomeTrue(l)'
    BY <2>4 DEF HandTrue, OutcomeTrue, Idling, Fresh
  <2>7. ASSUME NEW k \in Logs, k # l PROVE LogInv(k)'
    <3>1. \A v \in Workers : /\ Active(v, k)' <=> Active(v, k)
                             /\ Active(v, k) => worker'[v] = worker[v]
      BY <2>1 DEF Active, Works
    <3>2. \A q \in Dispatchers : k \in disp'[q].todo <=> k \in disp[q].todo
      BY <2>1, <2>7
    <3> QED
      BY <2>1, <2>3, <2>7, <3>1, <3>2, <1>0, LogFrame DEF Released
  <2>8. Unmarked'
    BY <2>1 DEF LedgerInv, Unmarked
  <2> QED
    BY <2>5, <2>6, <2>7, <2>8 DEF LedgerInv, LogInv
<1>10. ASSUME NEW p \in Dispatchers, DispatchEnd(p) PROVE LedgerInv'
  <2>1. /\ disp[p].todo = {} /\ disp'[p].todo = {} /\ disp'[p].rows = {}
        /\ \A q \in Dispatchers : q # p => disp'[q] = disp[q]
    BY <1>10, <1>0 DEF DispatchEnd, TypeOK, IdleDispatcher
  <2>2. Unmarked'
    BY <1>10, <2>1 DEF DispatchEnd, LedgerInv, Unmarked
  <2>3. \A k \in Logs : \A q \in Dispatchers :
           k \in disp'[q].todo <=> k \in disp[q].todo
    BY <2>1
  <2> QED
    BY <1>10, <2>2, <2>3, QuietStep DEF DispatchEnd, Released
<1>11. ASSUME NEW w \in Workers, NEW l \in Logs, NEW r \in Retries,
              TakeTask(w, l, r)
       PROVE  LedgerInv'
  <2>1. /\ tasks[l][r] > 0 /\ tasks' = [tasks EXCEPT ![l][r] = @ - 1]
        /\ msg' = msg /\ log' = log /\ outbox' = outbox /\ disp' = disp
        /\ tg' = tg /\ metered' = metered /\ worker[w].pc = "idle"
        /\ dropped' = dropped
    BY <1>11 DEF TakeTask
  <2>2. /\ Fresh(l) /\ Idling(l) /\ l \notin outbox /\ NoTodo(l)
        /\ tasks[l][r] = 1 /\ \A q \in Retries : q # r => tasks[l][q] = 0
    BY <2>1, <1>0 DEF LogInv, OneHand, HandTrue, NoTask, TypeOK
  <2>3. NoTask(l)' /\ \A k \in Logs : k # l => tasks'[k] = tasks[k]
    BY <2>1, <2>2, <1>0 DEF NoTask, TypeOK
  <2>4. Fresh(l)' /\ l \notin outbox' /\ NoTodo(l)'
    BY <2>1, <2>2 DEF Fresh, NoTodo
  <2>5. OutcomeTrue(l)'
    BY <2>4 DEF OutcomeTrue, Fresh
  <2>6. /\ \A v \in Workers : v # w => worker'[v] = worker[v]
        /\ worker'[w].pc \in {"idle", "loaded"}
        /\ worker'[w].pc = "loaded" => /\ worker'[w].log = l
                                       /\ worker'[w].seen = log[l]
                                       /\ log[l] \in {"queued", "failed"}
    BY <1>11, <1>0 DEF TakeTask, TypeOK
  <2>7. worker'[w].pc = "loaded" => worker'[w].seen = "queued"
    BY <2>2, <2>6 DEF Fresh
  <2>8. \A v \in Workers : Active(v, l)' => v = w /\ worker'[w].pc = "loaded"
    BY <2>2, <2>6 DEF Idling, Active, Works
  <2>9. OneHand(l)'
    BY <2>3, <2>4, <2>8 DEF OneHand, NoTask
  <2>10. HandTrue(l)'
    BY <2>3, <2>4, <2>7, <2>8 DEF HandTrue
  <2>11. \A k \in Logs : k # l => ~Works(w, k) /\ ~Works(w, k)'
    BY <2>1, <2>6 DEF Works
  <2>12. LogInv(l)'
    BY <2>5, <2>9, <2>10 DEF LogInv
  <2> QED
    BY <2>1, <2>3, <2>6, <2>11, <2>12, OthersHold
<1>12. ASSUME NEW w \in Workers, Acknowledge(w) PROVE LedgerInv'
  <2>1. /\ worker[w].pc = "acking" /\ worker'[w] = IdleWorker
        /\ \A v \in Workers : v # w => worker'[v] = worker[v]
        /\ msg' = msg /\ log' = log /\ outbox' = outbox /\ disp' = disp
        /\ tasks' = tasks /\ tg' = tg /\ metered' = metered /\ dropped' = dropped
    BY <1>12, <1>0 DEF Acknowledge, TypeOK
  <2>2. ASSUME NEW k \in Logs PROVE LogInv(k)'
    <3>1. \A v \in Workers : /\ Active(v, k)' <=> Active(v, k)
                             /\ Active(v, k) => worker'[v] = worker[v]
      BY <2>1 DEF Active, Works, IdleWorker
    <3> QED
      BY <2>1, <3>1, <1>0, LogFrame DEF Released
  <2>3. Unmarked'
    BY <2>1 DEF LedgerInv, Unmarked
  <2> QED
    BY <2>2, <2>3 DEF LedgerInv
<1>13. ASSUME NEW w \in Workers, WorkerNext(w),
              worker[w].pc \notin {"idle", "acking"}
       PROVE  LedgerInv'
  <2>1. worker[w].log \in Logs
    BY <1>13, <1>0, BusyHoldsTask
  <2> QED
    BY <1>13, <2>1, <1>0, WorkerLedger
<1>14. ASSUME NEW w \in Workers, WorkerNext(w),
              worker[w].pc \in {"idle", "acking"}
       PROVE  LedgerInv'
  <2>1. \/ \E l \in Logs, r \in Retries : TakeTask(w, l, r)
        \/ Acknowledge(w)
    BY <1>14 DEF WorkerNext, Undeliverable, PassThrottle, Throttled,
       TelegramAccepts, TelegramFails, CommitSent, MeterEventOut, GiveUpLoad,
       GiveUpCommit
  <2> QED
    BY <2>1, <1>11, <1>12
<1>15. ASSUME NEW l \in Logs, PurgeLog(l) PROVE LedgerInv'
  <2>1. /\ log'[l] = "purged" /\ \A k \in Logs : k # l => log'[k] = log[k]
        /\ msg' = msg /\ outbox' = outbox /\ disp' = disp /\ tasks' = tasks
        /\ worker' = worker /\ tg' = tg /\ metered' = metered /\ dropped' = dropped
    BY <1>15, <1>0 DEF PurgeLog, TypeOK
  <2>2. \A k \in Logs, v \in Workers :
           /\ Active(v, k)' <=> Active(v, k)
           /\ Active(v, k) => worker'[v] = worker[v]
    BY <2>1 DEF Active, Works
  <2>3. \A k \in Logs : k # l => LogInv(k)'
    BY <2>1, <2>2, <1>0, LogFrame DEF Released
  <2>4. /\ NoTask(l)' <=> NoTask(l)
        /\ NoTodo(l)' <=> NoTodo(l)
        /\ Idling(l)' <=> Idling(l)
        /\ Fresh(l) => Fresh(l)'
    BY <2>1, <2>2 DEF NoTask, NoTodo, Idling, Fresh
  <2>5. OneHand(l)'
    BY <2>1, <2>2, <2>4, <1>0 DEF LogInv, OneHand
  <2>6. HandTrue(l)'
    BY <2>1, <2>2, <2>4, <1>0 DEF LogInv, HandTrue
  <2>7. OutcomeTrue(l)'
    BY <2>1, <1>0 DEF LogInv, OutcomeTrue
  <2>8. Unmarked'
    BY <2>1 DEF LedgerInv, Unmarked
  <2> QED
    BY <2>3, <2>5, <2>6, <2>7, <2>8 DEF LedgerInv, LogInv
<1>16. CASE UNCHANGED vars
  BY <1>16, QuietStep DEF vars, LedgerInv, Unmarked, Released
<1>17. ASSUME NEW w \in Workers, NEW delivered \in BOOLEAN, TaskLost(w, delivered)
       PROVE  LedgerInv'
  <2>1. worker[w].log \in Logs
    BY <1>17, <1>0, BusyHoldsTask DEF TaskLost, DiesInCall
  <2> QED
    BY <1>17, <2>1, LostLedger
<1>18. ASSUME NEW m \in Messages, ApiCrash(m) PROVE LedgerInv'
  <2>1. /\ outbox' \subseteq outbox /\ dropped \subseteq dropped'
        /\ UNCHANGED <<msg, log, disp, tasks, worker, tg, metered>>
    BY <1>18 DEF ApiCrash
  <2> QED
    BY <2>1, TasksGone DEF LedgerInv, Unmarked
<1>19. ASSUME NEW p \in Dispatchers, DispatcherCrash(p) PROVE LedgerInv'
  <2>1. /\ dropped \subseteq dropped'
        /\ UNCHANGED <<msg, log, outbox, tasks, worker, tg, metered>>
        /\ disp'[p].rows = {} /\ disp'[p].todo = {}
        /\ \A q \in Dispatchers : q # p => disp'[q] = disp[q]
    BY <1>19, <1>0 DEF DispatcherCrash, TypeOK, IdleDispatcher
  <2>2. Unmarked'
    BY <2>1 DEF LedgerInv, Unmarked
  <2>3. \A q \in Dispatchers : disp'[q].todo \subseteq disp[q].todo
    BY <2>1
  <2> QED
    BY <2>1, <2>2, <2>3, TasksGone
<1>20. ASSUME NEW w \in Workers, NEW delivered \in BOOLEAN
       PROVE  ~CrashRedelivers(w, delivered)
  BY <1>0 DEF CrashRedelivers, Fault
<1>21. ASSUME SelectPending \/ DeletionDies PROVE LedgerInv'
  BY <1>21, QuietStep DEF SelectPending, DeletionDies, LedgerInv, Unmarked, Released
<1> QED
  BY <1>1, <1>2, <1>3, <1>4, <1>5, <1>6, <1>7, <1>8, <1>9, <1>10, <1>13,
     <1>14, <1>15, <1>16, <1>17, <1>18, <1>19, <1>20, <1>21
     DEF Next, ApiNext, DispatchNext, EnvironmentNext

\* Every step of the pipeline is a step of the ledger, or none.
LEMMA LedgerMap ==
    ASSUME NoRepeats, IInv, LedgerInv, [Next]_vars
    PROVE  [Ledger!Next]_<<log, tg>>
<1>0. /\ TypeOK /\ \A k \in Logs : LogInv(k)
      /\ "redeliver" \notin FaultKinds /\ "ambiguous" \notin FaultKinds
  BY DEF IInv, NoRepeats, LedgerInv
<1>1. ASSUME NEW m \in Messages, NEW D \in SUBSET Destinations,
             NEW sched \in BOOLEAN, CreateMessage(m, D, sched)
      PROVE  Ledger!Next
  <2> DEFINE S == {l \in Logs : l[1] = m /\ l[2] \in D}
  <2>1. PICK d \in D : TRUE
    BY <1>1 DEF CreateMessage
  <2>2. <<m, d>> \in S
    BY <2>1 DEF Logs
  <2>3. \A l \in S : log[l] = "absent"
    BY <1>1, <1>0 DEF CreateMessage, IInv, RowsConsistent
  <2>4. /\ log' = [l \in Logs |-> IF l \in S THEN "queued" ELSE log[l]]
        /\ tg' = tg
    BY <1>1 DEF CreateMessage
  <2>5. Ledger!Accept(S)
    BY <2>2, <2>3, <2>4 DEF Ledger!Accept
  <2>6. S \in SUBSET Logs
    OBVIOUS
  <2> QED
    BY <2>5, <2>6 DEF Ledger!Next
<1>2. ASSUME NEW w \in Workers, NEW l \in Logs, worker[w].log = l,
             worker[w].pc \notin {"idle", "acking"}, WorkerNext(w)
      PROVE  [Ledger!Next]_<<log, tg>>
  <2>1. HandTrue(l) /\ Active(w, l)
    BY <1>2, <1>0 DEF LogInv, Active, Works
  <2>2. ASSUME Fresh(l), worker[w].seen = "queued", tg' = tg,
               log' = Written(l, "queued", "failed")
        PROVE  [Ledger!Next]_<<log, tg>>
    <3>1. CASE log[l] = "purged"
      BY <2>2, <3>1 DEF Written
    <3>2. CASE log[l] = "queued"
      <4>1. Ledger!Settle(l)
        BY <2>2, <3>2 DEF Ledger!Settle, Written, Fresh
      <4> QED
        BY <4>1 DEF Ledger!Next
    <3> QED
      BY <2>2, <3>1, <3>2 DEF Fresh
  <2>3. CASE Undeliverable(w)
    BY <1>2, <2>1, <2>2, <2>3 DEF Undeliverable, HandTrue
  <2>4. CASE GiveUpCommit(w)
    BY <1>2, <2>1, <2>2, <2>4 DEF GiveUpCommit, HandTrue
  <2>5. CASE TelegramAccepts(w)
    <3>1. log[l] \in {"queued", "purged"} /\ tg[l] = 0
      BY <2>1, <2>5 DEF TelegramAccepts, HandTrue, Fresh
    <3>2. tg' = [tg EXCEPT ![l] = 1] /\ log' = log
      BY <1>2, <2>5, <3>1, <1>0 DEF TelegramAccepts, Bump, TypeOK
    <3>3. Ledger!Deliver(l)
      BY <3>1, <3>2 DEF Ledger!Deliver
    <3> QED
      BY <3>3 DEF Ledger!Next
  <2>6. CASE CommitSent(w)
    <3>1. /\ log[l] \in {"queued", "purged"} /\ tg[l] = 1
          /\ worker[w].seen = "queued"
      BY <2>1, <2>6 DEF CommitSent, HandTrue
    <3>2. log' = Written(l, "queued", "sent") /\ tg' = tg
      BY <1>2, <2>6, <3>1 DEF CommitSent
    <3>3. CASE log[l] = "purged"
      BY <3>2, <3>3 DEF Written
    <3>4. CASE log[l] = "queued"
      <4>1. Ledger!Settle(l)
        BY <3>1, <3>2, <3>4 DEF Ledger!Settle, Written
      <4> QED
        BY <4>1 DEF Ledger!Next
    <3> QED
      BY <3>1, <3>3, <3>4
  <2>7. ASSUME NEW delivered \in BOOLEAN, TelegramFails(w, delivered)
        PROVE  UNCHANGED <<log, tg>>
    BY <2>7, <1>0 DEF TelegramFails
  <2> QED
    BY <1>2, <2>3, <2>4, <2>5, <2>6, <2>7
       DEF WorkerNext, TakeTask, PassThrottle, Throttled, MeterEventOut,
           GiveUpLoad, Acknowledge
<1>3. ASSUME NEW w \in Workers, WorkerNext(w),
             worker[w].pc \notin {"idle", "acking"}
      PROVE  [Ledger!Next]_<<log, tg>>
  BY <1>2, <1>3, <1>0, BusyHoldsTask
<1>4. ASSUME NEW w \in Workers, WorkerNext(w),
             worker[w].pc \in {"idle", "acking"}
      PROVE  UNCHANGED <<log, tg>>
  BY <1>4 DEF WorkerNext, TakeTask, Undeliverable, PassThrottle, Throttled,
     TelegramAccepts, TelegramFails, CommitSent, MeterEventOut, GiveUpLoad,
     GiveUpCommit, Acknowledge
<1>5. ASSUME NEW l \in Logs, PurgeLog(l) PROVE Ledger!Next
  <2>1. Ledger!Purge(l)
    BY <1>5 DEF PurgeLog, Ledger!Purge, Exists, Status
  <2> QED
    BY <2>1 DEF Ledger!Next
<1>6. ASSUME ApiNext, ~\E m \in Messages, D \in SUBSET Destinations,
                          sched \in BOOLEAN : CreateMessage(m, D, sched)
      PROVE  UNCHANGED <<log, tg>>
  BY <1>6 DEF ApiNext, EnqueueImmediate, DeleteDestination, DeleteBot,
     SelectPending, DeleteOrganization, DeletionDies
<1>7. ASSUME DispatchNext PROVE UNCHANGED <<log, tg>>
  BY <1>7 DEF DispatchNext, BecomeDue, DispatchSelect, DispatchCommit,
     DispatchEnqueue, DispatchEnd
<1>8. CASE UNCHANGED vars
  BY <1>8 DEF vars
<1>9. ASSUME NEW w \in Workers, NEW delivered \in BOOLEAN, TaskLost(w, delivered)
      PROVE  [Ledger!Next]_<<log, tg>>
  <2>1. PICK l \in Logs : l = worker[w].log
    BY <1>9, <1>0, BusyHoldsTask DEF TaskLost, DiesInCall
  <2>2. log' = log
    BY <1>9 DEF TaskLost
  <2>3. CASE delivered
    <3>1. worker[w].pc = "cleared" /\ tg' = [tg EXCEPT ![l] = Bump(@)]
      BY <1>9, <2>1, <2>3 DEF TaskLost, DiesInCall
    <3>2. Fresh(l)
      BY <1>0, <2>1, <3>1 DEF LogInv, HandTrue, Active, Works
    <3>3. tg' = [tg EXCEPT ![l] = 1]
      BY <3>1, <3>2, <1>0 DEF Fresh, Bump, TypeOK
    <3>4. Ledger!Deliver(l)
      BY <2>2, <3>2, <3>3 DEF Fresh, Ledger!Deliver
    <3> QED
      BY <3>4 DEF Ledger!Next
  <2>4. CASE ~delivered
    BY <1>9, <2>2, <2>4 DEF TaskLost, DiesInCall
  <2> QED
    BY <2>3, <2>4
<1>10. ASSUME EnvironmentNext, ~\E l \in Logs : PurgeLog(l),
              ~\E w \in Workers, delivered \in BOOLEAN : TaskLost(w, delivered)
       PROVE  UNCHANGED <<log, tg>>
  BY <1>0, <1>10 DEF EnvironmentNext, CrashRedelivers, ApiCrash, DispatcherCrash, Fault
<1> QED
  BY <1>1, <1>3, <1>4, <1>5, <1>6, <1>7, <1>8, <1>9, <1>10 DEF Next

\* The invariant the refinement rests on.
THEOREM LedgerInvariant ==
    ASSUME NoRepeats PROVE Spec => [](IInv /\ HeldInv /\ LedgerInv)
<1>1. Init => HeldInv
  BY DEF Init, HeldInv, IdleWorker, IdleDispatcher
<1>2. Init => LedgerInv
  <2> SUFFICES ASSUME Init PROVE LedgerInv
    OBVIOUS
  <2>1. ASSUME NEW l \in Logs PROVE LogInv(l)
    <3>1. l \notin outbox /\ NoTodo(l) /\ NoTask(l) /\ Idling(l)
      BY DEF Init, NoTodo, NoTask, Idling, Active, Works, IdleWorker,
         IdleDispatcher
    <3>2. OneHand(l)
      BY <3>1 DEF OneHand, NoTask, Idling
    <3>3. HandTrue(l)
      BY <3>1 DEF HandTrue, Idling
    <3>4. OutcomeTrue(l)
      BY DEF Init, OutcomeTrue
    <3> QED
      BY <3>2, <3>3, <3>4 DEF LogInv
  <2>2. Unmarked
    BY DEF Init, Unmarked, IdleDispatcher
  <2> QED
    BY <2>1, <2>2 DEF LedgerInv
<1>3. IInv /\ HeldInv /\ [Next]_vars => HeldInv'
  BY HeldStep
<1>4. IInv /\ HeldInv /\ LedgerInv /\ [Next]_vars => LedgerInv'
  BY LedgerInvStep
<1> QED
  BY <1>1, <1>2, <1>3, <1>4, SafetyInvariant, PTL DEF Spec

\* Unless a task is redelivered, a timeout hides a delivery or two dispatchers
\* overlap, and whatever else dies or is purged, the pipeline implements the
\* ledger, for any number of workers, messages and retries: every delivery
\* reaches Telegram at most once and its outcome is written once and true.
THEOREM PipelineKeepsLedger ==
    ASSUME NoRepeats PROVE Spec => LedgerSpec
<1>1. Init => Ledger!Init
  BY DEF Init, Ledger!Init
<1>2. IInv /\ LedgerInv /\ [Next]_vars => [Ledger!Next]_<<log, tg>>
  BY LedgerMap
<1> QED
  BY <1>1, <1>2, LedgerInvariant, PTL DEF Spec, LedgerSpec, Ledger!Spec

\* In the same circumstances the usage meter counts each sent delivery once, or
\* not at all if its task was lost, and nothing else.
THEOREM MeterIsTheLedger ==
    ASSUME NoRepeats PROVE Spec => []MeterMatchesLedger
<1>1. LedgerInv /\ IInv => MeterMatchesLedger
  <2> SUFFICES ASSUME LedgerInv, IInv, NEW l \in Logs
               PROVE  /\ metered[l] < 2
                      /\ metered[l] > 0 => log[l] \in {"sent", "purged"}
                      /\ log[l] = "sent" /\ ~InFlight(l) /\ l \notin dropped
                            => metered[l] = 1
    BY DEF MeterMatchesLedger
  <2> QED
    BY DEF LedgerInv, LogInv, OutcomeTrue, InFlight, Active
<1> QED
  BY <1>1, LedgerInvariant, PTL

-----------------------------------------------------------------------------
(* max_retries, when no throttle starts the count again *)

\* The retries that the task carries are no fewer than the failures so far, and
\* a row that was never handed out has none.
RetriesCount(l) ==
    /\ errs[l] > 0 => log[l] # "absent" /\ Released(l[1])
    /\ l \in outbox \/ ~NoTodo(l) => errs[l] = 0
    /\ \A r \in Retries : tasks[l][r] > 0 => errs[l] <= r
    /\ \A w \in Workers :
          Works(w, l) /\ worker[w].pc \in {"loaded", "cleared"}
          => errs[l] <= worker[w].retries
    /\ errs[l] <= MaxRetries + 1

RetryInv == \A l \in Logs : RetriesCount(l)

\* A delivery that has not failed is within every bound.
LEMMA NeverFailed ==
    ASSUME TypeOK', NEW l \in Logs, errs'[l] = 0 PROVE RetriesCount(l)'
<1>1. \A w \in Workers : Works(w, l)' => worker'[w].retries \in Retries
  <2> SUFFICES ASSUME NEW w \in Workers, Works(w, l)'
               PROVE  worker'[w].retries \in Retries
    OBVIOUS
  <2>1. worker'[w] \in {IdleWorker} \cup BusyWorker /\ worker'[w] # IdleWorker
    BY DEF TypeOK, Works, IdleWorker
  <2> QED
    BY <2>1 DEF BusyWorker
<1> QED
  BY <1>1, ConstantsAssumption DEF RetriesCount, Retries

\* A failed call is the last the log's worker has made, and its task, if there
\* is one, carries one retry more.
LEMMA FailureCounts ==
    ASSUME TypeOK, TypeOK', LedgerInv, RetryInv, NEW w \in Workers,
           NEW delivered \in BOOLEAN, TelegramFails(w, delivered),
           NEW l \in Logs, worker[w].log = l,
           log[l] # "absent", Released(l[1])
    PROVE  RetriesCount(l)'
<1> DEFINE r == worker[w].retries
<1>1. /\ worker[w].pc = "cleared" /\ Works(w, l) /\ Active(w, l)
      /\ r \in Retries /\ LogInv(l) /\ RetriesCount(l)
  BY BusyHoldsTask DEF TelegramFails, Works, Active, LedgerInv, RetryInv
<1>2. /\ l \notin outbox /\ NoTodo(l) /\ NoTask(l)
      /\ \A v \in Workers : Active(v, l) => v = w
  BY <1>1, WorkerAlone
<1>3. errs[l] <= r /\ errs[l] \in Nat /\ r <= MaxRetries /\ r \in Nat
  BY <1>1, ConstantsAssumption DEF RetriesCount, Retries, TypeOK
<1>4. errs'[l] \in Nat /\ errs'[l] <= errs[l] + 1
  BY <1>3, ConstantsAssumption DEF TelegramFails, BumpErr, TypeOK
<1>5. PICK pc \in {"rejected", "acking"} : Goto(w, pc)
  BY DEF TelegramFails
<1>6. /\ \A v \in Workers : v # w => worker'[v] = worker[v]
      /\ worker'[w].pc \in {"rejected", "acking"}
      /\ \A v \in Workers : Works(v, l)' <=> Works(v, l)
  BY <1>1, <1>5, GotoWorks DEF BusyPCs
<1>7. ASSUME NEW v \in Workers
      PROVE  ~(Works(v, l)' /\ worker'[v].pc \in {"loaded", "cleared"})
  <2>1. v # w => ~Active(v, l)
    BY <1>2
  <2> QED
    BY <1>6, <2>1 DEF Active, Works
<1>8. \A q \in Retries : tasks'[l][q] > 0 => q = r + 1
  <2>1. CASE r >= MaxRetries
    BY <2>1, <1>2 DEF TelegramFails, NoTask
  <2>2. CASE ~(r >= MaxRetries)
    <3>1. r + 1 \in Retries /\ tasks' = Publish(tasks, l, r + 1)
      BY <2>2, <1>3, ConstantsAssumption DEF TelegramFails, Retries
    <3> QED
      BY <3>1, <1>2, OneTask
  <2> QED
    BY <2>1, <2>2
<1>9. /\ log' = log /\ msg' = msg /\ outbox' = outbox /\ disp' = disp
  BY DEF TelegramFails
<1>10. l \notin outbox' /\ NoTodo(l)' /\ log'[l] # "absent" /\ Released(l[1])'
  BY <1>2, <1>9 DEF NoTodo, Released
<1>11. \A q \in Retries : tasks'[l][q] > 0 => errs'[l] <= q
  BY <1>3, <1>4, <1>8
<1>12. errs'[l] <= MaxRetries + 1
  BY <1>3, <1>4, ConstantsAssumption
<1> QED
  BY <1>7, <1>10, <1>11, <1>12 DEF RetriesCount

\* Any other step leaves the count alone, and no new task goes back to zero.
LEMMA CountKept ==
    ASSUME RetryInv, NEW k \in Logs, errs'[k] = errs[k], errs[k] > 0,
           log'[k] # "absent", Released(k[1])',
           k \in outbox' => k \in outbox,
           NoTodo(k) => NoTodo(k)',
           \A r \in Retries : tasks'[k][r] > 0 => tasks[k][r] > 0,
           \A w \in Workers :
              Works(w, k)' /\ worker'[w].pc \in {"loaded", "cleared"}
              => errs[k] <= worker'[w].retries
    PROVE  RetriesCount(k)'
BY DEF RetryInv, RetriesCount

LEMMA RetryStep ==
    ASSUME NoRepeats, ~CanThrottle, IInv, TypeOK', HeldInv, LedgerInv,
           RetryInv, [Next]_vars
    PROVE  RetryInv'
<1> SUFFICES ASSUME NEW k \in Logs PROVE RetriesCount(k)'
  BY DEF RetryInv
<1>0. /\ TypeOK /\ k[1] \in Messages
      /\ "redeliver" \notin FaultKinds
      /\ errs[k] \in Nat /\ RetriesCount(k) /\ LogInv(k)
  BY LogParts DEF IInv, NoRepeats, TypeOK, RetryInv, LedgerInv
<1>1. ASSUME NEW w \in Workers, NEW delivered \in BOOLEAN,
             TelegramFails(w, delivered), worker[w].log = k
      PROVE  RetriesCount(k)'
  <2>1. Works(w, k)
    BY <1>1 DEF TelegramFails, Works
  <2>2. log[k] # "absent" /\ Released(k[1])
    BY <2>1 DEF IInv, TasksFollowCommit, NothingEarly, InFlight
  <2> QED
    BY <1>0, <1>1, <2>2, FailureCounts
<1>2. ASSUME ~\E w \in Workers, delivered \in BOOLEAN :
                 TelegramFails(w, delivered) /\ worker[w].log = k
      PROVE  errs'[k] = errs[k]
  <2>1. ASSUME NEW w \in Workers, WorkerNext(w) PROVE errs'[k] = errs[k]
    <3>1. ASSUME NEW delivered \in BOOLEAN, TelegramFails(w, delivered)
          PROVE  errs'[k] = errs[k]
      BY <1>2, <3>1, <1>0 DEF TelegramFails, TypeOK
    <3> QED
      BY <2>1, <3>1 DEF WorkerNext, TakeTask, Undeliverable, PassThrottle,
         Throttled, TelegramAccepts, CommitSent, MeterEventOut, GiveUpLoad,
         GiveUpCommit, Acknowledge
  <2>2. ASSUME ApiNext \/ DispatchNext PROVE errs' = errs
    BY <2>2 DEF ApiNext, CreateMessage, EnqueueImmediate, DeleteDestination,
       DeleteBot, SelectPending, DeleteOrganization, DeletionDies, DispatchNext,
       BecomeDue, DispatchSelect,
       DispatchCommit, DispatchEnqueue, DispatchEnd
  <2>3. ASSUME EnvironmentNext \/ UNCHANGED vars PROVE errs' = errs
    BY <2>3 DEF EnvironmentNext, PurgeLog, CrashRedelivers, TaskLost, ApiCrash,
       DispatcherCrash, vars
  <2> QED
    BY <2>1, <2>2, <2>3 DEF Next
<1>3. ASSUME errs'[k] = errs[k], errs[k] = 0 PROVE RetriesCount(k)'
  BY <1>3, NeverFailed
<1>4. ASSUME errs'[k] = errs[k], errs[k] > 0 PROVE RetriesCount(k)'
  <2>0. /\ log[k] # "absent" /\ Released(k[1]) /\ k \notin outbox /\ NoTodo(k)
        /\ msg[k[1]].phase # "none"
    BY <1>0, <1>4 DEF RetriesCount, IInv, RowsConsistent
  <2>1. ASSUME worker' = worker
        PROVE  \A w \in Workers :
                  Works(w, k)' /\ worker'[w].pc \in {"loaded", "cleared"}
                  => errs[k] <= worker'[w].retries
    BY <1>0, <2>1 DEF RetriesCount, Works
  <2>2. ASSUME ApiNext PROVE RetriesCount(k)'
    <3>1. ASSUME NEW m \in Messages, NEW D \in SUBSET Destinations,
                 NEW sched \in BOOLEAN, CreateMessage(m, D, sched)
          PROVE  RetriesCount(k)'
      <4>1. k[1] # m
        BY <2>0, <3>1 DEF CreateMessage
      <4>2. /\ log'[k] = log[k] /\ msg'[k[1]] = msg[k[1]]
            /\ k \notin outbox'
            /\ disp' = disp /\ tasks' = tasks /\ worker' = worker
        BY <2>0, <3>1, <4>1, <1>0 DEF CreateMessage, TypeOK
      <4> QED
        BY <1>4, <2>0, <2>1, <4>2, CountKept DEF Released, NoTodo
    <3>2. ASSUME NEW l \in Logs, EnqueueImmediate(l) PROVE RetriesCount(k)'
      <4>1. k # l /\ outbox' \subseteq outbox /\ log' = log /\ msg' = msg
            /\ disp' = disp /\ worker' = worker
        BY <2>0, <3>2 DEF EnqueueImmediate
      <4>2. tasks'[k] = tasks[k]
        BY <3>2, <4>1, <1>0 DEF EnqueueImmediate, Publish, TypeOK
      <4> QED
        BY <1>4, <2>0, <2>1, <4>1, <4>2, CountKept DEF Released, NoTodo
    <3>3. ASSUME DeleteOrganization PROVE RetriesCount(k)'
      <4>1. /\ msg'[k[1]].sched = msg[k[1]].sched
            /\ msg'[k[1]].dispatched = msg[k[1]].dispatched
            /\ log' = log /\ outbox' = outbox /\ disp' = disp /\ tasks' = tasks
            /\ worker' = worker
        BY <3>3, <1>0 DEF DeleteOrganization, TypeOK, MessageRow
      <4> QED
        BY <1>4, <2>0, <2>1, <4>1, CountKept DEF Released, NoTodo
    <3>4. ASSUME \/ DeleteBot \/ \E d \in Destinations : DeleteDestination(d)
                 \/ SelectPending \/ DeletionDies
          PROVE  RetriesCount(k)'
      <4>1. UNCHANGED <<msg, log, outbox, disp, tasks, worker>>
        BY <3>4 DEF DeleteBot, DeleteDestination, SelectPending, DeletionDies
      <4> QED
        BY <1>4, <2>0, <2>1, <4>1, CountKept DEF Released, NoTodo
    <3> QED
      BY <2>2, <3>1, <3>2, <3>3, <3>4 DEF ApiNext
  <2>3. ASSUME DispatchNext PROVE RetriesCount(k)'
    <3>0. log' = log /\ outbox' = outbox /\ worker' = worker
      BY <2>3 DEF DispatchNext, BecomeDue, DispatchSelect, DispatchCommit,
         DispatchEnqueue, DispatchEnd
    <3>1. /\ msg'[k[1]].sched = msg[k[1]].sched
          /\ msg[k[1]].dispatched => msg'[k[1]].dispatched
      <4>1. ASSUME NEW m \in Messages, BecomeDue(m)
            PROVE  /\ msg'[k[1]].sched = msg[k[1]].sched
                   /\ msg[k[1]].dispatched => msg'[k[1]].dispatched
        BY <4>1, <1>0 DEF BecomeDue, TypeOK, MessageRow
      <4>2. ASSUME NEW p \in Dispatchers, DispatchCommit(p)
            PROVE  /\ msg'[k[1]].sched = msg[k[1]].sched
                   /\ msg[k[1]].dispatched => msg'[k[1]].dispatched
        BY <4>2, <1>0 DEF DispatchCommit, TypeOK, MessageRow
      <4> QED
        BY <2>3, <4>1, <4>2 DEF DispatchNext, DispatchSelect, DispatchEnqueue,
           DispatchEnd
    <3>2. tasks'[k] = tasks[k]
      <4>1. ASSUME NEW p \in Dispatchers, NEW l \in Logs, DispatchEnqueue(p, l)
            PROVE  tasks'[k] = tasks[k]
        <5>1. k # l
          BY <2>0, <4>1 DEF DispatchEnqueue, NoTodo
        <5> QED
          BY <4>1, <5>1, <1>0 DEF DispatchEnqueue, Publish, TypeOK
      <4> QED
        BY <2>3, <4>1 DEF DispatchNext, BecomeDue, DispatchSelect,
           DispatchCommit, DispatchEnd
    <3>3. NoTodo(k)'
      <4> SUFFICES ASSUME NEW q \in Dispatchers PROVE k \notin disp'[q].todo
        BY DEF NoTodo
      <4>1. k \notin disp[q].todo
        BY <2>0 DEF NoTodo
      <4>2. ASSUME NEW p \in Dispatchers, DispatchCommit(p)
            PROVE  k \notin disp'[q].todo
        <5>1. k[1] \notin disp[p].rows
          BY <2>0 DEF LedgerInv, Unmarked, IInv, SelectionConsistent, Released
        <5> QED
          BY <4>1, <4>2, <5>1, <1>0 DEF DispatchCommit, LogsOf, TypeOK
      <4>3. ASSUME NEW p \in Dispatchers, DispatchSelect(p) \/ DispatchEnd(p)
            PROVE  k \notin disp'[q].todo
        BY <4>1, <4>3, <1>0 DEF DispatchSelect, DispatchEnd, IdleDispatcher, TypeOK
      <4>4. ASSUME NEW p \in Dispatchers, NEW l \in Logs, DispatchEnqueue(p, l)
            PROVE  k \notin disp'[q].todo
        BY <4>1, <4>4, <1>0 DEF DispatchEnqueue, TypeOK, DispatcherState
      <4>5. ASSUME NEW m \in Messages, BecomeDue(m)
            PROVE  k \notin disp'[q].todo
        BY <4>1, <4>5 DEF BecomeDue
      <4> QED
        BY <2>3, <4>2, <4>3, <4>4, <4>5 DEF DispatchNext
    <3> QED
      BY <1>4, <2>0, <2>1, <3>0, <3>1, <3>2, <3>3, CountKept DEF Released
  <2>4. ASSUME NEW w \in Workers, WorkerNext(w),
               ~\E delivered \in BOOLEAN :
                   TelegramFails(w, delivered) /\ worker[w].log = k
        PROVE  RetriesCount(k)'
    <3>1. msg' = msg /\ outbox' = outbox /\ disp' = disp
      BY <2>4 DEF WorkerNext, TakeTask, Undeliverable, PassThrottle,
         Throttled, TelegramAccepts, TelegramFails, CommitSent, MeterEventOut,
         GiveUpLoad, GiveUpCommit, Acknowledge
    <3>2. log'[k] # "absent"
      <4>1. ASSUME NEW l, NEW seen, NEW status \in Status,
                   log' = Written(l, seen, status)
            PROVE  log'[k] # "absent"
        BY <4>1, <2>0, <1>0 DEF Written, Status, TypeOK
      <4> QED
        BY <2>4, <4>1, <2>0 DEF WorkerNext, TakeTask, Undeliverable,
           PassThrottle, Throttled, TelegramAccepts, TelegramFails, CommitSent,
           MeterEventOut, GiveUpLoad, GiveUpCommit, Acknowledge, Status
    <3>3. ASSUME NEW l \in Logs, NEW r \in Retries, TakeTask(w, l, r)
          PROVE  RetriesCount(k)'
      <4>1. /\ \A v \in Workers : v # w => worker'[v] = worker[v]
            /\ \/ worker'[w] = worker[w]
               \/ worker'[w].log = l /\ worker'[w].retries = r
        BY <3>3, <1>0 DEF TakeTask, TypeOK
      <4>2. /\ tasks[l][r] > 0
            /\ \A q \in Retries : tasks'[k][q] > 0 => tasks[k][q] > 0
        BY <3>3, <1>0 DEF TakeTask, TypeOK
      <4>3. ASSUME NEW v \in Workers, Works(v, k)',
                   worker'[v].pc \in {"loaded", "cleared"}
            PROVE  errs[k] <= worker'[v].retries
        <5>1. CASE worker'[v] = worker[v]
          BY <4>3, <5>1, <1>0 DEF RetriesCount, Works
        <5>2. CASE v = w /\ worker'[w].log = l /\ worker'[w].retries = r
          BY <4>2, <4>3, <5>2, <1>0 DEF RetriesCount, Works
        <5> QED
          BY <4>1, <5>1, <5>2
      <4> QED
        BY <1>4, <2>0, <3>1, <3>2, <4>2, <4>3, CountKept DEF Released, NoTodo
    <3>4. ASSUME ~\E l \in Logs, r \in Retries : TakeTask(w, l, r)
          PROVE  RetriesCount(k)'
      <4>1. /\ \A v \in Workers : v # w => worker'[v] = worker[v]
            /\ worker'[w].pc \in {"loaded", "cleared"} =>
                  /\ worker[w].pc \in {"loaded", "cleared"}
                  /\ worker'[w].log = worker[w].log
                  /\ worker'[w].retries = worker[w].retries
        <5>1. CASE PassThrottle(w)
          <6>1. worker[w] \in BusyWorker
            BY <5>1, <1>0, BusyHoldsTask DEF PassThrottle
          <6> QED
            BY <5>1, <6>1, <1>0 DEF PassThrottle, Goto, BusyWorker, TypeOK
        <5>2. CASE GiveUpLoad(w) \/ Acknowledge(w)
          <6>1. worker[w] \in BusyWorker
            BY <5>2, <1>0, BusyHoldsTask DEF GiveUpLoad, Acknowledge
          <6> QED
            BY <5>2, <6>1, <1>0 DEF GiveUpLoad, Acknowledge, IdleWorker,
               BusyWorker, TypeOK
        <5>3. CASE ~(PassThrottle(w) \/ GiveUpLoad(w) \/ Acknowledge(w))
          <6>1. PICK pc \in BusyPCs \ {"loaded", "cleared"} : Goto(w, pc)
            BY <2>4, <3>4, <5>3 DEF WorkerNext, Undeliverable, Throttled,
               TelegramAccepts, TelegramFails, CommitSent, MeterEventOut,
               GiveUpCommit, BusyPCs
          <6>2. worker[w].pc # "idle"
            BY <2>4, <3>4, <5>3 DEF WorkerNext, Undeliverable, Throttled,
               TelegramAccepts, TelegramFails, CommitSent, MeterEventOut,
               GiveUpCommit
          <6> QED
            BY <6>1, <6>2, <1>0, GotoWorks
        <5> QED
          BY <5>1, <5>2, <5>3
      <4>2. tasks'[k] = tasks[k]
        <5>1. ASSUME NEW delivered \in BOOLEAN, TelegramFails(w, delivered)
              PROVE  tasks'[k] = tasks[k]
          <6>1. worker[w].log # k
            BY <2>4, <5>1
          <6> QED
            BY <5>1, <6>1, <1>0, BusyHoldsTask
               DEF TelegramFails, Publish, TypeOK
        <5> QED
          BY <2>4, <3>4, <5>1 DEF WorkerNext, Undeliverable, PassThrottle,
             Throttled, TelegramAccepts, CommitSent, MeterEventOut,
             GiveUpLoad, GiveUpCommit, Acknowledge
      <4>3. ASSUME NEW v \in Workers, Works(v, k)',
                   worker'[v].pc \in {"loaded", "cleared"}
            PROVE  errs[k] <= worker'[v].retries
        <5>1. CASE v # w
          BY <4>1, <4>3, <5>1, <1>0 DEF RetriesCount, Works
        <5>2. CASE v = w
          BY <4>1, <4>3, <5>2, <1>0 DEF RetriesCount, Works
        <5> QED
          BY <5>1, <5>2
      <4> QED
        BY <1>4, <2>0, <3>1, <3>2, <4>2, <4>3, CountKept DEF Released, NoTodo
    <3> QED
      BY <3>3, <3>4
  <2>5. ASSUME EnvironmentNext PROVE RetriesCount(k)'
    <3>1. /\ msg' = msg /\ tasks' = tasks /\ outbox' \subseteq outbox
          /\ log'[k] # "absent"
      BY <2>0, <2>5, <1>0 DEF EnvironmentNext, PurgeLog, CrashRedelivers,
         TaskLost, ApiCrash, DispatcherCrash, Fault, TypeOK
    <3>2. NoTodo(k)'
      <4>1. ASSUME NEW p \in Dispatchers, DispatcherCrash(p) PROVE NoTodo(k)'
        BY <2>0, <4>1, <1>0 DEF DispatcherCrash, NoTodo, IdleDispatcher, TypeOK
      <4>2. ASSUME ~\E p \in Dispatchers : DispatcherCrash(p) PROVE disp' = disp
        BY <2>5, <4>2 DEF EnvironmentNext, PurgeLog, CrashRedelivers, TaskLost,
           ApiCrash
      <4> QED
        BY <2>0, <4>1, <4>2 DEF NoTodo
    <3>3. \A v \in Workers : worker'[v] = worker[v] \/ worker'[v].pc = "idle"
      BY <2>5, <1>0 DEF EnvironmentNext, PurgeLog, CrashRedelivers,
         TaskLost, ApiCrash, DispatcherCrash, Fault, DiesInCall, IdleWorker,
         TypeOK
    <3>4. ASSUME NEW v \in Workers, Works(v, k)',
                 worker'[v].pc \in {"loaded", "cleared"}
          PROVE  errs[k] <= worker'[v].retries
      BY <3>3, <3>4, <1>0 DEF RetriesCount, Works
    <3> QED
      BY <1>4, <2>0, <3>1, <3>2, <3>4, CountKept DEF Released
  <2>6. ASSUME UNCHANGED vars PROVE RetriesCount(k)'
    BY <1>4, <2>0, <2>1, <2>6, CountKept DEF vars, Released, NoTodo
  <2>7. ASSUME ~\E w \in Workers, delivered \in BOOLEAN :
                   TelegramFails(w, delivered) /\ worker[w].log = k
        PROVE  RetriesCount(k)'
    <3>1. ASSUME NEW w \in Workers, WorkerNext(w) PROVE RetriesCount(k)'
      BY <2>4, <2>7, <3>1
    <3> QED
      BY <2>2, <2>3, <2>5, <2>6, <3>1 DEF Next
  <2> QED
    BY <1>1, <2>7
<1> QED
  BY <1>0, <1>1, <1>2, <1>3, <1>4

\* While the windows have room and nothing repeats a delivery, Telegram refuses
\* a delivery max_retries + 1 times at most: only the throttle's new task makes
\* the task forget how often it has failed.
THEOREM RetriesEnd ==
    ASSUME NoRepeats, ~CanThrottle PROVE Spec => []FailuresBounded
<1>1. Init => RetryInv
  <2> SUFFICES ASSUME Init, NEW l \in Logs PROVE RetriesCount(l)
    BY DEF RetryInv
  <2> QED
    BY ConstantsAssumption DEF Init, RetriesCount, NoTodo, IdleDispatcher,
       Works, IdleWorker, Retries
<1>2. IInv /\ IInv' /\ HeldInv /\ LedgerInv /\ RetryInv /\ [Next]_vars => RetryInv'
  BY RetryStep DEF IInv
<1>3. RetryInv => FailuresBounded
  BY DEF RetryInv, RetriesCount, FailuresBounded
<1> QED
  BY <1>1, <1>2, <1>3, SafetyInvariant, LedgerInvariant, PTL DEF Spec

-----------------------------------------------------------------------------
(* The status endpoint, for a tenant that keeps its rows *)

\* No row vanishes without the retention purge.
Unpurged == ~Retention => \A l \in Logs : log[l] # "purged"

LEMMA UnpurgedStep == ASSUME TypeOK, Unpurged, [Next]_vars PROVE Unpurged'
<1> SUFFICES ASSUME ~Retention, \A l \in Logs : log[l] # "purged"
             PROVE  \A l \in Logs : log'[l] # "purged"
  BY DEF Unpurged
<1>1. ASSUME NEW l, NEW seen, NEW status \in Status,
             log' = Written(l, seen, status), NEW k \in Logs
      PROVE  log'[k] # "purged"
  <2>1. log' = log \/ log' = [log EXCEPT ![l] = status]
    BY <1>1 DEF Written
  <2> QED
    BY <1>1, <2>1 DEF Status, TypeOK
<1>2. ASSUME NEW w \in Workers, WorkerNext(w), NEW k \in Logs
      PROVE  log'[k] # "purged"
  BY <1>1, <1>2 DEF WorkerNext, TakeTask, Undeliverable, PassThrottle,
     Throttled, TelegramAccepts, TelegramFails, CommitSent, MeterEventOut,
     GiveUpLoad, GiveUpCommit, Acknowledge, Status
<1>3. ASSUME ApiNext, NEW k \in Logs PROVE log'[k] # "purged"
  <2>1. ASSUME NEW m \in Messages, NEW D \in SUBSET Destinations,
               NEW sched \in BOOLEAN, CreateMessage(m, D, sched)
        PROVE  log'[k] # "purged"
    BY <2>1 DEF CreateMessage
  <2>2. ASSUME ~\E m \in Messages, D \in SUBSET Destinations, sched \in BOOLEAN :
                   CreateMessage(m, D, sched)
        PROVE  log' = log
    BY <1>3, <2>2 DEF ApiNext, EnqueueImmediate, DeleteDestination, DeleteBot,
       SelectPending, DeleteOrganization, DeletionDies
  <2> QED
    BY <2>1, <2>2
<1>4. ASSUME DispatchNext PROVE log' = log
  BY <1>4 DEF DispatchNext, BecomeDue, DispatchSelect, DispatchCommit,
     DispatchEnqueue, DispatchEnd
<1>5. ASSUME EnvironmentNext PROVE log' = log
  BY <1>5 DEF EnvironmentNext, PurgeLog, CrashRedelivers, TaskLost, ApiCrash,
     DispatcherCrash
<1>6. CASE UNCHANGED vars
  BY <1>6 DEF vars
<1> QED
  BY <1>2, <1>3, <1>4, <1>5, <1>6 DEF Next

\* What GET /messages/{id}/status calls sent was delivered to every accepted
\* destination, under every fault, if the tenant's plan keeps its rows.
THEOREM StatusIsTruthful ==
    ASSUME ~Retention, IsFiniteSet(Destinations)
    PROVE  Spec => []StatusTruthful
<1>1. Init => Unpurged
  BY DEF Init, Unpurged
<1>2. IInv /\ Unpurged /\ [Next]_vars => Unpurged'
  BY UnpurgedStep DEF IInv
<1>3. ASSUME IInv, Unpurged, NEW l \in Logs, log[l] # "absent",
             OverallStatus(l[1]) = "sent"
      PROVE  tg[l] > 0
  <2> DEFINE m == l[1]
             Count(status) == Cardinality({k \in LogsOf(m) : log[k] = status})
  <2>1. log[l] \in Status
    BY <1>3 DEF IInv, TypeOK, Unpurged
  <2>2. l \in LogsOf(m)
    BY <2>1 DEF LogsOf, Exists
  <2>3. IsFiniteSet(LogsOf(m))
    <3>1. IsFiniteSet({m} \X Destinations)
      BY FS_Singleton, FS_Product
    <3>2. LogsOf(m) \subseteq {m} \X Destinations
      BY DEF LogsOf, Logs
    <3> QED
      BY <3>1, <3>2, FS_Subset
  <2>4. ASSUME NEW status
        PROVE  /\ Count(status) \in Nat
               /\ Count(status) = 0 => log[l] # status
    <3> DEFINE T == {k \in LogsOf(m) : log[k] = status}
    <3>1. IsFiniteSet(T)
      <4>1. T \in SUBSET LogsOf(m)
        OBVIOUS
      <4> QED
        BY <4>1, <2>3, FS_Subset
    <3>2. Cardinality(T) \in Nat /\ (Cardinality(T) = 0 => T = {})
      BY <3>1, FS_CardinalityType, FS_EmptySet
    <3>3. log[l] = status => l \in T
      BY <2>2
    <3> QED
      BY <3>2, <3>3
  <2>5. Cardinality(LogsOf(m)) # 0
    BY <2>2, <2>3, FS_EmptySet
  <2>6. /\ ~(Count("queued") > 0)
        /\ Count("failed") = 0
    BY <1>3, <2>5 DEF OverallStatus
  <2> HIDE DEF m, Count
  <2>7. Count("queued") \in Nat /\ (Count("queued") = 0 => log[l] # "queued")
    BY <2>4
  <2>8. log[l] # "queued"
    BY <2>6, <2>7
  <2>9. log[l] # "failed"
    BY <2>4, <2>6
  <2>10. log[l] = "sent"
    BY <2>1, <2>8, <2>9 DEF Status
  <2> QED
    BY <2>10, <1>3 DEF IInv, SentMeansDelivered
<1>4. IInv /\ Unpurged => StatusTruthful
  BY <1>3 DEF StatusTruthful
<1> QED
  BY <1>1, <1>2, <1>4, SafetyInvariant, PTL DEF Spec
=============================================================================
