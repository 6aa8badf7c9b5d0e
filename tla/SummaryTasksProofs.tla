------------------------- MODULE SummaryTasksProofs -------------------------
(* Theorems about SummaryTasks, for every set of keys and users and every    *)
(* limit and bound.                                                          *)
EXTENDS SummaryTasks, TLAPS

\* The flows that enter a task through beginTask after they have decided.
Deciding == {"schedGenerate", "schedRetry", "schedDeliver", "histRetry", "histDeliver",
             "recoverNow", "recoverRetry", "userDeliver"}

\* A flow that has decided knows what it decided.
DecidedFlow == \A p \in Procs : pc[p] = "decided" => flow[p] \in Deciding

LEMMA ProcFacts ==
  ASSUME NEW k \in Keys
  PROVE  /\ Sched(k) \in Procs /\ Maint(k) \in Procs
         /\ Sched(k)[1] = "sched" /\ Maint(k)[1] = "maint"
         /\ \A u \in Users : <<"user", u>> \in Procs /\ <<"user", u>> # Sched(k) /\ <<"user", u>> # Maint(k)
         /\ \A j \in Keys : Sched(k) # Maint(j) /\ (Sched(j) = Sched(k) => j = k) /\ (Maint(j) = Maint(k) => j = k)
  BY DEF Sched, Maint, Procs

LEMMA RowFacts ==
  /\ NoRow \in Row /\ NoItem \in Item /\ None \in Timers
  /\ \A r \in Row : ItemOf(r) \in Item
  /\ \A it \in Item : [it EXCEPT !.current = FALSE] \in Item
  BY DEF NoRow, Row, NoItem, Item, None, Timers, Status, ItemOf

TypeAndFlow == TypeOK /\ DecidedFlow

\* Init satisfies the types.
LEMMA InitTypes == Init => TypeAndFlow
<1> SUFFICES ASSUME Init PROVE TypeAndFlow
  OBVIOUS
<1>1. /\ row \in [Keys -> Row] /\ item \in [Procs -> Item] /\ inflight \subseteq Keys
  BY RowFacts DEF Init
<1>2. on \in [Procs -> Keys] /\ \A k \in Keys : on[Sched(k)] = k /\ on[Maint(k)] = k
  BY DEF Init
<1>3. /\ pc \in [Procs -> Steps] /\ flow \in [Procs -> Flows]
      /\ outcome \in [Procs -> Outcomes] /\ stamp \in [Procs -> BOOLEAN]
  BY DEF Init, Steps, Flows, Outcomes
<1>4. /\ round \subseteq Keys \X (0..MaxDay) /\ cancelled \in BOOLEAN
      /\ mjob \in [Keys -> {"none", "recover", "retry", "deliver"}] /\ mphase \in {"history", "recovery"}
      /\ queue \in [Keys -> [status : {"none", "queued", "succeeded", "failed"}, started : BOOLEAN]]
  BY DEF Init
<1>5. /\ clock \in [day : 0..MaxDay, due : BOOLEAN] /\ sent \in [Keys -> 0..2]
      /\ used \in [requests : Nat, faults : Nat, restarts : Nat]
  BY BoundsAssumption DEF Init
<1>6. DecidedFlow
  BY DEF Init, DecidedFlow
<1> QED
  BY <1>1, <1>2, <1>3, <1>4, <1>5, <1>6 DEF TypeAndFlow, TypeOK

-----------------------------------------------------------------------------
(* Types.  TaskTypes is the part of the type invariant about the variables a  *)
(* moving flow changes, StoreTypes the part about all the others.             *)

TaskTypes ==
  /\ pc \in [Procs -> Steps] /\ on \in [Procs -> Keys] /\ flow \in [Procs -> Flows]
  /\ \A k \in Keys : on[Sched(k)] = k /\ on[Maint(k)] = k
  /\ item \in [Procs -> Item]
  /\ outcome \in [Procs -> Outcomes] /\ stamp \in [Procs -> BOOLEAN]
  /\ DecidedFlow

Queues == [Keys -> [status : {"none", "queued", "succeeded", "failed"}, started : BOOLEAN]]

StoreTypes ==
  /\ row \in [Keys -> Row]
  /\ inflight \subseteq Keys
  /\ round \subseteq Keys \X (0..MaxDay) /\ cancelled \in BOOLEAN
  /\ mjob \in [Keys -> {"none", "recover", "retry", "deliver"}] /\ mphase \in {"history", "recovery"}
  /\ queue \in Queues
  /\ clock \in [day : 0..MaxDay, due : BOOLEAN]
  /\ sent \in [Keys -> 0..2]
  /\ used \in [requests : Nat, faults : Nat, restarts : Nat]

LEMMA TypeParts ==
  /\ TypeAndFlow <=> TaskTypes /\ StoreTypes
  /\ TypeAndFlow' <=> TaskTypes' /\ StoreTypes'
  BY DEF TypeAndFlow, TypeOK, TaskTypes, StoreTypes, Queues

LEMMA StayTypes ==
  ASSUME TaskTypes, UNCHANGED taskVars
  PROVE  TaskTypes'
  BY DEF TaskTypes, taskVars, DecidedFlow

LEMMA OnlyStepTypes ==
  ASSUME TaskTypes, NEW p \in Procs, NEW step \in Steps \ {"decided"}, OnlyStep(p, step)
  PROVE  TaskTypes'
  BY DEF TaskTypes, OnlyStep, Goto, DecidedFlow

LEMMA LeaveTypes ==
  ASSUME TaskTypes, NEW p \in Procs, Leave(p)
  PROVE  TaskTypes'
  BY RowFacts DEF TaskTypes, Leave, Goto, DecidedFlow, Steps, Flows, Outcomes

LEMMA MoveOnTypes ==
  ASSUME TaskTypes, NEW p \in Procs, NEW step \in Steps \ {"decided"}, MoveOn(p, step)
  PROVE  TaskTypes'
  BY OnlyStepTypes, LeaveTypes DEF MoveOn

LEMMA DecideTypes ==
  ASSUME TaskTypes, NEW p \in Procs, NEW f \in Deciding, NEW it \in Item, Decide(p, f, it)
  PROVE  TaskTypes'
  BY DEF TaskTypes, Decide, Goto, DecidedFlow, Steps, Flows, Deciding

LEMMA AfterTaskStep == \A p \in Procs : AfterTask(p) \in Steps \ {"decided"}
  BY DEF AfterTask, Steps, Holding

LEMMA FirstStepStep == \A f \in Deciding : FirstStep(f) \in Holding
  BY DEF FirstStep, Deciding, Holding, RetryFlows

LEMMA HoldingSteps == Holding \subseteq Steps \ {"decided"}
  BY DEF Holding, Steps

LEMMA WriteTypes ==
  ASSUME row \in [Keys -> Row], NEW k \in Keys, NEW r \in Row, WriteRow(k, r)
  PROVE  row' \in [Keys -> Row]
  BY DEF WriteRow

\* The updates of one row the database calls are made of.
LEMMA RowUpdates ==
  ASSUME NEW r \in Row
  PROVE  /\ [NoRow EXCEPT !.status = "pending"] \in Row
         /\ \A n \in Nat : [r EXCEPT !.status = "running", !.next = None, !.retry = n] \in Row
         /\ [r EXCEPT !.next = "later"] \in Row
         /\ [r EXCEPT !.status = "failed", !.next = "due"] \in Row
         /\ [r EXCEPT !.status = "failed", !.next = None] \in Row
         /\ [r EXCEPT !.delivered = TRUE, !.dretry = 0, !.dnext = None] \in Row
         /\ [r EXCEPT !.delivered = FALSE] \in Row
         /\ \A t \in Timers, n \in Nat : [r EXCEPT !.delivered = FALSE, !.dretry = n, !.dnext = t] \in Row
         /\ \A t, d \in Timers : [r EXCEPT !.next = t, !.dnext = d] \in Row
         /\ \A ok, ready \in BOOLEAN : Saved(r, ok, ready) \in Row
<1>1. /\ [NoRow EXCEPT !.status = "pending"] \in Row
      /\ [r EXCEPT !.next = "later"] \in Row
      /\ [r EXCEPT !.status = "failed", !.next = "due"] \in Row
  BY DEF Row, NoRow, None, Timers, Status
<1>2. /\ [r EXCEPT !.status = "failed", !.next = None] \in Row
      /\ [r EXCEPT !.delivered = TRUE, !.dretry = 0, !.dnext = None] \in Row
      /\ [r EXCEPT !.delivered = FALSE] \in Row
  BY DEF Row, None, Timers, Status
<1>3. ASSUME NEW n \in Nat
      PROVE  [r EXCEPT !.status = "running", !.next = None, !.retry = n] \in Row
  BY DEF Row, None, Timers, Status
<1>4. ASSUME NEW t \in Timers, NEW n \in Nat
      PROVE  [r EXCEPT !.delivered = FALSE, !.dretry = n, !.dnext = t] \in Row
  BY DEF Row
<1>5. ASSUME NEW t \in Timers, NEW d \in Timers
      PROVE  [r EXCEPT !.next = t, !.dnext = d] \in Row
  BY DEF Row
<1>6. ASSUME NEW ok \in BOOLEAN, NEW ready \in BOOLEAN
      PROVE  Saved(r, ok, ready) \in Row
  BY DEF Row, NoRow, None, Timers, Status, Saved
<1> QED
  BY <1>1, <1>2, <1>3, <1>4, <1>5, <1>6
-----------------------------------------------------------------------------
(* Every action keeps the types; one lemma for each group of actions.         *)

LEMMA SchedTypes ==
  ASSUME TypeAndFlow
  PROVE  /\ SchedTick => TypeAndFlow'
         /\ \A k \in Keys : SchedRead(k) \/ SchedReadError(k) => TypeAndFlow'
<1> USE TypeParts
<1>1. ASSUME SchedTick PROVE TypeAndFlow'
  <2>1. TaskTypes'
    BY <1>1, StayTypes DEF SchedTick
  <2>2. round' \subseteq Keys \X (0..MaxDay)
    BY <1>1 DEF SchedTick, StoreTypes
  <2> QED
    BY <1>1, <2>1, <2>2 DEF SchedTick, StoreTypes, maintVars
<1>2. ASSUME NEW k \in Keys, SchedRead(k) PROVE TypeAndFlow'
  <2>1. PICK day \in 0..MaxDay :
          /\ round' = round \ {<<k, day>>}
          /\ LET f == ScheduledAction(k, row[k], day)
             IN  IF f = "none" THEN UNCHANGED taskVars
                 ELSE Decide(Sched(k), f, IF f = "schedDeliver" THEN ItemOf(row[k]) ELSE NoItem)
    BY <1>2 DEF SchedRead
  <2>2. ScheduledAction(k, row[k], day) \in {"none"} \cup Deciding
    BY DEF ScheduledAction, Deciding, StoreTypes, Row, Status
  <2>3. TaskTypes'
    BY <2>1, <2>2, StayTypes, DecideTypes, ProcFacts, RowFacts DEF StoreTypes
  <2> QED
    BY <1>2, <2>1, <2>3 DEF SchedRead, StoreTypes, maintVars
<1>3. ASSUME NEW k \in Keys, SchedReadError(k) PROVE TypeAndFlow'
  <2>1. TaskTypes'
    BY <1>3, StayTypes DEF SchedReadError
  <2>2. used' \in [requests : Nat, faults : Nat, restarts : Nat]
    BY <1>3 DEF SchedReadError, MayFail, StoreTypes
  <2> QED
    BY <1>3, <2>1, <2>2 DEF SchedReadError, StoreTypes, maintVars
<1> QED
  BY <1>1, <1>2, <1>3

LEMMA MayFailTypes ==
  ASSUME StoreTypes, NEW p \in Procs, MayFail(p)
  PROVE  used' \in [requests : Nat, faults : Nat, restarts : Nat]
  BY DEF MayFail, StoreTypes

LEMMA TaskStepTypes ==
  ASSUME TypeAndFlow, NEW p \in Procs, Step(p)
  PROVE  TypeAndFlow'
<1> USE TypeParts
<1> on[p] \in Keys /\ row[on[p]] \in Row
  BY DEF TaskTypes, StoreTypes
<1>1. CASE Begin(p)
  <2>1. TaskTypes'
    BY <1>1, MoveOnTypes, AfterTaskStep, OnlyStepTypes, FirstStepStep, HoldingSteps
    DEF Begin, TaskTypes, DecidedFlow
  <2> QED
    BY <1>1, <2>1 DEF Begin, StoreTypes, schedVars, maintVars
<1>2. CASE UpsertPending(p)
  <2>1. TaskTypes'
    BY <1>2, OnlyStepTypes DEF UpsertPending, Steps, Holding
  <2>2. row' \in [Keys -> Row]
    BY <1>2, WriteTypes, RowUpdates DEF UpsertPending, StoreTypes
  <2> QED
    BY <1>2, <2>1, <2>2 DEF UpsertPending, StoreTypes, schedVars, maintVars
<1>3. CASE SetRunning(p)
  <2>1. TaskTypes'
    BY <1>3, OnlyStepTypes DEF SetRunning, Steps, Holding
  <2>2. Attempt(row[on[p]], flow[p]) \in Nat
    BY DEF Attempt, Row
  <2>3. row' \in [Keys -> Row]
    BY <1>3, <2>2, WriteTypes, RowUpdates DEF SetRunning, StoreTypes
  <2> QED
    BY <1>3, <2>1, <2>3 DEF SetRunning, StoreTypes, schedVars, maintVars
<1>4. CASE Generate(p)
  <2>1. TaskTypes'
    BY <1>4 DEF Generate, TaskTypes, Goto, PeriodOver, DecidedFlow, Steps, Holding, Outcomes
  <2> QED
    BY <1>4, <2>1 DEF Generate, StoreTypes, schedVars, maintVars
<1>5. CASE SaveResult(p)
  <2> item' \in [Procs -> Item]
    BY <1>5, RowFacts DEF SaveResult, TaskTypes
  <2>1. TaskTypes'
    BY <1>5 DEF SaveResult, TaskTypes, Goto, DecidedFlow, Steps, Holding, Outcomes
  <2>2. row' \in [Keys -> Row]
    BY <1>5, WriteTypes, RowUpdates, ZenonT(30) DEF SaveResult, StoreTypes, TaskTypes
  <2>3. sent' \in [Keys -> 0..2]
    BY <1>5 DEF SaveResult, StoreTypes
  <2> QED
    BY <1>5, <2>1, <2>2, <2>3 DEF SaveResult, StoreTypes, schedVars, maintVars
<1>6. CASE ScheduleRetry(p)
  <2>1. TaskTypes'
    BY <1>6, OnlyStepTypes DEF ScheduleRetry, Steps, Holding
  <2>2. row' \in [Keys -> Row]
    BY <1>6, WriteTypes, RowUpdates DEF ScheduleRetry, StoreTypes
  <2> QED
    BY <1>6, <2>1, <2>2 DEF ScheduleRetry, StoreTypes, schedVars, maintVars
<1>7. CASE Reread(p)
  <2>1. TaskTypes'
    BY <1>7, RowFacts DEF Reread, TaskTypes, Goto, DecidedFlow, Steps, Holding
  <2> QED
    BY <1>7, <2>1 DEF Reread, StoreTypes, schedVars, maintVars
<1>8. CASE Send(p)
  <2>1. TaskTypes'
    BY <1>8, OnlyStepTypes DEF Send, Steps, Holding
  <2>2. sent' \in [Keys -> 0..2]
    BY <1>8 DEF Send, StoreTypes
  <2> QED
    BY <1>8, <2>1, <2>2 DEF Send, StoreTypes, schedVars, maintVars
<1>9. CASE MarkDelivered(p)
  <2>1. TaskTypes'
    BY <1>9, OnlyStepTypes DEF MarkDelivered, Steps, Holding
  <2>2. row' \in [Keys -> Row]
    BY <1>9, WriteTypes, RowUpdates DEF MarkDelivered, StoreTypes
  <2> QED
    BY <1>9, <2>1, <2>2 DEF MarkDelivered, StoreTypes, schedVars, maintVars
<1>10. CASE RecordDeliveryFailure(p)
  <2>1. TaskTypes'
    BY <1>10, OnlyStepTypes DEF RecordDeliveryFailure, Steps, Holding
  <2>2. row[on[p]].dretry + 1 \in Nat /\ (IF item[p].dretry < Limit THEN "later" ELSE None) \in Timers
    BY DEF Row, Timers, None
  <2>3. row' \in [Keys -> Row]
    BY <1>10, <2>2, WriteTypes, RowUpdates DEF RecordDeliveryFailure, StoreTypes
  <2> QED
    BY <1>10, <2>1, <2>3 DEF RecordDeliveryFailure, StoreTypes, schedVars, maintVars
<1>11. CASE SetFailed(p)
  <2>1. TaskTypes'
    BY <1>11, MoveOnTypes DEF SetFailed, Steps, Holding
  <2>2. row' \in [Keys -> Row]
    BY <1>11, WriteTypes, RowUpdates DEF SetFailed, StoreTypes
  <2> QED
    BY <1>11, <2>1, <2>2 DEF SetFailed, StoreTypes, schedVars, maintVars
<1>12. CASE Finish(p)
  <2>1. TaskTypes'
    BY <1>12, MoveOnTypes, AfterTaskStep DEF Finish
  <2> QED
    BY <1>12, <2>1 DEF Finish, StoreTypes, maintVars
<1> QED
  BY <1>1, <1>2, <1>3, <1>4, <1>5, <1>6, <1>7, <1>8, <1>9, <1>10, <1>11, <1>12 DEF Step

LEMMA FaultTypes ==
  ASSUME TypeAndFlow, NEW p \in Procs, Fault(p)
  PROVE  TypeAndFlow'
<1> USE TypeParts
<1> on[p] \in Keys /\ row[on[p]] \in Row
  BY DEF TaskTypes, StoreTypes
<1>1. CASE DbError(p)
  <2>1. ErrorStep(p) \in Steps \ {"decided"}
    BY DEF ErrorStep, Steps, Holding
  <2>2. TaskTypes'
    BY <1>1, <2>1 DEF DbError, TaskTypes, Goto, DecidedFlow, Outcomes
  <2> QED
    BY <1>1, <2>2, MayFailTypes DEF DbError, StoreTypes, schedVars, maintVars
<1>2. CASE RecordError(p)
  <2>1. TaskTypes'
    BY <1>2, OnlyStepTypes DEF RecordError, Steps, Holding
  <2> QED
    BY <1>2, <2>1, MayFailTypes DEF RecordError, StoreTypes, schedVars, maintVars
<1>3. CASE SettingsError(p)
  <2>1. TaskTypes'
    BY <1>3, OnlyStepTypes DEF SettingsError, Steps, Holding
  <2>2. row' \in [Keys -> Row]
    BY <1>3, WriteTypes, RowUpdates DEF SettingsError, StoreTypes
  <2>3. used' \in [requests : Nat, faults : Nat, restarts : Nat]
    BY <1>3 DEF SettingsError, StoreTypes
  <2> QED
    BY <1>3, <2>1, <2>2, <2>3 DEF SettingsError, StoreTypes, schedVars, maintVars
<1> QED
  BY <1>1, <1>2, <1>3 DEF Fault

\* The recovery queue stays well typed when one item is finished or marked.
LEMMA QueueUpdates ==
  ASSUME queue \in Queues, NEW k \in Keys
  PROVE  /\ [queue EXCEPT ![k].started = TRUE] \in Queues
         /\ \A s \in {"none", "queued", "succeeded", "failed"} :
              [queue EXCEPT ![k].status = s] \in Queues
  BY DEF Queues

LEMMA MaintTypes ==
  ASSUME TypeAndFlow
  PROVE  /\ MaintRecovery \/ MaintHistory => TypeAndFlow'
         /\ \A k \in Keys :
              HistoryRead(k) \/ RecoverRead(k) \/ RecoverStarted(k) \/ RecoverCheck(k)
              \/ MaintReadError(k) \/ MaintWriteError(k) => TypeAndFlow'
<1> USE TypeParts
<1>1. ASSUME MaintRecovery PROVE TypeAndFlow'
  <2>1. TaskTypes'
    BY <1>1, StayTypes DEF MaintRecovery
  <2>2. mjob' \in [Keys -> {"none", "recover", "retry", "deliver"}] /\ mphase' = "recovery"
    BY <1>1 DEF MaintRecovery
  <2> QED
    BY <1>1, <2>1, <2>2 DEF MaintRecovery, StoreTypes, schedVars
<1>2. ASSUME MaintHistory PROVE TypeAndFlow'
  <2>1. TaskTypes'
    BY <1>2, StayTypes DEF MaintHistory
  <2>2. mjob' \in [Keys -> {"none", "recover", "retry", "deliver"}] /\ mphase' = "history"
    BY <1>2 DEF MaintHistory
  <2> QED
    BY <1>2, <2>1, <2>2 DEF MaintHistory, StoreTypes, schedVars
<1>3. ASSUME NEW k \in Keys, HistoryRead(k) PROVE TypeAndFlow'
  <2>1. TaskTypes'
    BY <1>3, StayTypes, DecideTypes, ProcFacts, RowFacts DEF HistoryRead, Deciding, StoreTypes
  <2> QED
    BY <1>3, <2>1 DEF HistoryRead, StoreTypes, schedVars
<1>4. ASSUME NEW k \in Keys, RecoverRead(k) PROVE TypeAndFlow'
  <2>0. queue \in Queues
    BY DEF StoreTypes
  <2>1. TaskTypes'
    BY <1>4, StayTypes, DecideTypes, ProcFacts, RowFacts DEF RecoverRead, Deciding
  <2>2. queue' \in Queues
    <3>1. \/ UNCHANGED queue
          \/ \E s \in {"succeeded", "failed"} : queue' = [queue EXCEPT ![k].status = s]
      BY <1>4 DEF RecoverRead
    <3> QED
      BY <2>0, <3>1, QueueUpdates
  <2> QED
    BY <1>4, <2>1, <2>2 DEF RecoverRead, StoreTypes, schedVars
<1>5. ASSUME NEW k \in Keys, RecoverStarted(k) PROVE TypeAndFlow'
  <2>0. queue \in Queues
    BY DEF StoreTypes
  <2>1. TaskTypes'
    BY <1>5, OnlyStepTypes, ProcFacts DEF RecoverStarted, Steps
  <2>2. queue' \in Queues
    BY <2>0, <1>5, QueueUpdates DEF RecoverStarted
  <2> QED
    BY <1>5, <2>1, <2>2 DEF RecoverStarted, StoreTypes, schedVars, maintVars
<1>6. ASSUME NEW k \in Keys, RecoverCheck(k) PROVE TypeAndFlow'
  <2>0. queue \in Queues
    BY DEF StoreTypes
  <2>1. TaskTypes'
    BY <1>6, LeaveTypes, ProcFacts DEF RecoverCheck
  <2>2. queue' \in Queues
    <3>1. queue[k].status \in {"none", "queued", "succeeded", "failed"}
      BY DEF StoreTypes, Queues
    <3>2. \E s \in {"none", "queued", "succeeded", "failed"} : queue' = [queue EXCEPT ![k].status = s]
      BY <1>6, <3>1 DEF RecoverCheck
    <3> QED
      BY <2>0, <3>2, QueueUpdates
  <2> QED
    BY <1>6, <2>1, <2>2 DEF RecoverCheck, StoreTypes, schedVars, maintVars
<1>7. ASSUME NEW k \in Keys, MaintReadError(k) PROVE TypeAndFlow'
  <2>0. queue \in Queues
    BY DEF StoreTypes
  <2>1. TaskTypes'
    BY <1>7, StayTypes DEF MaintReadError
  <2>2. queue' \in Queues
    <3>1. \/ UNCHANGED queue
          \/ queue' = [queue EXCEPT ![k].status = "failed"]
      BY <1>7 DEF MaintReadError
    <3> QED
      BY <2>0, <3>1, QueueUpdates
  <2> QED
    BY <1>7, <2>1, <2>2, MayFailTypes, ProcFacts DEF MaintReadError, StoreTypes, schedVars
<1>8. ASSUME NEW k \in Keys, MaintWriteError(k) PROVE TypeAndFlow'
  <2>1. TaskTypes'
    BY <1>8, LeaveTypes, ProcFacts DEF MaintWriteError
  <2> QED
    BY <1>8, <2>1, MayFailTypes, ProcFacts DEF MaintWriteError, StoreTypes, schedVars, maintVars
<1> QED
  BY <1>1, <1>2, <1>3, <1>4, <1>5, <1>6, <1>7, <1>8

LEMMA RequestTypes ==
  ASSUME TypeAndFlow
  PROVE  /\ QueueFailedSummaries => TypeAndFlow'
         /\ \A u \in Users, k \in Keys : RunNowAsync(u, k) \/ RetryDelivery(u, k) => TypeAndFlow'
<1> USE TypeParts
<1>1. ASSUME QueueFailedSummaries PROVE TypeAndFlow'
  <2>1. TaskTypes'
    BY <1>1, StayTypes DEF QueueFailedSummaries
  <2>2. /\ queue' \in Queues
        /\ used' \in [requests : Nat, faults : Nat, restarts : Nat]
    BY <1>1 DEF QueueFailedSummaries, Request, StoreTypes, Queues
  <2> QED
    BY <1>1, <2>1, <2>2 DEF QueueFailedSummaries, StoreTypes, schedVars, maintVars
<1>2. ASSUME NEW u \in Users, NEW k \in Keys, RunNowAsync(u, k) PROVE TypeAndFlow'
  <2>1. TaskTypes'
    BY <1>2, ProcFacts DEF RunNowAsync, TaskTypes, Goto, DecidedFlow, Steps, Holding, Flows
  <2>2. used' \in [requests : Nat, faults : Nat, restarts : Nat]
    BY <1>2 DEF RunNowAsync, Request, StoreTypes
  <2> QED
    BY <1>2, <2>1, <2>2 DEF RunNowAsync, StoreTypes, schedVars, maintVars
<1>3. ASSUME NEW u \in Users, NEW k \in Keys, RetryDelivery(u, k) PROVE TypeAndFlow'
  <2>1. ItemOf(row[k]) \in Item
    BY RowFacts DEF StoreTypes
  <2>2. TaskTypes'
    BY <1>3, <2>1, ProcFacts DEF RetryDelivery, TaskTypes, Goto, DecidedFlow, Steps, Flows, Deciding
  <2>3. used' \in [requests : Nat, faults : Nat, restarts : Nat]
    BY <1>3 DEF RetryDelivery, Request, StoreTypes
  <2> QED
    BY <1>3, <2>2, <2>3 DEF RetryDelivery, StoreTypes, schedVars, maintVars
<1> QED
  BY <1>1, <1>2, <1>3

LEMMA EnvironmentTypes ==
  ASSUME TypeAndFlow
  PROVE  /\ TimePasses \/ Restart => TypeAndFlow'
         /\ \A k \in Keys : Elapse(k) => TypeAndFlow'
<1> USE TypeParts
<1>1. ASSUME TimePasses PROVE TypeAndFlow'
  <2>1. TaskTypes'
    BY <1>1, StayTypes DEF TimePasses
  <2>2. clock' \in [day : 0..MaxDay, due : BOOLEAN]
    <3>1. CASE clock.due
      <4>1. clock.day \in 0..MaxDay /\ clock.day # MaxDay
        BY <1>1, <3>1 DEF TimePasses, StoreTypes
      <4>2. clock.day + 1 \in 0..MaxDay
        BY <4>1, BoundsAssumption
      <4> QED
        BY <1>1, <3>1, <4>2 DEF TimePasses
    <3>2. CASE ~clock.due
      BY <1>1, <3>2 DEF TimePasses, StoreTypes
    <3> QED
      BY <3>1, <3>2
  <2> QED
    BY <1>1, <2>1, <2>2 DEF TimePasses, StoreTypes, schedVars, maintVars
<1>2. ASSUME Restart PROVE TypeAndFlow'
  <2>1. TaskTypes'
    BY <1>2, RowFacts DEF Restart, TaskTypes, DecidedFlow, Steps, Flows, Outcomes
  <2>2. row' \in [Keys -> Row]
    <3>1. ASSUME NEW k \in Keys
          PROVE  (IF Interrupted(row[k]) THEN [row[k] EXCEPT !.status = "failed", !.next = "due"]
                  ELSE row[k]) \in Row
      BY RowUpdates DEF StoreTypes
    <3> QED
      BY <1>2, <3>1 DEF Restart
  <2>3. used' = [used EXCEPT !.restarts = @ + 1]
    BY <1>2 DEF Restart
  <2>4. used' \in [requests : Nat, faults : Nat, restarts : Nat]
    BY <2>3 DEF StoreTypes
  <2> QED
    BY <1>2, <2>1, <2>2, <2>4 DEF Restart, StoreTypes
<1>3. ASSUME NEW k \in Keys, Elapse(k) PROVE TypeAndFlow'
  <2>1. TaskTypes'
    BY <1>3, StayTypes DEF Elapse
  <2>2. row[k] \in Row /\ row[k].next \in Timers /\ row[k].dnext \in Timers
    BY DEF StoreTypes, Row
  <2> DEFINE n == IF row[k].next = "later" THEN "due" ELSE row[k].next
             d == IF row[k].dnext = "later" THEN "due" ELSE row[k].dnext
  <2>3. [row[k] EXCEPT !.next = n, !.dnext = d] \in Row
    BY <2>2, RowUpdates DEF Timers
  <2>4. row' \in [Keys -> Row]
    BY <1>3, <2>3 DEF Elapse, StoreTypes, WriteRow
  <2> QED
    BY <1>3, <2>1, <2>4 DEF Elapse, StoreTypes, schedVars, maintVars
<1> QED
  BY <1>1, <1>2, <1>3

LEMMA NextTypes == TypeAndFlow /\ [Next]_vars => TypeAndFlow'
<1> SUFFICES ASSUME TypeAndFlow, [Next]_vars PROVE TypeAndFlow'
  OBVIOUS
<1>1. CASE SchedTick \/ \E k \in Keys : SchedRead(k) \/ SchedReadError(k)
  BY <1>1, SchedTypes
<1>2. CASE MaintRecovery \/ MaintHistory
  BY <1>2, MaintTypes
<1>3. CASE \E k \in Keys : HistoryRead(k) \/ RecoverRead(k) \/ RecoverStarted(k) \/ RecoverCheck(k)
                          \/ MaintReadError(k) \/ MaintWriteError(k)
  BY <1>3, MaintTypes
<1>4. CASE \E p \in Procs : Step(p) \/ Fault(p)
  BY <1>4, TaskStepTypes, FaultTypes
<1>5. CASE QueueFailedSummaries \/ \E u \in Users, k \in Keys : RunNowAsync(u, k) \/ RetryDelivery(u, k)
  BY <1>5, RequestTypes
<1>6. CASE TimePasses \/ Restart \/ \E k \in Keys : Elapse(k)
  BY <1>6, EnvironmentTypes
<1>7. CASE UNCHANGED vars
  <2>1. TaskTypes'
    BY <1>7, StayTypes, TypeParts DEF vars
  <2> QED
    BY <1>7, <2>1, TypeParts DEF vars, StoreTypes, schedVars, maintVars
<1> QED
  BY <1>1, <1>2, <1>3, <1>4, <1>5, <1>6, <1>7 DEF Next

\* Every variable keeps its type and every flow that has decided knows what it
\* decided: no handler leaves a flow where no handler continues.
THEOREM Types == Spec => []TypeOK
<1>1. TypeAndFlow => TypeOK
  BY DEF TypeAndFlow
<1> QED
  BY InitTypes, NextTypes, <1>1, PTL DEF Spec
-----------------------------------------------------------------------------
(* Mutual exclusion.  A step either keeps the set of flows inside their task, *)
(* or adds one whose key was free, or removes one together with its key.      *)

LEMMA SameHolders ==
  ASSUME TaskLock, UNCHANGED <<inflight, on>>,
         \A q \in Procs : pc'[q] \in Holding <=> pc[q] \in Holding
  PROVE  TaskLock'
  BY DEF TaskLock, Holds

LEMMA MoveKeepsLock ==
  ASSUME TaskLock, TaskTypes, NEW p \in Procs, NEW step, Goto(p, step), UNCHANGED <<inflight, on>>,
         pc[p] \in Holding <=> step \in Holding
  PROVE  TaskLock'
  BY SameHolders DEF Goto, TaskTypes

LEMMA StayKeepsLock ==
  ASSUME TaskLock, UNCHANGED taskVars, UNCHANGED inflight
  PROVE  TaskLock'
  BY SameHolders DEF taskVars

LEMMA Acquire ==
  ASSUME TaskLock, TaskTypes, NEW p \in Procs, NEW k \in Keys, NEW step \in Holding,
         pc[p] \notin Holding, k \notin inflight,
         pc' = [pc EXCEPT ![p] = step], on' = [on EXCEPT ![p] = k], inflight' = inflight \cup {k}
  PROVE  TaskLock'
<1>1. \A q \in Procs : pc'[q] \in Holding <=> q = p \/ pc[q] \in Holding
  BY DEF TaskTypes
<1>2. \A q \in Procs : pc'[q] \in Holding => on'[q] = IF q = p THEN k ELSE on[q]
  BY DEF TaskTypes
<1>3. inflight = {on[q] : q \in {q \in Procs : pc[q] \in Holding}}
  BY DEF TaskLock, Holds
<1>4. \A q \in Procs : pc[q] \in Holding => on[q] # k
  BY <1>3
<1>5. inflight' = {on'[q] : q \in {q \in Procs : pc'[q] \in Holding}}
  BY <1>1, <1>2, <1>3
<1>6. \A q, r \in Procs : pc'[q] \in Holding /\ pc'[r] \in Holding /\ on'[q] = on'[r] => q = r
  BY <1>1, <1>2, <1>4 DEF TaskLock, Holds
<1> QED
  BY <1>5, <1>6 DEF TaskLock, Holds

LEMMA Release ==
  ASSUME TaskLock, TaskTypes, NEW p \in Procs, NEW step \in Steps \ Holding, pc[p] \in Holding,
         pc' = [pc EXCEPT ![p] = step], UNCHANGED on, inflight' = inflight \ {on[p]}
  PROVE  TaskLock'
<1>1. \A q \in Procs : pc'[q] \in Holding <=> q # p /\ pc[q] \in Holding
  BY DEF TaskTypes
<1>2. inflight = {on[q] : q \in {q \in Procs : pc[q] \in Holding}}
  BY DEF TaskLock, Holds
<1>3. \A q, r \in Procs : pc[q] \in Holding /\ pc[r] \in Holding /\ on[q] = on[r] => q = r
  BY DEF TaskLock, Holds
<1>4. inflight' = {on'[q] : q \in {q \in Procs : pc'[q] \in Holding}}
  BY <1>1, <1>2, <1>3
<1>5. \A q, r \in Procs : pc'[q] \in Holding /\ pc'[r] \in Holding /\ on'[q] = on'[r] => q = r
  BY <1>1, <1>3
<1> QED
  BY <1>4, <1>5 DEF TaskLock, Holds

LEMMA MoveOnGoes ==
  ASSUME NEW p, NEW step, MoveOn(p, step)
  PROVE  Goto(p, step) /\ UNCHANGED on
  BY DEF MoveOn, OnlyStep, Leave

LEMMA AfterTaskFree == \A p \in Procs : AfterTask(p) \in Steps \ Holding
  BY DEF AfterTask, Steps, Holding

LEMMA StepLock ==
  ASSUME TypeAndFlow, TaskLock, NEW p \in Procs, Step(p)
  PROVE  TaskLock'
<1> TaskTypes /\ on[p] \in Keys
  BY TypeParts DEF TaskTypes
<1>1. CASE Begin(p)
  <2>1. CASE Taken(on[p])
    BY <1>1, <2>1, MoveOnGoes, AfterTaskFree, MoveKeepsLock DEF Begin, Holding
  <2>2. CASE ~Taken(on[p])
    <3>1. FirstStep(flow[p]) \in Holding
      BY <1>1, FirstStepStep DEF Begin, TaskTypes, DecidedFlow
    <3>2. /\ pc' = [pc EXCEPT ![p] = FirstStep(flow[p])] /\ on' = [on EXCEPT ![p] = on[p]]
          /\ inflight' = inflight \cup {on[p]}
      BY <1>1, <2>2 DEF Begin, OnlyStep, Goto, TaskTypes
    <3> QED
      BY <1>1, <2>2, <3>1, <3>2, Acquire DEF Begin, Taken, Holding
  <2> QED
    BY <2>1, <2>2
<1>2. CASE UpsertPending(p)
  BY <1>2, MoveKeepsLock DEF UpsertPending, OnlyStep, Holding
<1>3. CASE SetRunning(p)
  BY <1>3, MoveKeepsLock DEF SetRunning, OnlyStep, Holding
<1>4. CASE Generate(p)
  BY <1>4, MoveKeepsLock DEF Generate, Holding
<1>5. CASE SaveResult(p)
  BY <1>5, MoveKeepsLock DEF SaveResult, Holding
<1>6. CASE ScheduleRetry(p)
  BY <1>6, MoveKeepsLock DEF ScheduleRetry, OnlyStep, Holding
<1>7. CASE Reread(p)
  BY <1>7, MoveKeepsLock DEF Reread, Holding
<1>8. CASE Send(p)
  BY <1>8, MoveKeepsLock DEF Send, OnlyStep, Holding
<1>9. CASE MarkDelivered(p)
  BY <1>9, MoveKeepsLock DEF MarkDelivered, OnlyStep, Holding
<1>10. CASE RecordDeliveryFailure(p)
  BY <1>10, MoveKeepsLock DEF RecordDeliveryFailure, OnlyStep, Holding
<1>11. CASE SetFailed(p)
  <2>1. CASE pc[p] = "abandon"
    BY <1>11, <2>1, MoveKeepsLock, MoveOnGoes DEF SetFailed, Holding
  <2>2. CASE pc[p] = "setFailed"
    BY <1>11, <2>2, MoveKeepsLock, MoveOnGoes DEF SetFailed, Holding
  <2> QED
    BY <1>11, <2>1, <2>2 DEF SetFailed
<1>12. CASE Finish(p)
  <2>1. Goto(p, AfterTask(p)) /\ UNCHANGED on
    BY <1>12, MoveOnGoes DEF Finish
  <2> QED
    BY <1>12, <2>1, AfterTaskFree, Release DEF Finish, Goto, Holding
<1> QED
  BY <1>1, <1>2, <1>3, <1>4, <1>5, <1>6, <1>7, <1>8, <1>9, <1>10, <1>11, <1>12 DEF Step

LEMMA FaultLock ==
  ASSUME TypeAndFlow, TaskLock, NEW p \in Procs, Fault(p)
  PROVE  TaskLock'
<1> TaskTypes
  BY TypeParts
<1>1. CASE DbError(p)
  BY <1>1, MoveKeepsLock DEF DbError, ErrorStep, Holding
<1>2. CASE RecordError(p)
  BY <1>2, MoveKeepsLock DEF RecordError, OnlyStep, Holding
<1>3. CASE SettingsError(p)
  BY <1>3, MoveKeepsLock DEF SettingsError, OnlyStep, Holding
<1> QED
  BY <1>1, <1>2, <1>3 DEF Fault

LEMMA DecideGoes ==
  ASSUME NEW p, NEW f, NEW it, Decide(p, f, it)
  PROVE  Goto(p, "decided") /\ UNCHANGED on
  BY DEF Decide

LEMMA LoopLock ==
  ASSUME TypeAndFlow, TaskLock, NEW k \in Keys,
         \/ SchedRead(k) \/ SchedReadError(k) \/ HistoryRead(k) \/ RecoverRead(k) \/ RecoverStarted(k)
         \/ RecoverCheck(k) \/ MaintReadError(k) \/ MaintWriteError(k)
  PROVE  TaskLock'
<1> TaskTypes
  BY TypeParts
<1> Sched(k) \in Procs /\ Maint(k) \in Procs
  BY ProcFacts
<1>1. CASE HistoryRead(k)
  BY <1>1, MoveKeepsLock, StayKeepsLock, DecideGoes DEF HistoryRead, Holding
<1>2. CASE RecoverRead(k)
  BY <1>2, MoveKeepsLock, StayKeepsLock, DecideGoes DEF RecoverRead, Holding
<1>3. CASE RecoverStarted(k)
  BY <1>3, MoveKeepsLock DEF RecoverStarted, OnlyStep, Holding
<1>4. CASE RecoverCheck(k)
  BY <1>4, MoveKeepsLock DEF RecoverCheck, Leave, Holding
<1>5. CASE MaintWriteError(k)
  BY <1>5, MoveKeepsLock DEF MaintWriteError, Leave, Holding
<1>6. CASE SchedReadError(k) \/ MaintReadError(k)
  BY <1>6, StayKeepsLock DEF SchedReadError, MaintReadError
<1>7. CASE SchedRead(k)
  BY <1>7, MoveKeepsLock, StayKeepsLock, DecideGoes DEF SchedRead, Holding
<1> QED
  BY <1>1, <1>2, <1>3, <1>4, <1>5, <1>6, <1>7

LEMMA RequestLock ==
  ASSUME TypeAndFlow, TaskLock, NEW u \in Users, NEW k \in Keys, RunNowAsync(u, k) \/ RetryDelivery(u, k)
  PROVE  TaskLock'
<1> DEFINE p == <<"user", u>>
<1> p \in Procs /\ TaskTypes
  BY ProcFacts, TypeParts
<1>1. CASE RunNowAsync(u, k)
  <2>1. pc[p] = "idle" /\ k \notin inflight
    BY <1>1 DEF RunNowAsync, Request, Taken
  <2>2. pc' = [pc EXCEPT ![p] = "pending"] /\ on' = [on EXCEPT ![p] = k] /\ inflight' = inflight \cup {k}
    BY <1>1 DEF RunNowAsync, Goto
  <2> QED
    BY <2>1, <2>2, Acquire DEF Holding
<1>2. CASE RetryDelivery(u, k)
  <2>1. pc[p] = "idle" /\ UNCHANGED inflight
    BY <1>2 DEF RetryDelivery, Request
  <2>2. pc' = [pc EXCEPT ![p] = "decided"] /\ on' = [on EXCEPT ![p] = k]
    BY <1>2 DEF RetryDelivery, Goto
  <2>3. \A q \in Procs : /\ pc'[q] \in Holding <=> pc[q] \in Holding
                         /\ pc[q] \in Holding => on'[q] = on[q]
    BY <2>1, <2>2 DEF TaskTypes, Holding
  <2> QED
    BY <2>1, <2>3 DEF TaskLock, Holds
<1> QED
  BY <1>1, <1>2

LEMMA OtherLock ==
  ASSUME TypeAndFlow, TaskLock,
         \/ SchedTick \/ MaintRecovery \/ MaintHistory \/ QueueFailedSummaries
         \/ TimePasses \/ Restart \/ UNCHANGED vars \/ \E k \in Keys : Elapse(k)
  PROVE  TaskLock'
<1>1. CASE Restart
  BY <1>1 DEF Restart, TaskLock, Holds, Holding
<1>2. CASE SchedTick \/ MaintRecovery \/ MaintHistory \/ QueueFailedSummaries \/ TimePasses \/ UNCHANGED vars
  BY <1>2, StayKeepsLock DEF SchedTick, MaintRecovery, MaintHistory, QueueFailedSummaries, TimePasses, vars
<1>3. CASE \E k \in Keys : Elapse(k)
  BY <1>3, StayKeepsLock DEF Elapse
<1> QED
  BY <1>1, <1>2, <1>3

LEMMA NextLock == TypeAndFlow /\ TaskLock /\ [Next]_vars => TaskLock'
<1> SUFFICES ASSUME TypeAndFlow, TaskLock, [Next]_vars PROVE TaskLock'
  OBVIOUS
<1>1. CASE \E p \in Procs : Step(p) \/ Fault(p)
  BY <1>1, StepLock, FaultLock
<1>2. CASE \E k \in Keys : \/ SchedRead(k) \/ HistoryRead(k) \/ RecoverRead(k) \/ RecoverStarted(k)
                           \/ RecoverCheck(k) \/ SchedReadError(k) \/ MaintReadError(k) \/ MaintWriteError(k)
  BY <1>2, LoopLock
<1>3. CASE \E u \in Users, k \in Keys : RunNowAsync(u, k) \/ RetryDelivery(u, k)
  BY <1>3, RequestLock
<1>4. CASE \/ SchedTick \/ MaintRecovery \/ MaintHistory \/ QueueFailedSummaries
           \/ TimePasses \/ Restart \/ UNCHANGED vars \/ \E k \in Keys : Elapse(k)
  BY <1>4, OtherLock
<1> QED
  BY <1>1, <1>2, <1>3, <1>4 DEF Next

LEMMA InitLock == Init => TaskLock
  BY DEF Init, TaskLock, Holds, Holding

\* beginTask and finishTask exclude each other for every number of chats,
\* requests, faults and restarts: one flow at most is inside the task of a key,
\* and the in-memory set holds exactly the keys that have one.
THEOREM MutualExclusion == Spec => []TaskLock
<1>1. TypeAndFlow /\ TaskLock /\ [Next]_vars => (TypeAndFlow /\ TaskLock)'
  BY NextTypes, NextLock
<1> QED
  BY InitTypes, InitLock, <1>1, PTL DEF Spec

-----------------------------------------------------------------------------
(* The number of retries.  A flow owes a retry between its decision and        *)
(* SetRetryRunning; the count and the retries owed for a key stay together     *)
(* within the limit and one.                                                   *)

RetryPending(p) == flow[p] \in RetryFlows /\ pc[p] \in {"decided", "running"}
SchedOwes(k) == RetryPending(Sched(k))
MaintOwes(k) == RetryPending(Maint(k)) \/ mjob[k] = "retry"

RetryBudget ==
  \A k \in Keys :
    /\ row[k].retry <= Limit + 1
    /\ SchedOwes(k) \/ MaintOwes(k) => row[k].retry <= Limit
    /\ SchedOwes(k) /\ MaintOwes(k) => row[k].retry < Limit

\* Who retries: never a request of a user, never a flow that starts from a
\* pending row, and the maintenance loop selects no key it still works on.
RetryFacts ==
  /\ \A u \in Users : flow[<<"user", u>>] \notin RetryFlows
  /\ \A p \in Procs : pc[p] = "pending" => flow[p] \notin RetryFlows
  /\ \A k \in Keys : mjob[k] # "none" => pc[Maint(k)] = "idle"

LEMMA MoveFacts ==
  ASSUME TaskTypes, RetryFacts, NEW p \in Procs, NEW step \in Steps, Goto(p, step), UNCHANGED mjob,
         flow' = flow \/ flow' = [flow EXCEPT ![p] = "none"],
         pc[p] # "idle", step = "pending" => flow[p] \notin RetryFlows
  PROVE  RetryFacts'
<1>1. \A u \in Users : flow'[<<"user", u>>] \notin RetryFlows
  BY ZenonT(30) DEF RetryFacts, TaskTypes, RetryFlows, Procs
<1>2. \A q \in Procs : pc'[q] = "pending" => flow'[q] \notin RetryFlows
  BY DEF RetryFacts, TaskTypes, Goto, RetryFlows
<1>3. ASSUME NEW k \in Keys, mjob'[k] # "none" PROVE pc'[Maint(k)] = "idle"
  BY <1>3, ProcFacts DEF RetryFacts, TaskTypes, Goto
<1> QED
  BY <1>1, <1>2, <1>3 DEF RetryFacts

LEMMA NoNewDebt ==
  ASSUME StoreTypes, row' \in [Keys -> Row], RetryBudget,
         \A k \in Keys : /\ row'[k].retry <= row[k].retry
                         /\ SchedOwes(k)' => SchedOwes(k)
                         /\ MaintOwes(k)' => MaintOwes(k)
  PROVE  RetryBudget'
<1>1. \A k \in Keys : row[k].retry \in Nat /\ row'[k].retry \in Nat
  BY DEF StoreTypes, Row
<1> QED
  BY <1>1, BoundsAssumption DEF RetryBudget

LEMMA MoveNoDebt ==
  ASSUME TypeAndFlow, StoreTypes', RetryBudget, NEW p \in Procs, NEW step \in Steps, Goto(p, step),
         flow' = flow \/ flow' = [flow EXCEPT ![p] = "none"], UNCHANGED mjob,
         step \in {"decided", "running"} => RetryPending(p) \/ flow[p] \notin RetryFlows,
         \A k \in Keys : row'[k].retry <= row[k].retry
  PROVE  RetryBudget'
<1> TaskTypes /\ StoreTypes
  BY TypeParts
<1>1. \A q \in Procs : RetryPending(q)' => RetryPending(q)
  BY DEF TaskTypes, Goto, RetryPending, RetryFlows
<1>2. \A k \in Keys : (SchedOwes(k)' => SchedOwes(k)) /\ (MaintOwes(k)' => MaintOwes(k))
  BY <1>1, ProcFacts DEF SchedOwes, MaintOwes
<1> QED
  BY <1>2, NoNewDebt DEF StoreTypes

LEMMA WriteKeepsCount ==
  ASSUME StoreTypes, NEW k \in Keys, NEW r \in Row, r.retry = row[k].retry \/ r.retry = 0,
         WriteRow(k, r) \/ UNCHANGED row
  PROVE  \A j \in Keys : row'[j].retry <= row[j].retry
<1>1. \A j \in Keys : row[j].retry \in Nat
  BY DEF StoreTypes, Row
<1> QED
  BY <1>1 DEF StoreTypes, WriteRow

LEMMA SameCount ==
  ASSUME StoreTypes, UNCHANGED row
  PROVE  \A j \in Keys : row'[j].retry <= row[j].retry
  BY DEF StoreTypes, Row

\* SetRetryRunning pays the retry its flow owed.
LEMMA RetryPaid ==
  ASSUME TypeAndFlow, StoreTypes', RetryFacts, RetryBudget, NEW p \in Procs, SetRunning(p)
  PROVE  RetryBudget'
<1> TaskTypes /\ StoreTypes
  BY TypeParts
<1> PICK k \in Keys : k = on[p]
  BY DEF TaskTypes
<1>1. row' = [row EXCEPT ![k] = [row[k] EXCEPT !.status = "running", !.next = None,
                                               !.retry = Attempt(row[k], flow[p])]]
  BY DEF SetRunning, WriteRow
<1>2. row[k] \in Row /\ row[k].retry \in Nat
  BY DEF StoreTypes, Row
<1>3. \A j \in Keys : row'[j].retry = IF j = k THEN Attempt(row[k], flow[p]) ELSE row[j].retry
  BY <1>1, <1>2 DEF StoreTypes, Row
<1>4. Goto(p, "generate") /\ flow' = flow /\ UNCHANGED mjob /\ pc[p] = "running"
  BY DEF SetRunning, OnlyStep, maintVars
<1>5. CASE flow[p] \notin RetryFlows
  <2> \A j \in Keys : row[j].retry \in Nat
    BY DEF StoreTypes, Row
  <2>1. \A j \in Keys : row'[j].retry <= row[j].retry
    BY <1>3, <1>5 DEF Attempt
  <2> QED
    BY <1>4, <2>1, MoveNoDebt DEF Steps, Holding
<1>6. CASE flow[p] \in RetryFlows
  <2>1. p = Sched(k) \/ p = Maint(k)
    <3>1. \A u \in Users : p # <<"user", u>>
      BY <1>6 DEF RetryFacts
    <3>2. PICK j \in Keys : p = Sched(j) \/ p = Maint(j)
      BY <3>1 DEF Procs, Sched, Maint
    <3> QED
      BY <3>2 DEF TaskTypes
  <2>2. RetryPending(p) /\ ~RetryPending(p)'
    BY <1>4, <1>6 DEF RetryPending, Goto, TaskTypes
  <2>3. \A q \in Procs : q # p => (RetryPending(q)' <=> RetryPending(q))
    BY <1>4 DEF RetryPending, Goto, TaskTypes
  <2>4. \A j \in Keys : j # k => /\ SchedOwes(j)' <=> SchedOwes(j)
                                 /\ MaintOwes(j)' <=> MaintOwes(j)
                                 /\ row'[j].retry = row[j].retry
    BY <1>3, <1>4, <2>1, <2>3, ProcFacts DEF SchedOwes, MaintOwes
  <2>5. row'[k].retry = row[k].retry + 1
    BY <1>3, <1>6 DEF Attempt
  <2>6. CASE p = Sched(k)
    <3>1. SchedOwes(k) /\ ~SchedOwes(k)' /\ (MaintOwes(k)' <=> MaintOwes(k))
      BY <1>4, <2>2, <2>3, <2>6, ProcFacts DEF SchedOwes, MaintOwes
    <3>2. row'[k].retry <= Limit + 1 /\ (MaintOwes(k)' => row'[k].retry <= Limit)
      BY <1>2, <2>5, <3>1, BoundsAssumption DEF RetryBudget
    <3> QED
      BY <2>4, <3>1, <3>2 DEF RetryBudget
  <2>7. CASE p = Maint(k)
    <3>1. mjob[k] # "retry"
      BY <1>4, <2>7 DEF RetryFacts
    <3>2. MaintOwes(k) /\ ~MaintOwes(k)' /\ (SchedOwes(k)' <=> SchedOwes(k))
      BY <1>4, <2>2, <2>3, <2>7, <3>1, ProcFacts DEF SchedOwes, MaintOwes
    <3>3. row'[k].retry <= Limit + 1 /\ (SchedOwes(k)' => row'[k].retry <= Limit)
      BY <1>2, <2>5, <3>2, BoundsAssumption DEF RetryBudget
    <3> QED
      BY <2>4, <3>2, <3>3 DEF RetryBudget
  <2> QED
    BY <2>1, <2>6, <2>7
<1> QED
  BY <1>5, <1>6

RetryInv == RetryFacts /\ RetryBudget

LEMMA MoveRetry ==
  ASSUME TypeAndFlow, StoreTypes', RetryInv, NEW p \in Procs, NEW step \in Steps, Goto(p, step),
         flow' = flow \/ flow' = [flow EXCEPT ![p] = "none"], UNCHANGED mjob, pc[p] # "idle",
         step = "pending" => flow[p] \notin RetryFlows,
         step \in {"decided", "running"} => RetryPending(p) \/ flow[p] \notin RetryFlows,
         \A k \in Keys : row'[k].retry <= row[k].retry
  PROVE  RetryInv'
  BY MoveFacts, MoveNoDebt, TypeParts DEF RetryInv

LEMMA MoveOnFlow ==
  ASSUME NEW p, NEW step, MoveOn(p, step)
  PROVE  Goto(p, step) /\ (flow' = flow \/ flow' = [flow EXCEPT ![p] = "none"])
  BY DEF MoveOn, OnlyStep, Leave

LEMMA StepRetry ==
  ASSUME TypeAndFlow, RetryInv, NEW p \in Procs, Step(p)
  PROVE  RetryInv'
<1> TaskTypes /\ StoreTypes /\ on[p] \in Keys /\ row[on[p]] \in Row
  BY TypeParts DEF TaskTypes, StoreTypes
<1> StoreTypes'
  BY TaskStepTypes, TypeParts
<1>1. CASE Begin(p)
  <2>1. UNCHANGED mjob /\ \A k \in Keys : row'[k].retry <= row[k].retry
    BY <1>1, SameCount DEF Begin, maintVars
  <2>2. CASE Taken(on[p])
    <3>1. AfterTask(p) \in Steps \ {"pending", "decided", "running"}
      BY DEF AfterTask, Steps
    <3> QED
      BY <1>1, <2>1, <2>2, <3>1, MoveOnFlow, MoveRetry DEF Begin
  <2>3. CASE ~Taken(on[p])
    <3>1. flow[p] \in Deciding
      BY <1>1 DEF Begin, TaskTypes, DecidedFlow
    <3>2. /\ FirstStep(flow[p]) = "pending" => flow[p] \notin RetryFlows
          /\ FirstStep(flow[p]) \in {"decided", "running"} => flow[p] \in RetryFlows
          /\ FirstStep(flow[p]) \in Steps
      BY <3>1 DEF FirstStep, Deciding, RetryFlows, Steps, Holding
    <3> QED
      BY <1>1, <2>1, <2>3, <3>2, MoveRetry DEF Begin, OnlyStep, RetryPending
  <2> QED
    BY <2>2, <2>3
<1>2. CASE UpsertPending(p)
  <2>1. \A k \in Keys : row'[k].retry <= row[k].retry
    BY <1>2, SameCount, WriteKeepsCount, RowUpdates DEF UpsertPending, NoRow
  <2> QED
    BY <1>2, <2>1, MoveRetry DEF UpsertPending, OnlyStep, maintVars, RetryInv, RetryFacts, Steps, Holding
<1>3. CASE SetRunning(p)
  <2>1. RetryFacts'
    BY <1>3, MoveFacts DEF SetRunning, OnlyStep, maintVars, RetryInv, Steps, Holding
  <2> QED
    BY <1>3, <2>1, RetryPaid DEF RetryInv
<1>4. CASE Generate(p)
  BY <1>4, SameCount, MoveRetry DEF Generate, maintVars, Steps, Holding
<1>5. CASE SaveResult(p)
  <2>1. \A k \in Keys : row'[k].retry <= row[k].retry
    <3>1. (outcome[p] = "ok") \in BOOLEAN /\ stamp[p] \in BOOLEAN
      BY DEF TaskTypes
    <3>2. \A ok, ready \in BOOLEAN : LET r == Saved(row[on[p]], ok, ready)
                                     IN  r \in Row /\ (r.retry = row[on[p]].retry \/ r.retry = 0)
      BY RowUpdates DEF Saved, NoRow
    <3> QED
      BY <1>5, <3>1, <3>2, WriteKeepsCount DEF SaveResult
  <2>2. PICK step \in {"reread", "schedule", "finish"} : Goto(p, step)
    BY <1>5 DEF SaveResult
  <2> QED
    BY <1>5, <2>1, <2>2, MoveRetry DEF SaveResult, maintVars, Steps, Holding
<1>6. CASE ScheduleRetry(p)
  <2>1. \A k \in Keys : row'[k].retry <= row[k].retry
    <3>1. [row[on[p]] EXCEPT !.next = "later"].retry = row[on[p]].retry
      BY DEF Row
    <3> QED
      BY <1>6, <3>1, SameCount, WriteKeepsCount, RowUpdates DEF ScheduleRetry
  <2> QED
    BY <1>6, <2>1, MoveRetry DEF ScheduleRetry, OnlyStep, maintVars, Steps, Holding
<1>7. CASE Reread(p)
  BY <1>7, SameCount, MoveRetry DEF Reread, maintVars, Steps, Holding
<1>8. CASE Send(p)
  BY <1>8, SameCount, MoveRetry DEF Send, OnlyStep, maintVars, Steps, Holding
<1>9. CASE MarkDelivered(p)
  <2>1. \A k \in Keys : row'[k].retry <= row[k].retry
    <3>1. [row[on[p]] EXCEPT !.delivered = TRUE, !.dretry = 0, !.dnext = None].retry = row[on[p]].retry
      BY DEF Row
    <3> QED
      BY <1>9, <3>1, WriteKeepsCount, RowUpdates DEF MarkDelivered
  <2> QED
    BY <1>9, <2>1, MoveRetry DEF MarkDelivered, OnlyStep, maintVars, Steps, Holding
<1>10. CASE RecordDeliveryFailure(p)
  <2>1. \A k \in Keys : row'[k].retry <= row[k].retry
    BY <1>10 DEF RecordDeliveryFailure, WriteRow, StoreTypes, Row
  <2> QED
    BY <1>10, <2>1, MoveRetry DEF RecordDeliveryFailure, OnlyStep, maintVars, Steps, Holding
<1>11. CASE SetFailed(p)
  <2>1. \A k \in Keys : row'[k].retry <= row[k].retry
    <3>1. [row[on[p]] EXCEPT !.status = "failed", !.next = None].retry = row[on[p]].retry
      BY DEF Row
    <3> QED
      BY <1>11, <3>1, WriteKeepsCount, RowUpdates DEF SetFailed
  <2>2. PICK step \in {"finish", "recFailed", "idle"} : MoveOn(p, step)
    BY <1>11 DEF SetFailed
  <2> QED
    BY <1>11, <2>1, <2>2, MoveOnFlow, MoveRetry DEF SetFailed, maintVars, Steps, Holding
<1>12. CASE Finish(p)
  <2>1. AfterTask(p) \in Steps \ {"pending", "decided", "running"}
    BY DEF AfterTask, Steps
  <2> QED
    BY <1>12, <2>1, SameCount, MoveOnFlow, MoveRetry DEF Finish, maintVars
<1> QED
  BY <1>1, <1>2, <1>3, <1>4, <1>5, <1>6, <1>7, <1>8, <1>9, <1>10, <1>11, <1>12 DEF Step

LEMMA FaultRetry ==
  ASSUME TypeAndFlow, RetryInv, NEW p \in Procs, Fault(p)
  PROVE  RetryInv'
<1> TaskTypes /\ StoreTypes /\ on[p] \in Keys /\ row[on[p]] \in Row
  BY TypeParts DEF TaskTypes, StoreTypes
<1> StoreTypes'
  BY FaultTypes, TypeParts
<1>1. CASE DbError(p)
  <2>1. PICK step \in {"finish", "abandon"} : Goto(p, step)
    BY <1>1 DEF DbError, ErrorStep
  <2> QED
    BY <1>1, <2>1, SameCount, MoveRetry DEF DbError, maintVars, Steps, Holding
<1>2. CASE RecordError(p)
  BY <1>2, SameCount, MoveRetry DEF RecordError, OnlyStep, maintVars, Steps, Holding
<1>3. CASE SettingsError(p)
  <2>1. \A k \in Keys : row'[k].retry <= row[k].retry
    <3>1. [row[on[p]] EXCEPT !.delivered = FALSE].retry = row[on[p]].retry
      BY DEF Row
    <3> QED
      BY <1>3, <3>1, SameCount, WriteKeepsCount, RowUpdates DEF SettingsError
  <2> QED
    BY <1>3, <2>1, MoveRetry DEF SettingsError, OnlyStep, maintVars, Steps, Holding
<1> QED
  BY <1>1, <1>2, <1>3 DEF Fault

\* runOnce decides on a retry while the count is below the limit.
LEMMA SchedRetry ==
  ASSUME TypeAndFlow, RetryInv, NEW k \in Keys, SchedRead(k) \/ SchedReadError(k)
  PROVE  RetryInv'
<1> DEFINE p == Sched(k)
<1> TaskTypes /\ StoreTypes /\ p \in Procs
  BY TypeParts, ProcFacts
<1>1. StoreTypes' /\ UNCHANGED <<row, mjob>>
  BY SchedTypes, TypeParts DEF SchedRead, SchedReadError, maintVars
<1>2. CASE UNCHANGED taskVars
  <2>1. RetryFacts'
    BY <1>1, <1>2 DEF RetryInv, RetryFacts, taskVars
  <2>2. RetryBudget'
    BY <1>1, <1>2 DEF RetryInv, RetryBudget, SchedOwes, MaintOwes, RetryPending, taskVars
  <2> QED
    BY <2>1, <2>2 DEF RetryInv
<1>3. ASSUME NEW f \in Deciding, NEW it, Decide(p, f, it), pc[p] = "idle",
             f \in RetryFlows => row[k].retry < Limit
      PROVE  RetryInv'
  <2>1. /\ \A q \in Procs : q # p => pc'[q] = pc[q] /\ flow'[q] = flow[q]
        /\ pc'[p] = "decided" /\ flow'[p] = f
    BY <1>3 DEF Decide, Goto, TaskTypes
  <2>2. \A q \in Procs : q # p => (RetryPending(q)' <=> RetryPending(q))
    BY <2>1 DEF RetryPending
  <2>3. \A j \in Keys : MaintOwes(j)' <=> MaintOwes(j)
    BY <1>1, <2>2, ProcFacts DEF MaintOwes
  <2>4. \A j \in Keys : j # k => (SchedOwes(j)' <=> SchedOwes(j))
    BY <2>2, ProcFacts DEF SchedOwes
  <2>5. SchedOwes(k)' => row[k].retry < Limit
    BY <1>3, <2>1 DEF SchedOwes, RetryPending
  <2>6. RetryBudget'
    BY <1>1, <2>3, <2>4, <2>5, BoundsAssumption DEF RetryBudget, RetryInv, StoreTypes, Row
  <2>7. RetryFacts'
    BY <1>1, <2>1, ProcFacts DEF RetryInv, RetryFacts
  <2> QED
    BY <2>6, <2>7 DEF RetryInv
<1>4. CASE SchedRead(k)
  <2>1. PICK day \in 0..MaxDay :
          LET f == ScheduledAction(k, row[k], day)
          IN  IF f = "none" THEN UNCHANGED taskVars
              ELSE Decide(Sched(k), f, IF f = "schedDeliver" THEN ItemOf(row[k]) ELSE NoItem)
    BY <1>4 DEF SchedRead
  <2>2. /\ ScheduledAction(k, row[k], day) \in {"none"} \cup Deciding
        /\ ScheduledAction(k, row[k], day) \in RetryFlows => row[k].retry < Limit
    BY DEF ScheduledAction, Deciding, RetryFlows, RetryDue, StoreTypes, Row, Status
  <2>3. pc[p] = "idle"
    BY <1>4 DEF SchedRead
  <2> QED
    BY <1>2, <1>3, <2>1, <2>2, <2>3
<1>5. CASE SchedReadError(k)
  BY <1>2, <1>5 DEF SchedReadError
<1> QED
  BY <1>4, <1>5

\* A flow of the maintenance loop decides on a retry that was counted when its
\* key was selected, or, for an item of the batch, while the count is below the limit.
LEMMA MaintRetry ==
  ASSUME TypeAndFlow, RetryInv, NEW k \in Keys,
         \/ HistoryRead(k) \/ RecoverRead(k) \/ RecoverStarted(k) \/ RecoverCheck(k)
         \/ MaintReadError(k) \/ MaintWriteError(k)
  PROVE  RetryInv'
<1> DEFINE p == Maint(k)
<1> TaskTypes /\ StoreTypes /\ p \in Procs
  BY TypeParts, ProcFacts
<1>1. StoreTypes' /\ UNCHANGED row
  BY MaintTypes, TypeParts
  DEF HistoryRead, RecoverRead, RecoverStarted, RecoverCheck, MaintReadError, MaintWriteError
<1>2. ASSUME UNCHANGED taskVars, mjob' = [mjob EXCEPT ![k] = "none"]
      PROVE  RetryInv'
  <2>1. \A j \in Keys : /\ mjob'[j] # "none" => mjob'[j] = mjob[j]
                        /\ SchedOwes(j)' <=> SchedOwes(j)
                        /\ MaintOwes(j)' => MaintOwes(j)
    BY <1>2 DEF SchedOwes, MaintOwes, RetryPending, taskVars, StoreTypes
  <2>2. RetryFacts'
    BY <1>2, <2>1 DEF RetryInv, RetryFacts, taskVars
  <2> QED
    BY <1>1, <2>1, <2>2, NoNewDebt, SameCount DEF RetryInv, StoreTypes
<1>3. ASSUME NEW f \in Deciding, NEW it, Decide(p, f, it), mjob' = [mjob EXCEPT ![k] = "none"],
             f \in RetryFlows => mjob[k] = "retry" \/ row[k].retry < Limit
      PROVE  RetryInv'
  <2>1. /\ \A q \in Procs : q # p => pc'[q] = pc[q] /\ flow'[q] = flow[q]
        /\ pc'[p] = "decided" /\ flow'[p] = f
    BY <1>3 DEF Decide, Goto, TaskTypes
  <2>2. \A q \in Procs : q # p => (RetryPending(q)' <=> RetryPending(q))
    BY <2>1 DEF RetryPending
  <2>3. \A j \in Keys : SchedOwes(j)' <=> SchedOwes(j)
    BY <2>2, ProcFacts DEF SchedOwes
  <2>4. \A j \in Keys : j # k => (MaintOwes(j)' <=> MaintOwes(j))
    BY <1>3, <2>2, ProcFacts DEF MaintOwes, StoreTypes
  <2>5. MaintOwes(k)' => MaintOwes(k) \/ row[k].retry < Limit
    BY <1>3, <2>1 DEF MaintOwes, RetryPending, StoreTypes
  <2>6. RetryBudget'
    BY <1>1, <2>3, <2>4, <2>5, BoundsAssumption DEF RetryBudget, RetryInv, StoreTypes, Row
  <2>7. RetryFacts'
    BY <1>3, <2>1, ProcFacts DEF RetryInv, RetryFacts, StoreTypes
  <2> QED
    BY <2>6, <2>7 DEF RetryInv
<1>4. CASE HistoryRead(k)
  BY <1>2, <1>3, <1>4 DEF HistoryRead, Deciding, RetryFlows
<1>5. CASE RecoverRead(k)
  <2>1. row[k].retry \in Nat /\ (~Exhausted(row[k]) => row[k].retry < Limit)
    BY BoundsAssumption DEF Exhausted, StoreTypes, Row
  <2> QED
    BY <1>2, <1>3, <1>5, <2>1 DEF RecoverRead, Deciding, RetryFlows
<1>6. CASE MaintReadError(k)
  BY <1>2, <1>6 DEF MaintReadError
<1>7. CASE RecoverStarted(k)
  BY <1>1, <1>7, SameCount, MoveRetry DEF RecoverStarted, OnlyStep, maintVars, Steps
<1>8. CASE RecoverCheck(k)
  BY <1>1, <1>8, SameCount, MoveRetry DEF RecoverCheck, Leave, maintVars, Steps
<1>9. CASE MaintWriteError(k)
  BY <1>1, <1>9, SameCount, MoveRetry DEF MaintWriteError, Leave, maintVars, Steps
<1> QED
  BY <1>4, <1>5, <1>6, <1>7, <1>8, <1>9

\* HistoricalRetries selects only failures that are below the limit.
LEMMA SelectRetry ==
  ASSUME TypeAndFlow, RetryInv, MaintRecovery \/ MaintHistory
  PROVE  RetryInv'
<1> StoreTypes /\ TaskTypes
  BY TypeParts
<1>1. UNCHANGED <<row, pc, flow>> /\ \A k \in Keys : pc[Maint(k)] = "idle"
  BY DEF MaintRecovery, MaintHistory, MaintIdle, taskVars
<1>2. \A k \in Keys : mjob'[k] = "retry" => row[k].retry < Limit
  BY DEF MaintRecovery, MaintHistory, Pick, Historical, RetryDue
<1>3. \A k \in Keys : /\ SchedOwes(k)' <=> SchedOwes(k)
                      /\ MaintOwes(k)' => mjob'[k] = "retry"
  BY <1>1 DEF SchedOwes, MaintOwes, RetryPending
<1>4. RetryBudget'
  BY <1>1, <1>2, <1>3, BoundsAssumption DEF RetryBudget, RetryInv, StoreTypes, Row
<1> QED
  BY <1>1, <1>4 DEF RetryInv, RetryFacts

LEMMA RequestRetry ==
  ASSUME TypeAndFlow, RetryInv, NEW u \in Users, NEW k \in Keys, RunNowAsync(u, k) \/ RetryDelivery(u, k)
  PROVE  RetryInv'
<1> DEFINE p == <<"user", u>>
<1> TaskTypes /\ StoreTypes /\ p \in Procs
  BY TypeParts, ProcFacts
<1>1. UNCHANGED <<row, mjob>>
  BY DEF RunNowAsync, RetryDelivery, maintVars
<1>2. /\ \A q \in Procs : q # p => pc'[q] = pc[q] /\ flow'[q] = flow[q]
      /\ flow'[p] \in {"userGenerate", "userDeliver"}
  BY DEF RunNowAsync, RetryDelivery, Goto, TaskTypes
<1>3. \A j \in Keys : (SchedOwes(j)' <=> SchedOwes(j)) /\ (MaintOwes(j)' <=> MaintOwes(j))
  BY <1>1, <1>2, ProcFacts DEF SchedOwes, MaintOwes, RetryPending
<1>4. RetryBudget'
  BY <1>1, <1>3 DEF RetryBudget, RetryInv
<1>5. RetryFacts'
  BY <1>1, <1>2, ProcFacts DEF RetryInv, RetryFacts, RetryFlows
<1> QED
  BY <1>4, <1>5 DEF RetryInv

LEMMA OtherRetry ==
  ASSUME TypeAndFlow, RetryInv,
         \/ SchedTick \/ QueueFailedSummaries \/ TimePasses \/ Restart \/ UNCHANGED vars
         \/ \E k \in Keys : Elapse(k)
  PROVE  RetryInv'
<1> TaskTypes /\ StoreTypes
  BY TypeParts
<1>1. CASE Restart
  <2>1. \A k \in Keys : row'[k].retry = row[k].retry
    BY <1>1, ZenonT(30) DEF Restart, StoreTypes, Row
  <2>2. \A k \in Keys : ~SchedOwes(k)' /\ ~MaintOwes(k)'
    BY <1>1, ProcFacts DEF Restart, SchedOwes, MaintOwes, RetryPending, RetryFlows
  <2>3. RetryFacts'
    BY <1>1 DEF Restart, RetryFacts, RetryFlows, Procs
  <2> QED
    BY <2>1, <2>2, <2>3 DEF RetryInv, RetryBudget
<1>2. CASE UNCHANGED <<taskVars, mjob>> /\ \A k \in Keys : row'[k].retry = row[k].retry
  BY <1>2 DEF RetryInv, RetryFacts, RetryBudget, SchedOwes, MaintOwes, RetryPending, taskVars
<1>3. CASE SchedTick \/ QueueFailedSummaries \/ TimePasses \/ UNCHANGED vars
  BY <1>2, <1>3 DEF SchedTick, QueueFailedSummaries, TimePasses, vars, maintVars
<1>4. ASSUME NEW k \in Keys, Elapse(k) PROVE RetryInv'
  <2>1. \A j \in Keys : row'[j].retry = row[j].retry
    <3> DEFINE n == IF row[k].next = "later" THEN "due" ELSE row[k].next
               d == IF row[k].dnext = "later" THEN "due" ELSE row[k].dnext
               r == [row[k] EXCEPT !.next = n, !.dnext = d]
    <3>1. row' = [row EXCEPT ![k] = r]
      BY <1>4 DEF Elapse, WriteRow
    <3>2. r.retry = row[k].retry
      BY DEF StoreTypes, Row
    <3> HIDE DEF r
    <3> QED
      BY <3>1, <3>2 DEF StoreTypes
  <2> QED
    BY <1>2, <1>4, <2>1 DEF Elapse, maintVars
<1> QED
  BY <1>1, <1>3, <1>4

LEMMA NextRetry == TypeAndFlow /\ RetryInv /\ [Next]_vars => RetryInv'
<1> SUFFICES ASSUME TypeAndFlow, RetryInv, [Next]_vars PROVE RetryInv'
  OBVIOUS
<1>1. CASE \E p \in Procs : Step(p) \/ Fault(p)
  BY <1>1, StepRetry, FaultRetry
<1>2. CASE \E k \in Keys : SchedRead(k) \/ SchedReadError(k)
  BY <1>2, SchedRetry
<1>3. CASE \E k \in Keys : \/ HistoryRead(k) \/ RecoverRead(k) \/ RecoverStarted(k)
                           \/ RecoverCheck(k) \/ MaintReadError(k) \/ MaintWriteError(k)
  BY <1>3, MaintRetry
<1>4. CASE MaintRecovery \/ MaintHistory
  BY <1>4, SelectRetry
<1>5. CASE \E u \in Users, k \in Keys : RunNowAsync(u, k) \/ RetryDelivery(u, k)
  BY <1>5, RequestRetry
<1>6. CASE \/ SchedTick \/ QueueFailedSummaries \/ TimePasses \/ Restart \/ UNCHANGED vars
           \/ \E k \in Keys : Elapse(k)
  BY <1>6, OtherRetry
<1> QED
  BY <1>1, <1>2, <1>3, <1>4, <1>5, <1>6 DEF Next

LEMMA InitRetry == Init => RetryInv
<1> SUFFICES ASSUME Init PROVE RetryInv
  OBVIOUS
<1>1. RetryFacts
  BY DEF Init, RetryFacts, RetryFlows, Procs
<1>2. \A k \in Keys : row[k].retry = 0 /\ ~SchedOwes(k) /\ ~MaintOwes(k)
  BY ProcFacts DEF Init, NoRow, SchedOwes, MaintOwes, RetryPending, RetryFlows
<1> QED
  BY <1>1, <1>2, BoundsAssumption DEF RetryInv, RetryBudget

\* However runOnce, the maintenance loop, requests, failing calls and restarts
\* interleave, a failed summary is retried at most once more than configured.
THEOREM RetriesBounded == Spec => []RetryOvershoot
<1>1. TypeAndFlow /\ RetryInv /\ [Next]_vars => (TypeAndFlow /\ RetryInv)'
  BY NextTypes, NextRetry
<1>2. RetryInv => RetryOvershoot
  BY DEF RetryInv, RetryBudget, RetryOvershoot
<1> QED
  BY InitTypes, InitRetry, <1>1, <1>2, PTL DEF Spec
=============================================================================
