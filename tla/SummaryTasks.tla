---------------------------- MODULE SummaryTasks ----------------------------
(***************************************************************************)
(* The life of the rows of the summaries table (one per chat and period)   *)
(* and of the flows of internal/scheduler that work on them:               *)
(*                                                                         *)
(*   <<"sched", k>>  the goroutine runOnce starts for a due chat           *)
(*   <<"maint", k>>  the goroutine the maintenance loop starts, either to  *)
(*                   work off the recovery queue or to retry past failures *)
(*   <<"user", u>>   an HTTP request: "generate now" or "retry delivery"   *)
(*                                                                         *)
(* Every flow first reads the row, then enters the in-memory task set      *)
(* (beginTask), then issues one database call per step.  Flows interleave  *)
(* between any two of these steps, the process may restart at any of them, *)
(* and up to MaxFaults database calls fail.                                *)
(*                                                                         *)
(* Abstractions: a time stamp is None, "later" or "due"; the text of a     *)
(* summary is not kept, item[p].current says whether the text a flow holds *)
(* is still the text of the row; chat switches do not change during a run. *)
(***************************************************************************)
EXTENDS Integers, FiniteSets

CONSTANTS
  Keys,          \* the (chat, summary date) pairs
  FirstDay,      \* summary_date of a key
  LastDay,       \* last day of the period of a key (inclusive)
  BotKeys,       \* keys of chats whose delivery mode is "bot"
  DigestKeys,    \* keys whose bot mode is "daily_digest"
  Users,         \* HTTP requests that may be in progress together
  Limit,         \* AppSettings.SummaryRetryLimit
  MaxDay,        \* bound: the last day of the clock
  MaxRequests,   \* bound: HTTP requests of a behaviour
  MaxFaults,     \* bound: failing database calls of a behaviour
  MaxRestarts    \* bound: restarts of a behaviour

ASSUME KeysAssumption ==
  /\ FirstDay \in [Keys -> Nat] /\ LastDay \in [Keys -> Nat]
  /\ \A k \in Keys : FirstDay[k] <= LastDay[k]
  /\ BotKeys \subseteq Keys
  /\ DigestKeys \subseteq {k \in Keys : FirstDay[k] = LastDay[k]}
ASSUME BoundsAssumption ==
  Limit \in Nat /\ MaxDay \in Nat /\ MaxRequests \in Nat /\ MaxFaults \in Nat /\ MaxRestarts \in Nat

VARIABLES
  row,        \* the summaries table
  inflight,   \* Service.inflight: the keys whose task is running
  pc,         \* what a flow does next
  on,         \* the key a user flow works on; fixed for the others
  flow,       \* why a flow works on its key
  item,       \* the row as the flow read it
  outcome,    \* the result of the flow's generation, or "error"
  stamp,      \* GeneratedAt of that result lies after the period's end
  round,      \* keys the current runOnce has still to start, with the day it began
  cancelled,  \* the errgroup context of the current runOnce is cancelled
  mjob,       \* what the maintenance loop has selected a key for
  mphase,     \* the stage of the maintenance loop
  queue,      \* the summary_recovery table: status and started
  clock,      \* the day, and whether the summary time of the day has passed
  sent,       \* history: how often the row's text was sent (0, 1, 2 = more)
  used        \* history: requests, faults and restarts so far

taskVars  == <<pc, on, flow, item, outcome, stamp>>
schedVars == <<round, cancelled>>
maintVars == <<mjob, mphase>>
vars == <<row, inflight, taskVars, schedVars, maintVars, queue, clock, sent, used>>

None   == "none"
Timers == {None, "later", "due"}
Status == {"absent", "pending", "running", "succeeded", "failed"}

Sched(k) == <<"sched", k>>
Maint(k) == <<"maint", k>>
Procs == ({"sched", "maint"} \X Keys) \cup ({"user"} \X Users)

Flows == {"none", "schedGenerate", "schedRetry", "schedDeliver", "histRetry", "histDeliver",
          "recoverNow", "recoverRetry", "userGenerate", "userDeliver"}
RetryFlows    == {"schedRetry", "histRetry", "recoverRetry"}
DeliverFlows  == {"schedDeliver", "histDeliver", "userDeliver"}
RecoverFlows  == {"recoverNow", "recoverRetry"}

\* The steps a flow takes between beginTask and finishTask.
Holding == {"pending", "running", "generate", "save", "schedule", "reread", "send",
            "recordOk", "recordFail", "abandon", "finish"}
Steps == Holding \cup {"idle", "decided", "recStarted", "recCheck", "setFailed", "recFailed"}

Outcomes == {"none", "ok", "retryable", "fatal", "error"}

Row == [status : Status, retry : Nat, next : Timers, ready : BOOLEAN,
        delivered : BOOLEAN, dretry : Nat, dnext : Timers]
Item == [current : BOOLEAN, ready : BOOLEAN, dretry : Nat]

NoRow  == [status |-> "absent", retry |-> 0, next |-> None, ready |-> FALSE,
           delivered |-> FALSE, dretry |-> 0, dnext |-> None]
NoItem == [current |-> FALSE, ready |-> FALSE, dretry |-> 0]
-----------------------------------------------------------------------------
(* Conditions the flows evaluate.                                           *)

Long(k) == FirstDay[k] < LastDay[k]

\* Mutant: only a period that ended yesterday, nothing missed while down.
LatestYesterday(k, day) == LastDay[k] = day - 1

\* LatestEndedPeriod: k is the last period of its chat that ended by yesterday.
Latest(k, day) ==
  /\ LastDay[k] < day
  /\ day - LastDay[k] <= LastDay[k] - FirstDay[k] + 1

\* summaryReadyForDelivery: the text was generated after the period had ended.
PeriodOver(k, day) == LastDay[k] < day

\* Mutant: a partial text counts as deliverable.
DeliverableAlways(k, ready) == TRUE

\* periodSummaryDeliverable
Deliverable(k, ready) == Long(k) => ready

\* Mutant: the limit is not looked at, only the scheduled time.
RetryDueAnyCount(r) == r.next = "due"

\* shouldRetrySummary
RetryDue(r) == r.retry < Limit /\ r.next = "due"

\* Mutant: the limit is not looked at, only the scheduled time.
DeliveryRetryDueAnyCount(r) == r.dretry = 0 \/ r.dnext = "due"

\* deliveryRetryDue
DeliveryRetryDue(r) ==
  \/ r.dretry = 0
  \/ Limit > 0 /\ r.dretry <= Limit /\ r.dnext = "due"

\* A failed summary no retry will touch again.
Exhausted(r) == r.next = None \/ r.retry >= Limit

\* decideScheduledAction, with the runOnce rule that only yesterday is retried here.
ScheduledAction(k, r, day) ==
  CASE r.status \in {"absent", "pending", "running"} -> "schedGenerate"
    [] r.status = "failed" ->
         IF RetryDue(r) /\ FirstDay[k] = day - 1 THEN "schedRetry" ELSE "none"
    [] r.status = "succeeded" ->
         IF ~r.ready /\ (Long(k) \/ (k \in BotKeys /\ (k \in DigestKeys \/ ~r.delivered)))
         THEN "schedGenerate"
         ELSE IF k \in BotKeys \ DigestKeys /\ ~r.delivered /\ DeliveryRetryDue(r)
         THEN "schedDeliver" ELSE "none"

\* Mutant: only retries of the current day, none of days gone by.
HistoricalToday(k, r) == FirstDay[k] = clock.day /\ queue[k].status # "queued" /\ r.status = "failed" /\ RetryDue(r)

\* HistoricalRetries: due retries of days the scheduler does not look at.
Historical(k, r) ==
  /\ FirstDay[k] # clock.day - 1
  /\ \/ r.status = "failed" /\ RetryDue(r) /\ queue[k].status # "queued"
     \/ /\ r.status = "succeeded" /\ k \in BotKeys \ DigestKeys /\ ~r.delivered
        /\ r.dnext = "due" /\ r.dretry > 0 /\ r.dretry <= Limit
-----------------------------------------------------------------------------
(* Moving a flow.                                                           *)

Init ==
  /\ row = [k \in Keys |-> NoRow]
  /\ inflight = {}
  /\ pc = [p \in Procs |-> "idle"]
  /\ on \in {f \in [Procs -> Keys] : \A k \in Keys : f[Sched(k)] = k /\ f[Maint(k)] = k}
  /\ flow = [p \in Procs |-> "none"]
  /\ item = [p \in Procs |-> NoItem]
  /\ outcome = [p \in Procs |-> "none"]
  /\ stamp = [p \in Procs |-> FALSE]
  /\ round = {} /\ cancelled = FALSE
  /\ mjob = [k \in Keys |-> "none"] /\ mphase = "history"
  /\ queue = [k \in Keys |-> [status |-> "none", started |-> FALSE]]
  /\ clock = [day |-> 0, due |-> FALSE]
  /\ sent = [k \in Keys |-> 0]
  /\ used = [requests |-> 0, faults |-> 0, restarts |-> 0]

Goto(p, step) == pc' = [pc EXCEPT ![p] = step]

\* A flow that ends leaves nothing behind.
Leave(p) ==
  /\ Goto(p, "idle")
  /\ flow' = [flow EXCEPT ![p] = "none"]
  /\ item' = [item EXCEPT ![p] = NoItem]
  /\ outcome' = [outcome EXCEPT ![p] = "none"]
  /\ UNCHANGED <<on, stamp>>

\* The flow of p has decided to work on its key; beginTask comes next.
Decide(p, f, it) ==
  /\ Goto(p, "decided")
  /\ flow' = [flow EXCEPT ![p] = f]
  /\ item' = [item EXCEPT ![p] = it]
  /\ UNCHANGED <<on, outcome, stamp>>

ItemOf(r) == [current |-> TRUE, ready |-> r.ready, dretry |-> r.dretry]

\* A step inside the task that only moves on.
OnlyStep(p, step) == Goto(p, step) /\ UNCHANGED <<on, flow, item, outcome, stamp>>

\* A step that moves on or ends the flow.
MoveOn(p, step) == IF step = "idle" THEN Leave(p) ELSE OnlyStep(p, step)

\* Where a flow goes when it has left the task, or could not enter it.
AfterTask(p) ==
  CASE flow[p] \in RecoverFlows -> "recStarted"
    [] flow[p] = "histRetry" /\ outcome[p] = "error" -> "setFailed"
    [] OTHER -> "idle"

WriteRow(k, r) == row' = [row EXCEPT ![k] = r]

\* The goroutine of a runOnce whose group context is cancelled.
Cancelled(p) == p[1] = "sched" /\ cancelled

\* A database call of p fails: by itself, or because its context is cancelled.
MayFail(p) ==
  \/ Cancelled(p) /\ UNCHANGED used
  \/ used.faults < MaxFaults /\ used' = [used EXCEPT !.faults = @ + 1]
-----------------------------------------------------------------------------
(* runOnce                                                                  *)

\* Run: the ticker fires when the previous round is over; the due chats are
\* computed from the clock at this moment.
SchedTick ==
  /\ round = {} /\ \A k \in Keys : pc[Sched(k)] = "idle"
  /\ round' = {<<k, clock.day>> : k \in {k \in Keys : clock.due /\ Latest(k, clock.day)}}
  /\ cancelled' = FALSE
  /\ UNCHANGED <<row, inflight, taskVars, maintVars, queue, clock, sent, used>>

\* One goroutine reads its row and decides; nothing is locked yet.
SchedRead(k) ==
  /\ pc[Sched(k)] = "idle"
  /\ \E day \in 0..MaxDay :
       /\ <<k, day>> \in round
       /\ round' = round \ {<<k, day>>}
       /\ LET f == ScheduledAction(k, row[k], day)
          IN  IF f = "none" THEN UNCHANGED taskVars
              ELSE Decide(Sched(k), f, IF f = "schedDeliver" THEN ItemOf(row[k]) ELSE NoItem)
  /\ UNCHANGED <<row, inflight, cancelled, maintVars, queue, clock, sent, used>>
\* A read of the goroutine fails; its error cancels the group of the round.
SchedReadError(k) ==
  /\ \E day \in 0..MaxDay : <<k, day>> \in round /\ round' = round \ {<<k, day>>}
  /\ MayFail(Sched(k))
  /\ cancelled' = TRUE
  /\ UNCHANGED <<row, inflight, taskVars, maintVars, queue, clock, sent>>
-----------------------------------------------------------------------------
(* The task itself: beginTask, the database calls, finishTask.              *)

FirstStep(f) ==
  CASE f \in {"schedGenerate", "recoverNow"} -> "pending"
    [] f \in RetryFlows -> "running"
    [] f \in {"schedDeliver", "histDeliver", "userDeliver"} -> "send"

\* beginTask: the key is in the set.
Taken(k) == k \in inflight

\* beginTask; a flow that finds the key taken gives up without an error.
Begin(p) ==
  /\ pc[p] = "decided"
  /\ IF Taken(on[p])
     THEN MoveOn(p, AfterTask(p)) /\ UNCHANGED inflight
     ELSE OnlyStep(p, FirstStep(flow[p])) /\ inflight' = inflight \cup {on[p]}
  /\ UNCHANGED <<row, schedVars, maintVars, queue, clock, sent, used>>

\* UpsertPending: insert on conflict do nothing.
UpsertPending(p) ==
  /\ pc[p] = "pending"
  /\ OnlyStep(p, "running")
  /\ IF row[on[p]].status = "absent"
     THEN WriteRow(on[p], [NoRow EXCEPT !.status = "pending"])
     ELSE UNCHANGED row
  /\ UNCHANGED <<inflight, schedVars, maintVars, queue, clock, sent, used>>

\* Mutant: the retries are counted down.
AttemptDown(r, f) == r.retry - 1

\* SetRunning starts the count again, SetRetryRunning counts the attempt.
Attempt(r, f) == IF f \in RetryFlows THEN r.retry + 1 ELSE 0

SetRunning(p) ==
  /\ pc[p] = "running"
  /\ OnlyStep(p, "generate")
  /\ WriteRow(on[p], [row[on[p]] EXCEPT !.status = "running", !.next = None,
                                        !.retry = Attempt(row[on[p]], flow[p])])
  /\ UNCHANGED <<inflight, schedVars, maintVars, queue, clock, sent, used>>

\* Mutant: a fatal result returns before it is stored.
GenerateUnsaved(p) ==
  /\ pc[p] = "generate"
  /\ \E o \in {"ok", "retryable", "fatal"} :
       outcome' = [outcome EXCEPT ![p] = o] /\ Goto(p, IF o = "fatal" THEN "finish" ELSE "save")
  /\ stamp' = [stamp EXCEPT ![p] = PeriodOver(on[p], clock.day)]
  /\ UNCHANGED <<row, inflight, on, flow, item, schedVars, maintVars, queue, clock, sent, used>>

\* RunDailySummary: reads the messages of the period and asks the model.
Generate(p) ==
  /\ pc[p] = "generate"
  /\ Goto(p, "save")
  /\ \E o \in {"ok", "retryable", "fatal"} : outcome' = [outcome EXCEPT ![p] = o]
  /\ stamp' = [stamp EXCEPT ![p] = PeriodOver(on[p], clock.day)]
  /\ UNCHANGED <<row, inflight, on, flow, item, schedVars, maintVars, queue, clock, sent, used>>

\* Mutant: a success keeps the count of the failures before it.
SavedKeepingCount(r, ok, ready) ==
  [NoRow EXCEPT !.status = IF ok THEN "succeeded" ELSE "failed", !.retry = r.retry, !.ready = ready]

\* The row SaveResult writes: the delivery record starts from nothing.
Saved(r, ok, ready) ==
  [NoRow EXCEPT !.status = IF ok THEN "succeeded" ELSE "failed",
                !.retry = IF ok THEN 0 ELSE r.retry, !.ready = ready]

SaveResult(p) ==
  LET k == on[p]
  IN  /\ pc[p] = "save"
      /\ WriteRow(k, Saved(row[k], outcome[p] = "ok", stamp[p]))
      /\ sent' = [sent EXCEPT ![k] = 0]
      /\ item' = [q \in Procs |-> IF on[q] = k THEN [item[q] EXCEPT !.current = FALSE] ELSE item[q]]
      /\ Goto(p, CASE outcome[p] = "ok"        -> "reread"
                   [] outcome[p] = "retryable" -> "schedule"
                   [] OTHER                    -> "finish")
      /\ outcome' = [outcome EXCEPT ![p] = "none"]
      /\ stamp' = [stamp EXCEPT ![p] = FALSE]
      /\ UNCHANGED <<inflight, on, flow, schedVars, maintVars, queue, clock, used>>

\* scheduleNextRetry
ScheduleRetry(p) ==
  /\ pc[p] = "schedule"
  /\ OnlyStep(p, "finish")
  /\ IF row[on[p]].retry < Limit
     THEN WriteRow(on[p], [row[on[p]] EXCEPT !.next = "later"])
     ELSE UNCHANGED row
  /\ UNCHANGED <<inflight, schedVars, maintVars, queue, clock, sent, used>>

\* executeSummary reads the stored result back and tryDeliverSummary checks it.
Reread(p) ==
  LET k == on[p]
  IN  /\ pc[p] = "reread"
      /\ item' = [item EXCEPT ![p] = ItemOf(row[k])]
      /\ Goto(p, IF k \in BotKeys \ DigestKeys /\ Deliverable(k, row[k].ready) THEN "send" ELSE "finish")
      /\ UNCHANGED <<row, inflight, on, flow, outcome, stamp, schedVars, maintVars, queue, clock, sent, used>>

\* deliverSummary: the message either reaches Telegram or the call fails.
Send(p) ==
  /\ pc[p] = "send"
  /\ \/ /\ OnlyStep(p, "recordOk")
        /\ sent' = IF item[p].current /\ sent[on[p]] < 2
                   THEN [sent EXCEPT ![on[p]] = @ + 1] ELSE sent
     \/ OnlyStep(p, "recordFail") /\ UNCHANGED sent
  /\ UNCHANGED <<row, inflight, schedVars, maintVars, queue, clock, used>>

\* MarkDelivered
MarkDelivered(p) ==
  /\ pc[p] = "recordOk"
  /\ OnlyStep(p, "finish")
  /\ WriteRow(on[p], [row[on[p]] EXCEPT !.delivered = TRUE, !.dretry = 0, !.dnext = None])
  /\ UNCHANGED <<inflight, schedVars, maintVars, queue, clock, sent, used>>

\* scheduleDeliveryRetry, or MarkDeliveryFailed when the user asked for the delivery.
RecordDeliveryFailure(p) ==
  LET r == row[on[p]]
  IN  /\ pc[p] = "recordFail"
      /\ OnlyStep(p, "finish")
      /\ WriteRow(on[p], IF flow[p] = "userDeliver"
                         THEN [r EXCEPT !.delivered = FALSE]
                         ELSE [r EXCEPT !.delivered = FALSE, !.dretry = r.dretry + 1,
                                        !.dnext = IF item[p].dretry < Limit THEN "later" ELSE None])
      /\ UNCHANGED <<inflight, schedVars, maintVars, queue, clock, sent, used>>

\* finishTask; an error of one goroutine cancels the group of its round.
Finish(p) ==
  /\ pc[p] = "finish"
  /\ MoveOn(p, AfterTask(p))
  /\ inflight' = inflight \ {on[p]}
  /\ cancelled' = (cancelled \/ (p[1] = "sched" /\ outcome[p] = "error"))
  /\ UNCHANGED <<row, round, maintVars, queue, clock, sent, used>>

\* SetFailed: inside the task for "generate now", after it for the maintenance flows.
SetFailed(p) ==
  /\ pc[p] \in {"abandon", "setFailed"}
  /\ MoveOn(p, IF pc[p] = "abandon" THEN "finish"
               ELSE IF flow[p] \in RecoverFlows THEN "recFailed" ELSE "idle")
  /\ WriteRow(on[p], [row[on[p]] EXCEPT !.status = "failed", !.next = None])
  /\ UNCHANGED <<inflight, schedVars, maintVars, queue, clock, sent, used>>

\* Mutant: "generate now" returns its error without finishTask.
ErrorStepKeepsTask(p) ==
  IF flow[p] # "userGenerate" THEN "finish"
  ELSE IF pc[p] \in {"pending", "running"} THEN "idle" ELSE "abandon"

\* "Generate now" marks the row failed once its goroutine has started.
ErrorStep(p) ==
  IF flow[p] = "userGenerate" /\ pc[p] \notin {"pending", "running"} THEN "abandon" ELSE "finish"

\* A database call of a task fails and the flow takes its error path. With a
\* cancelled context every further call of the goroutine may fail as well.
DbError(p) ==
  /\ pc[p] \in {"pending", "running", "generate", "save", "schedule", "reread"}
  /\ MayFail(p)
  /\ outcome' = [outcome EXCEPT ![p] = "error"]
  /\ Goto(p, ErrorStep(p))
  /\ stamp' = [stamp EXCEPT ![p] = FALSE]
  /\ UNCHANGED <<row, inflight, on, flow, item, schedVars, maintVars, queue, clock, sent>>

\* The record of a delivery is lost: the error of these calls is ignored.
RecordError(p) ==
  /\ pc[p] \in {"recordOk", "recordFail", "abandon"}
  /\ MayFail(p)
  /\ OnlyStep(p, "finish")
  /\ UNCHANGED <<row, inflight, schedVars, maintVars, queue, clock, sent>>

\* tryDeliverSummary cannot read the settings and marks the delivery failed.
SettingsError(p) ==
  /\ pc[p] = "send" /\ flow[p] # "userDeliver"
  /\ \/ Cancelled(p) /\ UNCHANGED <<used, row>>
     \/ /\ used.faults < MaxFaults /\ used' = [used EXCEPT !.faults = @ + 1]
        /\ WriteRow(on[p], [row[on[p]] EXCEPT !.delivered = FALSE])
  /\ OnlyStep(p, "finish")
  /\ UNCHANGED <<inflight, schedVars, maintVars, queue, clock, sent>>
-----------------------------------------------------------------------------
(* RunMaintenance: a recovery round, then the historical retries, forever.  *)

MaintIdle == \A k \in Keys : mjob[k] = "none" /\ pc[Maint(k)] = "idle"
Queued == {k \in Keys : queue[k].status = "queued"}

\* At most two, all of them when there are no more.
Pick(S) == {T \in SUBSET S : Cardinality(T) <= 2 /\ (Cardinality(T) < 2 => T = S)}

\* runRecovery and recoveryRound: at most two queued summaries.
MaintRecovery ==
  /\ MaintIdle /\ mphase = "history"
  /\ mphase' = "recovery"
  /\ \E S \in Pick(Queued) :
       mjob' = [k \in Keys |-> IF k \in S THEN "recover" ELSE "none"]
  /\ UNCHANGED <<row, inflight, taskVars, schedVars, queue, clock, sent, used>>

\* retryHistoricalFailures: one query selects at most two due items.
MaintHistory ==
  /\ MaintIdle /\ mphase = "recovery"
  /\ mphase' = "history"
  /\ \E S \in Pick({k \in Keys : Historical(k, row[k])}) :
       mjob' = [k \in Keys |-> IF k \notin S THEN "none"
                               ELSE IF row[k].status = "failed" THEN "retry" ELSE "deliver"]
  /\ UNCHANGED <<row, inflight, taskVars, schedVars, queue, clock, sent, used>>

\* retryHistoricalItem: the row is read again, but only its text is used.
HistoryRead(k) ==
  /\ mjob[k] \in {"retry", "deliver"} /\ pc[Maint(k)] = "idle"
  /\ mjob' = [mjob EXCEPT ![k] = "none"]
  /\ IF mjob[k] = "deliver" /\ ~Deliverable(k, row[k].ready)
     THEN UNCHANGED taskVars
     ELSE IF mjob[k] = "retry" THEN Decide(Maint(k), "histRetry", NoItem)
     ELSE Decide(Maint(k), "histDeliver", ItemOf(row[k]))
  /\ UNCHANGED <<row, inflight, schedVars, mphase, queue, clock, sent, used>>

\* recoverSummary up to its call of RunRetry or RunNow.
RecoverRead(k) ==
  LET r       == row[k]
      retried == queue[k].started /\ r.status = "failed"
  IN  /\ mjob[k] = "recover" /\ pc[Maint(k)] = "idle"
      /\ mjob' = [mjob EXCEPT ![k] = "none"]
      /\ IF r.status = "succeeded" \/ (retried /\ Exhausted(r))
         THEN /\ queue' = [queue EXCEPT ![k].status = IF r.status = "succeeded" THEN "succeeded" ELSE "failed"]
              /\ UNCHANGED taskVars
         ELSE /\ UNCHANGED queue
              /\ IF retried /\ r.next = "later" THEN UNCHANGED taskVars
                 ELSE Decide(Maint(k), IF retried THEN "recoverRetry" ELSE "recoverNow", NoItem)
      /\ UNCHANGED <<row, inflight, schedVars, mphase, clock, sent, used>>

\* Mutant: the item is not marked as started.
RecoverStartedUnmarked(k) ==
  /\ pc[Maint(k)] = "recStarted"
  /\ OnlyStep(Maint(k), IF outcome[Maint(k)] = "error" THEN "setFailed" ELSE "recCheck")
  /\ UNCHANGED <<row, inflight, schedVars, maintVars, queue, clock, sent, used>>

\* SaveRecoveryItem with Started set, whatever RunNow or RunRetry did.
RecoverStarted(k) ==
  LET p == Maint(k)
  IN  /\ pc[p] = "recStarted"
      /\ queue' = [queue EXCEPT ![k].started = TRUE]
      /\ OnlyStep(p, IF outcome[p] = "error" THEN "setFailed" ELSE "recCheck")
      /\ UNCHANGED <<row, inflight, schedVars, maintVars, clock, sent, used>>

\* The rest of recoverSummary: finish the item unless a retry is still to come.
RecoverCheck(k) ==
  LET p == Maint(k)
      r == row[k]
  IN  /\ pc[p] \in {"recCheck", "recFailed"}
      /\ Leave(p)
      /\ queue' = [queue EXCEPT ![k].status =
            IF pc[p] = "recFailed" \/ (r.status = "failed" /\ Exhausted(r)) THEN "failed"
            ELSE IF r.status = "succeeded" THEN "succeeded" ELSE @]
      /\ UNCHANGED <<row, inflight, schedVars, maintVars, clock, sent, used>>

\* A selected item cannot be read: a historical retry waits for the next round,
\* a recovery item whose row is missing for the moment is given up as failed.
MaintReadError(k) ==
  /\ mjob[k] # "none" /\ pc[Maint(k)] = "idle"
  /\ MayFail(Maint(k))
  /\ mjob' = [mjob EXCEPT ![k] = "none"]
  /\ \/ UNCHANGED queue
     \/ mjob[k] = "recover" /\ queue' = [queue EXCEPT ![k].status = "failed"]
  /\ UNCHANGED <<row, inflight, taskVars, schedVars, mphase, clock, sent>>

\* A write after the task fails: the round of the maintenance loop only logs it.
MaintWriteError(k) ==
  /\ pc[Maint(k)] \in {"recStarted", "setFailed", "recCheck", "recFailed"}
  /\ MayFail(Maint(k))
  /\ Leave(Maint(k))
  /\ UNCHANGED <<row, inflight, schedVars, maintVars, queue, clock, sent>>
-----------------------------------------------------------------------------
(* HTTP requests.                                                           *)

Request(u) ==
  /\ pc[<<"user", u>>] = "idle" /\ used.requests < MaxRequests
  /\ used' = [used EXCEPT !.requests = @ + 1]

\* RunNowAsync: the task is entered before anything is written.
RunNowAsync(u, k) ==
  LET p == <<"user", u>>
  IN  /\ Request(u)
      /\ FirstDay[k] <= clock.day
      /\ ~Taken(k)
      /\ inflight' = inflight \cup {k}
      /\ Goto(p, "pending")
      /\ on' = [on EXCEPT ![p] = k]
      /\ flow' = [flow EXCEPT ![p] = "userGenerate"]
      /\ UNCHANGED <<row, item, outcome, stamp, schedVars, maintVars, queue, clock, sent>>

\* RetryDelivery: all its conditions are read before beginTask.
RetryDelivery(u, k) ==
  LET p == <<"user", u>>
  IN  /\ Request(u)
      /\ row[k].status = "succeeded"
      /\ k \in BotKeys \ DigestKeys
      /\ Deliverable(k, row[k].ready)
      /\ Goto(p, "decided")
      /\ on' = [on EXCEPT ![p] = k]
      /\ flow' = [flow EXCEPT ![p] = "userDeliver"]
      /\ item' = [item EXCEPT ![p] = ItemOf(row[k])]
      /\ UNCHANGED <<row, inflight, outcome, stamp, schedVars, maintVars, queue, clock, sent>>

\* QueueFailedSummaries: a snapshot of all failures, unless a batch is active.
QueueFailedSummaries ==
  /\ used.requests < MaxRequests /\ used' = [used EXCEPT !.requests = @ + 1]
  /\ Queued = {}
  /\ queue' = [k \in Keys |-> [status |-> IF row[k].status = "failed" THEN "queued" ELSE "none",
                               started |-> FALSE]]
  /\ UNCHANGED <<row, inflight, taskVars, schedVars, maintVars, clock, sent>>
-----------------------------------------------------------------------------
(* The environment.                                                         *)

\* A waiting retry becomes due.
Elapse(k) ==
  /\ row[k].next = "later" \/ row[k].dnext = "later"
  /\ WriteRow(k, [row[k] EXCEPT !.next = IF @ = "later" THEN "due" ELSE @,
                                !.dnext = IF @ = "later" THEN "due" ELSE @])
  /\ UNCHANGED <<inflight, taskVars, schedVars, maintVars, queue, clock, sent, used>>

\* The summary time of the day passes, then midnight.
TimePasses ==
  /\ ~(clock.day = MaxDay /\ clock.due)
  /\ clock' = IF clock.due THEN [day |-> clock.day + 1, due |-> FALSE]
              ELSE [clock EXCEPT !.due = TRUE]
  /\ UNCHANGED <<row, inflight, taskVars, schedVars, maintVars, queue, sent, used>>

\* Mutant: rows that were still pending are forgotten.
InterruptedRunning(r) == r.status = "running"

Interrupted(r) == r.status \in {"pending", "running"}

\* The process dies at any step; the next one runs RecoverInterruptedSummaries
\* before it starts its flows.
Restart ==
  /\ used.restarts < MaxRestarts /\ used' = [used EXCEPT !.restarts = @ + 1]
  /\ row' = [k \in Keys |-> IF Interrupted(row[k])
                            THEN [row[k] EXCEPT !.status = "failed", !.next = "due"] ELSE row[k]]
  /\ inflight' = {}
  /\ pc' = [p \in Procs |-> "idle"]
  /\ flow' = [p \in Procs |-> "none"]
  /\ item' = [p \in Procs |-> NoItem]
  /\ outcome' = [p \in Procs |-> "none"]
  /\ stamp' = [p \in Procs |-> FALSE]
  /\ round' = {} /\ cancelled' = FALSE
  /\ mjob' = [k \in Keys |-> "none"] /\ mphase' = "history"
  /\ UNCHANGED <<on, queue, clock, sent>>

Step(p) ==
  \/ Begin(p) \/ UpsertPending(p) \/ SetRunning(p) \/ Generate(p) \/ SaveResult(p)
  \/ ScheduleRetry(p) \/ Reread(p) \/ Send(p) \/ MarkDelivered(p) \/ RecordDeliveryFailure(p)
  \/ SetFailed(p) \/ Finish(p)

Fault(p) == DbError(p) \/ RecordError(p) \/ SettingsError(p)

Next ==
  \/ SchedTick \/ MaintRecovery \/ MaintHistory
  \/ \E k \in Keys : SchedRead(k) \/ HistoryRead(k) \/ RecoverRead(k) \/ RecoverStarted(k) \/ RecoverCheck(k)
  \/ \E k \in Keys : SchedReadError(k) \/ MaintReadError(k) \/ MaintWriteError(k)
  \/ \E p \in Procs : Step(p) \/ Fault(p)
  \/ \E u \in Users, k \in Keys : RunNowAsync(u, k) \/ RetryDelivery(u, k)
  \/ QueueFailedSummaries
  \/ \E k \in Keys : Elapse(k)
  \/ TimePasses \/ Restart

Spec == Init /\ [][Next]_vars

\* Every started flow, both loops and time itself go on; requests, faults and
\* restarts need not happen.
Fairness ==
  /\ WF_vars(SchedTick) /\ WF_vars(MaintRecovery) /\ WF_vars(MaintHistory) /\ WF_vars(TimePasses)
  /\ \A k \in Keys : /\ WF_vars(SchedRead(k)) /\ WF_vars(HistoryRead(k)) /\ WF_vars(RecoverRead(k))
                     /\ WF_vars(RecoverStarted(k)) /\ WF_vars(RecoverCheck(k)) /\ WF_vars(Elapse(k))
  /\ \A p \in Procs : WF_vars(Step(p))

FairSpec == Spec /\ Fairness
-----------------------------------------------------------------------------
(* Properties.                                                              *)

\* Every variable has its type.
TypeOK ==
  /\ row \in [Keys -> Row]
  /\ inflight \subseteq Keys
  /\ pc \in [Procs -> Steps] /\ on \in [Procs -> Keys] /\ flow \in [Procs -> Flows]
  /\ \A k \in Keys : on[Sched(k)] = k /\ on[Maint(k)] = k
  /\ item \in [Procs -> Item]
  /\ outcome \in [Procs -> Outcomes] /\ stamp \in [Procs -> BOOLEAN]
  /\ round \subseteq Keys \X (0..MaxDay) /\ cancelled \in BOOLEAN
  /\ mjob \in [Keys -> {"none", "recover", "retry", "deliver"}] /\ mphase \in {"history", "recovery"}
  /\ queue \in [Keys -> [status : {"none", "queued", "succeeded", "failed"}, started : BOOLEAN]]
  /\ clock \in [day : 0..MaxDay, due : BOOLEAN]
  /\ sent \in [Keys -> 0..2]
  /\ used \in [requests : Nat, faults : Nat, restarts : Nat]

Holds(p) == pc[p] \in Holding

\* beginTask and finishTask: at most one flow is inside the task of a key, and
\* the in-memory set names exactly the keys some flow is inside of; no error
\* path leaves the task without finishTask, and no restart leaves it entered.
TaskLock ==
  /\ inflight = {on[p] : p \in {p \in Procs : Holds(p)}}
  /\ \A p, q \in Procs : Holds(p) /\ Holds(q) /\ on[p] = on[q] => p = q

\* While no database call fails, a pending or running row is being worked on:
\* some flow is inside its task and will write a result, even across restarts.
RunningOwned ==
  used.faults = 0 =>
    \A k \in Keys : row[k].status \in {"pending", "running"} =>
      \E p \in Procs : on[p] = k /\ pc[p] \in {"pending", "running", "generate", "save"}

\* The flows of runOnce, of the maintenance loop and of the requests together
\* keep what SummaryLife promises about each row: one generation at a time, a
\* result only from that generation, a success that resets the retries, a
\* bounded series of attempts.
Life == INSTANCE SummaryLife WITH
  status <- [k \in Keys |-> row[k].status],
  attempts <- [k \in Keys |-> row[k].retry],
  generating <- {on[p] : p \in {p \in Procs : pc[p] \in {"generate", "save"}}}

ImplementsLife == Life!Spec

\* runOnce and the maintenance loop decide on a retry before they enter the
\* task.  The two together exceed the configured number of generation retries
\* by at most one, whatever the interleaving, the faults and the restarts.
RetryOvershoot == \A k \in Keys : row[k].retry <= Limit + 1

\* The first delivery and Limit retries of it may fail, and the flow that
\* decided on a stale record may fail once more; the count goes no further.
DeliveryOvershoot == \A k \in Keys : row[k].dretry <= Limit + 2

\* A text generated before its week or month was over is never sent, although
\* the text is read in three places and the row may be regenerated meanwhile.
PartialNeverSent ==
  \A p \in Procs : pc[p] \in {"send", "recordOk", "recordFail"} /\ Long(on[p]) => item[p].ready

\* A row that is pending or running gets a result, across restarts and midnight.
RunningEnds ==
  \A k \in Keys : row[k].status \in {"pending", "running"} ~> row[k].status \in {"succeeded", "failed"}

\* A scheduled retry below the limit is carried out: by runOnce while its day is
\* yesterday, by the maintenance loop before and after that.
RetryHappens ==
  \A k \in Keys :
    row[k].status = "failed" /\ row[k].next # None /\ row[k].retry < Limit ~> row[k].status # "failed"

\* Every item of the recovery batch is finished, so that a new batch can start.
QueueDrains == \A k \in Keys : queue[k].status = "queued" ~> queue[k].status # "queued"

\* A partial text of a week or month is replaced once the period has ended.
PartialReplaced ==
  \A k \in Keys : Long(k) /\ row[k].status = "succeeded" /\ ~row[k].ready ~>
                  row[k].ready \/ row[k].status = "failed"
-----------------------------------------------------------------------------
(* A claim of the repository that the code does not keep.                   *)

\* Without requests of a user, a text is pushed once.
SentOnce == \A k \in Keys : sent[k] <= 1
=============================================================================
