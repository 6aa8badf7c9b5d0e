----------------------------- MODULE DailyDigest ----------------------------
(***************************************************************************)
(* The rows of the daily_digests table (one per date) and the flows of     *)
(* internal/dailydigest and internal/scheduler that work on them:          *)
(*                                                                         *)
(*   <<"sched", 0>>  the end of runOnce: RunIfReady for yesterday's date   *)
(*   <<"maint", d>>  the maintenance loop, working off the recovery queue  *)
(*                   or retrying a failure of a day gone by                *)
(*   <<"user", u>>   an HTTP request: "rerun" or "retry delivery"          *)
(*   <<"gen", d>>    the goroutine startGeneration leaves behind           *)
(*                                                                         *)
(* The flows exclude each other by three kinds of keys in one in-memory    *)
(* set: "rerun", "generation" and "delivery" of a digest.                  *)
(*                                                                         *)
(* Abstractions: a time stamp is None, "later" or "due"; texts and source  *)
(* lists are not kept.  The summaries of the participants belong to        *)
(* SummaryTasks: collectSources finds them ready or not.                   *)
(* delivery_suppressed is left out: every start of a generation passes     *)
(* deliver = TRUE, and only a row with the flag set keeps it.              *)
(***************************************************************************)
EXTENDS Integers, FiniteSets

CONSTANTS
  Dates,         \* the summary dates, as day numbers
  Users,         \* HTTP requests that may be in progress together
  Limit,         \* AppSettings.SummaryRetryLimit
  MaxDay,        \* bound: the last day of the clock
  MaxRequests,   \* bound: HTTP requests of a behaviour
  MaxFaults,     \* bound: failing calls of a behaviour
  MaxRestarts    \* bound: restarts of a behaviour

ASSUME DigestAssumption ==
  /\ Dates \subseteq Nat /\ Limit \in Nat /\ MaxDay \in Nat
  /\ MaxRequests \in Nat /\ MaxFaults \in Nat /\ MaxRestarts \in Nat

VARIABLES
  row,     \* the daily_digests table
  busy,    \* Service.inflight: the keys <<kind, date>> that are taken
  pc,      \* what a flow does next
  on,      \* the date a flow works on
  flow,    \* why it does
  item,    \* the row as the flow read it
  mjob,    \* what the maintenance loop has selected a date for
  mphase,  \* the stage of the maintenance loop
  queue,   \* the summary_recovery table: status and started
  day,     \* today
  used     \* history: requests, faults and restarts so far

flowVars  == <<pc, on, flow, item>>
maintVars == <<mjob, mphase>>
vars == <<row, busy, flowVars, maintVars, queue, day, used>>

None   == "none"
Timers == {None, "later", "due"}
Status == {"absent", "pending", "running", "succeeded", "failed"}
Active == {"pending", "running"}

Sched    == <<"sched", 0>>
Maint(d) == <<"maint", d>>
Gen(d)   == <<"gen", d>>
User(u)  == <<"user", u>>
Procs == {Sched} \cup {Maint(d) : d \in Dates} \cup {Gen(d) : d \in Dates} \cup {User(u) : u \in Users}

Flows == {"none", "first", "retry", "deliver", "rerun", "recRerun", "recDeliver"}
Reruns == {"rerun", "recRerun"}

RerunSteps    == {"collect", "prepare"}
GenSteps      == {"load", "save", "fail", "end"}
DeliverySteps == {"send", "recordOk", "recordFail"}
Steps == RerunSteps \cup GenSteps \cup DeliverySteps \cup
         {"idle", "read", "create", "rerun", "start", "running", "deliver", "redeliver",
          "recStarted", "recCheck", "recFailed"}

Row  == [status : Status, retry : Nat, next : Timers, skipped : BOOLEAN, delivered : BOOLEAN,
         derror : BOOLEAN]
Item == [retry : Nat, delivered : BOOLEAN]

NoRow  == [status |-> "absent", retry |-> 0, next |-> None, skipped |-> FALSE,
           delivered |-> FALSE, derror |-> FALSE]
NoItem == [retry |-> 0, delivered |-> FALSE]
ItemOf(r) == [retry |-> r.retry, delivered |-> r.delivered]
-----------------------------------------------------------------------------
(* Conditions the flows evaluate and moves they make.                       *)

\* Mutant: the limit is not looked at, only the scheduled time.
RetryDueAnyCount(r) == r.status = "failed" /\ r.next = "due"

\* ContinueExisting and HistoricalRetries: a retry is due and below the limit.
RetryDue(r) == r.status = "failed" /\ r.next = "due" /\ r.retry < Limit

\* shouldAutomaticallyDeliver
ShouldDeliver(r) == r.status = "succeeded" /\ ~r.delivered /\ ~r.skipped

\* Rerun: neither pending nor running.
Rerunnable(r) == r.status \notin Active

\* Mutant: the day of the scheduler is looked at instead of the others.
HistoricalYesterday(d) ==
  /\ RetryDue(row[d]) /\ d = day - 1
  /\ \A e \in Dates : row[e].status \notin Active
  /\ queue[d].status # "queued"

\* HistoricalRetries: days the scheduler does not look at, and no digest is active.
Historical(d) ==
  /\ RetryDue(row[d]) /\ d # day - 1
  /\ \A e \in Dates : row[e].status \notin Active
  /\ queue[d].status # "queued"

Goto(p, step) == pc' = [pc EXCEPT ![p] = step]

\* A flow that ends leaves nothing behind.
Leave(p) ==
  /\ Goto(p, "idle")
  /\ flow' = [flow EXCEPT ![p] = "none"]
  /\ item' = [item EXCEPT ![p] = NoItem]
  /\ UNCHANGED on

OnlyStep(p, step) == Goto(p, step) /\ UNCHANGED <<on, flow, item>>
MoveOn(p, step) == IF step = "idle" THEN Leave(p) ELSE OnlyStep(p, step)

\* The flow of p takes up work f on its date, with the row as it read it.
Take(p, f, step, it) ==
  /\ Goto(p, step)
  /\ flow' = [flow EXCEPT ![p] = f]
  /\ item' = [item EXCEPT ![p] = it]
  /\ UNCHANGED on

\* Mutant: a pending digest is taken for one in progress.
ContinueNotPending(p, r) ==
  IF RetryDue(r) THEN Take(p, "retry", "start", NoItem)
  ELSE IF ShouldDeliver(r) THEN Take(p, "deliver", "deliver", ItemOf(r))
  ELSE Leave(p)

\* ContinueExisting: what the row, as it was read, calls for.
Continue(p, r) ==
  IF r.status = "pending" THEN Take(p, "first", "start", NoItem)
  ELSE IF RetryDue(r) THEN Take(p, "retry", "start", NoItem)
  ELSE IF ShouldDeliver(r) THEN Take(p, "deliver", "deliver", ItemOf(r))
  ELSE Leave(p)

\* Where a flow goes after it succeeded, after it failed.
AfterOk(p) ==
  IF p[1] = "gen" THEN "end"
  ELSE CASE flow[p] = "recRerun"   -> "recStarted"
         [] flow[p] = "recDeliver" -> "recCheck"
         [] OTHER                  -> "idle"
AfterError(p) ==
  IF p[1] = "gen" THEN "end"
  ELSE IF flow[p] \in {"recRerun", "recDeliver"} THEN "recFailed" ELSE "idle"

WriteRow(d, r) == row' = [row EXCEPT ![d] = r]

MayFail == used.faults < MaxFaults /\ used' = [used EXCEPT !.faults = @ + 1]

Init ==
  /\ row = [d \in Dates |-> NoRow]
  /\ busy = {}
  /\ pc = [p \in Procs |-> "idle"]
  /\ on \in {f \in [Procs -> Dates] : \A d \in Dates : f[Maint(d)] = d /\ f[Gen(d)] = d}
  /\ flow = [p \in Procs |-> "none"]
  /\ item = [p \in Procs |-> NoItem]
  /\ mjob = [d \in Dates |-> "none"] /\ mphase = "history"
  /\ queue = [d \in Dates |-> [status |-> "none", started |-> FALSE]]
  /\ day = 0
  /\ used = [requests |-> 0, faults |-> 0, restarts |-> 0]
-----------------------------------------------------------------------------
(* RunIfReady                                                               *)

\* A round of runOnce ends: it works on the date that was yesterday when it began.
SchedTick ==
  /\ pc[Sched] = "idle"
  /\ day - 1 \in Dates
  /\ Goto(Sched, "read")
  /\ on' = [on EXCEPT ![Sched] = day - 1]
  /\ UNCHANGED <<row, busy, flow, item, maintVars, queue, day, used>>

\* GetByDate: continue the digest, or see whether it can be created.
SchedRead ==
  /\ pc[Sched] = "read"
  /\ IF row[on[Sched]].status = "absent" THEN OnlyStep(Sched, "collect")
     ELSE Continue(Sched, row[on[Sched]])
  /\ UNCHANGED <<row, busy, maintVars, queue, day, used>>

\* Create inserts the row and its sources in one transaction; the scheduler is
\* the only one that creates digests, so there is no row to conflict with.
Create ==
  /\ pc[Sched] = "create"
  /\ WriteRow(on[Sched], [NoRow EXCEPT !.status = "pending"])
  /\ Take(Sched, "first", "start", NoItem)
  /\ UNCHANGED <<busy, maintVars, queue, day, used>>
-----------------------------------------------------------------------------
(* Rerun                                                                    *)

\* Rerun enters "rerun" and checks the status; another rerun or an active
\* digest makes it return ErrSourcesNotReady.
Rerun(p) ==
  LET d == on[p]
  IN  /\ pc[p] = "rerun"
      /\ IF <<"rerun", d>> \in busy \/ ~Rerunnable(row[d])
         THEN MoveOn(p, AfterError(p)) /\ UNCHANGED busy
         ELSE OnlyStep(p, "collect") /\ busy' = busy \cup {<<"rerun", d>>}
      /\ UNCHANGED <<row, maintVars, queue, day, used>>

\* collectSources: the summaries of all participants are final, or they are not.
Collect(p) ==
  /\ pc[p] = "collect"
  /\ \/ OnlyStep(p, IF flow[p] \in Reruns THEN "prepare" ELSE "create") /\ UNCHANGED busy
     \/ MoveOn(p, AfterError(p)) /\ busy' = (IF flow[p] \in Reruns THEN busy \ {<<"rerun", on[p]>>} ELSE busy)
  /\ UNCHANGED <<row, maintVars, queue, day, used>>

\* The row PrepareRegeneration writes.
Prepared(r) == [NoRow EXCEPT !.status = "pending"]

\* PrepareRegeneration: new sources and a reset row in one transaction.
Prepare(p) ==
  LET d == on[p]
  IN  /\ pc[p] = "prepare"
      /\ Goto(p, "start")
      /\ WriteRow(d, Prepared(row[d]))
      /\ UNCHANGED <<busy, on, flow, item, maintVars, queue, day, used>>
-----------------------------------------------------------------------------
(* startGeneration and its goroutine                                        *)

\* Mutant: the in-memory set is not consulted.
GenerationTakenNever(d) == FALSE

GenerationTaken(d) == <<"generation", d>> \in busy

\* A generation in progress makes startGeneration return without an error.
Start(p) ==
  LET d == on[p]
  IN  /\ pc[p] = "start"
      /\ IF GenerationTaken(d)
         THEN MoveOn(p, AfterOk(p)) /\ busy' = (IF flow[p] \in Reruns THEN busy \ {<<"rerun", d>>} ELSE busy)
         ELSE OnlyStep(p, "running") /\ busy' = busy \cup {<<"generation", d>>}
      /\ UNCHANGED <<row, maintVars, queue, day, used>>

\* Mutant: the retries are counted down.
RunningDown(r, f) == [NoRow EXCEPT !.status = "running", !.retry = r.retry - 1]

\* SetRetryRunning counts the attempt and keeps the text, SetRunning resets all.
Running(r, f) ==
  IF f = "retry" THEN [r EXCEPT !.status = "running", !.retry = @ + 1, !.next = None]
  ELSE [NoRow EXCEPT !.status = "running"]

\* The row is running, then the goroutine starts and the caller goes on.
SetRunning(p) ==
  LET d    == on[p]
      step == AfterOk(p)
  IN  /\ pc[p] = "running"
      /\ WriteRow(d, Running(row[d], flow[p]))
      /\ pc' = [pc EXCEPT ![p] = step, ![Gen(d)] = "load"]
      /\ flow' = IF step = "idle" THEN [flow EXCEPT ![p] = "none"] ELSE flow
      /\ busy' = busy \ (IF flow[p] \in Reruns THEN {<<"rerun", d>>} ELSE {})
      /\ UNCHANGED <<on, item, maintVars, queue, day, used>>

\* execute: GetForGeneration loads the row and its sources.
Load(d) ==
  /\ pc[Gen(d)] = "load"
  /\ Goto(Gen(d), "save")
  /\ item' = [item EXCEPT ![Gen(d)] = ItemOf(row[d])]
  /\ UNCHANGED <<row, busy, on, flow, maintVars, queue, day, used>>

\* nextRetryAt
NextTry(retry) == IF retry < Limit THEN "later" ELSE None

\* generate: a text, nothing to say (no messages), a failure that may be retried
\* or a final one.  The delivery record and the count are not written.
Generated(r, it) ==
  LET done == [r EXCEPT !.status = "succeeded", !.next = None]
      lost == [r EXCEPT !.status = "failed", !.skipped = FALSE]
  IN  {[done EXCEPT !.skipped = FALSE], [done EXCEPT !.skipped = TRUE],
       [lost EXCEPT !.next = NextTry(it.retry)], [lost EXCEPT !.next = None]}

\* SaveResult writes the row as it was loaded with the result of the model, and
\* decides on the delivery by what was loaded, not by what the row is now.
SaveResult(d) ==
  LET p == Gen(d)
  IN  /\ pc[p] = "save"
      /\ \E r \in Generated(row[d], item[p]) :
           /\ WriteRow(d, r)
           /\ Goto(p, IF r.status = "succeeded" /\ ~r.skipped /\ ~item[p].delivered THEN "deliver" ELSE "end")
      /\ UNCHANGED <<busy, on, flow, item, maintVars, queue, day, used>>

\* failUnexpected: a database call of execute failed; the row is read again and
\* stored as finally failed.
FailUnexpected(d) ==
  /\ pc[Gen(d)] = "fail"
  /\ OnlyStep(Gen(d), "end")
  /\ WriteRow(d, [row[d] EXCEPT !.status = "failed", !.next = None])
  /\ UNCHANGED <<busy, maintVars, queue, day, used>>

\* The goroutine returns: finish("generation").
End(d) ==
  /\ pc[Gen(d)] = "end"
  /\ Leave(Gen(d))
  /\ busy' = busy \ {<<"generation", d>>}
  /\ UNCHANGED <<row, maintVars, queue, day, used>>
-----------------------------------------------------------------------------
(* deliverAndRecord                                                         *)

\* A delivery in progress makes it return without an error.
Deliver(p) ==
  /\ pc[p] = "deliver"
  /\ IF <<"delivery", on[p]>> \in busy
     THEN MoveOn(p, AfterOk(p)) /\ UNCHANGED busy
     ELSE OnlyStep(p, "send") /\ busy' = busy \cup {<<"delivery", on[p]>>}
  /\ UNCHANGED <<row, maintVars, queue, day, used>>

\* SendLongMessage sends the text the flow holds, or fails.
Send(p) ==
  /\ pc[p] = "send"
  /\ OnlyStep(p, "recordOk") \/ OnlyStep(p, "recordFail")
  /\ UNCHANGED <<row, busy, maintVars, queue, day, used>>

\* MarkDelivered or MarkDeliveryFailed, and the key is given back.
Record(p) ==
  /\ pc[p] \in {"recordOk", "recordFail"}
  /\ MoveOn(p, IF pc[p] = "recordOk" THEN AfterOk(p) ELSE AfterError(p))
  /\ WriteRow(on[p], [row[on[p]] EXCEPT !.delivered = (pc[p] = "recordOk"),
                                        !.derror = (pc[p] = "recordFail")])
  /\ busy' = busy \ {<<"delivery", on[p]>>}
  /\ UNCHANGED <<maintVars, queue, day, used>>
-----------------------------------------------------------------------------
(* RunMaintenance, as far as digests go: recovery, then historical retries. *)

MaintIdle == \A d \in Dates : mjob[d] = "none" /\ pc[Maint(d)] = "idle"
Queued == {d \in Dates : queue[d].status = "queued"}

\* recoveryRound: the first digest, once no summary is queued any more.
MaintRecovery ==
  /\ MaintIdle /\ mphase = "history"
  /\ mphase' = "recovery"
  /\ mjob' = [d \in Dates |-> IF d \in Queued /\ \A e \in Queued : d <= e THEN "recover" ELSE "none"]
  /\ UNCHANGED <<row, busy, flowVars, queue, day, used>>

\* retryHistoricalFailures: one query selects at most two due digests.
MaintHistory ==
  LET due == {d \in Dates : Historical(d)}
  IN  /\ MaintIdle /\ mphase = "recovery"
      /\ mphase' = "history"
      /\ \E S \in SUBSET due :
           /\ Cardinality(S) <= 2 /\ (Cardinality(S) < 2 => S = due)
           /\ mjob' = [d \in Dates |-> IF d \in S THEN "retry" ELSE "none"]
      /\ UNCHANGED <<row, busy, flowVars, queue, day, used>>

\* retryHistoricalItem: the digest is read again and continued.
HistoryRead(d) ==
  /\ mjob[d] = "retry" /\ pc[Maint(d)] = "idle"
  /\ mjob' = [mjob EXCEPT ![d] = "none"]
  /\ Continue(Maint(d), row[d])
  /\ UNCHANGED <<row, busy, mphase, queue, day, used>>

FinishItem(d, status) == queue' = [queue EXCEPT ![d].status = status]

\* recoverDigest
RecoverRead(d) ==
  LET p == Maint(d)
      r == row[d]
  IN  /\ mjob[d] = "recover" /\ pc[p] = "idle"
      /\ mjob' = [mjob EXCEPT ![d] = "none"]
      /\ CASE r.status = "succeeded" /\ ShouldDeliver(r) ->
                Take(p, "recDeliver", "redeliver", NoItem) /\ UNCHANGED queue
           [] r.status = "succeeded" /\ ~ShouldDeliver(r) ->
                UNCHANGED flowVars /\ FinishItem(d, "succeeded")
           [] r.status \in Active -> UNCHANGED <<flowVars, queue>>
           [] r.status = "failed" /\ ~queue[d].started ->
                Take(p, "recRerun", "rerun", NoItem) /\ UNCHANGED queue
           [] r.status = "failed" /\ queue[d].started /\ (r.next = None \/ r.retry >= Limit) ->
                UNCHANGED flowVars /\ FinishItem(d, "failed")
           [] OTHER -> Continue(p, r) /\ UNCHANGED queue
      /\ UNCHANGED <<row, busy, mphase, day, used>>

\* RetryDelivery, called by recoverDigest, reads the row again.
Redeliver(d) ==
  LET p == Maint(d)
  IN  /\ pc[p] = "redeliver"
      /\ IF row[d].status = "succeeded" /\ ~row[d].skipped
         THEN Take(p, flow[p], "deliver", ItemOf(row[d]))
         ELSE OnlyStep(p, "recFailed")
      /\ UNCHANGED <<row, busy, maintVars, queue, day, used>>

\* Rerun returned without an error, whatever startGeneration found.
RecoverStarted(d) ==
  /\ pc[Maint(d)] = "recStarted"
  /\ Leave(Maint(d))
  /\ queue' = [queue EXCEPT ![d].started = TRUE]
  /\ UNCHANGED <<row, busy, maintVars, day, used>>

\* The end of recoverDigest: an error finishes the item; a delivery that is
\* not recorded yet belongs to another flow and is waited for.
RecoverCheck(d) ==
  /\ pc[Maint(d)] \in {"recCheck", "recFailed"}
  /\ Leave(Maint(d))
  /\ IF pc[Maint(d)] = "recFailed" THEN FinishItem(d, "failed")
     ELSE IF row[d].delivered THEN FinishItem(d, "succeeded") ELSE UNCHANGED queue
  /\ UNCHANGED <<row, busy, maintVars, day, used>>
-----------------------------------------------------------------------------
(* HTTP requests.                                                           *)

Request(u, d) ==
  /\ pc[User(u)] = "idle" /\ row[d].status # "absent"
  /\ used.requests < MaxRequests /\ used' = [used EXCEPT !.requests = @ + 1]
  /\ on' = [on EXCEPT ![User(u)] = d]

UserRerun(u, d) ==
  /\ Request(u, d)
  /\ Goto(User(u), "rerun")
  /\ flow' = [flow EXCEPT ![User(u)] = "rerun"]
  /\ UNCHANGED <<row, busy, item, maintVars, queue, day>>

\* RetryDelivery sends again, also what has been delivered before.
UserRetryDelivery(u, d) ==
  /\ Request(u, d)
  /\ row[d].status = "succeeded" /\ ~row[d].skipped
  /\ Goto(User(u), "deliver")
  /\ flow' = [flow EXCEPT ![User(u)] = "deliver"]
  /\ item' = [item EXCEPT ![User(u)] = ItemOf(row[d])]
  /\ UNCHANGED <<row, busy, maintVars, queue, day>>

\* QueueFailedSummaries: failures and failed deliveries, unless a batch is active.
QueueFailed ==
  /\ used.requests < MaxRequests /\ used' = [used EXCEPT !.requests = @ + 1]
  /\ Queued = {}
  /\ queue' = [d \in Dates |->
       [status |-> IF (row[d].status = "failed" \/ row[d].derror) /\ ~row[d].delivered THEN "queued" ELSE "none",
        started |-> FALSE]]
  /\ UNCHANGED <<row, busy, flowVars, maintVars, day>>
-----------------------------------------------------------------------------
(* Failing calls and the environment.                                       *)

\* A database call of a caller fails, or its Bot settings are gone: the flow
\* ends with an error and gives its keys back.
CallerError(p) ==
  LET d == on[p]
  IN  /\ p[1] # "gen" /\ pc[p] \in {"read", "create", "rerun", "collect", "prepare", "running", "redeliver"}
      /\ MayFail
      /\ MoveOn(p, AfterError(p))
      /\ busy' = busy \ ((IF pc[p] = "running" THEN {<<"generation", d>>} ELSE {}) \cup
                         (IF flow[p] \in Reruns /\ pc[p] # "rerun" THEN {<<"rerun", d>>} ELSE {}))
      /\ UNCHANGED <<row, maintVars, queue, day>>

\* A database call of execute fails; a failing failUnexpected is only dropped.
GenError(d) ==
  /\ pc[Gen(d)] \in {"load", "save", "fail"}
  /\ MayFail
  /\ OnlyStep(Gen(d), IF pc[Gen(d)] = "fail" THEN "end" ELSE "fail")
  /\ UNCHANGED <<row, busy, maintVars, queue, day>>

\* deliverAndRecord finds no Bot, or its record cannot be stored.
DeliveryError(p) ==
  /\ pc[p] \in DeliverySteps
  /\ MayFail
  /\ MoveOn(p, AfterError(p))
  /\ busy' = busy \ {<<"delivery", on[p]>>}
  /\ UNCHANGED <<row, maintVars, queue, day>>

\* The maintenance loop cannot read its item or store what it has done.  Only
\* recoverDigest's first read turns an error into a failed item.
MaintError(d) ==
  /\ MayFail
  /\ \/ /\ mjob[d] # "none" /\ pc[Maint(d)] = "idle"
        /\ mjob' = [mjob EXCEPT ![d] = "none"]
        /\ IF mjob[d] = "recover" THEN FinishItem(d, "failed") ELSE UNCHANGED queue
        /\ UNCHANGED flowVars
     \/ /\ pc[Maint(d)] \in {"recStarted", "recCheck", "recFailed"}
        /\ Leave(Maint(d))
        /\ UNCHANGED <<mjob, queue>>
  /\ UNCHANGED <<row, busy, mphase, day>>

\* A waiting retry becomes due.
Elapse(d) ==
  /\ row[d].next = "later"
  /\ WriteRow(d, [row[d] EXCEPT !.next = "due"])
  /\ UNCHANGED <<busy, flowVars, maintVars, queue, day, used>>

Midnight ==
  /\ day < MaxDay
  /\ day' = day + 1
  /\ UNCHANGED <<row, busy, flowVars, maintVars, queue, used>>

\* Mutant: the running rows are left as they are.
RecoveredNot(r) == r

\* RecoverInterrupted looks for running rows.
Recovered(r) == IF r.status = "running" THEN [r EXCEPT !.status = "failed", !.next = "due"] ELSE r

\* The process dies at any step; the next one runs RecoverInterrupted first.
Restart ==
  /\ used.restarts < MaxRestarts /\ used' = [used EXCEPT !.restarts = @ + 1]
  /\ row' = [d \in Dates |-> Recovered(row[d])]
  /\ busy' = {}
  /\ pc' = [p \in Procs |-> "idle"]
  /\ flow' = [p \in Procs |-> "none"]
  /\ item' = [p \in Procs |-> NoItem]
  /\ mjob' = [d \in Dates |-> "none"] /\ mphase' = "history"
  /\ UNCHANGED <<on, queue, day>>

Step(p) ==
  \/ Rerun(p) \/ Collect(p) \/ Prepare(p) \/ Start(p) \/ SetRunning(p)
  \/ Deliver(p) \/ Send(p) \/ Record(p)

Generation(d) == Load(d) \/ SaveResult(d) \/ FailUnexpected(d) \/ End(d)
Recovery(d) == RecoverRead(d) \/ Redeliver(d) \/ RecoverStarted(d) \/ RecoverCheck(d)

Next ==
  \/ SchedTick \/ SchedRead \/ Create \/ MaintRecovery \/ MaintHistory
  \/ \E p \in Procs : Step(p) \/ CallerError(p) \/ DeliveryError(p)
  \/ \E d \in Dates : Generation(d) \/ HistoryRead(d) \/ Recovery(d) \/ GenError(d) \/ MaintError(d) \/ Elapse(d)
  \/ \E u \in Users, d \in Dates : UserRerun(u, d) \/ UserRetryDelivery(u, d)
  \/ QueueFailed \/ Midnight \/ Restart

Spec == Init /\ [][Next]_vars

\* Every started flow and both loops go on, and a time stamp is reached; the
\* day may last for ever, so that a property speaks of what one day allows.
Fairness ==
  /\ WF_vars(SchedTick) /\ WF_vars(SchedRead) /\ WF_vars(Create)
  /\ WF_vars(MaintRecovery) /\ WF_vars(MaintHistory)
  /\ \A p \in Procs : WF_vars(Step(p))
  /\ \A d \in Dates : WF_vars(Generation(d)) /\ WF_vars(HistoryRead(d)) /\ WF_vars(Recovery(d)) /\ WF_vars(Elapse(d))

FairSpec == Spec /\ Fairness
-----------------------------------------------------------------------------
(* Properties.                                                              *)

\* Every variable has its type.
TypeOK ==
  /\ row \in [Dates -> Row]
  /\ busy \subseteq {"rerun", "generation", "delivery"} \X Dates
  /\ pc \in [Procs -> Steps] /\ flow \in [Procs -> Flows] /\ item \in [Procs -> Item]
  /\ on \in [Procs -> Dates] /\ \A d \in Dates : on[Maint(d)] = d /\ on[Gen(d)] = d
  /\ mjob \in [Dates -> {"none", "recover", "retry"}] /\ mphase \in {"history", "recovery"}
  /\ queue \in [Dates -> [status : {"none", "queued", "succeeded", "failed"}, started : BOOLEAN]]
  /\ day \in 0..MaxDay
  /\ used \in [requests : Nat, faults : Nat, restarts : Nat]

Inside(kind, p) ==
  CASE kind = "rerun"      -> flow[p] \in Reruns /\ pc[p] \in RerunSteps \cup {"start", "running"}
    [] kind = "generation" -> pc[p] = "running" \/ (p[1] = "gen" /\ pc[p] # "idle")
    [] kind = "delivery"   -> pc[p] \in DeliverySteps

\* begin and finish: a key of the in-memory set is taken exactly while one flow
\* is inside of what it protects, also for the generation whose key the caller
\* takes and the goroutine gives back; no error path and no restart leaks one.
KeysExact ==
  \A kind \in {"rerun", "generation", "delivery"}, d \in Dates :
    LET inside == {p \in Procs : on[p] = d /\ Inside(kind, p)}
    IN  /\ Cardinality(inside) <= 1
        /\ <<kind, d>> \in busy <=> inside # {}

\* Scheduler, maintenance loop and recovery decide on a retry before they take
\* the key: together they exceed the limit by at most one.
RetryOvershoot == \A d \in Dates : row[d].retry <= Limit + 1

\* A running digest gets a result, across restarts.
RunningEnds == \A d \in Dates : row[d].status = "running" ~> row[d].status # "running"

\* As long as its day is yesterday, a digest that is pending is taken up again
\* by runOnce, whoever left it so.
PendingTakenUp ==
  \A d \in Dates : row[d].status = "pending" ~> row[d].status # "pending" \/ day # d + 1

\* A failed digest with a retry scheduled below the limit is retried: by runOnce
\* while its day is yesterday, later by the maintenance loop.
RetryHappens ==
  \A d \in Dates :
    row[d].status = "failed" /\ row[d].next # None /\ row[d].retry < Limit ~>
      row[d].status # "failed" \/ \E e \in Dates : row[e].status = "pending"
-----------------------------------------------------------------------------
(* A claim of the repository that the code does not keep.                   *)

\* Rerun rebuilds the digest and sends it: a pending digest is generated.
PendingEnds == \A d \in Dates : row[d].status = "pending" ~> row[d].status # "pending"
=============================================================================
