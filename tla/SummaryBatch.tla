---------------------------- MODULE SummaryBatch ----------------------------
(***************************************************************************)
(* Batch generation: a request plans the summaries of several chats and    *)
(* days, the maintenance loop generates them, SummaryBatchParallelism per  *)
(* round, beside the scheduler, the retries and the requests that work on  *)
(* the same rows.  An item that was started waits for the retries of its   *)
(* row; whether the row has been written since the item was started tells  *)
(* a result from what a restart left behind.                               *)
(*                                                                         *)
(* Abstractions: a key is a chat and a date, numbered in the order of the  *)
(* batch; the flows of SummaryTasks other than the batch are one flow per  *)
(* key, which holds the task of the key and generates, retries or records  *)
(* a delivery; next says whether a retry has been scheduled.  A failing    *)
(* flow that has left the task still has its row to set to failed: late    *)
(* is the set of these rows.  No statement of the program deletes a chat,  *)
(* and a deletion by hand takes the items of the chat with it (on delete   *)
(* cascade): the branches for a chat that is gone are left out.            *)
(***************************************************************************)
EXTENDS Integers, FiniteSetsExt

CONSTANTS
  Items,                   \* the keys a batch may have
  summaryBatchParallelism,
  RetryLimit,              \* SummaryRetryLimit
  MaxBatches,              \* bound: batches
  MaxOthers,               \* bound: generations and deliveries by others
  MaxUpsets                \* bound: failing calls, restarts and settings

ASSUME BatchAssumption ==
  /\ Items \subseteq Nat /\ IsFiniteSet(Items)
  /\ summaryBatchParallelism \in Nat \ {0} /\ RetryLimit \in Nat
  /\ MaxBatches \in Nat /\ MaxOthers \in Nat /\ MaxUpsets \in Nat

VARIABLES
  summary,   \* the summaries table
  touched,   \* rows written since StartSummaryBatchItem of their item
  inTask,    \* Service.inflight
  items,     \* the summary_batch_items table
  plan,      \* a request that has read the rows: its items and overwrite
  round,     \* runSummaryBatch: the items to look at and how many were started
  work,      \* what the goroutine of an item does next
  other,     \* what the other flow of a key does next
  late,      \* rows a flow that has left the task has still to set to failed
  summaryOn, \* chats with AI summaries
  moved,     \* keys that belong to a period of a new frequency
  effort     \* batches, other flows and upsets so far

batchVars == <<summary, touched, inTask, items, plan, round, work, other, late, summaryOn, moved, effort>>
worldVars == <<summaryOn, moved, effort>>
otherVars == <<other, late>>
loopVars == <<items, plan, round, work>>

SummaryRow == [status : {"absent", "pending", "running", "succeeded", "failed"}, count : 0..RetryLimit, next : BOOLEAN]
NoSummary == [status |-> "absent", count |-> 0, next |-> FALSE]
Result == {"succeeded", "failed", "skipped"}
BatchItem == [status : {"none", "queued"} \cup Result, started : BOOLEAN, overwrite : BOOLEAN]
NoItem == [status |-> "none", started |-> FALSE, overwrite |-> FALSE]
RunSteps == {"pending", "running", "save", "schedule"}
WorkSteps == {"none", "prepare", "start", "target", "check", "error"} \cup RunSteps
NoPlan == [keys |-> {}, overwrite |-> FALSE]
NoRound == [todo |-> {}, started |-> 0]

Upset == effort.upsets < MaxUpsets /\ effort' = [effort EXCEPT !.upsets = @ + 1]
Retryable(k) == summary[k].status = "failed" /\ summary[k].next /\ summary[k].count < RetryLimit

Succeeded == [NoSummary EXCEPT !.status = "succeeded"]
Failed(k) == [summary[k] EXCEPT !.status = "failed", !.next = FALSE]
Write(k, r) == summary' = [summary EXCEPT ![k] = r] /\ touched' = touched \cup {k}
Step(k, next) == work' = [work EXCEPT ![k] = next]
Release(k) == Step(k, "none") /\ inTask' = inTask \ {k}
Finish(k, result) == items' = [items EXCEPT ![k].status = result] /\ Release(k)
-----------------------------------------------------------------------------
BatchInit ==
  /\ summary = [k \in Items |-> NoSummary] /\ touched = {} /\ inTask = {}
  /\ items = [k \in Items |-> NoItem] /\ plan = NoPlan /\ round = NoRound
  /\ work = [k \in Items |-> "none"] /\ other = [k \in Items |-> "none"] /\ late = {}
  /\ summaryOn = Items /\ moved = {}
  /\ effort = [batches |-> 0, others |-> 0, upsets |-> 0]

(* QueueSummaryBatch                                                        *)

\* The request reads the chats and rows ...
PlanBatch(overwrite) ==
  /\ plan = NoPlan /\ effort.batches < MaxBatches
  /\ effort' = [effort EXCEPT !.batches = @ + 1]
  /\ plan' = [keys |-> {k \in summaryOn : overwrite \/ summary[k].status # "succeeded"},
              overwrite |-> overwrite]
  /\ UNCHANGED <<summary, touched, inTask, items, round, work, otherVars, summaryOn, moved>>

Active == \E k \in Items : items[k].status = "queued"

\* ... and replaces a batch that is over, in one transaction.
QueueBatch ==
  /\ plan.keys # {} /\ plan' = NoPlan
  /\ items' = IF Active THEN items
              ELSE [k \in Items |-> IF k \in plan.keys
                                    THEN [NoItem EXCEPT !.status = "queued", !.overwrite = plan.overwrite]
                                    ELSE NoItem]
  /\ UNCHANGED <<summary, touched, inTask, round, work, otherVars, worldVars>>
-----------------------------------------------------------------------------
(* runSummaryBatch                                                          *)

BeginRound ==
  /\ round.todo = {} /\ Active /\ \A k \in Items : work[k] = "none"
  /\ round' = [todo |-> {k \in Items : items[k].status = "queued"}, started |-> 0]
  /\ UNCHANGED <<summary, touched, inTask, items, plan, work, otherVars, worldVars>>

\* Mutant: one item too many is started in a round.
PassedOneMore(k) ==
  \/ ~items[k].started /\ round.started > summaryBatchParallelism
  \/ k \in inTask

\* The loop looks at the next item; it prepares one item at a time.
Passed(k) ==
  \/ ~items[k].started /\ round.started = summaryBatchParallelism
  \/ k \in inTask

LookAt ==
  /\ round.todo # {} /\ \A k \in Items : work[k] # "prepare"
  /\ LET k == Min(round.todo) IN
     /\ round' = [round EXCEPT !.todo = @ \ {k}]
     /\ IF Passed(k) THEN UNCHANGED <<inTask, work>>
        ELSE inTask' = inTask \cup {k} /\ Step(k, IF items[k].started THEN "check" ELSE "prepare")
  /\ UNCHANGED <<summary, touched, items, plan, otherVars, worldVars>>

\* Mutant: what the request has read is taken to be still true.
SkippedUnread(k) == k \notin summaryOn

Skipped(k) ==
  \/ k \notin summaryOn
  \/ ~items[k].overwrite /\ summary[k].status = "succeeded"

\* prepareSummaryBatchItem
PrepareItem(k) ==
  /\ work[k] = "prepare"
  /\ IF Skipped(k) THEN Finish(k, "skipped") /\ UNCHANGED round
     ELSE /\ Step(k, "start") /\ round' = [round EXCEPT !.started = @ + 1]
          /\ UNCHANGED <<items, inTask>>
  /\ UNCHANGED <<summary, touched, plan, otherVars, worldVars>>

\* StartSummaryBatchItem
StartItem(k) ==
  /\ work[k] = "start"
  /\ items' = [items EXCEPT ![k].started = TRUE] /\ touched' = touched \ {k}
  /\ Step(k, "target")
  /\ UNCHANGED <<summary, inTask, plan, round, otherVars, worldVars>>

\* summaryTarget: a day without a row follows the frequency of its chat.
Target(k) ==
  /\ work[k] = "target"
  /\ IF k \in moved /\ summary[k].status = "absent"
     THEN Finish(k, "skipped") ELSE Step(k, "pending") /\ UNCHANGED <<items, inTask>>
  /\ UNCHANGED <<summary, touched, plan, round, otherVars, worldVars>>

\* runNow: UpsertPending, SetRunning, SaveResult and, after a failure that may
\* be retried, ScheduleRetry.
RunNow(k) ==
  /\ \/ /\ work[k] = "pending" /\ Step(k, "running")
        /\ IF summary[k].status = "absent" THEN Write(k, [NoSummary EXCEPT !.status = "pending"])
           ELSE UNCHANGED <<summary, touched>>
     \/ work[k] = "running" /\ Step(k, "save") /\ Write(k, [NoSummary EXCEPT !.status = "running"])
     \/ /\ work[k] = "save"
        /\ \/ Write(k, Succeeded) /\ Step(k, "check")
           \/ Write(k, Failed(k)) /\ (Step(k, "check") \/ Step(k, "schedule"))
     \/ /\ work[k] = "schedule" /\ Step(k, "check")
        /\ IF summary[k].count < RetryLimit THEN Write(k, [summary[k] EXCEPT !.next = TRUE])
           ELSE UNCHANGED <<summary, touched>>
  /\ UNCHANGED <<inTask, items, plan, round, otherVars, worldVars>>

\* startSummaryBatchItem after an error of runNow.
AfterError(k) ==
  /\ work[k] = "error"
  /\ IF summary[k].status = "absent" \/ k \notin touched
     THEN Finish(k, "failed") /\ UNCHANGED <<summary, touched>>
     ELSE /\ Step(k, "check") /\ UNCHANGED <<items, inTask>>
          /\ IF summary[k].status \in {"pending", "running"}
             THEN Write(k, Failed(k))
             ELSE UNCHANGED <<summary, touched>>
  /\ UNCHANGED <<plan, round, otherVars, worldVars>>

\* The row is not a result of this start: the process was interrupted.
InterruptedItem(k) == summary[k].status \in {"absent", "pending", "running"} \/ k \notin touched

\* checkSummaryBatchItem
CheckItem(k) ==
  /\ work[k] = "check"
  /\ CASE InterruptedItem(k) -> items' = [items EXCEPT ![k].started = FALSE] /\ Release(k)
       [] ~InterruptedItem(k) /\ summary[k].status = "succeeded" -> Finish(k, "succeeded")
       [] ~InterruptedItem(k) /\ summary[k].status = "failed" ->
            IF ~Retryable(k) THEN Finish(k, "failed")
            ELSE IF k \notin summaryOn THEN Finish(k, "skipped") ELSE Release(k) /\ UNCHANGED items
  /\ UNCHANGED <<summary, touched, plan, round, otherVars, worldVars>>

\* A failing call: runNow returns it, elsewhere the item stays as it is.
ItemFails(k) ==
  /\ work[k] # "none" /\ Upset
  /\ IF work[k] \in RunSteps THEN Step(k, "error") /\ UNCHANGED inTask ELSE Release(k)
  /\ UNCHANGED <<summary, touched, items, plan, round, otherVars, summaryOn, moved>>
-----------------------------------------------------------------------------
(* The other flows of a key                                                 *)

Turn(k, next) == other' = [other EXCEPT ![k] = next]
TurnEnd(k) == Turn(k, "none") /\ inTask' = inTask \ {k}

\* RunRetry of a retry that is due.
BeginDueRetry(k) ==
  /\ Retryable(k) /\ k \in summaryOn /\ k \notin inTask
  /\ inTask' = inTask \cup {k} /\ Turn(k, "retry")
  /\ UNCHANGED <<summary, touched, late, loopVars, worldVars>>

\* RunNow, or a delivery of a text.
BeginOther(k) ==
  /\ k \notin inTask /\ effort.others < MaxOthers /\ effort' = [effort EXCEPT !.others = @ + 1]
  /\ inTask' = inTask \cup {k}
  /\ Turn(k, "generate") \/ (summary[k].status = "succeeded" /\ Turn(k, "deliver"))
  /\ UNCHANGED <<summary, touched, late, loopVars, summaryOn, moved>>

OtherRun(k) ==
  /\ \/ /\ other[k] = "retry" /\ Turn(k, "save") /\ UNCHANGED inTask
        /\ Write(k, [status |-> "running", count |-> summary[k].count + 1, next |-> FALSE])
     \/ /\ other[k] = "generate" /\ Turn(k, "save") /\ UNCHANGED inTask
        /\ Write(k, [NoSummary EXCEPT !.status = "running"])
     \/ other[k] = "deliver" /\ TurnEnd(k) /\ Write(k, summary[k])
     \/ /\ other[k] = "save"
        /\ \/ Write(k, Succeeded) /\ TurnEnd(k)
           \/ Write(k, Failed(k)) /\ (TurnEnd(k) \/ (Turn(k, "schedule") /\ UNCHANGED inTask))
     \/ /\ other[k] = "schedule" /\ TurnEnd(k)
        /\ IF summary[k].count < RetryLimit THEN Write(k, [summary[k] EXCEPT !.next = TRUE])
           ELSE UNCHANGED <<summary, touched>>
  /\ UNCHANGED <<late, loopVars, worldVars>>

\* A failing call; the row is set to failed when the task has been left.
OtherFails(k) ==
  /\ other[k] \in {"retry", "save", "schedule"} /\ Upset
  /\ TurnEnd(k) /\ late' = late \cup {k}
  /\ UNCHANGED <<summary, touched, loopVars, summaryOn, moved>>

SetFailed(k) ==
  /\ k \in late /\ late' = late \ {k}
  /\ Write(k, Failed(k))
  /\ UNCHANGED <<inTask, other, loopVars, worldVars>>

\* AI summaries of a chat are switched off or on, its frequency is changed.
ChangeChat(k) ==
  /\ Upset
  /\ \/ summaryOn' = (summaryOn \ {k}) \cup ({k} \ summaryOn) /\ UNCHANGED moved
     \/ k \notin moved /\ moved' = moved \cup {k} /\ UNCHANGED summaryOn
  /\ UNCHANGED <<summary, touched, inTask, loopVars, otherVars>>

\* The process ends and starts again: RecoverInterruptedSummaries.
BatchRestart ==
  LET interrupted == {k \in Items : summary[k].status \in {"pending", "running"}} IN
  /\ Upset
  /\ summary' = [k \in Items |->
       IF k \in interrupted THEN [summary[k] EXCEPT !.status = "failed", !.next = TRUE] ELSE summary[k]]
  /\ touched' = touched \cup interrupted
  /\ inTask' = {} /\ plan' = NoPlan /\ round' = NoRound
  /\ work' = [k \in Items |-> "none"] /\ other' = [k \in Items |-> "none"] /\ late' = {}
  /\ UNCHANGED <<items, summaryOn, moved>>
-----------------------------------------------------------------------------
ItemStep(k) ==
  PrepareItem(k) \/ StartItem(k) \/ Target(k) \/ RunNow(k) \/ AfterError(k) \/ CheckItem(k)

BatchNext ==
  \/ \E overwrite \in BOOLEAN : PlanBatch(overwrite)
  \/ QueueBatch \/ BeginRound \/ LookAt \/ BatchRestart
  \/ \E k \in Items :
       \/ ItemStep(k) \/ ItemFails(k)
       \/ BeginDueRetry(k) \/ BeginOther(k) \/ OtherRun(k) \/ OtherFails(k) \/ SetFailed(k)
       \/ ChangeChat(k)

BatchSpec == BatchInit /\ [][BatchNext]_batchVars
-----------------------------------------------------------------------------
BatchTypeOK ==
  /\ summary \in [Items -> SummaryRow] /\ touched \subseteq Items /\ inTask \subseteq Items
  /\ items \in [Items -> BatchItem]
  /\ plan \in [keys : SUBSET Items, overwrite : BOOLEAN]
  /\ round \in [todo : SUBSET Items, started : 0..summaryBatchParallelism]
  /\ work \in [Items -> WorkSteps]
  /\ other \in [Items -> {"none", "retry", "generate", "deliver", "save", "schedule"}]
  /\ late \subseteq Items
  /\ summaryOn \subseteq Items /\ moved \subseteq Items
  /\ effort \in [batches : 0..MaxBatches, others : 0..MaxOthers, upsets : 0..MaxUpsets]

\* A batch that does not overwrite never generates a summary again that has
\* succeeded, whoever has generated it between the request and the start of
\* the item (prepareSummaryBatchItem looks again, inside the task).
NoOverwrite ==
  \A k \in Items :
    work[k] \in {"start", "target", "pending", "running"} /\ ~items[k].overwrite =>
      summary[k].status # "succeeded"

\* A batch is Active until every item has a result.
BatchOver == ~Active
=============================================================================
