---------------------------- MODULE MC_Services -----------------------------
(* Instances of the services that surround the summaries.  They share no    *)
(* state in these models, so that their interleaving would add nothing: a   *)
(* behaviour of Services is one of a single service, the one component      *)
(* names, and the others stay where they begin.                             *)
EXTENDS CatchUp, LocalLogin, KeywordAlerts, HistoryBackfill,
        SummaryBatch, FailureNotices, DailyGeneration, Rollup, MessagePages, TLC

VARIABLE component

\* Summaries of two chats: a2 covers one day of two, b1 two days.
ChatOf(s) == IF s = "b1" THEN "b" ELSE "a"
FirstOf(s) == IF s = "a2" THEN 2 ELSE 1
LastOf(s) == 2

\* Message 1 is sent on day 1, the others on day 2, the last of them live.
DayOf(m) == IF m = 1 THEN 1 ELSE 2

\* Four messages, one of them without text and one after a silence.
TokensOfMessages == <<3, 0, 3, 1>>
TokensOfSources == <<2, 3, 1>>

\* Message 1 is of yesterday; the messages 2 to 4 share one second.
SecondOf(p) == IF p = 1 THEN 1 ELSE IF p <= 4 THEN 2 ELSE 3
LocalDayOf(p) == IF p = 1 THEN 1 ELSE 2

services == <<component, catchUpVars, loginVars, alertVars, backfillVars, batchVars, noticeVars,
              dailyVars, rollupVars, pagesVars>>

AnyOf(S) == CHOOSE e \in S : TRUE

\* Some window and limit are configured.
ASSUME ServicesAssumption ==
  /\ Windows # {} /\ ModelLimits # {}
  /\ RollupWindows # {} /\ RollupLimits # {} /\ ContextSizes # {}

\* The windows and limits of a generation matter where it is the component.
ServicesInit ==
  /\ component \in {"catch-up", "login", "alerts", "back-fill", "batch", "notices",
                    "generation", "roll-up", "pages"}
  /\ CatchUpInit /\ LoginInit /\ AlertsInit /\ BackfillInit /\ BatchInit /\ NoticesInit
  /\ PagesInit
  /\ IF component = "generation" THEN DailyInit
     ELSE draft = DailyStart(AnyOf(Windows), AnyOf(ModelLimits))
  /\ IF component = "roll-up" THEN RollupInit
     ELSE roll = RollupStart(AnyOf(RollupWindows), AnyOf(RollupLimits), AnyOf(ContextSizes))

\* What the other services keep.
OthersKeep ==
  /\ UNCHANGED component
  /\ component = "catch-up" \/ UNCHANGED catchUpVars
  /\ component = "login" \/ UNCHANGED loginVars
  /\ component = "alerts" \/ UNCHANGED alertVars
  /\ component = "back-fill" \/ UNCHANGED backfillVars
  /\ component = "batch" \/ UNCHANGED batchVars
  /\ component = "notices" \/ UNCHANGED noticeVars
  /\ component = "generation" \/ UNCHANGED dailyVars
  /\ component = "roll-up" \/ UNCHANGED rollupVars
  /\ component = "pages" \/ UNCHANGED pagesVars

ServicesNext ==
  \/ component = "catch-up" /\ CatchUpNext /\ OthersKeep
  \/ component = "login" /\ LoginNext /\ OthersKeep
  \/ component = "alerts" /\ AlertsNext /\ OthersKeep
  \/ component = "back-fill" /\ BackfillNext /\ OthersKeep
  \/ component = "batch" /\ BatchNext /\ OthersKeep
  \/ component = "notices" /\ NoticesNext /\ OthersKeep
  \/ component = "generation" /\ DailyNext /\ OthersKeep
  \/ component = "roll-up" /\ RollupNext /\ OthersKeep
  \/ component = "pages" /\ PagesNext /\ OthersKeep

\* Goroutines and loops go on: the calls they make have timeouts, a wait is a
\* timer, a lease is a matter of time.  A retry that is due is carried out in
\* the end, as SummaryTasks shows (RetryHappens).  What goes on beside each other
\* for several days or items is fair as a whole, which is less than each being fair.
ServicesFairness ==
  /\ \A c \in CatchUps : WF_catchUpVars(component = "catch-up" /\ Goroutine(c))
  /\ WF_backfillVars(component = "back-fill" /\ Import)
  /\ WF_backfillVars(component = "back-fill" /\ Repair)
  /\ WF_backfillVars(component = "back-fill" /\ \E d \in Days : ReadMessages(d) \/ SaveSummary(d))
  /\ WF_batchVars(component = "batch" /\ (BeginRound \/ LookAt \/ \E k \in Items : ItemStep(k)))
  /\ WF_batchVars(component = "batch" /\ \E k \in Items : OtherRun(k) \/ SetFailed(k))
  /\ SF_batchVars(component = "batch" /\ \E k \in Items : BeginDueRetry(k))
  /\ WF_noticeVars(component = "notices" /\ Notify)
  /\ WF_noticeVars(component = "notices" /\ LeaseEnds)

Services == ServicesInit /\ [][ServicesNext]_services /\ ServicesFairness
-----------------------------------------------------------------------------
\* Every service keeps its state in range: attempts, waits, failed logins and
\* the items started in a round stay within their limits (ClaimFailureNotice,
\* totalWait, recordFailure, summaryBatchParallelism).
ServicesTypeOK ==
  /\ CatchUpTypeOK /\ LoginTypeOK /\ AlertsTypeOK
  /\ BackfillTypeOK /\ BatchTypeOK /\ NoticesTypeOK
  /\ DailyTypeOK /\ RollupTypeOK /\ PagesTypeOK

\* The bot repeats no announcement: the alerts of a chat and a keyword keep
\* their distance, and a date has one notice for each attempt that did not fail
\* (claim and release, ClaimFailureNotice and FinishFailureNotice).
NoRepeats == AlertsApart /\ OneNotice

\* What the archive holds is whole and is shown whole: a back-fill that reports
\* success has stored every message of its range, and whoever reads a chat
\* backwards is shown every message once (importChatHistory, ListPageForRange).
ArchiveWhole == BackfillComplete /\ ShownOnce

\* No text is lost or doubled on its way: a summary rests on every message of
\* its period, a document on every source, each in their order
\* (mergeDailyPartials, mergePartials).
NothingLost == MessagesKept /\ SourcesKept

\* What a background service has begun ends, across failing calls and
\* restarts: the generation of a catch-up, a back-fill however Telegram limits
\* it and the repair of the empty summaries after it, every item of a batch,
\* the notice about a date that has failed (run and RecoverInterrupted,
\* runHistoryBackfill, checkSummaryBatchItem, notifyFailures).  Each answer of
\* the model, refusals included, brings a generation nearer to its end
\* (generateDailyPartials, mergeDailyPartials, mergePartials).
TasksEnd ==
  /\ EmptyRepaired /\ DailyShrinks /\ RollupShrinks
  /\ (\/ component = "catch-up" /\ CatchUpOpen
      \/ component = "back-fill" /\ BackfillOpen
      \/ component = "batch" /\ Active
      \/ component = "notices" /\ NoticeOpen)
     ~>
     (\/ component = "catch-up" /\ CatchUpOver
      \/ component = "back-fill" /\ BackfillOver
      \/ component = "batch" /\ BatchOver
      \/ component = "notices" /\ NoticeOver)
=============================================================================
