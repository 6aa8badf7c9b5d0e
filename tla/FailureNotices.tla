--------------------------- MODULE FailureNotices ---------------------------
(***************************************************************************)
(* The notice about the failed summaries of a date: the maintenance loop   *)
(* waits until no summary and no digest of the date is under way or will   *)
(* be retried, stores one notice, and sends it with at most MaxAttempts    *)
(* attempts, each claimed with a lease.  Meanwhile summaries are           *)
(* generated, retried and rerun by the flows of the other modules.  A      *)
(* round without a configured bot does nothing; the settings are read at   *)
(* its start.                                                              *)
(*                                                                         *)
(* Abstractions: one date; a summary or digest is waiting (pending,        *)
(* running, missing or failed with a retry to come), failed for good or    *)
(* succeeded; a lease is over or not.                                      *)
(***************************************************************************)
EXTENDS Integers

CONSTANTS
  Parts,           \* the summaries and the digest of the date
  MaxAttempts,     \* attempts<4 in ClaimFailureNotice
  MaxReruns,       \* bound: reruns, rounds of the recovery queue, switches of the bot
  MaxNoticeFaults  \* bound: failing calls, lost answers and restarts

ASSUME NoticesAssumption ==
  MaxAttempts \in Nat \ {0} /\ MaxReruns \in Nat /\ MaxNoticeFaults \in Nat

VARIABLES
  state,      \* FailureStates: what has become of each part
  recovering, \* the parts with a queued item in summary_recovery
  notice,     \* the row of summary_failure_notices
  botOn,      \* BotEnabled, with its token and its chat
  notify,     \* what notifyFailures does next
  messages,   \* history: messages that have arrived
  troubles    \* reruns and faults so far

noticeVars == <<state, recovering, notice, botOn, notify, messages, troubles>>

NoNotice == [stored |-> FALSE, attempts |-> 0, due |-> TRUE, delivered |-> FALSE]
NotifySteps == {"read", "queue", "claim", "send", "sent", "unsent"}
NoticeFault == troubles.faults < MaxNoticeFaults /\ troubles' = [troubles EXCEPT !.faults = @ + 1]
Proceeds(next) == notify' = next

NoticesInit ==
  /\ state = [p \in Parts |-> "waiting"] /\ recovering = {}
  /\ notice = NoNotice /\ botOn = TRUE /\ notify = "read" /\ messages = 0
  /\ troubles = [reruns |-> 0, faults |-> 0]

PartEnds(p) ==
  /\ state[p] = "waiting"
  /\ \E result \in {"failed", "succeeded"} : state' = [state EXCEPT ![p] = result]
  /\ UNCHANGED <<recovering, notice, botOn, notify, messages, troubles>>

Again == troubles.reruns < MaxReruns /\ troubles' = [troubles EXCEPT !.reruns = @ + 1]

\* A user starts a failed part again.
Rerun(p) ==
  /\ state[p] = "failed" /\ Again
  /\ state' = [state EXCEPT ![p] = "waiting"]
  /\ UNCHANGED <<recovering, notice, botOn, notify, messages>>

\* QueueFailedSummaries, of the requests.
QueueRecovery ==
  /\ recovering = {} /\ Again
  /\ recovering' = {p \in Parts : state[p] = "failed"}
  /\ UNCHANGED <<state, notice, botOn, notify, messages>>

\* The bot is configured, or no longer, in the settings.
SwitchBot ==
  /\ Again /\ botOn' = ~botOn
  /\ UNCHANGED <<state, recovering, notice, notify, messages>>

\* runRecovery, the same loop at an earlier point of the round: an item is
\* generated again, or its result is final.
Recover(p) ==
  /\ notify = "read" /\ p \in recovering /\ state[p] # "waiting"
  /\ \/ /\ state[p] = "failed" /\ state' = [state EXCEPT ![p] = "waiting"]
        /\ UNCHANGED recovering
     \/ recovering' = recovering \ {p} /\ UNCHANGED state
  /\ UNCHANGED <<notice, botOn, notify, messages, troubles>>

\* failureMessage: every retry is over and something has failed.
NoticeReady == (\A p \in Parts : state[p] # "waiting") /\ \E p \in Parts : state[p] = "failed"

\* Settings.Get, then FailureDates and FailureStates of a date without a notice.
ReadStates ==
  /\ notify = "read" /\ botOn
  /\ Proceeds(IF ~notice.stored /\ NoticeReady THEN "queue" ELSE "claim")
  /\ UNCHANGED <<state, recovering, notice, botOn, messages, troubles>>

\* QueueFailureNotice
QueueNotice ==
  /\ notify = "queue" /\ Proceeds("claim")
  /\ notice' = IF recovering # {} THEN notice ELSE [notice EXCEPT !.stored = TRUE]
  /\ UNCHANGED <<state, recovering, botOn, messages, troubles>>

Claimable == notice.stored /\ ~notice.delivered /\ notice.attempts < MaxAttempts /\ notice.due

\* ClaimFailureNotice
ClaimNotice ==
  /\ notify = "claim"
  /\ IF Claimable
     THEN Proceeds("send") /\ notice' = [notice EXCEPT !.attempts = @ + 1, !.due = FALSE]
     ELSE Proceeds("read") /\ UNCHANGED notice
  /\ UNCHANGED <<state, recovering, botOn, messages, troubles>>

\* The message arrives, with an answer or without one, or it does not.
SendNotice ==
  /\ notify = "send"
  /\ \/ messages' = messages + 1 /\ Proceeds("sent") /\ UNCHANGED troubles
     \/ NoticeFault /\ messages' \in {messages, messages + 1} /\ Proceeds("unsent")
  /\ UNCHANGED <<state, recovering, notice, botOn>>

\* Mutant: whether the message was sent is not stored.
FinishNoticeUnmarked ==
  /\ notify \in {"sent", "unsent"} /\ Proceeds("read")
  /\ UNCHANGED <<state, recovering, notice, botOn, messages, troubles>>

\* FinishFailureNotice
FinishNotice ==
  /\ notify \in {"sent", "unsent"} /\ Proceeds("read")
  /\ notice' = [notice EXCEPT !.delivered = (notify = "sent")]
  /\ UNCHANGED <<state, recovering, botOn, messages, troubles>>

\* Five minutes have passed.
LeaseEnds ==
  /\ ~notice.due /\ notice' = [notice EXCEPT !.due = TRUE]
  /\ UNCHANGED <<state, recovering, botOn, notify, messages, troubles>>

\* A database call of the round fails, or the process starts again.
NotifyFails ==
  /\ NoticeFault /\ notify # "read" /\ Proceeds("read")
  /\ UNCHANGED <<state, recovering, notice, botOn, messages>>

Notify == ReadStates \/ QueueNotice \/ ClaimNotice \/ SendNotice \/ FinishNotice

NoticesNext ==
  \/ Notify \/ NotifyFails \/ LeaseEnds \/ QueueRecovery \/ SwitchBot
  \/ \E p \in Parts : PartEnds(p) \/ Rerun(p) \/ Recover(p)

NoticesSpec == NoticesInit /\ [][NoticesNext]_noticeVars
-----------------------------------------------------------------------------
NoticesTypeOK ==
  /\ state \in [Parts -> {"waiting", "failed", "succeeded"}] /\ recovering \subseteq Parts
  /\ notice \in [stored : BOOLEAN, attempts : 0..MaxAttempts, due : BOOLEAN, delivered : BOOLEAN]
  /\ botOn \in BOOLEAN /\ notify \in NotifySteps /\ messages \in 0..MaxAttempts
  /\ troubles \in [reruns : 0..MaxReruns, faults : 0..MaxNoticeFaults]

\* The notice goes out once, except for an attempt that failed, lost its
\* answer or was not recorded.
OneNotice == messages <= 1 + troubles.faults

\* A date has failed for good, until its notice is delivered or has used up
\* its attempts, the date is started again or there is no bot to send it.
NoticeOpen == NoticeReady /\ recovering = {} /\ botOn
NoticeOver == notice.delivered \/ notice.attempts = MaxAttempts \/ ~NoticeOpen
=============================================================================
