-------------------------- MODULE HistoryBackfill ---------------------------
(***************************************************************************)
(* The history back-fill of a chat: a goroutine walks through the history  *)
(* of Telegram from the newest message to the oldest, stores those of a    *)
(* range of days, waits when Telegram limits the rate and goes on where it *)
(* was.  Its completion hook generates again the summaries of the range    *)
(* that were made without a message (RepairEmptySummariesInRange).  Beside *)
(* it the listener stores live messages and summaries are generated.       *)
(*                                                                         *)
(* Abstractions: messages are numbered in the order of their time, which   *)
(* is the order of their ids; a summary is the number of messages it is    *)
(* made of; every wait has length one.  Batches are what Telegram knows    *)
(* when the walk asks for the next message.                                *)
(***************************************************************************)
EXTENDS Integers, FiniteSets

CONSTANTS
  LastMessage,     \* bound: messages of the chat
  FirstUnseen,     \* the messages from here on arrive later
  Day(_),          \* the day of a message
  Days,            \* the days there are summaries of
  ServiceMessages, \* messages that are no *tg.Message
  Ignored,         \* messages the filter of the summary leaves out
  MaxFloodWait,    \* maxHistoryBackfillFloodWait
  MaxGenerations,  \* bound: generations started by others
  MaxImportFaults  \* bound: failing calls and restarts

ASSUME BackfillAssumption ==
  /\ LastMessage \in Nat /\ FirstUnseen \in 1..(LastMessage + 1)
  /\ Days \subseteq Nat /\ \A m \in 1..LastMessage : Day(m) \in Nat
  /\ \A m, n \in 1..LastMessage : m < n => Day(m) <= Day(n)
  /\ MaxFloodWait \in Nat /\ MaxGenerations \in Nat /\ MaxImportFaults \in Nat

VARIABLES
  latest,      \* the newest message Telegram has
  archive,     \* the messages table
  task,        \* the task of historyBackfills
  walk,        \* the goroutine: its step, offset, processedIDs and waits
  seenAt,      \* history: the newest message when the task was started
  hook,        \* the days the completion hook has not looked at yet
  repairing,   \* the day it has found an empty summary of
  count,       \* the summaries: how many messages each is made of
  generating,  \* the goroutine generating the summary of a day
  others,      \* generations by others so far
  mishaps      \* failing calls and restarts so far

backfillVars == <<latest, archive, task, walk, seenAt, hook, repairing, count, generating, others, mishaps>>
importVars == <<latest, archive, task, walk, seenAt, hook, repairing>>
summaryVars == <<count, generating, others>>

Message == 1..LastMessage
Missing == -1     \* no summary
Unknown == -2     \* pending, running or failed
NoDay == 0
NoTask == [status |-> "none", from |-> NoDay, to |-> NoDay, imported |-> 0]
NoWalk == [step |-> "none", offset |-> 0, processed |-> {}, waited |-> 0]
WalkSteps == {"none", "start", "attempt", "next", "upsert"}

InRange(m) == Day(m) \in task.from..task.to
Storable(m) == m \notin ServiceMessages

Mishap == mishaps < MaxImportFaults /\ mishaps' = mishaps + 1
-----------------------------------------------------------------------------
BackfillInit ==
  /\ latest = FirstUnseen - 1 /\ archive = {}
  /\ task = NoTask /\ walk = NoWalk /\ seenAt = 0
  /\ hook = {} /\ repairing = NoDay
  /\ count = [d \in Days |-> Missing] /\ generating = [d \in Days |-> Missing]
  /\ others = 0 /\ mishaps = 0

\* A message arrives; storeIncomingMessage stores it if the account listens.
ArriveLive ==
  /\ latest < LastMessage /\ latest' = latest + 1
  /\ archive' \in {archive, archive \cup ({latest + 1} \ ServiceMessages)}
  /\ UNCHANGED <<task, walk, seenAt, hook, repairing, summaryVars, mishaps>>

StartHistoryBackfill(from, to) ==
  /\ task.status = "none" /\ from <= to
  /\ task' = [NoTask EXCEPT !.status = "pending", !.from = from, !.to = to]
  /\ walk' = [NoWalk EXCEPT !.step = "start"]
  /\ seenAt' = latest
  /\ UNCHANGED <<latest, archive, hook, repairing, summaryVars, mishaps>>

\* runHistoryBackfill
Run ==
  /\ walk.step = "start"
  /\ task' = [task EXCEPT !.status = "running"]
  /\ walk' = [walk EXCEPT !.step = "attempt"]
  /\ UNCHANGED <<latest, archive, seenAt, hook, repairing, summaryVars, mishaps>>

\* The client of an attempt is connected and authorised.
Attempt ==
  /\ walk.step = "attempt"
  /\ walk' = [walk EXCEPT !.step = "next"]
  /\ UNCHANGED <<latest, archive, task, seenAt, hook, repairing, summaryVars, mishaps>>

\* The message iter.Next yields after the one at the offset, 0 at the end.
NextMessage == IF walk.offset = 0 THEN latest ELSE walk.offset - 1

\* Mutant: a message after the range ends the walk.
PastRangeEither(m) == ~InRange(m)

PastRange(m) == Day(m) < task.from

\* The walk ends at a message before the range, or at the first message.
Succeed ==
  /\ walk.step = "next"
  /\ NextMessage = 0 \/ PastRange(NextMessage)
  /\ task' = [task EXCEPT !.status = "succeeded", !.imported = Cardinality(walk.processed)]
  /\ walk' = NoWalk
  /\ hook' = Days \cap (task.from..task.to)
  /\ UNCHANGED <<latest, archive, seenAt, repairing, summaryVars, mishaps>>

\* A message after the range or one that is not stored is passed over.
PassOver ==
  /\ walk.step = "next" /\ NextMessage # 0 /\ ~PastRange(NextMessage)
  /\ walk' = [walk EXCEPT !.offset = NextMessage,
       !.step = IF InRange(NextMessage) /\ Storable(NextMessage) THEN "upsert" ELSE "next"]
  /\ UNCHANGED <<latest, archive, task, seenAt, hook, repairing, summaryVars, mishaps>>

Upsert ==
  /\ walk.step = "upsert"
  /\ archive' = archive \cup {walk.offset}
  /\ walk' = [walk EXCEPT !.step = "next", !.processed = @ \cup {walk.offset}]
  /\ UNCHANGED <<latest, task, seenAt, hook, repairing, summaryVars, mishaps>>

\* Mutant: the waits are not added up.
WaitedForgotten == 0

\* totalWait
Waited == walk.waited + 1

\* iter.Next meets a rate limit: the goroutine waits and tries again from
\* where it was, or gives up when it has waited long enough.
Flood ==
  /\ walk.step = "next"
  /\ IF Waited > MaxFloodWait
     THEN task' = [task EXCEPT !.status = "failed"] /\ walk' = NoWalk
     ELSE /\ task' = [task EXCEPT !.imported = Cardinality(walk.processed)]
          /\ walk' = [walk EXCEPT !.step = "attempt", !.waited = Waited]
  /\ UNCHANGED <<latest, archive, seenAt, hook, repairing, summaryVars, mishaps>>

\* Any other error ends the task.
FailImport ==
  /\ walk.step \in {"attempt", "next", "upsert"} /\ Mishap
  /\ task' = [task EXCEPT !.status = "failed"] /\ walk' = NoWalk
  /\ UNCHANGED <<latest, archive, seenAt, hook, repairing, summaryVars>>
-----------------------------------------------------------------------------
(* RepairEmptySummariesInRange                                              *)

StoredOf(d) == {m \in archive : Day(m) = d}
Empty(d) == count[d] = 0

\* The next day of the range: is its summary empty, and are there messages?
RepairLook ==
  /\ repairing = NoDay /\ hook # {}
  /\ LET d == CHOOSE x \in hook : \A y \in hook : x <= y IN
     /\ hook' = hook \ {d}
     /\ repairing' = IF Empty(d) /\ StoredOf(d) # {} THEN d ELSE NoDay
  /\ UNCHANGED <<latest, archive, task, walk, seenAt, summaryVars, mishaps>>

\* beginTask, UpsertPending and SetRunning of RunNowAsync, or of any other flow.
Enter(d) ==
  /\ count' = [count EXCEPT ![d] = Unknown]
  /\ generating' = [generating EXCEPT ![d] = Unknown]

RepairRun ==
  /\ repairing # NoDay
  /\ IF generating[repairing] = Missing THEN Enter(repairing) ELSE UNCHANGED <<count, generating>>
  /\ repairing' = NoDay
  /\ UNCHANGED <<latest, archive, task, walk, seenAt, hook, others, mishaps>>

\* An error ends the hook.
RepairFails ==
  /\ repairing # NoDay \/ hook # {}
  /\ Mishap /\ hook' = {} /\ repairing' = NoDay
  /\ UNCHANGED <<latest, archive, task, walk, seenAt, summaryVars>>

GenerateOther(d) ==
  /\ generating[d] = Missing /\ others < MaxGenerations /\ others' = others + 1
  /\ Enter(d)
  /\ UNCHANGED <<importVars, mishaps>>

\* The messages of the day are read, ...
ReadMessages(d) ==
  /\ generating[d] = Unknown
  /\ generating' = [generating EXCEPT ![d] = Cardinality(StoredOf(d) \ Ignored)]
  /\ UNCHANGED <<importVars, count, others, mishaps>>

\* ... and later the result is saved.
SaveSummary(d) ==
  /\ generating[d] >= 0
  /\ count' = [count EXCEPT ![d] = generating[d]]
  /\ generating' = [generating EXCEPT ![d] = Missing]
  /\ UNCHANGED <<importVars, others, mishaps>>

FailSummary(d) ==
  /\ generating[d] # Missing /\ Mishap
  /\ generating' = [generating EXCEPT ![d] = Missing]
  /\ UNCHANGED <<importVars, count, others>>

\* Tasks live in memory only; summaries under way are failed.
BackfillRestart ==
  /\ Mishap
  /\ task' = NoTask /\ walk' = NoWalk /\ hook' = {} /\ repairing' = NoDay
  /\ generating' = [d \in Days |-> Missing]
  /\ UNCHANGED <<latest, archive, seenAt, count, others>>
-----------------------------------------------------------------------------
Import == Run \/ Attempt \/ Succeed \/ PassOver \/ Upsert \/ Flood
Repair == RepairLook \/ RepairRun

BackfillNext ==
  \/ ArriveLive \/ Import \/ FailImport \/ Repair \/ RepairFails \/ BackfillRestart
  \/ \E from, to \in Days : StartHistoryBackfill(from, to)
  \/ \E d \in Days : GenerateOther(d) \/ ReadMessages(d) \/ SaveSummary(d) \/ FailSummary(d)

BackfillSpec == BackfillInit /\ [][BackfillNext]_backfillVars
-----------------------------------------------------------------------------
BackfillTypeOK ==
  /\ latest \in 0..LastMessage /\ archive \subseteq Message \ ServiceMessages
  /\ task \in [status : {"none", "pending", "running", "succeeded", "failed"},
               from : {NoDay} \cup Days, to : {NoDay} \cup Days, imported : 0..LastMessage]
  /\ walk \in [step : WalkSteps, offset : 0..LastMessage, processed : SUBSET Message, waited : 0..MaxFloodWait]
  /\ seenAt \in 0..LastMessage /\ hook \subseteq Days /\ repairing \in {NoDay} \cup Days
  /\ count \in [Days -> {Missing, Unknown} \cup 0..LastMessage]
  /\ generating \in [Days -> {Missing, Unknown} \cup 0..LastMessage]
  /\ others \in 0..MaxGenerations /\ mishaps \in 0..MaxImportFaults

\* A back-fill that reports success has stored every message of its range that
\* existed when it was asked for and can be stored, across waits for rate
\* limits, and has counted each once; the count takes in what has arrived
\* since and was met.
BackfillComplete ==
  task.status = "succeeded" =>
    LET wanted == {m \in 1..latest : InRange(m) /\ Storable(m)} IN
    /\ {m \in wanted : m <= seenAt} \subseteq archive
    /\ task.imported \in Cardinality({m \in wanted : m <= seenAt})..Cardinality(wanted)

\* A back-fill is under way, until it ends or a restart forgets it.
BackfillOpen == task.status \in {"pending", "running"}
BackfillOver == ~BackfillOpen

\* An empty summary is made again once a back-fill has imported a message it
\* uses: the hook looks at it after the import, and a generation that begins
\* in between reads the imported messages.
EmptyRepaired ==
  \A d \in Days :
    (mishaps = 0 /\ d \in hook /\ Empty(d) /\ StoredOf(d) \ Ignored # {})
      ~> (count[d] > 0 \/ mishaps > 0)
=============================================================================
