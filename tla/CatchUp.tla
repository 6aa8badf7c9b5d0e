------------------------------- MODULE CatchUp -------------------------------
(***************************************************************************)
(* Catch Up: one document about the summaries of several chats in a range  *)
(* of past days.  A request creates it with a snapshot of its sources and  *)
(* starts a goroutine (run, execute) that generates the text and delivers  *)
(* it; RetryDelivery of another request sends it again, and a restart      *)
(* fails what was interrupted.  Two keys of the in-memory set guard it,    *)
(* one for the generation and one for the repeated delivery, so that the   *)
(* two deliveries may meet.                                                *)
(*                                                                         *)
(* Abstractions: a day is a number; a summary is its chat, its period and  *)
(* the version of its text, 0 while there is none to use; the text of a    *)
(* document is the set of source texts it was made from.  The settings are *)
(* read once, when a run or a repeated delivery begins: what they said of  *)
(* the bot is kept in the step that follows.                               *)
(***************************************************************************)
EXTENDS Integers, FiniteSets

CONSTANTS
  CatchUps,       \* numbers, in the order of creation
  Chats,          \* the chats
  Sources,        \* the summaries that exist or may come to exist
  Chat(_),        \* the chat of a summary
  First(_),       \* the first day of its period
  Last(_),        \* the last day of its period
  Today,          \* the current day
  RangeDays,      \* MaximumDateRangeDays
  Clients,        \* requests that may retry a delivery together
  MaxVersion,     \* bound: texts a summary has had
  MaxRetries,     \* bound: requests to deliver again
  MaxCatchUpFaults  \* bound: failing calls, switches of the bot and restarts

ASSUME CatchUpAssumption ==
  /\ CatchUps \subseteq Nat /\ IsFiniteSet(CatchUps)
  /\ Today \in Nat /\ RangeDays \in Nat \ {0}
  /\ \A s \in Sources : Chat(s) \in Chats /\ First(s) \in Nat /\ Last(s) \in Nat
  /\ MaxVersion \in Nat \ {0} /\ MaxRetries \in Nat /\ MaxCatchUpFaults \in Nat

VARIABLES
  document,   \* the catch_ups table with its snapshots
  enabled,    \* the chats with summary_enabled
  version,    \* the usable text of each summary
  botReady,   \* botReady(settings)
  inflight,   \* Service.inflight
  step,       \* what the goroutine of a document does next
  retry,      \* what a request does next, and for which document
  sent,       \* history: the messages sent for a document
  spent       \* requests and faults so far

catchUpVars == <<document, enabled, version, botReady, inflight, step, retry, sent, spent>>

Final == {"succeeded", "failed"}
DocumentStatus == {"none", "pending", "running"} \cup Final
TextOf == [source : Sources, version : 1..MaxVersion]

Document == [status : DocumentStatus, requested : BOOLEAN, delivered : BOOLEAN, undelivered : BOOLEAN,
             snapshot : SUBSET TextOf, content : SUBSET TextOf]
NoDocument == [status |-> "none", requested |-> FALSE, delivered |-> FALSE, undelivered |-> FALSE,
               snapshot |-> {}, content |-> {}]

GenerationSteps == {"none", "create", "begin", "load", "save", "saveNoBot", "saveFailed", "deliver",
                    "delivered", "undelivered", "failed"}
RetrySteps == {"none", "read", "send", "delivered", "undelivered"}
NoRetry == [step |-> "none", id |-> 0]

Generation(c) == <<"generation", c>>
Delivery(c) == <<"delivery", c>>
-----------------------------------------------------------------------------
(* Validation and snapshot                                                  *)

\* ValidateDateRange: whole days, the last one before today.
ValidDateRange(from, to) ==
  /\ from <= to /\ to < Today
  /\ to - from + 1 <= RangeDays

\* selectCatchUpSources
Usable(chats, from, to) ==
  {s \in Sources : Chat(s) \in chats /\ First(s) <= to /\ Last(s) >= from /\ version[s] > 0}

TextsOf(sources) == {[source |-> s, version |-> version[s]] : s \in sources}

\* GetForGeneration
Loaded(c) == document[c].snapshot
-----------------------------------------------------------------------------
CatchUpInit ==
  /\ document = [c \in CatchUps |-> NoDocument]
  /\ enabled = Chats
  /\ version = [s \in Sources |-> 1]
  /\ botReady = TRUE
  /\ inflight = {}
  /\ step = [c \in CatchUps |-> "none"]
  /\ retry = [u \in Clients |-> NoRetry]
  /\ sent = [c \in CatchUps |-> 0]
  /\ spent = [retries |-> 0, faults |-> 0]

\* The bound on everything that goes wrong.
Trouble ==
  /\ spent.faults < MaxCatchUpFaults
  /\ spent' = [spent EXCEPT !.faults = @ + 1]

Then(c, next) == step' = [step EXCEPT ![c] = next]
Mark(c, ok) ==
  document' = [document EXCEPT ![c].delivered = ok, ![c].undelivered = ~ok]

\* The world around: a summary is generated again, a chat is switched on or
\* off, the bot is configured or not.
Regenerate(s) ==
  /\ version[s] < MaxVersion
  /\ version' = [version EXCEPT ![s] = @ + 1]
  /\ UNCHANGED <<document, enabled, botReady, inflight, step, retry, sent, spent>>

Settings ==
  /\ Trouble
  /\ \/ \E c \in Chats : enabled' = (enabled \ {c}) \cup ({c} \ enabled) /\ UNCHANGED botReady
     \/ botReady' = ~botReady /\ UNCHANGED enabled
  /\ UNCHANGED <<document, version, inflight, step, retry, sent>>

\* Create, in one transaction, of a request that Start has accepted.
CreateDocument(c, chats, from, to, deliver) ==
  /\ document[c].status = "none" /\ \A d \in CatchUps : d < c => document[d].status # "none"
  /\ ValidDateRange(from, to)
  /\ deliver => botReady
  /\ chats # {} /\ chats \subseteq enabled
  /\ Usable(chats, from, to) # {}
  /\ document' = [document EXCEPT ![c] =
       [NoDocument EXCEPT !.status = "pending", !.requested = deliver,
          !.snapshot = TextsOf(Usable(chats, from, to))]]
  /\ Then(c, "create")
  /\ UNCHANGED <<enabled, version, botReady, inflight, retry, sent, spent>>

\* SetRunning, then the goroutine is started.
SetRunning(c) ==
  /\ step[c] = "create"
  /\ document' = [document EXCEPT ![c].status = "running"]
  /\ Then(c, "begin")
  /\ UNCHANGED <<enabled, version, botReady, inflight, retry, sent, spent>>

\* run takes its key.
BeginRun(c) ==
  /\ step[c] = "begin" /\ Generation(c) \notin inflight
  /\ inflight' = inflight \cup {Generation(c)}
  /\ Then(c, "load")
  /\ UNCHANGED <<document, enabled, version, botReady, retry, sent, spent>>

\* Settings.Get, then generate succeeds with the text of the sources, or fails.
Generate(c) ==
  /\ step[c] = "load"
  /\ Then(c, IF botReady THEN "save" ELSE "saveNoBot") \/ Then(c, "saveFailed")
  /\ UNCHANGED <<document, enabled, version, botReady, inflight, retry, sent, spent>>

\* run returns and gives the key back.
EndRun(c) == inflight' = inflight \ {Generation(c)} /\ Then(c, "none")

\* SaveResult of a text; the delivery follows if it was requested, and fails
\* at once if the settings of this run have no bot.
SaveSucceeded(c) ==
  /\ step[c] \in {"save", "saveNoBot"}
  /\ document' = [document EXCEPT ![c].status = "succeeded", ![c].content = Loaded(c)]
  /\ IF document[c].requested
     THEN Then(c, IF step[c] = "save" THEN "deliver" ELSE "undelivered") /\ UNCHANGED inflight
     ELSE EndRun(c)
  /\ UNCHANGED <<enabled, version, botReady, retry, sent, spent>>

\* SaveResult of a failure, by execute or, after an error of execute, by run.
SaveFailed(c) ==
  /\ step[c] \in {"saveFailed", "failed"}
  /\ document' = [document EXCEPT ![c].status = "failed", ![c].content = {}]
  /\ EndRun(c)
  /\ UNCHANGED <<enabled, version, botReady, retry, sent, spent>>

\* SendLongMessage arrives, with an answer or without one, or the bot fails.
Deliver(c) ==
  /\ step[c] = "deliver"
  /\ \/ /\ sent' = [sent EXCEPT ![c] = @ + 1]
        /\ Then(c, "delivered") /\ UNCHANGED spent
     \/ /\ Trouble /\ Then(c, "undelivered")
        /\ sent' \in {sent, [sent EXCEPT ![c] = @ + 1]}
  /\ UNCHANGED <<document, enabled, version, botReady, inflight, retry>>

\* Mutant: the error of the delivery is returned to run.
RecordDeliveryReturned(c) ==
  /\ step[c] \in {"delivered", "undelivered"}
  /\ Mark(c, step[c] = "delivered")
  /\ IF step[c] = "delivered" THEN EndRun(c) ELSE Then(c, "failed") /\ UNCHANGED inflight
  /\ UNCHANGED <<enabled, version, botReady, retry, sent, spent>>

\* MarkDelivered or MarkDeliveryFailed; their own errors are ignored.
RecordDelivery(c) ==
  /\ step[c] \in {"delivered", "undelivered"}
  /\ \/ Mark(c, step[c] = "delivered") /\ UNCHANGED spent
     \/ Trouble /\ UNCHANGED document
  /\ EndRun(c)
  /\ UNCHANGED <<enabled, version, botReady, retry, sent>>

\* An error of a statement in Start or execute; run records it.
ExecuteFails(c) ==
  /\ Trouble
  /\ \/ step[c] = "create" /\ Then(c, "none") /\ UNCHANGED inflight
     \/ step[c] \in {"load", "save", "saveNoBot", "saveFailed"} /\ Then(c, "failed") /\ UNCHANGED inflight
     \/ step[c] = "failed" /\ EndRun(c)
  /\ UNCHANGED <<document, enabled, version, botReady, retry, sent>>
-----------------------------------------------------------------------------
(* RetryDelivery                                                            *)

BeginRetry(u, c) ==
  /\ retry[u].step = "none" /\ document[c].status # "none"
  /\ Delivery(c) \notin inflight
  /\ spent.retries < MaxRetries /\ spent' = [spent EXCEPT !.retries = @ + 1]
  /\ inflight' = inflight \cup {Delivery(c)}
  /\ retry' = [retry EXCEPT ![u] = [step |-> "read", id |-> c]]
  /\ UNCHANGED <<document, enabled, version, botReady, step, sent>>

EndRetry(u) == inflight' = inflight \ {Delivery(retry[u].id)} /\ retry' = [retry EXCEPT ![u] = NoRetry]

\* The document must have succeeded; the settings are read next.
ReadForRetry(u) ==
  /\ retry[u].step = "read"
  /\ IF document[retry[u].id].status = "succeeded"
     THEN /\ retry' = [retry EXCEPT ![u].step = IF botReady THEN "send" ELSE "undelivered"]
          /\ UNCHANGED inflight
     ELSE EndRetry(u)
  /\ UNCHANGED <<document, enabled, version, botReady, step, sent, spent>>

SendAgain(u) ==
  /\ retry[u].step = "send"
  /\ \/ /\ sent' = [sent EXCEPT ![retry[u].id] = @ + 1]
        /\ retry' = [retry EXCEPT ![u].step = "delivered"] /\ UNCHANGED spent
     \/ /\ Trouble /\ retry' = [retry EXCEPT ![u].step = "undelivered"]
        /\ sent' \in {sent, [sent EXCEPT ![retry[u].id] = @ + 1]}
  /\ UNCHANGED <<document, enabled, version, botReady, inflight, step>>

RecordRetry(u) ==
  /\ retry[u].step \in {"delivered", "undelivered"}
  /\ \/ Mark(retry[u].id, retry[u].step = "delivered") /\ UNCHANGED spent
     \/ Trouble /\ UNCHANGED document
  /\ EndRetry(u)
  /\ UNCHANGED <<enabled, version, botReady, step, sent>>

RetryFails(u) ==
  /\ Trouble
  /\ retry[u].step = "read"
  /\ EndRetry(u)
  /\ UNCHANGED <<document, enabled, version, botReady, step, sent>>
-----------------------------------------------------------------------------
\* What FailInterrupted does to a row.
FailInterrupted(d) == IF d.status \in {"pending", "running"} THEN [d EXCEPT !.status = "failed"] ELSE d

\* The process ends at any point and starts with RecoverInterrupted.
CatchUpRestart ==
  /\ Trouble
  /\ document' = [c \in CatchUps |-> FailInterrupted(document[c])]
  /\ inflight' = {}
  /\ step' = [c \in CatchUps |-> "none"]
  /\ retry' = [u \in Clients |-> NoRetry]
  /\ UNCHANGED <<enabled, version, botReady, sent>>
-----------------------------------------------------------------------------
Goroutine(c) ==
  \/ SetRunning(c) \/ BeginRun(c) \/ Generate(c) \/ SaveSucceeded(c) \/ SaveFailed(c)
  \/ Deliver(c) \/ RecordDelivery(c)

RetryDelivery(u) == ReadForRetry(u) \/ SendAgain(u) \/ RecordRetry(u)

CatchUpNext ==
  \/ \E s \in Sources : Regenerate(s)
  \/ \E c \in CatchUps :
       \/ Goroutine(c) \/ ExecuteFails(c)
       \/ \E chats \in SUBSET Chats, from, to \in 1..Today, deliver \in BOOLEAN :
            CreateDocument(c, chats, from, to, deliver)
  \/ \E u \in Clients : RetryDelivery(u) \/ RetryFails(u) \/ \E c \in CatchUps : BeginRetry(u, c)
  \/ Settings \/ CatchUpRestart

CatchUpSpec == CatchUpInit /\ [][CatchUpNext]_catchUpVars
-----------------------------------------------------------------------------
CatchUpTypeOK ==
  /\ document \in [CatchUps -> Document]
  /\ enabled \subseteq Chats /\ version \in [Sources -> 0..MaxVersion] /\ botReady \in BOOLEAN
  /\ inflight \subseteq {Generation(c) : c \in CatchUps} \cup {Delivery(c) : c \in CatchUps}
  /\ step \in [CatchUps -> GenerationSteps]
  /\ retry \in [Clients -> [step : RetrySteps, id : CatchUps \cup {0}]]
  /\ sent \in [CatchUps -> Nat] /\ spent \in [retries : Nat, faults : Nat]

\* A document that has been generated is final: no failing delivery, repeated
\* delivery or restart takes its text or its status away (execute returns nil
\* after a failing delivery, run records only errors of the generation).
GeneratedStays ==
  [][\A c \in CatchUps : document[c].status = "succeeded" =>
       document'[c].status = "succeeded" /\ document'[c].content = document[c].content]_catchUpVars

\* The generation of a document is under way; with a second failing call the
\* statement that records the first may be lost until the next start.
CatchUpOpen == spent.faults <= 1 /\ \E c \in CatchUps : document[c].status = "running"
CatchUpOver == spent.faults > 1 \/ \A c \in CatchUps : document[c].status # "running"
=============================================================================
