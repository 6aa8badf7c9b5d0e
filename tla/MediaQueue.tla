----------------------------- MODULE MediaQueue -----------------------------
(***************************************************************************)
(* The media_assets table: attachments of messages and avatars, queued for *)
(* download.  Each listener of a Telegram account runs one worker on it    *)
(* (runDownloadQueue); live messages, the back-fill and the reconciliation *)
(* insert and refresh assets, users request single downloads, switch the   *)
(* automatic download on and off and change the account that collects a    *)
(* chat.  Every statement on the table is one action.                      *)
(*                                                                         *)
(* Abstractions: an asset is its number in the order of insertion; a time  *)
(* stamp is "none", "later" or "due"; a file is large (over 100 MB) or not *)
(* and its content, path and Telegram reference are left out.  The         *)
(* messages belong to one chat; no account is deleted here.                *)
(***************************************************************************)
EXTENDS Integers, FiniteSets

CONSTANTS
  Assets,        \* numbers, in the order of insertion (created_at)
  Avatars,       \* the assets that are avatars, the others belong to messages
  Accounts,      \* the Telegram accounts
  Users,         \* requests that may save the settings together
  Limit,         \* mediaRetryLimit
  MaxEvents      \* bound: requests of users, changes of the collecting account,
                 \* and faults (failing calls, listeners that stop, restarts;
                 \* a setting that is not applied counts as its request)

ASSUME MediaAssumption ==
  /\ Assets \subseteq Nat /\ IsFiniteSet(Assets) /\ Avatars \subseteq Assets
  /\ Limit \in Nat \ {0}
  /\ MaxEvents \in Nat

VARIABLES
  asset,      \* the media_assets table
  policy,     \* AppSettings.AutoDownloadAttachments
  saving,     \* what a settings request has saved and not yet applied
  lost,       \* history: a saved setting has never been applied
  collector,  \* Chat.CollectorAccountID of the chat of the messages
  listed,     \* messages an account is about to upsert, for each account
  pc,         \* what the worker of an account does next
  job,        \* the asset it has claimed, as ClaimNext read it
  err,        \* why its download failed
  used        \* requests, switches and faults so far

workers == <<pc, job, err>>
vars == <<asset, policy, saving, lost, collector, listed, workers, used>>

Status == {"none", "pending", "downloading", "succeeded", "failed", "manual", "skipped"}
Timers == {"none", "later", "due"}
Steps  == {"off", "poll", "download", "again", "complete", "fail"}
Errors == {"none", "retryable", "final"}

Asset == [status : Status, account : Accounts \cup {"none"}, force : BOOLEAN, large : BOOLEAN,
          retry : Nat, next : Timers]

NoAsset == [status |-> "none", account |-> "none", force |-> FALSE, large |-> FALSE,
            retry |-> 0, next |-> "none"]

Messages == Assets \ Avatars
Exists(a) == asset[a].status # "none"

\* The asset a worker holds; none is 0 with the worker not in these steps.
Working == Steps \ {"off", "poll"}
Holds(w, a) == pc[w] \in Working /\ job[w].id = a
-----------------------------------------------------------------------------
(* What the statements compute.                                             *)

\* The automatic policy concerns message assets the user has not asked for.
Automatic(a, r) == a \in Messages /\ ~r.force

\* RecoverInterrupted and Fail: what is no longer downloaded automatically.
Parked(a, r) == Automatic(a, r) /\ ~policy

\* Mutant: only assets that have never failed are claimed.
ClaimableFresh(w, a) ==
  LET r == asset[a]
  IN  r.status = "pending" /\ r.account = w /\ r.next = "none" /\ ~Parked(a, r)

\* ClaimNext: the condition of its select.
Claimable(w, a) ==
  LET r == asset[a]
  IN  r.status = "pending" /\ r.account = w /\ r.next # "later" /\ ~Parked(a, r)

\* The status of a message's asset that is new, or was too large until now.
Fresh(large) == IF large THEN "skipped" ELSE IF policy THEN "pending" ELSE "manual"

\* UpsertMessage, for the asset r of a message that account w refreshes.
Refreshed(r, w, large) ==
  [r EXCEPT !.account = w, !.large = large,
     !.status = IF r.status \in {"none", "skipped"} THEN Fresh(large /\ ~r.force) ELSE @,
     !.next = IF r.status = "pending" THEN @ ELSE "none"]

\* Mutant: a failure is retried up to and including the limit.
RetriesLeftInclusive(count) == count < Limit + 1

\* runDownloadQueue: is another attempt allowed after this one?
RetriesLeft(count) == count + 1 < Limit

\* Mutant: a retry the user asked for is parked as well.
FailedParksForced(a, r, retry) ==
  [r EXCEPT !.retry = @ + 1,
     !.status = IF ~retry THEN "failed" ELSE IF a \in Messages /\ ~policy THEN "manual" ELSE "pending",
     !.next = IF retry THEN "later" ELSE "none"]

\* Mutant: the count goes down with each attempt.
FailedUncounted(a, r, retry) ==
  [r EXCEPT !.status = IF retry THEN "pending" ELSE "failed", !.retry = @ - 1]

\* Mutant: a retry is queued whatever the policy is now.
FailedAnyPolicy(a, r, retry) ==
  [r EXCEPT !.retry = @ + 1, !.status = IF ~retry THEN "failed" ELSE "pending",
     !.next = IF ~retry THEN "none" ELSE "later"]

\* Fail
Failed(a, r, retry) ==
  [r EXCEPT !.retry = @ + 1,
     !.status = IF ~retry THEN "failed" ELSE IF Parked(a, r) THEN "manual" ELSE "pending",
     !.next = IF ~retry \/ Parked(a, r) THEN "none" ELSE "later"]
-----------------------------------------------------------------------------
Nothing == [id |-> 0, force |-> FALSE, large |-> FALSE, retry |-> 0]

Init ==
  /\ asset = [a \in Assets |-> NoAsset]
  /\ policy \in BOOLEAN
  /\ saving = [u \in Users |-> "none"] /\ lost = FALSE
  /\ collector \in Accounts
  /\ listed = [w \in Accounts |-> {}]
  /\ pc = [w \in Accounts |-> "off"]
  /\ job = [w \in Accounts |-> Nothing] /\ err = [w \in Accounts |-> "none"]
  /\ used = [requests |-> 0, switches |-> 0, faults |-> 0]

Spend(what) ==
  /\ used.requests + used.switches + used.faults < MaxEvents
  /\ used' = [used EXCEPT ![what] = @ + 1]

\* An identity column and created_at: assets are inserted in order.
NextToInsert(a) == ~Exists(a) /\ \A b \in Assets : b < a => Exists(b)

Goto(w, step) == pc' = [pc EXCEPT ![w] = step]

\* The worker ends: its listener has stopped or starts again after five seconds.
Stop(w) ==
  /\ Goto(w, "off")
  /\ job' = [job EXCEPT ![w] = Nothing] /\ err' = [err EXCEPT ![w] = "none"]
-----------------------------------------------------------------------------
(* Inserting and refreshing assets.                                         *)

\* A live message, a back-filled one or one listed for reconciliation: the
\* chat is collected by w when it is read, the asset is written later.
SeeMessage(w, a) ==
  /\ a \in Messages /\ collector = w /\ a \notin listed[w]
  /\ Exists(a) \/ NextToInsert(a)
  /\ listed' = [listed EXCEPT ![w] = @ \cup {a}]
  /\ UNCHANGED <<asset, policy, saving, lost, collector, workers, used>>

UpsertMessage(w, a) ==
  /\ a \in listed[w] /\ (Exists(a) \/ NextToInsert(a))
  /\ \E large \in BOOLEAN : asset' = [asset EXCEPT ![a] = Refreshed(@, w, large)]
  /\ listed' = [listed EXCEPT ![w] = @ \ {a}]
  /\ UNCHANGED <<policy, saving, lost, collector, workers, used>>

\* UpsertAvatar: an avatar known already keeps its status.
UpsertAvatar(w, a) ==
  /\ a \in Avatars /\ NextToInsert(a)
  /\ asset' = [asset EXCEPT ![a].account = w, ![a].status = "pending"]
  /\ UNCHANGED <<policy, saving, lost, collector, listed, workers, used>>
-----------------------------------------------------------------------------
(* The worker of an account.                                                *)

\* Mutant: the account of the asset is not looked at.
RecoverInterruptedAll(w) ==
  /\ pc[w] = "off"
  /\ asset' = [a \in Assets |->
       IF asset[a].status = "downloading"
       THEN [asset[a] EXCEPT !.status = IF Parked(a, asset[a]) THEN "manual" ELSE "pending"]
       ELSE asset[a]]
  /\ Goto(w, "poll")
  /\ UNCHANGED <<policy, saving, lost, collector, listed, job, err, used>>

\* A listener starts, or its loop goes round again: the downloads its last
\* worker left behind are queued again.
RecoverInterrupted(w) ==
  /\ pc[w] = "off"
  /\ asset' = [a \in Assets |->
       IF asset[a].account = w /\ asset[a].status = "downloading"
       THEN [asset[a] EXCEPT !.status = IF Parked(a, asset[a]) THEN "manual" ELSE "pending"]
       ELSE asset[a]]
  /\ Goto(w, "poll")
  /\ UNCHANGED <<policy, saving, lost, collector, listed, job, err, used>>

\* The newest asset first.
ClaimNext(w) ==
  /\ pc[w] = "poll"
  /\ \E a \in Assets :
       /\ Claimable(w, a) /\ \A b \in Assets : Claimable(w, b) => b <= a
       /\ asset' = [asset EXCEPT ![a].status = "downloading"]
       /\ job' = [job EXCEPT ![w] = [id |-> a, force |-> asset[a].force, large |-> asset[a].large,
                                     retry |-> asset[a].retry]]
  /\ Goto(w, "download")
  /\ UNCHANGED <<policy, saving, lost, collector, listed, err, used>>

Fails(w, why) == Goto(w, "fail") /\ err' = [err EXCEPT ![w] = why] /\ UNCHANGED job

\* downloadAssetOnce up to the rename; the file may turn out larger than declared.
Download(w) ==
  /\ pc[w] \in {"download", "again"}
  /\ IF job[w].large /\ ~job[w].force THEN Fails(w, "final")
     ELSE \/ Fails(w, "retryable")
          \/ ~job[w].force /\ Fails(w, "final")
          \/ Goto(w, "complete") /\ UNCHANGED <<job, err>>
  /\ UNCHANGED <<asset, policy, saving, lost, collector, listed, used>>

\* refreshExpiredMedia: the reference has expired, the message is fetched again
\* with the collecting account and downloaded once more, or cannot be had.
Refresh(w) ==
  LET a == job[w].id
  IN  /\ pc[w] = "download" /\ a \in Messages /\ (job[w].large => job[w].force)
      /\ \/ (\E why \in {"retryable", "final"} : Fails(w, why)) /\ UNCHANGED asset
         \/ /\ collector = w
            /\ \E large \in BOOLEAN :
                 /\ asset' = [asset EXCEPT ![a].large = large]
                 /\ job' = [job EXCEPT ![w].large = large]
            /\ Goto(w, "again") /\ UNCHANGED err
      /\ UNCHANGED <<policy, saving, lost, collector, listed, used>>

Complete(w) ==
  /\ pc[w] = "complete"
  /\ \E large \in BOOLEAN :
       /\ large => job[w].force
       /\ asset' = [asset EXCEPT ![job[w].id] = [@ EXCEPT !.status = "succeeded", !.next = "none",
                                                          !.large = large]]
  /\ Goto(w, "poll") /\ job' = [job EXCEPT ![w] = Nothing] /\ UNCHANGED err
  /\ UNCHANGED <<policy, saving, lost, collector, listed, used>>

Fail(w) ==
  LET a == job[w].id
  IN  /\ pc[w] = "fail"
      /\ asset' = [asset EXCEPT ![a] = Failed(a, @, err[w] # "final" /\ RetriesLeft(job[w].retry))]
      /\ Goto(w, "poll")
      /\ job' = [job EXCEPT ![w] = Nothing] /\ err' = [err EXCEPT ![w] = "none"]
      /\ UNCHANGED <<policy, saving, lost, collector, listed, used>>

\* A call fails.  The one of Complete counts as a failed download, any other
\* ends the listener, which its loop starts again.
StoreError(w) ==
  /\ Spend("faults")
  /\ \/ pc[w] = "complete" /\ Fails(w, "retryable")
     \/ pc[w] \in {"poll", "fail"} /\ Stop(w)
  /\ UNCHANGED <<asset, policy, saving, lost, collector, listed>>

\* The context of the listener ends: Fail cannot write any more.
StopWorker(w) ==
  /\ pc[w] # "off" /\ Spend("faults")
  /\ Stop(w)
  /\ UNCHANGED <<asset, policy, saving, lost, collector, listed>>
-----------------------------------------------------------------------------
(* Users and the environment.                                               *)

\* handleAssetDownload
RequestDownload(a) ==
  /\ asset[a].status \in {"manual", "failed", "skipped"} /\ Spend("requests")
  /\ asset' = [asset EXCEPT ![a] = [@ EXCEPT !.status = "pending", !.force = TRUE,
                                             !.retry = 0, !.next = "none"]]
  /\ UNCHANGED <<policy, saving, lost, collector, listed, workers>>

\* handleSettings: the settings are saved, then the policy is applied.
SaveSettings(u, on) ==
  /\ saving[u] = "none" /\ Spend("requests")
  /\ policy' = on
  /\ saving' = [saving EXCEPT ![u] = IF on THEN "on" ELSE "off"]
  /\ UNCHANGED <<asset, lost, collector, listed, workers>>

ApplyAutoDownloadPolicy(u) ==
  LET from == IF saving[u] = "on" THEN "manual" ELSE "pending"
      to   == IF saving[u] = "on" THEN "pending" ELSE "manual"
  IN  /\ saving[u] # "none"
      /\ asset' = [a \in Assets |->
           IF Automatic(a, asset[a]) /\ asset[a].status = from
           THEN [asset[a] EXCEPT !.status = to] ELSE asset[a]]
      /\ saving' = [saving EXCEPT ![u] = "none"] /\ lost' = FALSE
      /\ UNCHANGED <<policy, collector, listed, workers, used>>

\* The second statement of the request fails.
ApplyError(u) ==
  /\ saving[u] # "none"
  /\ saving' = [saving EXCEPT ![u] = "none"] /\ lost' = TRUE
  /\ UNCHANGED <<asset, policy, collector, listed, workers, used>>

\* SetCollectorAccount: the chat of the messages is collected by another account.
SetCollectorAccount(w) ==
  /\ Spend("switches")
  /\ collector # w /\ collector' = w
  /\ UNCHANGED <<asset, policy, saving, lost, listed, workers>>

Elapse(a) ==
  /\ asset[a].next = "later"
  /\ asset' = [asset EXCEPT ![a].next = "due"]
  /\ UNCHANGED <<policy, saving, lost, collector, listed, workers, used>>

\* The process ends at any point and is started again.
Restart ==
  /\ Spend("faults")
  /\ saving' = [u \in Users |-> "none"]
  /\ lost' = (lost \/ \E u \in Users : saving[u] # "none")
  /\ listed' = [w \in Accounts |-> {}]
  /\ pc' = [w \in Accounts |-> "off"]
  /\ job' = [w \in Accounts |-> Nothing] /\ err' = [w \in Accounts |-> "none"]
  /\ UNCHANGED <<asset, policy, collector>>

Worker(w) ==
  \/ RecoverInterrupted(w) \/ ClaimNext(w) \/ Download(w)
  \/ Refresh(w) \/ Complete(w) \/ Fail(w)

Next ==
  \/ \E w \in Accounts : Worker(w) \/ StoreError(w) \/ StopWorker(w) \/ SetCollectorAccount(w)
  \/ \E w \in Accounts, a \in Assets : SeeMessage(w, a) \/ UpsertMessage(w, a) \/ UpsertAvatar(w, a)
  \/ \E a \in Assets : RequestDownload(a) \/ Elapse(a)
  \/ \E u \in Users : ApplyAutoDownloadPolicy(u) \/ ApplyError(u)
  \/ \E u \in Users, on \in BOOLEAN : SaveSettings(u, on)
  \/ Restart

Spec == Init /\ [][Next]_vars

\* Workers run, their loop starts them again, delays pass, requests are completed.
FairSpec ==
  /\ Spec
  /\ \A w \in Accounts : WF_vars(Worker(w))
  /\ \A a \in Assets : WF_vars(Elapse(a))
  /\ \A u \in Users : WF_vars(ApplyAutoDownloadPolicy(u))
-----------------------------------------------------------------------------
(* Types: the records of the table, the steps and what each worker holds.   *)
TypeOK ==
  /\ asset \in [Assets -> Asset]
  /\ policy \in BOOLEAN
  /\ saving \in [Users -> {"none", "on", "off"}] /\ lost \in BOOLEAN
  /\ collector \in Accounts /\ listed \in [Accounts -> SUBSET Messages]
  /\ pc \in [Accounts -> Steps] /\ err \in [Accounts -> Errors]
  /\ job \in [Accounts -> [id : Nat, force : BOOLEAN, large : BOOLEAN, retry : Nat]]
  /\ \A w \in Accounts : pc[w] \in Working => job[w].id \in Assets
  /\ used \in [requests : Nat, switches : Nat, faults : Nat]

\* A download the user has asked for is never parked again, neither by the
\* policy nor by its size: not by the failure of an attempt, the recovery after
\* a crash, a refresh of its message or a change of the settings.
ForcedNotParked == \A a \in Assets : asset[a].force => asset[a].status \notin {"none", "manual", "skipped"}

\* Once every saved setting has been applied, no attachment is queued against
\* the policy and none is parked although downloads are on, whatever happened
\* to it in the meantime.  The writers of the table read the policy on their own.
PolicySettled ==
  (~lost /\ \A u \in Users : saving[u] = "none") =>
    \A a \in Messages : ~asset[a].force =>
      asset[a].status # IF policy THEN "manual" ELSE "pending"

\* As long as no chat has changed its collecting account, an asset fails at most
\* Limit times, and one that is queued again has an attempt left.
RetriesBounded ==
  used.switches = 0 =>
    \A a \in Assets : asset[a].retry <= Limit /\ (asset[a].status = "pending" => asset[a].retry < Limit)

\* As long as no chat has changed its collecting account, no two workers hold an
\* asset, and one that is held is marked as downloading.
OneDownload ==
  used.switches = 0 =>
    \A w \in Accounts, a \in Assets :
      Holds(w, a) => asset[a].status = "downloading" /\ \A v \in Accounts : Holds(v, a) => v = w

\* A queued asset is attempted, unless the policy takes it back first: newer
\* assets, failures and restarts of the listener do not keep it waiting for ever.
PendingTakenUp ==
  \A a \in Assets : asset[a].status = "pending" ~>
    (asset[a].status # "pending" \/ Parked(a, asset[a]))
=============================================================================
