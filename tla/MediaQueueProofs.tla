-------------------------- MODULE MediaQueueProofs --------------------------
(***************************************************************************)
(* Theorems about MediaQueue, for any assets, accounts, limit and bounds:  *)
(* its types, and that a download asked for is never parked.  As long as   *)
(* no chat changes its collecting account, an asset has one worker and the *)
(* attempts are bounded.  With one settings request at a time the queue    *)
(* agrees with the policy again once every setting has been applied.       *)
(***************************************************************************)
EXTENDS MediaQueue, TLAPS

\* What the statements make of a record of the table.
LEMMA RecordTypes ==
  ASSUME NEW r \in Asset, policy \in BOOLEAN
  PROVE  /\ \A w \in Accounts, large \in BOOLEAN : Refreshed(r, w, large) \in Asset
         /\ \A a \in Assets, retry \in BOOLEAN : Failed(a, r, retry) \in Asset
         /\ \A s \in Status : [r EXCEPT !.status = s] \in Asset
         /\ \A large \in BOOLEAN : [r EXCEPT !.large = large] \in Asset
         /\ [r EXCEPT !.next = "due"] \in Asset
         /\ \A large \in BOOLEAN :
              [r EXCEPT !.status = "succeeded", !.next = "none", !.large = large] \in Asset
         /\ [r EXCEPT !.status = "pending", !.force = TRUE, !.retry = 0, !.next = "none"] \in Asset
         /\ \A w \in Accounts : [r EXCEPT !.account = w, !.status = "pending"] \in Asset
<1> r.status \in Status /\ r.next \in Timers /\ r.retry \in Nat
  BY DEF Asset
<1>1. ASSUME NEW w \in Accounts, NEW large \in BOOLEAN PROVE Refreshed(r, w, large) \in Asset
  <2> DEFINE status == IF r.status \in {"none", "skipped"} THEN Fresh(large /\ ~r.force) ELSE r.status
             next   == IF r.status = "pending" THEN r.next ELSE "none"
  <2>1. status \in Status /\ next \in Timers
    BY DEF Status, Timers, Fresh
  <2>2. Refreshed(r, w, large) = [r EXCEPT !.account = w, !.large = large, !.status = status, !.next = next]
    BY DEF Refreshed, Asset
  <2> HIDE DEF status, next
  <2> QED
    BY <2>1, <2>2 DEF Asset
<1>2. ASSUME NEW a \in Assets, NEW retry \in BOOLEAN PROVE Failed(a, r, retry) \in Asset
  <2> DEFINE count  == r.retry + 1
             status == IF ~retry THEN "failed" ELSE IF Parked(a, r) THEN "manual" ELSE "pending"
             next   == IF ~retry \/ Parked(a, r) THEN "none" ELSE "later"
  <2>1. count \in Nat /\ status \in Status /\ next \in Timers
    BY DEF Status, Timers
  <2>2. Failed(a, r, retry) = [r EXCEPT !.retry = count, !.status = status, !.next = next]
    BY DEF Failed, Asset
  <2> HIDE DEF count, status, next
  <2> QED
    BY <2>1, <2>2 DEF Asset
<1>3. \A s \in Status : [r EXCEPT !.status = s] \in Asset
  BY DEF Asset
<1>4. /\ \A large \in BOOLEAN : [r EXCEPT !.large = large] \in Asset
      /\ [r EXCEPT !.next = "due"] \in Asset
  BY DEF Asset, Timers
<1>5. /\ \A large \in BOOLEAN :
            [r EXCEPT !.status = "succeeded", !.next = "none", !.large = large] \in Asset
      /\ [r EXCEPT !.status = "pending", !.force = TRUE, !.retry = 0, !.next = "none"] \in Asset
  BY DEF Asset, Status, Timers
<1>6. \A w \in Accounts : [r EXCEPT !.account = w, !.status = "pending"] \in Asset
  BY DEF Asset, Status
<1> QED
  BY <1>1, <1>2, <1>3, <1>4, <1>5, <1>6

Job == [id : Nat, force : BOOLEAN, large : BOOLEAN, retry : Nat]

\* TypeOK in three parts: the table, the workers, the rest.
TableTypes == asset \in [Assets -> Asset]
WorkerTypes ==
  /\ pc \in [Accounts -> Steps] /\ err \in [Accounts -> Errors]
  /\ job \in [Accounts -> Job]
  /\ \A w \in Accounts : pc[w] \in Working => job[w].id \in Assets
RestTypes ==
  /\ policy \in BOOLEAN
  /\ saving \in [Users -> {"none", "on", "off"}] /\ lost \in BOOLEAN
  /\ collector \in Accounts /\ listed \in [Accounts -> SUBSET Messages]
  /\ used \in [requests : Nat, switches : Nat, faults : Nat]

LEMMA TypeParts ==
  /\ TypeOK <=> TableTypes /\ WorkerTypes /\ RestTypes
  /\ TypeOK' <=> TableTypes' /\ WorkerTypes' /\ RestTypes'
  BY DEF TypeOK, TableTypes, WorkerTypes, RestTypes, Job

LEMMA SpendTypes ==
  ASSUME used \in [requests : Nat, switches : Nat, faults : Nat],
         NEW what \in {"requests", "switches", "faults"}, Spend(what)
  PROVE  used' \in [requests : Nat, switches : Nat, faults : Nat]
  BY DEF Spend

\* The moves of a worker keep the types of the workers.
LEMMA MoveTypes ==
  ASSUME WorkerTypes, NEW w \in Accounts
  PROVE  /\ Stop(w) => WorkerTypes'
         /\ \A why \in Errors : pc[w] \in Working /\ Fails(w, why) => WorkerTypes'
         /\ \A s \in Steps : (pc[w] \in Working \/ s \in {"off", "poll"}) /\ Goto(w, s)
              /\ UNCHANGED <<job, err>> => WorkerTypes'
         /\ Goto(w, "poll") /\ job' = [job EXCEPT ![w] = Nothing] /\ UNCHANGED err => WorkerTypes'
         /\ Goto(w, "poll") /\ job' = [job EXCEPT ![w] = Nothing]
              /\ err' = [err EXCEPT ![w] = "none"] => WorkerTypes'
<1> USE DEF WorkerTypes, Steps, Working, Errors, Goto
<1>0. Nothing \in Job
  BY DEF Nothing, Job
<1>1. Stop(w) => WorkerTypes'
  BY <1>0 DEF Stop
<1>2. \A why \in Errors : pc[w] \in Working /\ Fails(w, why) => WorkerTypes'
  BY DEF Fails
<1>3. \A s \in Steps : (pc[w] \in Working \/ s \in {"off", "poll"}) /\ Goto(w, s)
        /\ UNCHANGED <<job, err>> => WorkerTypes'
  OBVIOUS
<1>4. Goto(w, "poll") /\ job' = [job EXCEPT ![w] = Nothing] /\ UNCHANGED err => WorkerTypes'
  BY <1>0
<1>5. Goto(w, "poll") /\ job' = [job EXCEPT ![w] = Nothing]
        /\ err' = [err EXCEPT ![w] = "none"] => WorkerTypes'
  BY <1>0
<1> QED
  BY <1>1, <1>2, <1>3, <1>4, <1>5

LEMMA TableStep ==
  ASSUME TableTypes, NEW a \in Assets, NEW r \in Asset, asset' = [asset EXCEPT ![a] = r]
  PROVE  TableTypes'
  BY DEF TableTypes

\* The inserts and refreshes of assets.
LEMMA InsertTypes ==
  ASSUME TypeOK, NEW w \in Accounts, NEW a \in Assets
  PROVE  SeeMessage(w, a) \/ UpsertMessage(w, a) \/ UpsertAvatar(w, a) => TypeOK'
<1> USE TypeParts
<1>0. asset[a] \in Asset /\ policy \in BOOLEAN
  BY DEF TableTypes, RestTypes
<1>1. CASE SeeMessage(w, a)
  BY <1>1 DEF SeeMessage, TableTypes, WorkerTypes, RestTypes, workers
<1>2. CASE UpsertMessage(w, a)
  <2>1. PICK large \in BOOLEAN : asset' = [asset EXCEPT ![a] = Refreshed(@, w, large)]
    BY <1>2 DEF UpsertMessage
  <2>2. TableTypes'
    BY <1>0, <2>1, RecordTypes, TableStep
  <2> QED
    BY <1>2, <2>2 DEF UpsertMessage, WorkerTypes, RestTypes, workers
<1>3. CASE UpsertAvatar(w, a)
  <2>1. asset' = [asset EXCEPT ![a] = [asset[a] EXCEPT !.account = w, !.status = "pending"]]
    BY <1>3 DEF UpsertAvatar, TableTypes
  <2>2. TableTypes'
    BY <1>0, <2>1, RecordTypes, TableStep
  <2> QED
    BY <1>3, <2>2 DEF UpsertAvatar, WorkerTypes, RestTypes, workers
<1> QED
  BY <1>1, <1>2, <1>3

\* The steps of a worker that leave the table alone.
LEMMA MovingTypes ==
  ASSUME TypeOK, NEW w \in Accounts
  PROVE  Download(w) \/ StoreError(w) \/ StopWorker(w) => TypeOK'
<1> USE TypeParts
<1>1. CASE Download(w)
  <2>1. WorkerTypes'
    <3>1. pc[w] \in Working
      BY <1>1 DEF Download, Working, Steps
    <3>2. \/ \E why \in Errors : Fails(w, why)
          \/ Goto(w, "complete") /\ UNCHANGED <<job, err>>
      BY <1>1 DEF Download, Errors
    <3> QED
      BY <3>1, <3>2, MoveTypes DEF Steps
  <2> QED
    BY <1>1, <2>1 DEF Download, TableTypes, RestTypes
<1>2. CASE StoreError(w)
  <2>1. WorkerTypes'
    <3>1. (pc[w] \in Working /\ Fails(w, "retryable")) \/ Stop(w)
      BY <1>2 DEF StoreError, Working, Steps
    <3> QED
      BY <3>1, MoveTypes DEF Errors
  <2>2. used' \in [requests : Nat, switches : Nat, faults : Nat]
    BY <1>2, SpendTypes DEF StoreError, RestTypes
  <2> QED
    BY <1>2, <2>1, <2>2 DEF StoreError, TableTypes, RestTypes
<1>3. CASE StopWorker(w)
  <2>1. WorkerTypes' /\ used' \in [requests : Nat, switches : Nat, faults : Nat]
    BY <1>3, SpendTypes, MoveTypes DEF StopWorker, RestTypes
  <2> QED
    BY <1>3, <2>1 DEF StopWorker, TableTypes, RestTypes
<1> QED
  BY <1>1, <1>2, <1>3

\* The steps of a worker that write the table.
LEMMA WritingTypes ==
  ASSUME TypeOK, NEW w \in Accounts
  PROVE  RecoverInterrupted(w) \/ ClaimNext(w) \/ Refresh(w) \/ Complete(w) \/ Fail(w) => TypeOK'
<1> USE TypeParts
<1>0. /\ policy \in BOOLEAN
      /\ \A a \in Assets : asset[a] \in Asset
      /\ \A a \in Assets, r \in Asset : asset' = [asset EXCEPT ![a] = r] => TableTypes'
      /\ pc[w] \in Working => job[w].id \in Assets
  BY TableStep DEF TableTypes, RestTypes, WorkerTypes
<1>1. CASE RecoverInterrupted(w)
  <2>1. TableTypes'
    <3>1. ASSUME NEW a \in Assets
          PROVE  [asset[a] EXCEPT !.status = IF Parked(a, asset[a]) THEN "manual" ELSE "pending"] \in Asset
      BY <1>0, RecordTypes DEF Status
    <3> QED
      BY <1>0, <1>1, <3>1 DEF RecoverInterrupted, TableTypes
  <2>2. WorkerTypes'
    BY <1>1, MoveTypes DEF RecoverInterrupted, Steps
  <2> QED
    BY <1>1, <2>1, <2>2 DEF RecoverInterrupted, RestTypes
<1>2. CASE ClaimNext(w)
  <2>1. PICK a \in Assets :
          /\ asset' = [asset EXCEPT ![a].status = "downloading"]
          /\ job' = [job EXCEPT ![w] = [id |-> a, force |-> asset[a].force, large |-> asset[a].large,
                                        retry |-> asset[a].retry]]
    BY <1>2 DEF ClaimNext
  <2>2. TableTypes'
    <3>1. asset' = [asset EXCEPT ![a] = [asset[a] EXCEPT !.status = "downloading"]]
      BY <2>1 DEF TableTypes
    <3> QED
      BY <1>0, <3>1, RecordTypes DEF Status
  <2>3. WorkerTypes'
    <3>1. [id |-> a, force |-> asset[a].force, large |-> asset[a].large, retry |-> asset[a].retry] \in Job
      BY <1>0, MediaAssumption DEF Job, Asset
    <3> QED
      BY <1>2, <2>1, <3>1 DEF ClaimNext, WorkerTypes, Goto, Steps
  <2> QED
    BY <1>2, <2>2, <2>3 DEF ClaimNext, RestTypes
<1>3. CASE Refresh(w)
  <2>0. pc[w] \in Working /\ job[w].id \in Assets
    BY <1>0, <1>3 DEF Refresh, Working, Steps
  <2>1. CASE (\E why \in {"retryable", "final"} : Fails(w, why)) /\ UNCHANGED asset
    <3>1. WorkerTypes'
      BY <2>0, <2>1, MoveTypes DEF Errors
    <3> QED
      BY <1>3, <2>1, <3>1 DEF Refresh, TableTypes, RestTypes
  <2>2. ASSUME NEW large \in BOOLEAN, asset' = [asset EXCEPT ![job[w].id].large = large],
               job' = [job EXCEPT ![w].large = large], Goto(w, "again"), UNCHANGED err
        PROVE  TypeOK'
    <3>1. TableTypes'
      <4>1. asset' = [asset EXCEPT ![job[w].id] = [asset[job[w].id] EXCEPT !.large = large]]
        BY <2>0, <2>2 DEF TableTypes
      <4> QED
        BY <1>0, <2>0, <4>1, RecordTypes
    <3>2. WorkerTypes'
      BY <2>0, <2>2 DEF WorkerTypes, Goto, Steps, Job
    <3> QED
      BY <1>3, <3>1, <3>2 DEF Refresh, RestTypes
  <2> QED
    BY <1>3, <2>1, <2>2 DEF Refresh
<1>4. CASE Complete(w)
  <2>0. job[w].id \in Assets
    BY <1>0, <1>4 DEF Complete, Working, Steps
  <2>1. TableTypes'
    BY <1>0, <1>4, <2>0, RecordTypes DEF Complete
  <2>2. WorkerTypes'
    BY <1>4, MoveTypes DEF Complete
  <2> QED
    BY <1>4, <2>1, <2>2 DEF Complete, RestTypes
<1>5. CASE Fail(w)
  <2>0. job[w].id \in Assets
    BY <1>0, <1>5 DEF Fail, Working, Steps
  <2>1. TableTypes'
    <3> DEFINE retry == err[w] # "final" /\ RetriesLeft(job[w].retry)
    <3>1. asset' = [asset EXCEPT ![job[w].id] = Failed(job[w].id, asset[job[w].id], retry)]
      BY <1>5 DEF Fail
    <3>2. retry \in BOOLEAN
      OBVIOUS
    <3> HIDE DEF retry
    <3> QED
      BY <1>0, <2>0, <3>1, <3>2, RecordTypes
  <2>2. WorkerTypes'
    BY <1>5, MoveTypes DEF Fail
  <2> QED
    BY <1>5, <2>1, <2>2 DEF Fail, RestTypes
<1> QED
  BY <1>1, <1>2, <1>3, <1>4, <1>5

\* The users and the environment.
LEMMA UserTypes ==
  ASSUME TypeOK
  PROVE  /\ \A a \in Assets : RequestDownload(a) \/ Elapse(a) => TypeOK'
         /\ \A u \in Users : ApplyAutoDownloadPolicy(u) \/ ApplyError(u) => TypeOK'
         /\ \A u \in Users, on \in BOOLEAN : SaveSettings(u, on) => TypeOK'
         /\ \A w \in Accounts : SetCollectorAccount(w) => TypeOK'
         /\ Restart => TypeOK'
<1> USE TypeParts
<1>0. /\ policy \in BOOLEAN
      /\ \A a \in Assets : asset[a] \in Asset
      /\ \A a \in Assets, r \in Asset : asset' = [asset EXCEPT ![a] = r] => TableTypes'
      /\ \A what \in {"requests", "switches", "faults"} :
           Spend(what) => used' \in [requests : Nat, switches : Nat, faults : Nat]
  BY TableStep, SpendTypes DEF TableTypes, RestTypes
<1>1. ASSUME NEW a \in Assets, RequestDownload(a) PROVE TypeOK'
  <2>1. TableTypes'
    BY <1>0, <1>1, RecordTypes DEF RequestDownload
  <2> QED
    BY <1>0, <1>1, <2>1 DEF RequestDownload, WorkerTypes, RestTypes, workers
<1>2. ASSUME NEW a \in Assets, Elapse(a) PROVE TypeOK'
  <2>1. asset' = [asset EXCEPT ![a] = [asset[a] EXCEPT !.next = "due"]]
    BY <1>2 DEF Elapse, TableTypes
  <2>2. TableTypes'
    BY <1>0, <2>1, RecordTypes
  <2> QED
    BY <1>2, <2>2 DEF Elapse, WorkerTypes, RestTypes, workers
<1>3. ASSUME NEW u \in Users, ApplyAutoDownloadPolicy(u) PROVE TypeOK'
  <2>1. TableTypes'
    <3> DEFINE to == IF saving[u] = "on" THEN "pending" ELSE "manual"
    <3>1. to \in Status
      BY DEF Status
    <3>2. \A a \in Assets : asset'[a] = asset[a] \/ asset'[a] = [asset[a] EXCEPT !.status = to]
      BY <1>3 DEF ApplyAutoDownloadPolicy
    <3> HIDE DEF to
    <3>3. ASSUME NEW a \in Assets PROVE asset'[a] \in Asset
      <4>1. [asset[a] EXCEPT !.status = to] \in Asset
        BY <1>0, <3>1, RecordTypes
      <4> QED
        BY <1>0, <3>2, <4>1
    <3>4. asset' = [a \in Assets |-> asset'[a]]
      BY <1>3 DEF ApplyAutoDownloadPolicy
    <3> QED
      BY <3>3, <3>4 DEF TableTypes
  <2> QED
    BY <1>3, <2>1 DEF ApplyAutoDownloadPolicy, WorkerTypes, RestTypes, workers
<1>4. ASSUME NEW u \in Users, ApplyError(u) PROVE TypeOK'
  BY <1>0, <1>4 DEF ApplyError, TableTypes, WorkerTypes, RestTypes, workers
<1>5. ASSUME NEW u \in Users, NEW on \in BOOLEAN, SaveSettings(u, on) PROVE TypeOK'
  BY <1>0, <1>5 DEF SaveSettings, TableTypes, WorkerTypes, RestTypes, workers
<1>6. ASSUME NEW w \in Accounts, SetCollectorAccount(w) PROVE TypeOK'
  BY <1>0, <1>6 DEF SetCollectorAccount, TableTypes, WorkerTypes, RestTypes, workers
<1>7. ASSUME Restart PROVE TypeOK'
  <2>1. WorkerTypes'
    BY <1>7 DEF Restart, WorkerTypes, Steps, Working, Errors, Nothing, Job
  <2>2. RestTypes'
    BY <1>0, <1>7 DEF Restart, RestTypes
  <2> QED
    BY <1>7, <2>1, <2>2 DEF Restart, TableTypes
<1> QED
  BY <1>1, <1>2, <1>3, <1>4, <1>5, <1>6, <1>7

LEMMA InitTypes == Init => TypeOK
<1> SUFFICES ASSUME Init PROVE TypeOK
  OBVIOUS
<1>1. TableTypes
  BY DEF Init, TableTypes, NoAsset, Asset, Status, Timers
<1>2. WorkerTypes
  BY DEF Init, WorkerTypes, Nothing, Job, Steps, Working, Errors
<1>3. RestTypes
  BY DEF Init, RestTypes
<1> QED
  BY <1>1, <1>2, <1>3, TypeParts

LEMMA StutterTypes == TypeOK /\ UNCHANGED vars => TypeOK'
  BY DEF TypeOK, vars, workers

\* The records, steps and claims are well typed in every reachable state; in
\* particular a worker that downloads holds an asset of the table.
THEOREM Types == Spec => []TypeOK
<1>1. TypeOK /\ [Next]_vars => TypeOK'
  BY InsertTypes, MovingTypes, WritingTypes, UserTypes, StutterTypes DEF Next, Worker
<1> QED
  BY InitTypes, <1>1, PTL DEF Spec
-----------------------------------------------------------------------------
(* ForcedNotParked is inductive once the types are known: every writer      *)
(* either leaves the status of a forced asset alone or gives it one of the  *)
(* others.                                                                  *)

LEMMA ForcedRecords ==
  ASSUME NEW r \in Asset, NEW a \in Assets,
         r.force => r.status \notin {"none", "manual", "skipped"}
  PROVE  /\ \A w \in Accounts, large \in BOOLEAN :
              LET n == Refreshed(r, w, large) IN n.force => n.status \notin {"none", "manual", "skipped"}
         /\ \A retry \in BOOLEAN :
              LET n == Failed(a, r, retry) IN n.force => n.status \notin {"none", "manual", "skipped"}
<1>1. ASSUME NEW w \in Accounts, NEW large \in BOOLEAN
      PROVE  LET n == Refreshed(r, w, large) IN n.force => n.status \notin {"none", "manual", "skipped"}
  <2>1. /\ Refreshed(r, w, large).force = r.force
        /\ r.status \notin {"none", "skipped"} => Refreshed(r, w, large).status = r.status
    BY DEF Refreshed, Asset
  <2> QED
    BY <2>1
<1>2. ASSUME NEW retry \in BOOLEAN
      PROVE  LET n == Failed(a, r, retry) IN n.force => n.status \notin {"none", "manual", "skipped"}
  BY DEF Failed, Parked, Automatic, Asset
<1> QED
  BY <1>1, <1>2

\* Whatever happens to it, a download the user asked for is not given up but as
\* succeeded or failed.
THEOREM ForcedStays == Spec => []ForcedNotParked
<1>1. Init => ForcedNotParked
  BY DEF Init, ForcedNotParked, NoAsset
<1>2. TypeOK /\ ForcedNotParked /\ [Next]_vars => ForcedNotParked'
  <2> SUFFICES ASSUME TypeOK, ForcedNotParked, [Next]_vars, NEW a \in Assets, (asset[a].force)'
               PROVE  asset'[a].status \notin {"none", "manual", "skipped"}
    BY DEF ForcedNotParked
  <2>0. /\ asset \in [Assets -> Asset] /\ asset[a] \in Asset
        /\ asset[a].force => asset[a].status \notin {"none", "manual", "skipped"}
        /\ \A w \in Accounts : pc[w] \in Working => job[w].id \in Assets
    BY DEF TypeOK, ForcedNotParked
  <2>1. ASSUME NEW w \in Accounts, NEW b \in Assets,
               SeeMessage(w, b) \/ UpsertMessage(w, b) \/ UpsertAvatar(w, b)
        PROVE  asset'[a].status \notin {"none", "manual", "skipped"}
    <3>1. CASE SeeMessage(w, b)
      BY <2>0, <3>1 DEF SeeMessage
    <3>2. CASE UpsertMessage(w, b)
      BY <2>0, <3>2, ForcedRecords DEF UpsertMessage
    <3>3. CASE UpsertAvatar(w, b)
      BY <2>0, <3>3 DEF UpsertAvatar, NextToInsert, Exists, Asset
    <3> QED
      BY <2>1, <3>1, <3>2, <3>3
  <2>2. ASSUME NEW w \in Accounts, Worker(w) \/ StoreError(w) \/ StopWorker(w)
        PROVE  asset'[a].status \notin {"none", "manual", "skipped"}
    <3>1. CASE RecoverInterrupted(w)
      BY <2>0, <3>1 DEF RecoverInterrupted, Parked, Automatic, Asset
    <3>2. CASE ClaimNext(w)
      BY <2>0, <3>2 DEF ClaimNext, Asset
    <3>3. CASE Refresh(w)
      <4>1. \/ UNCHANGED asset
            \/ \E b \in Assets, large \in BOOLEAN : asset' = [asset EXCEPT ![b].large = large]
        BY <2>0, <3>3 DEF Refresh, Working, Steps
      <4> QED
        BY <2>0, <4>1 DEF Asset
    <3>4. CASE Complete(w)
      BY <2>0, <3>4 DEF Complete, Asset
    <3>5. CASE Fail(w)
      <4>1. \/ asset'[a] = asset[a]
            \/ \E retry \in BOOLEAN : asset'[a] = Failed(a, asset[a], retry)
        BY <2>0, <3>5 DEF Fail
      <4> QED
        BY <2>0, <4>1, ForcedRecords
    <3> QED
      BY <2>0, <2>2, <3>1, <3>2, <3>3, <3>4, <3>5 DEF Worker, Download, StoreError, StopWorker
  <2>3. ASSUME NEW b \in Assets, RequestDownload(b) \/ Elapse(b)
        PROVE  asset'[a].status \notin {"none", "manual", "skipped"}
    <3>1. CASE RequestDownload(b)
      BY <2>0, <3>1 DEF RequestDownload, Asset
    <3>2. CASE Elapse(b)
      BY <2>0, <3>2 DEF Elapse, Asset
    <3> QED
      BY <2>3, <3>1, <3>2
  <2>4. ASSUME NEW u \in Users, ApplyAutoDownloadPolicy(u)
        PROVE  asset'[a].status \notin {"none", "manual", "skipped"}
    BY <2>0, <2>4 DEF ApplyAutoDownloadPolicy, Automatic, Asset
  <2> QED
    BY <2>0, <2>1, <2>2, <2>3, <2>4
       DEF Next, vars, ApplyError, SaveSettings, SetCollectorAccount, Restart
<1> QED
  BY <1>1, <1>2, Types, PTL DEF Spec
-----------------------------------------------------------------------------
(* One worker per asset, and bounded attempts, as long as no chat changes   *)
(* its collecting account.  OneDownload is not inductive: a recovery looks  *)
(* at the account of an asset, not at its worker.  OwnInv adds that the     *)
(* worker's account is the asset's, that only the collecting account writes *)
(* messages, and that a worker still knows the number of attempts.          *)

Collected == \A a \in Messages : Exists(a) => asset[a].account = collector
Listing == \A w \in Accounts : listed[w] # {} => w = collector
Held(w, a) == asset[a].status = "downloading" /\ asset[a].account = w /\ job[w].retry = asset[a].retry
HeldAll == \A w \in Accounts, a \in Assets : Holds(w, a) => Held(w, a)

OwnInv == used.switches = 0 => Collected /\ Listing /\ HeldAll

\* What is neither failed nor succeeded has an attempt left.
BoundInv ==
  used.switches = 0 =>
    \A a \in Assets : /\ asset[a].retry <= Limit
                      /\ asset[a].status \notin {"failed", "succeeded"} => asset[a].retry < Limit

\* The count of the changes of the collecting account never goes down.
LEMMA SwitchesGrow ==
  ASSUME TypeOK, [Next]_vars, used'.switches = 0
  PROVE  /\ used.switches = 0
         /\ UNCHANGED collector
         /\ \A w \in Accounts : ~SetCollectorAccount(w)
<1>1. used \in [requests : Nat, switches : Nat, faults : Nat]
  BY DEF TypeOK
<1>2. ASSUME NEW w \in Accounts, SetCollectorAccount(w) PROVE FALSE
  BY <1>1, <1>2 DEF SetCollectorAccount, Spend
<1>3. used.switches = 0
  BY <1>1, <1>2
     DEF Next, vars, Spend, Worker, RecoverInterrupted, ClaimNext, Download, Refresh, Complete, Fail,
         StoreError, StopWorker, SeeMessage, UpsertMessage, UpsertAvatar, RequestDownload, Elapse,
         ApplyAutoDownloadPolicy, ApplyError, SaveSettings, Restart
<1>4. UNCHANGED collector
  BY <1>2
     DEF Next, vars, Worker, RecoverInterrupted, ClaimNext, Download, Refresh, Complete, Fail,
         StoreError, StopWorker, SeeMessage, UpsertMessage, UpsertAvatar, RequestDownload, Elapse,
         ApplyAutoDownloadPolicy, ApplyError, SaveSettings, Restart
<1> QED
  BY <1>2, <1>3, <1>4

\* Inserts and refreshes: only the collecting account writes a message's asset.
LEMMA OwnInsert ==
  ASSUME TypeOK, Collected, Listing, HeldAll, UNCHANGED collector,
         NEW w \in Accounts, NEW a \in Assets,
         SeeMessage(w, a) \/ UpsertMessage(w, a) \/ UpsertAvatar(w, a)
  PROVE  Collected' /\ Listing' /\ HeldAll'
<1>0. /\ asset \in [Assets -> Asset] /\ listed \in [Accounts -> SUBSET Messages]
      /\ job \in [Accounts -> [id : Nat, force : BOOLEAN, large : BOOLEAN, retry : Nat]]
      /\ Messages \subseteq Assets
  BY DEF TypeOK, Messages
<1>1. CASE SeeMessage(w, a)
  <2>1. listed' = [listed EXCEPT ![w] = @ \cup {a}] /\ collector = w /\ UNCHANGED <<asset, pc, job>>
    BY <1>1 DEF SeeMessage, workers
  <2> QED
    BY <1>0, <2>1 DEF Collected, Listing, HeldAll, Held, Holds, Exists
<1>2. CASE UpsertMessage(w, a)
  <2>1. PICK large \in BOOLEAN : asset' = [asset EXCEPT ![a] = Refreshed(asset[a], w, large)]
    BY <1>2 DEF UpsertMessage
  <2>2. /\ a \in Messages /\ w = collector
        /\ listed' = [listed EXCEPT ![w] = @ \ {a}] /\ UNCHANGED <<pc, job>>
    BY <1>0, <1>2 DEF UpsertMessage, Listing, workers
  <2>3. /\ Refreshed(asset[a], w, large).account = w
        /\ Refreshed(asset[a], w, large).retry = asset[a].retry
        /\ asset[a].status = "downloading" => Refreshed(asset[a], w, large).status = "downloading"
    BY <1>0 DEF Refreshed, Asset
  <2>4. Collected' /\ Listing'
    BY <1>0, <2>1, <2>2, <2>3 DEF Collected, Listing, Exists
  <2>5. ASSUME NEW v \in Accounts, NEW b \in Assets, Holds(v, b) PROVE Held(v, b)'
    <3>1. Held(v, b)
      BY <2>5 DEF HeldAll
    <3>2. CASE b # a
      BY <1>0, <2>1, <2>2, <3>1, <3>2 DEF Held
    <3>3. CASE b = a
      <4>1. asset[a].account = collector
        BY <2>2, <3>1, <3>3 DEF Collected, Exists, Held
      <4> QED
        BY <1>0, <2>1, <2>2, <2>3, <3>1, <3>3, <4>1 DEF Held
    <3> QED
      BY <3>2, <3>3
  <2> QED
    BY <2>2, <2>4, <2>5 DEF HeldAll, Holds
<1>3. CASE UpsertAvatar(w, a)
  <2>1. /\ a \notin Messages /\ asset[a].status = "none" /\ UNCHANGED <<listed, pc, job>>
        /\ asset' = [asset EXCEPT ![a] = [@ EXCEPT !.account = w, !.status = "pending"]]
    BY <1>0, <1>3 DEF UpsertAvatar, NextToInsert, Exists, Messages, workers
  <2>2. \A b \in Assets : b # a => asset'[b] = asset[b]
    BY <1>0, <2>1
  <2>3. Collected' /\ Listing'
    BY <1>0, <2>1, <2>2 DEF Collected, Listing, Exists
  <2>4. ASSUME NEW v \in Accounts, NEW b \in Assets, Holds(v, b) PROVE Held(v, b)'
    BY <2>1, <2>2, <2>4 DEF HeldAll, Held
  <2> QED
    BY <2>1, <2>3, <2>4 DEF HeldAll, Holds
<1> QED
  BY <1>1, <1>2, <1>3

\* The worker of an account: it takes what nobody holds, writes what it holds,
\* and recovers its own assets when it holds none.
LEMMA OwnWorker ==
  ASSUME TypeOK, Collected, Listing, HeldAll, UNCHANGED collector,
         NEW w \in Accounts, Worker(w) \/ StoreError(w) \/ StopWorker(w)
  PROVE  Collected' /\ Listing' /\ HeldAll'
<1>0. /\ asset \in [Assets -> Asset] /\ pc \in [Accounts -> Steps]
      /\ job \in [Accounts -> [id : Nat, force : BOOLEAN, large : BOOLEAN, retry : Nat]]
      /\ Messages \subseteq Assets
      /\ pc[w] \in Working => job[w].id \in Assets
  BY DEF TypeOK, Messages
<1>1. Listing'
  BY DEF Listing, Worker, RecoverInterrupted, ClaimNext, Download, Refresh, Complete, Fail,
         StoreError, StopWorker
<1>2. CASE RecoverInterrupted(w)
  <2>1. /\ pc' = [pc EXCEPT ![w] = "poll"] /\ UNCHANGED job
        /\ \A b \in Assets : /\ asset'[b].account = asset[b].account /\ asset'[b].retry = asset[b].retry
                             /\ asset[b].account # w => asset'[b] = asset[b]
                             /\ asset'[b].status # "none" => asset[b].status # "none"
    BY <1>0, <1>2 DEF RecoverInterrupted, Goto, Asset
  <2>2. ASSUME NEW v \in Accounts, NEW b \in Assets, Holds(v, b)' PROVE Held(v, b)'
    <3>1. v # w /\ Held(v, b)
      BY <1>0, <2>1, <2>2 DEF Holds, HeldAll, Working
    <3> QED
      BY <2>1, <3>1 DEF Held
  <2>3. Collected'
    BY <1>0, <2>1 DEF Collected, Exists
  <2> QED
    BY <1>1, <2>2, <2>3 DEF HeldAll
<1>3. CASE ClaimNext(w)
  <2>1. PICK a \in Assets :
          /\ Claimable(w, a)
          /\ asset' = [asset EXCEPT ![a].status = "downloading"]
          /\ job' = [job EXCEPT ![w] = [id |-> a, force |-> asset[a].force, large |-> asset[a].large,
                                        retry |-> asset[a].retry]]
    BY <1>3 DEF ClaimNext
  <2>2. pc' = [pc EXCEPT ![w] = "download"] /\ asset[a].status = "pending" /\ asset[a].account = w
    BY <1>3, <2>1 DEF ClaimNext, Goto, Claimable
  <2>3. /\ asset'[a].status = "downloading" /\ asset'[a].account = w /\ asset'[a].retry = asset[a].retry
        /\ \A b \in Assets : b # a => asset'[b] = asset[b]
        /\ job'[w].id = a /\ job'[w].retry = asset[a].retry
        /\ \A v \in Accounts : v # w => job'[v] = job[v] /\ pc'[v] = pc[v]
    BY <1>0, <2>1, <2>2 DEF Asset
  <2>4. ASSUME NEW v \in Accounts, NEW b \in Assets, Holds(v, b)' PROVE Held(v, b)'
    <3>1. CASE v = w
      BY <2>2, <2>3, <2>4, <3>1 DEF Holds, Held
    <3>2. CASE v # w
      <4>1. Held(v, b)
        BY <2>3, <2>4, <3>2 DEF Holds, HeldAll
      <4> QED
        BY <2>2, <2>3, <3>2, <4>1 DEF Held
    <3> QED
      BY <3>1, <3>2
  <2>5. Collected'
    BY <1>0, <2>2, <2>3 DEF Collected, Exists
  <2> QED
    BY <1>1, <2>4, <2>5 DEF HeldAll
<1>4. CASE Download(w) \/ StoreError(w) \/ StopWorker(w)
  <2>1. /\ UNCHANGED asset
        /\ \A v \in Accounts : v # w => pc'[v] = pc[v] /\ job'[v] = job[v]
        /\ pc'[w] \in Working => pc[w] \in Working /\ job'[w] = job[w]
    BY <1>0, <1>4 DEF Download, StoreError, StopWorker, Fails, Goto, Stop, Working, Steps
  <2> QED
    BY <1>1, <2>1 DEF Collected, Exists, HeldAll, Holds, Held
<1>5. CASE Refresh(w)
  <2>0. /\ pc[w] \in Working
        /\ \E s \in Steps : pc' = [pc EXCEPT ![w] = s]
        /\ \/ UNCHANGED <<asset, job>>
           \/ \E large \in BOOLEAN : /\ asset' = [asset EXCEPT ![job[w].id].large = large]
                                    /\ job' = [job EXCEPT ![w].large = large]
    BY <1>0, <1>5 DEF Refresh, Fails, Goto, Working, Steps
  <2>1. \A v \in Accounts : v # w => pc'[v] = pc[v]
    BY <1>0, <2>0
  <2>2. CASE UNCHANGED <<asset, job>>
    BY <1>0, <1>1, <2>0, <2>1, <2>2 DEF Collected, Exists, HeldAll, Holds, Held
  <2>3. ASSUME NEW large \in BOOLEAN, asset' = [asset EXCEPT ![job[w].id].large = large],
               job' = [job EXCEPT ![w].large = large]
        PROVE  Collected' /\ HeldAll'
    <3>1. \A b \in Assets : /\ asset'[b].status = asset[b].status /\ asset'[b].retry = asset[b].retry
                            /\ asset'[b].account = asset[b].account
      BY <1>0, <2>0, <2>3 DEF Asset
    <3>2. \A v \in Accounts : job'[v].id = job[v].id /\ job'[v].retry = job[v].retry
      BY <1>0, <2>3
    <3> QED
      BY <1>0, <2>0, <2>1, <3>1, <3>2 DEF Collected, Exists, HeldAll, Holds, Held
  <2> QED
    BY <1>1, <2>0, <2>2, <2>3
<1>6. CASE Complete(w) \/ Fail(w)
  <2> DEFINE a == job[w].id
  <2>1. /\ a \in Assets /\ Holds(w, a)
        /\ pc' = [pc EXCEPT ![w] = "poll"]
        /\ \A v \in Accounts : v # w => job'[v] = job[v]
    BY <1>0, <1>6 DEF Complete, Fail, Goto, Holds, Working, Steps
  <2>2. /\ \A b \in Assets : b # a => asset'[b] = asset[b]
        /\ asset'[a].account = asset[a].account
    <3>1. \E r \in Asset : asset' = [asset EXCEPT ![a] = r] /\ r.account = asset[a].account
      <4>1. CASE Complete(w)
        <5>1. PICK large \in BOOLEAN : asset' = [asset EXCEPT
                 ![a] = [asset[a] EXCEPT !.status = "succeeded", !.next = "none", !.large = large]]
          BY <4>1 DEF Complete
        <5> DEFINE r == [asset[a] EXCEPT !.status = "succeeded", !.next = "none", !.large = large]
        <5>2. r \in Asset
          BY <1>0, <2>1, RecordTypes DEF TypeOK
        <5>3. r.account = asset[a].account
          BY <1>0, <2>1 DEF Asset
        <5> QED
          BY <5>1, <5>2, <5>3
      <4>2. CASE Fail(w)
        <5> DEFINE retry == err[w] # "final" /\ RetriesLeft(job[w].retry)
        <5>1. retry \in BOOLEAN /\ asset' = [asset EXCEPT ![a] = Failed(a, asset[a], retry)]
          BY <4>2 DEF Fail
        <5> HIDE DEF retry
        <5>2. Failed(a, asset[a], retry).account = asset[a].account
          BY <1>0, <2>1 DEF Failed, Asset
        <5>3. Failed(a, asset[a], retry) \in Asset
          BY <1>0, <2>1, <5>1, RecordTypes DEF TypeOK
        <5> QED
          BY <5>1, <5>2, <5>3
      <4> QED
        BY <1>6, <4>1, <4>2
    <3> QED
      BY <1>0, <2>1, <3>1
  <2>3. Held(w, a)
    BY <2>1 DEF HeldAll
  <2> HIDE DEF a
  <2>4. ASSUME NEW v \in Accounts, NEW b \in Assets, Holds(v, b)' PROVE Held(v, b)'
    <3>1. v # w /\ Holds(v, b)
      BY <1>0, <2>1, <2>4 DEF Holds, Working
    <3>2. Held(v, b)
      BY <3>1 DEF HeldAll
    <3> QED
      BY <2>1, <2>2, <2>3, <3>1, <3>2 DEF Held
  <2>5. Collected'
    BY <1>0, <2>2, <2>3 DEF Collected, Exists, Held
  <2> QED
    BY <1>1, <2>4, <2>5 DEF HeldAll
<1> QED
  BY <1>2, <1>3, <1>4, <1>5, <1>6 DEF Worker

\* The requests, time and restarts leave alone what is held.
LEMMA OwnUser ==
  ASSUME TypeOK, Collected, Listing, HeldAll, UNCHANGED collector,
         \/ \E a \in Assets : RequestDownload(a) \/ Elapse(a)
         \/ \E u \in Users : ApplyAutoDownloadPolicy(u) \/ ApplyError(u)
         \/ \E u \in Users, on \in BOOLEAN : SaveSettings(u, on)
         \/ Restart
  PROVE  Collected' /\ Listing' /\ HeldAll'
<1>0. asset \in [Assets -> Asset] /\ Messages \subseteq Assets
  BY DEF TypeOK, Messages
<1>1. CASE Restart
  BY <1>1 DEF Restart, Collected, Exists, Listing, HeldAll, Holds, Working
<1>2. CASE /\ UNCHANGED <<pc, job, listed>>
           /\ \A b \in Assets : /\ asset'[b].account = asset[b].account
                                /\ asset'[b].status # "none" => asset[b].status # "none"
                                /\ asset[b].status = "downloading" =>
                                     asset'[b].status = "downloading" /\ asset'[b].retry = asset[b].retry
  BY <1>0, <1>2 DEF Collected, Exists, Listing, HeldAll, Holds, Held
<1>3. ASSUME NEW a \in Assets, RequestDownload(a) \/ Elapse(a) PROVE Collected' /\ Listing' /\ HeldAll'
  <2>1. CASE RequestDownload(a)
    BY <1>0, <1>2, <2>1 DEF RequestDownload, workers, Asset
  <2>2. CASE Elapse(a)
    BY <1>0, <1>2, <2>2 DEF Elapse, workers, Asset
  <2> QED
    BY <1>3, <2>1, <2>2
<1>4. ASSUME NEW u \in Users, ApplyAutoDownloadPolicy(u) PROVE Collected' /\ Listing' /\ HeldAll'
  BY <1>0, <1>2, <1>4 DEF ApplyAutoDownloadPolicy, workers, Asset
<1> QED
  BY <1>1, <1>2, <1>3, <1>4 DEF ApplyError, SaveSettings, workers

LEMMA OwnStep == TypeOK /\ OwnInv /\ [Next]_vars => OwnInv'
<1> SUFFICES ASSUME TypeOK, OwnInv, [Next]_vars, used'.switches = 0
             PROVE  Collected' /\ Listing' /\ HeldAll'
  BY DEF OwnInv
<1>1. /\ Collected /\ Listing /\ HeldAll /\ UNCHANGED collector
      /\ \A w \in Accounts : ~SetCollectorAccount(w)
  BY SwitchesGrow DEF OwnInv
<1>2. CASE UNCHANGED vars
  BY <1>1, <1>2 DEF vars, workers, Collected, Exists, Listing, HeldAll, Holds, Held
<1> QED
  BY <1>1, <1>2, OwnInsert, OwnWorker, OwnUser DEF Next

LEMMA OwnInit == Init => OwnInv
  BY DEF Init, OwnInv, Collected, Exists, NoAsset, Listing, HeldAll, Holds, Working, Messages

LEMMA Own == Spec => []OwnInv
  BY OwnInit, OwnStep, Types, PTL DEF Spec

\* While every chat keeps its collecting account, the claims of ClaimNext, the
\* recoveries of all listeners, the refreshes and the restarts never give an asset
\* to two workers.
THEOREM OneWorker == Spec => []OneDownload
<1>1. OwnInv => OneDownload
  BY DEF OwnInv, OneDownload, HeldAll, Held
<1> QED
  BY <1>1, Own, PTL
-----------------------------------------------------------------------------
(* The bound of the attempts.                                               *)

LEMMA LimitType == Limit \in Nat /\ Limit > 0
  BY MediaAssumption

\* What a step may do to the count of an asset: start again at zero, leave it and
\* not revive what has ended, or count an attempt.
Keeps(r, s) == s.retry = r.retry /\ (s.status \notin {"failed", "succeeded"} =>
                                       r.status \notin {"failed", "succeeded"})
Counts(r, s) == /\ r.status = "downloading" /\ s.retry = r.retry + 1
                /\ s.status \notin {"failed", "succeeded"} => s.retry < Limit

LEMMA BoundRecord ==
  ASSUME TypeOK, BoundInv, used.switches = 0, NEW b \in Assets,
         Keeps(asset[b], asset'[b]) \/ Counts(asset[b], asset'[b]) \/ asset'[b].retry = 0
  PROVE  /\ asset'[b].retry <= Limit
         /\ asset'[b].status \notin {"failed", "succeeded"} => asset'[b].retry < Limit
<1>1. asset[b].retry \in Nat
  BY DEF TypeOK, Asset
<1> QED
  BY <1>1, LimitType DEF BoundInv, Keeps, Counts

LEMMA BoundMoves ==
  ASSUME TypeOK, HeldAll, Next, NEW b \in Assets
  PROVE  Keeps(asset[b], asset'[b]) \/ Counts(asset[b], asset'[b]) \/ asset'[b].retry = 0
<1>0. /\ asset \in [Assets -> Asset] /\ asset[b] \in Asset
      /\ \A w \in Accounts : pc[w] \in Working => job[w].id \in Assets
  BY DEF TypeOK
<1>1. CASE asset' = asset
  BY <1>1 DEF Keeps
<1>2. ASSUME NEW w \in Accounts, NEW a \in Assets, UpsertMessage(w, a) \/ UpsertAvatar(w, a)
      PROVE  Keeps(asset[b], asset'[b])
  <2>1. CASE UpsertMessage(w, a)
    <3>1. PICK large \in BOOLEAN : asset' = [asset EXCEPT ![a] = Refreshed(asset[a], w, large)]
      BY <2>1 DEF UpsertMessage
    <3>2. /\ Refreshed(asset[a], w, large).retry = asset[a].retry
          /\ asset[a].status \notin {"none", "skipped"} =>
               Refreshed(asset[a], w, large).status = asset[a].status
      BY <1>0 DEF Refreshed, Asset
    <3> QED
      BY <1>0, <3>1, <3>2 DEF Keeps
  <2>2. CASE UpsertAvatar(w, a)
    BY <1>0, <2>2 DEF UpsertAvatar, NextToInsert, Exists, Keeps, Asset
  <2> QED
    BY <1>2, <2>1, <2>2
<1>3. ASSUME NEW w \in Accounts, RecoverInterrupted(w) PROVE Keeps(asset[b], asset'[b])
  BY <1>0, <1>3 DEF RecoverInterrupted, Keeps, Asset
<1>4. ASSUME NEW w \in Accounts, ClaimNext(w) PROVE Keeps(asset[b], asset'[b])
  BY <1>0, <1>4 DEF ClaimNext, Claimable, Keeps, Asset
<1>5. ASSUME NEW w \in Accounts, Refresh(w) PROVE Keeps(asset[b], asset'[b])
  <2>1. \/ UNCHANGED asset
        \/ \E a \in Assets, large \in BOOLEAN : asset' = [asset EXCEPT ![a].large = large]
    BY <1>0, <1>5 DEF Refresh, Working, Steps
  <2> QED
    BY <1>0, <2>1 DEF Keeps, Asset
<1>6. ASSUME NEW w \in Accounts, Complete(w) PROVE Keeps(asset[b], asset'[b])
  <2>1. PICK large \in BOOLEAN : asset' = [asset EXCEPT ![job[w].id] =
               [@ EXCEPT !.status = "succeeded", !.next = "none", !.large = large]]
    BY <1>6 DEF Complete
  <2> QED
    BY <1>0, <2>1 DEF Keeps, Asset
<1>7. ASSUME NEW w \in Accounts, Fail(w)
      PROVE  Keeps(asset[b], asset'[b]) \/ Counts(asset[b], asset'[b])
  <2> DEFINE a == job[w].id
             retry == err[w] # "final" /\ RetriesLeft(job[w].retry)
  <2>1. a \in Assets /\ Holds(w, a)
    BY <1>0, <1>7 DEF Fail, Holds, Working, Steps
  <2>2. Held(w, a) /\ asset[a] \in Asset
    BY <1>0, <2>1 DEF HeldAll
  <2>3. asset' = [asset EXCEPT ![a] = Failed(a, asset[a], retry)] /\ retry \in BOOLEAN
    BY <1>7 DEF Fail
  <2>4. retry => asset[a].retry + 1 < Limit
    BY <2>2 DEF Held, RetriesLeft
  <2> HIDE DEF retry, a
  <2>5. /\ Failed(a, asset[a], retry).retry = asset[a].retry + 1
        /\ ~retry => Failed(a, asset[a], retry).status = "failed"
    BY <2>2 DEF Failed, Asset
  <2> QED
    BY <1>0, <2>1, <2>2, <2>3, <2>4, <2>5 DEF Keeps, Counts, Held
<1>8. ASSUME NEW a \in Assets, RequestDownload(a)
      PROVE  Keeps(asset[b], asset'[b]) \/ asset'[b].retry = 0
  BY <1>0, <1>8 DEF RequestDownload, Keeps, Asset
<1>9. ASSUME NEW a \in Assets, Elapse(a) PROVE Keeps(asset[b], asset'[b])
  BY <1>0, <1>9 DEF Elapse, Keeps, Asset
<1>10. ASSUME NEW u \in Users, ApplyAutoDownloadPolicy(u) PROVE Keeps(asset[b], asset'[b])
  BY <1>0, <1>10 DEF ApplyAutoDownloadPolicy, Keeps, Asset
<1> QED
  BY <1>1, <1>2, <1>3, <1>4, <1>5, <1>6, <1>7, <1>8, <1>9, <1>10
     DEF Next, Worker, Download, StoreError, StopWorker, SetCollectorAccount, SeeMessage,
         ApplyError, SaveSettings, Restart

\* As long as no chat has changed its collecting account, no asset fails more
\* often than the limit, whatever fails, restarts and is asked for again.
THEOREM AttemptsBounded == Spec => []RetriesBounded
<1>1. Init => BoundInv
  BY LimitType DEF Init, BoundInv, NoAsset
<1>2. TypeOK /\ OwnInv /\ BoundInv /\ [Next]_vars => BoundInv'
  <2> SUFFICES ASSUME TypeOK, OwnInv, BoundInv, [Next]_vars, used'.switches = 0, NEW b \in Assets
               PROVE  /\ asset'[b].retry <= Limit
                      /\ asset'[b].status \notin {"failed", "succeeded"} => asset'[b].retry < Limit
    BY DEF BoundInv
  <2>1. used.switches = 0 /\ Collected /\ HeldAll
    BY SwitchesGrow DEF OwnInv
  <2>2. CASE Next
    BY <2>1, <2>2, BoundMoves, BoundRecord
  <2>3. CASE UNCHANGED vars
    BY <2>1, <2>3, BoundRecord DEF vars, Keeps
  <2> QED
    BY <2>2, <2>3
<1>3. BoundInv => RetriesBounded
  BY DEF BoundInv, RetriesBounded
<1> QED
  BY <1>1, <1>2, <1>3, Types, Own, PTL DEF Spec
-----------------------------------------------------------------------------
(* The policy, with one settings request at a time.  The invariant adds     *)
(* that the request under way still speaks of the policy that is stored.    *)

\* An asset the policy does not contradict.
Agrees(a, r) == a \in Messages /\ ~r.force => r.status # IF policy THEN "manual" ELSE "pending"

Settled == ~lost /\ \A u \in Users : saving[u] = "none"

PolicyInv ==
  /\ \A u \in Users : saving[u] # "none" => saving[u] = IF policy THEN "on" ELSE "off"
  /\ Settled => \A a \in Assets : Agrees(a, asset[a])

\* The statements that read the policy never contradict it.
LEMMA AgreeingRecords ==
  ASSUME TypeOK, NEW a \in Assets, NEW r \in Asset, Agrees(a, r)
  PROVE  /\ \A w \in Accounts, large \in BOOLEAN : Agrees(a, Refreshed(r, w, large))
         /\ \A retry \in BOOLEAN : Agrees(a, Failed(a, r, retry))
         /\ Agrees(a, [r EXCEPT !.status = IF Parked(a, r) THEN "manual" ELSE "pending"])
<1>0. policy \in BOOLEAN
  BY DEF TypeOK
<1>1. ASSUME NEW w \in Accounts, NEW large \in BOOLEAN PROVE Agrees(a, Refreshed(r, w, large))
  <2>1. /\ Refreshed(r, w, large).force = r.force
        /\ \/ Refreshed(r, w, large).status = r.status
           \/ Refreshed(r, w, large).status = Fresh(large /\ ~r.force)
    BY DEF Refreshed, Asset
  <2>2. Fresh(large /\ ~r.force) # IF policy THEN "manual" ELSE "pending"
    BY <1>0 DEF Fresh
  <2> QED
    BY <2>1, <2>2 DEF Agrees
<1>2. ASSUME NEW retry \in BOOLEAN PROVE Agrees(a, Failed(a, r, retry))
  <2>1. /\ Failed(a, r, retry).force = r.force
        /\ Failed(a, r, retry).status =
             IF ~retry THEN "failed" ELSE IF Parked(a, r) THEN "manual" ELSE "pending"
    BY DEF Failed, Asset
  <2> QED
    BY <1>0, <2>1 DEF Agrees, Parked, Automatic
<1>3. Agrees(a, [r EXCEPT !.status = IF Parked(a, r) THEN "manual" ELSE "pending"])
  <2> DEFINE s == IF Parked(a, r) THEN "manual" ELSE "pending"
  <2>1. a \in Messages /\ ~r.force => s # IF policy THEN "manual" ELSE "pending"
    BY <1>0 DEF Parked, Automatic
  <2> SUFFICES Agrees(a, [r EXCEPT !.status = s])
    OBVIOUS
  <2> HIDE DEF s
  <2>2. [r EXCEPT !.status = s].status = s /\ [r EXCEPT !.status = s].force = r.force
    BY DEF Asset
  <2> QED
    BY <2>1, <2>2 DEF Agrees
<1> QED
  BY <1>1, <1>2, <1>3

\* A step that leaves the settings alone keeps an asset in agreement.
LEMMA AgreeingStep ==
  ASSUME TypeOK, UNCHANGED <<policy, saving>>, NEW b \in Assets, Agrees(b, asset[b]), Next
  PROVE  Agrees(b, asset'[b])
<1>0. /\ asset \in [Assets -> Asset] /\ asset[b] \in Asset /\ policy \in BOOLEAN
      /\ \A w \in Accounts : pc[w] \in Working => job[w].id \in Assets
  BY DEF TypeOK
<1>1. CASE asset'[b].status = asset[b].status /\ asset'[b].force = asset[b].force
  BY <1>1 DEF Agrees
<1>2. ASSUME NEW w \in Accounts, NEW a \in Assets, UpsertMessage(w, a) \/ UpsertAvatar(w, a)
      PROVE  Agrees(b, asset'[b])
  <2>1. CASE UpsertMessage(w, a)
    <3>1. PICK large \in BOOLEAN : asset' = [asset EXCEPT ![a] = Refreshed(asset[a], w, large)]
      BY <2>1 DEF UpsertMessage
    <3>2. b # a => asset'[b] = asset[b]
      BY <1>0, <3>1
    <3>3. b = a => asset'[b] = Refreshed(asset[b], w, large)
      BY <1>0, <3>1
    <3> QED
      BY <1>0, <1>1, <3>2, <3>3, AgreeingRecords
  <2>2. CASE UpsertAvatar(w, a)
    BY <1>0, <2>2 DEF UpsertAvatar, Agrees, Messages
  <2> QED
    BY <1>2, <2>1, <2>2
<1>3. ASSUME NEW w \in Accounts, RecoverInterrupted(w) PROVE Agrees(b, asset'[b])
  BY <1>0, <1>3, AgreeingRecords DEF RecoverInterrupted
<1>4. ASSUME NEW w \in Accounts, ClaimNext(w) PROVE Agrees(b, asset'[b])
  BY <1>0, <1>4 DEF ClaimNext, Agrees, Asset
<1>5. ASSUME NEW w \in Accounts, Refresh(w) PROVE Agrees(b, asset'[b])
  <2>1. \/ UNCHANGED asset
        \/ \E a \in Assets, large \in BOOLEAN : asset' = [asset EXCEPT ![a].large = large]
    BY <1>0, <1>5 DEF Refresh, Working, Steps
  <2> QED
    BY <1>0, <1>1, <2>1 DEF Asset
<1>6. ASSUME NEW w \in Accounts, Complete(w) PROVE Agrees(b, asset'[b])
  <2>1. PICK large \in BOOLEAN : asset' = [asset EXCEPT ![job[w].id] =
               [@ EXCEPT !.status = "succeeded", !.next = "none", !.large = large]]
    BY <1>6 DEF Complete
  <2> QED
    BY <1>0, <2>1 DEF Agrees, Asset
<1>7. ASSUME NEW w \in Accounts, Fail(w) PROVE Agrees(b, asset'[b])
  <2>1. \/ asset'[b] = asset[b]
        \/ \E retry \in BOOLEAN : asset'[b] = Failed(b, asset[b], retry)
    BY <1>0, <1>7 DEF Fail
  <2> QED
    BY <1>0, <1>1, <2>1, AgreeingRecords
<1>8. ASSUME NEW a \in Assets, RequestDownload(a) \/ Elapse(a) PROVE Agrees(b, asset'[b])
  <2>1. CASE RequestDownload(a)
    BY <1>0, <2>1 DEF RequestDownload, Agrees, Asset
  <2>2. CASE Elapse(a)
    BY <1>0, <1>1, <2>2 DEF Elapse, Asset
  <2> QED
    BY <1>8, <2>1, <2>2
<1>9. ASSUME NEW u \in Users, ApplyAutoDownloadPolicy(u) PROVE Agrees(b, asset'[b])
  BY <1>0, <1>1, <1>9 DEF ApplyAutoDownloadPolicy, TypeOK
<1> QED
  BY <1>1, <1>2, <1>3, <1>4, <1>5, <1>6, <1>7, <1>8, <1>9
     DEF Next, Worker, Download, StoreError, StopWorker, SetCollectorAccount, SeeMessage,
         ApplyError, SaveSettings, Restart

\* With one settings request at a time, once every saved setting has been applied
\* no attachment waits against the policy and none is parked although downloads
\* are on: what the worker, the listeners and the recoveries wrote meanwhile, they
\* wrote by the policy stored at that moment.
THEOREM PolicySettles ==
  ASSUME \A u, v \in Users : u = v
  PROVE  Spec => []PolicySettled
<1>1. Init => PolicyInv
  BY DEF Init, PolicyInv, Agrees, NoAsset
<1>2. TypeOK /\ PolicyInv /\ [Next]_vars => PolicyInv'
  <2> SUFFICES ASSUME TypeOK, PolicyInv, [Next]_vars PROVE PolicyInv'
    OBVIOUS
  <2>0. /\ saving \in [Users -> {"none", "on", "off"}] /\ policy \in BOOLEAN /\ lost \in BOOLEAN
        /\ asset \in [Assets -> Asset]
    BY DEF TypeOK
  <2>1. CASE UNCHANGED <<policy, saving, lost>>
    <3>1. ASSUME NEW b \in Assets, Agrees(b, asset[b]) PROVE Agrees(b, asset[b])'
      <4>1. CASE Next
        BY <2>1, <3>1, <4>1, AgreeingStep DEF Agrees
      <4>2. CASE UNCHANGED vars
        BY <3>1, <4>2 DEF vars, Agrees
      <4> QED
        BY <4>1, <4>2
    <3> QED
      BY <2>1, <3>1 DEF PolicyInv, Settled
  <2>2. ASSUME NEW u \in Users, NEW on \in BOOLEAN, SaveSettings(u, on) PROVE PolicyInv'
    <3>1. saving'[u] = (IF policy' THEN "on" ELSE "off") /\ policy' \in BOOLEAN
      BY <2>0, <2>2 DEF SaveSettings
    <3> QED
      BY <3>1 DEF PolicyInv, Settled
  <2>3. ASSUME NEW u \in Users, ApplyAutoDownloadPolicy(u) PROVE PolicyInv'
    <3>1. /\ saving[u] = (IF policy THEN "on" ELSE "off") /\ UNCHANGED policy
          /\ saving' = [saving EXCEPT ![u] = "none"]
      BY <2>3 DEF ApplyAutoDownloadPolicy, PolicyInv
    <3>2. ASSUME NEW b \in Assets PROVE Agrees(b, asset'[b])
      <4>1. asset'[b] = IF Automatic(b, asset[b]) /\ asset[b].status = (IF policy THEN "manual" ELSE "pending")
                        THEN [asset[b] EXCEPT !.status = IF policy THEN "pending" ELSE "manual"]
                        ELSE asset[b]
        BY <2>0, <2>3, <3>1 DEF ApplyAutoDownloadPolicy
      <4> QED
        BY <2>0, <4>1 DEF Agrees, Automatic, Asset
    <3> QED
      BY <2>0, <3>1, <3>2 DEF PolicyInv, Agrees
  <2>4. ASSUME NEW u \in Users, ApplyError(u) PROVE PolicyInv'
    BY <2>0, <2>4 DEF ApplyError, PolicyInv, Settled
  <2>5. CASE Restart
    BY <2>0, <2>5 DEF Restart, PolicyInv, Settled, Agrees
  <2> QED
    BY <2>1, <2>2, <2>3, <2>4, <2>5
       DEF Next, vars, Worker, RecoverInterrupted, ClaimNext, Download, Refresh, Complete, Fail,
           StoreError, StopWorker, SeeMessage, UpsertMessage, UpsertAvatar, RequestDownload, Elapse,
           SetCollectorAccount
<1>3. PolicyInv => PolicySettled
  BY DEF PolicyInv, PolicySettled, Settled, Agrees, Messages
<1> QED
  BY <1>1, <1>2, <1>3, Types, PTL DEF Spec
=============================================================================
