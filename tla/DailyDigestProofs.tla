-------------------------- MODULE DailyDigestProofs -------------------------
(* Theorems about DailyDigest, for every set of dates and users and every    *)
(* limit and bound.                                                          *)
EXTENDS DailyDigest, FiniteSetTheorems, TLAPS

LEMMA ProcFacts ==
  /\ Sched \in Procs /\ Sched[1] = "sched"
  /\ \A d \in Dates : /\ Maint(d) \in Procs /\ Maint(d)[1] = "maint"
                      /\ Gen(d) \in Procs /\ Gen(d)[1] = "gen"
                      /\ \A e \in Dates : (Maint(d) = Maint(e) => d = e) /\ (Gen(d) = Gen(e) => d = e)
  /\ \A u \in Users : User(u) \in Procs /\ User(u)[1] = "user"
  /\ \A p \in Procs : p[1] = "gen" => \E d \in Dates : p = Gen(d)
  BY DEF Procs, Sched, Maint, Gen, User

LEMMA ItemFacts == NoItem \in Item /\ \A r \in Row : ItemOf(r) \in Item
  BY DEF NoItem, Item, ItemOf, Row

\* Where a flow goes at the end of a piece of work.
Ends == {"end", "recStarted", "recCheck", "recFailed", "idle"}

LEMMA EndFacts ==
  ASSUME NEW p
  PROVE  /\ AfterOk(p) \in Ends /\ AfterError(p) \in Ends
         /\ p[1] # "gen" => AfterOk(p) # "end" /\ AfterError(p) # "end"
         /\ p[1] = "gen" => AfterOk(p) = "end" /\ AfterError(p) = "end"
  BY DEF AfterOk, AfterError, Ends
-----------------------------------------------------------------------------
(* Types.  FlowTypes is the part of the type invariant about the variables a  *)
(* moving flow changes, StoreTypes the part about all the others.             *)

FlowTypes ==
  /\ pc \in [Procs -> Steps] /\ flow \in [Procs -> Flows] /\ item \in [Procs -> Item]
  /\ on \in [Procs -> Dates] /\ \A d \in Dates : on[Maint(d)] = d /\ on[Gen(d)] = d

Keys   == {"rerun", "generation", "delivery"} \X Dates
Queues == [Dates -> [status : {"none", "queued", "succeeded", "failed"}, started : BOOLEAN]]

StoreTypes ==
  /\ row \in [Dates -> Row] /\ busy \subseteq Keys
  /\ mjob \in [Dates -> {"none", "recover", "retry"}] /\ mphase \in {"history", "recovery"}
  /\ queue \in Queues
  /\ day \in 0..MaxDay
  /\ used \in [requests : Nat, faults : Nat, restarts : Nat]

LEMMA TypeParts ==
  /\ TypeOK <=> FlowTypes /\ StoreTypes
  /\ TypeOK' <=> FlowTypes' /\ StoreTypes'
  BY DEF TypeOK, FlowTypes, StoreTypes, Keys, Queues

LEMMA InitTypes == Init => TypeOK
<1> SUFFICES ASSUME Init PROVE TypeOK
  OBVIOUS
<1>1. FlowTypes
  BY ItemFacts DEF Init, FlowTypes, Steps, Flows
<1>2. StoreTypes
  BY DigestAssumption DEF Init, StoreTypes, NoRow, Row, Status, Timers, None, Queues
<1> QED
  BY <1>1, <1>2, TypeParts

LEMMA StayTypes ==
  ASSUME FlowTypes, UNCHANGED flowVars
  PROVE  FlowTypes'
  BY DEF FlowTypes, flowVars

LEMMA MoveOnTypes ==
  ASSUME FlowTypes, NEW p \in Procs, NEW step \in Steps, MoveOn(p, step) \/ OnlyStep(p, step)
  PROVE  FlowTypes'
  BY ItemFacts DEF FlowTypes, MoveOn, OnlyStep, Leave, Goto, Steps, Flows

LEMMA TakeTypes ==
  ASSUME FlowTypes, NEW p \in Procs, NEW f \in Flows, NEW step \in Steps, NEW it \in Item, Take(p, f, step, it)
  PROVE  FlowTypes'
  BY DEF FlowTypes, Take, Goto

LEMMA LeaveTypes ==
  ASSUME FlowTypes, NEW p \in Procs, Leave(p)
  PROVE  FlowTypes'
  BY MoveOnTypes DEF MoveOn, Steps

LEMMA ContinueTypes ==
  ASSUME FlowTypes, NEW p \in Procs, NEW r \in Row, Continue(p, r)
  PROVE  FlowTypes'
  BY TakeTypes, LeaveTypes, ItemFacts DEF Continue, Flows, Steps

LEMMA EndSteps == Ends \subseteq Steps
  BY DEF Ends, Steps, GenSteps

\* The updates of one row the database calls are made of.
LEMMA RowUpdates ==
  ASSUME NEW r \in Row
  PROVE  /\ NoRow \in Row /\ [NoRow EXCEPT !.status = "pending"] \in Row
         /\ \A f : Running(r, f) \in Row
         /\ \A it \in Item : Generated(r, it) \subseteq Row
         /\ [r EXCEPT !.status = "failed", !.next = None] \in Row
         /\ \A a, b \in BOOLEAN : [r EXCEPT !.delivered = a, !.derror = b] \in Row
         /\ [r EXCEPT !.next = "due"] \in Row
         /\ Recovered(r) \in Row
<1> USE DEF Row, NoRow, None, Timers, Status
<1>1. ASSUME NEW f PROVE Running(r, f) \in Row
  <2>1. [NoRow EXCEPT !.status = "running"] \in Row
    OBVIOUS
  <2>2. ASSUME NEW n \in Nat PROVE [r EXCEPT !.status = "running", !.retry = n, !.next = None] \in Row
    OBVIOUS
  <2>3. r.retry + 1 \in Nat
    OBVIOUS
  <2> QED
    BY <2>1, <2>2, <2>3, ZenonT(30) DEF Running
<1>2. ASSUME NEW it \in Item PROVE Generated(r, it) \subseteq Row
  <2>1. NextTry(it.retry) \in Timers
    BY DEF NextTry
  <2>2. ASSUME NEW b \in BOOLEAN PROVE [[r EXCEPT !.status = "succeeded", !.next = None] EXCEPT !.skipped = b] \in Row
    OBVIOUS
  <2>3. ASSUME NEW t \in Timers PROVE [[r EXCEPT !.status = "failed", !.skipped = FALSE] EXCEPT !.next = t] \in Row
    OBVIOUS
  <2> HIDE DEF Row, None, Timers, Status
  <2>4. Generated(r, it) =
          {[[r EXCEPT !.status = "succeeded", !.next = None] EXCEPT !.skipped = FALSE],
           [[r EXCEPT !.status = "succeeded", !.next = None] EXCEPT !.skipped = TRUE],
           [[r EXCEPT !.status = "failed", !.skipped = FALSE] EXCEPT !.next = NextTry(it.retry)],
           [[r EXCEPT !.status = "failed", !.skipped = FALSE] EXCEPT !.next = None]}
    BY DEF Generated
  <2>5. None \in Timers
    BY DEF None, Timers
  <2> QED
    BY <2>1, <2>2, <2>3, <2>4, <2>5
<1>3. ASSUME NEW a \in BOOLEAN, NEW b \in BOOLEAN PROVE [r EXCEPT !.delivered = a, !.derror = b] \in Row
  OBVIOUS
<1>4. Recovered(r) \in Row
  BY DEF Recovered
<1> QED
  BY <1>1, <1>2, <1>3, <1>4, ZenonT(30)

LEMMA WriteTypes ==
  ASSUME row \in [Dates -> Row], NEW d \in Dates, NEW r \in Row, WriteRow(d, r)
  PROVE  row' \in [Dates -> Row]
  BY DEF WriteRow

LEMMA QueueTypes ==
  ASSUME queue \in Queues, NEW d \in Dates
  PROVE  /\ \A s \in {"succeeded", "failed"} : FinishItem(d, s) => queue' \in Queues
         /\ queue' = [queue EXCEPT ![d].started = TRUE] => queue' \in Queues
  BY DEF Queues, FinishItem

LEMMA FailTypes ==
  ASSUME StoreTypes, MayFail
  PROVE  used' \in [requests : Nat, faults : Nat, restarts : Nat]
  BY DEF MayFail, StoreTypes

\* Every action keeps the types; one lemma for each group of actions.
LEMMA SchedTypes ==
  ASSUME TypeOK, SchedTick \/ SchedRead \/ Create
  PROVE  TypeOK'
<1> FlowTypes /\ StoreTypes
  BY TypeParts
<1> on[Sched] \in Dates /\ row[on[Sched]] \in Row
  BY ProcFacts DEF FlowTypes, StoreTypes
<1>1. CASE SchedTick
  <2>1. FlowTypes'
    BY <1>1, ProcFacts DEF SchedTick, Goto, FlowTypes, Steps
  <2> QED
    BY <1>1, <2>1, TypeParts DEF SchedTick, StoreTypes, maintVars
<1>2. CASE SchedRead
  <2>1. FlowTypes'
    BY <1>2, MoveOnTypes, ContinueTypes, ProcFacts DEF SchedRead, Steps, RerunSteps
  <2> QED
    BY <1>2, <2>1, TypeParts DEF SchedRead, StoreTypes, maintVars
<1>3. CASE Create
  <2>1. FlowTypes'
    BY <1>3, TakeTypes, ItemFacts, ProcFacts DEF Create, Steps, Flows
  <2>2. row' \in [Dates -> Row]
    BY <1>3, RowUpdates, WriteTypes DEF Create, StoreTypes
  <2> QED
    BY <1>3, <2>1, <2>2, TypeParts DEF Create, StoreTypes, maintVars
<1> QED
  BY <1>1, <1>2, <1>3

LEMMA StepTypes ==
  ASSUME TypeOK, NEW p \in Procs, Step(p)
  PROVE  TypeOK'
<1> FlowTypes /\ StoreTypes
  BY TypeParts
<1> on[p] \in Dates /\ row[on[p]] \in Row /\ Gen(on[p]) \in Procs
  BY ProcFacts DEF FlowTypes, StoreTypes
<1> USE EndFacts, EndSteps
<1>1. CASE Rerun(p) \/ Collect(p) \/ Start(p) \/ Deliver(p) \/ Send(p)
  <2>1. PICK step \in Steps : MoveOn(p, step) \/ OnlyStep(p, step)
    <3> USE DEF Steps, RerunSteps, DeliverySteps
    <3>1. CASE Rerun(p) \/ Collect(p)
      BY <3>1 DEF Rerun, Collect
    <3>2. CASE Start(p) \/ Deliver(p) \/ Send(p)
      BY <3>2 DEF Start, Deliver, Send
    <3> QED
      BY <1>1, <3>1, <3>2
  <2>2. busy' \subseteq Keys
    BY <1>1 DEF Rerun, Collect, Start, Deliver, Send, StoreTypes, Keys
  <2> QED
    BY <1>1, <2>1, <2>2, MoveOnTypes, TypeParts DEF Rerun, Collect, Start, Deliver, Send, StoreTypes, maintVars
<1>2. CASE Prepare(p)
  <2>1. FlowTypes'
    BY <1>2 DEF Prepare, Goto, FlowTypes, Steps
  <2>2. row' \in [Dates -> Row]
    BY <1>2, RowUpdates, WriteTypes DEF Prepare, Prepared, StoreTypes
  <2> QED
    BY <1>2, <2>1, <2>2, TypeParts DEF Prepare, StoreTypes, maintVars
<1>3. CASE SetRunning(p)
  <2>1. FlowTypes'
    BY <1>3 DEF SetRunning, FlowTypes, Steps, GenSteps, Flows
  <2>2. row' \in [Dates -> Row]
    BY <1>3, RowUpdates, WriteTypes DEF SetRunning, StoreTypes
  <2> QED
    BY <1>3, <2>1, <2>2, TypeParts DEF SetRunning, StoreTypes, maintVars
<1>4. CASE Record(p)
  <2>1. FlowTypes'
    BY <1>4, MoveOnTypes DEF Record
  <2>2. row' \in [Dates -> Row]
    BY <1>4, RowUpdates, WriteTypes DEF Record, StoreTypes
  <2> QED
    BY <1>4, <2>1, <2>2, TypeParts DEF Record, StoreTypes, maintVars
<1> QED
  BY <1>1, <1>2, <1>3, <1>4 DEF Step

LEMMA GenerationTypes ==
  ASSUME TypeOK, NEW d \in Dates, Generation(d) \/ GenError(d)
  PROVE  TypeOK'
<1> FlowTypes /\ StoreTypes
  BY TypeParts
<1> Gen(d) \in Procs /\ row[d] \in Row /\ item[Gen(d)] \in Item
  BY ProcFacts DEF FlowTypes, StoreTypes
<1>1. CASE Load(d)
  <2>1. FlowTypes'
    BY <1>1, ItemFacts DEF Load, Goto, FlowTypes, Steps, GenSteps
  <2> QED
    BY <1>1, <2>1, TypeParts DEF Load, StoreTypes, maintVars
<1>2. CASE SaveResult(d)
  <2>1. FlowTypes'
    BY <1>2 DEF SaveResult, Goto, FlowTypes, Steps, GenSteps
  <2>2. row' \in [Dates -> Row]
    BY <1>2, RowUpdates, WriteTypes DEF SaveResult, StoreTypes
  <2> QED
    BY <1>2, <2>1, <2>2, TypeParts DEF SaveResult, StoreTypes, maintVars
<1>3. CASE FailUnexpected(d)
  <2>1. FlowTypes'
    BY <1>3, MoveOnTypes DEF FailUnexpected, Steps, GenSteps
  <2>2. row' \in [Dates -> Row]
    BY <1>3, RowUpdates, WriteTypes DEF FailUnexpected, StoreTypes
  <2> QED
    BY <1>3, <2>1, <2>2, TypeParts DEF FailUnexpected, StoreTypes, maintVars
<1>4. CASE End(d)
  BY <1>4, LeaveTypes, TypeParts DEF End, StoreTypes, maintVars
<1>5. CASE GenError(d)
  <2>1. FlowTypes'
    BY <1>5, MoveOnTypes DEF GenError, Steps, GenSteps
  <2> QED
    BY <1>5, <2>1, FailTypes, TypeParts DEF GenError, StoreTypes, maintVars
<1> QED
  BY <1>1, <1>2, <1>3, <1>4, <1>5 DEF Generation

LEMMA ErrorTypes ==
  ASSUME TypeOK, NEW p \in Procs, CallerError(p) \/ DeliveryError(p)
  PROVE  TypeOK'
<1> FlowTypes /\ StoreTypes
  BY TypeParts
<1>1. FlowTypes'
  BY MoveOnTypes, EndFacts, EndSteps DEF CallerError, DeliveryError
<1>2. busy' \subseteq Keys /\ used' \in [requests : Nat, faults : Nat, restarts : Nat]
  BY FailTypes DEF CallerError, DeliveryError, StoreTypes
<1> QED
  BY <1>1, <1>2, TypeParts DEF CallerError, DeliveryError, StoreTypes, maintVars

LEMMA MaintTypes ==
  ASSUME TypeOK,
         \/ MaintRecovery \/ MaintHistory
         \/ \E d \in Dates : HistoryRead(d) \/ Recovery(d) \/ MaintError(d)
  PROVE  TypeOK'
<1> FlowTypes /\ StoreTypes /\ queue \in Queues
  BY TypeParts DEF StoreTypes
<1>1. CASE MaintRecovery \/ MaintHistory
  <2>1. mjob' \in [Dates -> {"none", "recover", "retry"}] /\ mphase' \in {"history", "recovery"}
    BY <1>1 DEF MaintRecovery, MaintHistory
  <2>2. FlowTypes'
    BY <1>1, StayTypes DEF MaintRecovery, MaintHistory
  <2> QED
    BY <1>1, <2>1, <2>2, TypeParts DEF MaintRecovery, MaintHistory, StoreTypes
<1>2. ASSUME NEW d \in Dates, HistoryRead(d) \/ Recovery(d) \/ MaintError(d) PROVE TypeOK'
  <2> DEFINE p == Maint(d)
  <2> p \in Procs /\ row[d] \in Row
    BY ProcFacts DEF StoreTypes
  <2>1. CASE HistoryRead(d)
    BY <2>1, ContinueTypes, TypeParts DEF HistoryRead, StoreTypes
  <2>2. CASE RecoverRead(d)
    <3>1. FlowTypes'
      BY <2>2, TakeTypes, ContinueTypes, StayTypes, ItemFacts DEF RecoverRead, Flows, Steps
    <3>2. queue' \in Queues
      BY <2>2, QueueTypes DEF RecoverRead
    <3>3. mjob' \in [Dates -> {"none", "recover", "retry"}]
      BY <2>2 DEF RecoverRead, StoreTypes
    <3>4. UNCHANGED <<row, busy, mphase, day, used>>
      BY <2>2 DEF RecoverRead
    <3> QED
      BY <3>1, <3>2, <3>3, <3>4, TypeParts DEF StoreTypes
  <2>3. CASE Redeliver(d)
    <3>1. FlowTypes'
      BY <2>3, TakeTypes, MoveOnTypes, ItemFacts DEF Redeliver, Steps, FlowTypes
    <3> QED
      BY <2>3, <3>1, TypeParts DEF Redeliver, StoreTypes, maintVars
  <2>4. CASE RecoverStarted(d) \/ RecoverCheck(d)
    <3>1. FlowTypes' /\ queue' \in Queues
      BY <2>4, LeaveTypes, QueueTypes DEF RecoverStarted, RecoverCheck
    <3> QED
      BY <2>4, <3>1, TypeParts DEF RecoverStarted, RecoverCheck, StoreTypes, maintVars
  <2>5. CASE MaintError(d)
    <3>1. FlowTypes' /\ queue' \in Queues
      BY <2>5, LeaveTypes, StayTypes, QueueTypes DEF MaintError
    <3>2. mjob' \in [Dates -> {"none", "recover", "retry"}]
      BY <2>5 DEF MaintError, StoreTypes
    <3> QED
      BY <2>5, <3>1, <3>2, FailTypes, TypeParts DEF MaintError, StoreTypes
  <2> QED
    BY <1>2, <2>1, <2>2, <2>3, <2>4, <2>5 DEF Recovery
<1> QED
  BY <1>1, <1>2

LEMMA OtherTypes ==
  ASSUME TypeOK,
         \/ \E u \in Users, d \in Dates : UserRerun(u, d) \/ UserRetryDelivery(u, d)
         \/ \E d \in Dates : Elapse(d)
         \/ QueueFailed \/ Midnight \/ Restart \/ UNCHANGED vars
  PROVE  TypeOK'
<1> FlowTypes /\ StoreTypes
  BY TypeParts
<1>1. ASSUME NEW u \in Users, NEW d \in Dates, UserRerun(u, d) \/ UserRetryDelivery(u, d)
      PROVE  TypeOK'
  <2> User(u) \in Procs /\ row[d] \in Row /\ \A e \in Dates : User(u) # Maint(e) /\ User(u) # Gen(e)
    BY ProcFacts DEF StoreTypes, User, Maint, Gen
  <2>1. FlowTypes'
    <3>1. PICK step \in Steps, f \in Flows :
            /\ pc' = [pc EXCEPT ![User(u)] = step] /\ on' = [on EXCEPT ![User(u)] = d]
            /\ flow' = [flow EXCEPT ![User(u)] = f]
            /\ item' = item \/ item' = [item EXCEPT ![User(u)] = ItemOf(row[d])]
      BY <1>1 DEF UserRerun, UserRetryDelivery, Request, Goto, Flows, Steps
    <3> HIDE DEF User
    <3> QED
      BY <3>1, ItemFacts DEF FlowTypes
  <2>2. used' \in [requests : Nat, faults : Nat, restarts : Nat]
    BY <1>1 DEF UserRerun, UserRetryDelivery, Request, StoreTypes
  <2> QED
    BY <1>1, <2>1, <2>2, TypeParts DEF UserRerun, UserRetryDelivery, StoreTypes, maintVars
<1>2. ASSUME NEW d \in Dates, Elapse(d) PROVE TypeOK'
  <2>1. row' \in [Dates -> Row]
    BY <1>2, RowUpdates, WriteTypes DEF Elapse, StoreTypes
  <2> QED
    BY <1>2, <2>1, StayTypes, TypeParts DEF Elapse, StoreTypes, maintVars
<1>3. CASE QueueFailed
  <2>1. queue' \in Queues /\ used' \in [requests : Nat, faults : Nat, restarts : Nat]
    BY <1>3 DEF QueueFailed, StoreTypes, Queues
  <2> QED
    BY <1>3, <2>1, StayTypes, TypeParts DEF QueueFailed, StoreTypes, maintVars
<1>4. CASE Midnight
  BY <1>4, StayTypes, TypeParts, DigestAssumption DEF Midnight, StoreTypes, maintVars
<1>5. CASE Restart
  <2>1. row' \in [Dates -> Row]
    BY <1>5, RowUpdates DEF Restart, StoreTypes
  <2>2. FlowTypes'
    BY <1>5, ItemFacts DEF Restart, FlowTypes, Steps, Flows
  <2>3. /\ mjob' \in [Dates -> {"none", "recover", "retry"}]
        /\ used' \in [requests : Nat, faults : Nat, restarts : Nat]
    BY <1>5 DEF Restart, StoreTypes
  <2> QED
    BY <1>5, <2>1, <2>2, <2>3, TypeParts DEF Restart, StoreTypes
<1>6. CASE UNCHANGED vars
  BY <1>6, StayTypes, TypeParts DEF vars, StoreTypes, maintVars
<1> QED
  BY <1>1, <1>2, <1>3, <1>4, <1>5, <1>6

LEMMA NextTypes == TypeOK /\ [Next]_vars => TypeOK'
  BY SchedTypes, StepTypes, GenerationTypes, ErrorTypes, MaintTypes, OtherTypes DEF Next

\* Every variable of the digests has its type, for any number of dates and requests.
THEOREM Types == Spec => []TypeOK
  BY InitTypes, NextTypes, PTL DEF Spec

-----------------------------------------------------------------------------
(* The keys of the in-memory set.                                             *)

Kinds  == {"rerun", "generation", "delivery"}
GenPcs == {"idle"} \cup GenSteps \cup {"deliver"} \cup DeliverySteps

\* What the place of a flow says about its purpose: the goroutine of a generation
\* has none, and only what "rerun" protects is done by a rerun.
FlowFact(p) ==
  /\ p[1] = "gen" => flow[p] = "none" /\ pc[p] \in GenPcs
  /\ p[1] # "gen" => pc[p] \notin GenSteps
  /\ pc[p] \in {"rerun", "prepare"} => flow[p] \in Reruns
  /\ pc[p] \in {"idle", "read", "create", "redeliver"} => flow[p] \notin Reruns
FlowFacts == \A p \in Procs : FlowFact(p)

\* KeysExact without cardinalities.
KeyInv ==
  \A kind \in Kinds, d \in Dates :
    /\ \A p, q \in Procs : on[p] = d /\ on[q] = d /\ Inside(kind, p) /\ Inside(kind, q) => p = q
    /\ <<kind, d>> \in busy <=> \E p \in Procs : on[p] = d /\ Inside(kind, p)

\* What a step of p does to the key of one kind: nothing, take it, give it back.
Keeps(kind, p) ==
  /\ Inside(kind, p)' <=> Inside(kind, p)
  /\ \A d \in Dates : <<kind, d>> \in busy' <=> <<kind, d>> \in busy
Takes(kind, p) ==
  /\ ~Inside(kind, p) /\ Inside(kind, p)' /\ <<kind, on[p]>> \notin busy
  /\ \A d \in Dates : <<kind, d>> \in busy' <=> <<kind, d>> \in busy \/ d = on[p]
Gives(kind, p) ==
  /\ Inside(kind, p) /\ ~Inside(kind, p)'
  /\ \A d \in Dates : <<kind, d>> \in busy' <=> <<kind, d>> \in busy /\ d # on[p]

OnlyMoves(p) ==
  UNCHANGED on /\ \A q \in Procs : q # p => pc'[q] = pc[q] /\ flow'[q] = flow[q]

LEMMA OneKind ==
  ASSUME FlowTypes, KeyInv, NEW p \in Procs, OnlyMoves(p), NEW kind \in Kinds,
         Keeps(kind, p) \/ Takes(kind, p) \/ Gives(kind, p)
  PROVE  \A d \in Dates :
           /\ \A r, q \in Procs : on'[r] = d /\ on'[q] = d /\ Inside(kind, r)' /\ Inside(kind, q)' => r = q
           /\ <<kind, d>> \in busy' <=> \E q \in Procs : on'[q] = d /\ Inside(kind, q)'
<1>1. \A q \in Procs : q # p => (Inside(kind, q)' <=> Inside(kind, q))
  BY DEF OnlyMoves, Inside, Kinds
<1>2. UNCHANGED on
  BY DEF OnlyMoves
<1> QED
  BY <1>1, <1>2 DEF KeyInv, Keeps, Takes, Gives

LEMMA OneMove ==
  ASSUME FlowTypes, FlowFacts, KeyInv, NEW p \in Procs, OnlyMoves(p), FlowFact(p)',
         \A kind \in Kinds : Keeps(kind, p) \/ Takes(kind, p) \/ Gives(kind, p)
  PROVE  FlowFacts' /\ KeyInv'
<1>1. FlowFacts'
  BY DEF OnlyMoves, FlowFacts, FlowFact
<1>2. KeyInv'
  BY OneKind DEF KeyInv
<1> QED
  BY <1>1, <1>2

LEMMA MoveOnAlone ==
  ASSUME FlowTypes, NEW p \in Procs, NEW step, MoveOn(p, step)
  PROVE  OnlyMoves(p) /\ pc'[p] = step /\ flow'[p] = IF step = "idle" THEN "none" ELSE flow[p]
  BY DEF FlowTypes, OnlyMoves, MoveOn, OnlyStep, Leave, Goto

LEMMA OnlyStepAlone ==
  ASSUME FlowTypes, NEW p \in Procs, NEW step, OnlyStep(p, step)
  PROVE  OnlyMoves(p) /\ pc'[p] = step /\ flow'[p] = flow[p]
  BY DEF FlowTypes, OnlyMoves, OnlyStep, Goto

LEMMA TakeAlone ==
  ASSUME FlowTypes, NEW p \in Procs, NEW f, NEW step, NEW it, Take(p, f, step, it)
  PROVE  OnlyMoves(p) /\ pc'[p] = step /\ flow'[p] = f
  BY DEF FlowTypes, OnlyMoves, Take, Goto

LEMMA LeaveAlone ==
  ASSUME FlowTypes, NEW p \in Procs, Leave(p)
  PROVE  OnlyMoves(p) /\ pc'[p] = "idle" /\ flow'[p] = "none"
  BY DEF FlowTypes, OnlyMoves, Leave, Goto

\* The digest as it was read is generated or delivered, by a flow that holds no key.
LEMMA ContinueKeys ==
  ASSUME FlowTypes, FlowFacts, KeyInv, NEW p \in Procs, NEW r, Continue(p, r),
         p[1] # "gen", pc[p] \in {"idle", "read"}, UNCHANGED busy
  PROVE  FlowFacts' /\ KeyInv'
<1>1. /\ OnlyMoves(p)
      /\ \/ pc'[p] \in {"start", "deliver"} /\ flow'[p] \in {"first", "retry", "deliver"}
         \/ pc'[p] = "idle" /\ flow'[p] = "none"
  BY TakeAlone, LeaveAlone DEF Continue
<1>2. \A kind \in Kinds : Keeps(kind, p)
  BY <1>1 DEF Kinds, Keeps, Inside, Reruns, RerunSteps, DeliverySteps
<1>3. FlowFact(p)'
  BY <1>1 DEF FlowFact, GenSteps, Reruns
<1> QED
  BY <1>1, <1>2, <1>3, OneMove

\* A flow that is done, or has failed, is inside of nothing but its generation.
LEMMA Ending ==
  ASSUME FlowTypes, NEW p \in Procs, FlowFact(p), MoveOn(p, AfterOk(p)) \/ MoveOn(p, AfterError(p))
  PROVE  /\ OnlyMoves(p) /\ FlowFact(p)'
         /\ ~Inside("rerun", p)' /\ ~Inside("delivery", p)'
         /\ Inside("generation", p)' <=> p[1] = "gen"
<1>1. /\ OnlyMoves(p) /\ pc'[p] \in Ends
      /\ p[1] = "gen" <=> pc'[p] = "end"
      /\ flow'[p] = IF pc'[p] = "idle" THEN "none" ELSE flow[p]
  BY MoveOnAlone, EndFacts DEF Ends
<1>2. FlowFact(p)'
  BY <1>1 DEF FlowFact, Ends, GenPcs, GenSteps, Reruns
<1> QED
  BY <1>1, <1>2 DEF Inside, Ends, RerunSteps, DeliverySteps

\* Which keys a flow is inside of, by its place.
LEMMA InsideFacts ==
  ASSUME NEW p \in Procs, FlowFact(p)
  PROVE  /\ Inside("generation", p) <=> pc[p] = "running" \/ (p[1] = "gen" /\ pc[p] # "idle")
         /\ Inside("delivery", p) <=> pc[p] \in DeliverySteps
         /\ Inside("rerun", p) <=> flow[p] \in Reruns /\ pc[p] \in RerunSteps \cup {"start", "running"}
         /\ pc[p] \in RerunSteps \cup {"rerun", "start", "running", "read", "create", "redeliver"} => p[1] # "gen"
  BY DEF Inside, FlowFact, GenPcs, GenSteps, DeliverySteps, RerunSteps, Reruns

\* A caller takes one key and gives back what it has taken.
LEMMA StepKeys ==
  ASSUME TypeOK, FlowFacts, KeyInv, NEW p \in Procs,
         \/ Rerun(p) \/ Collect(p) \/ Prepare(p) \/ Start(p) \/ Deliver(p) \/ Send(p) \/ Record(p)
         \/ CallerError(p) \/ DeliveryError(p)
  PROVE  FlowFacts' /\ KeyInv'
<1> FlowTypes /\ FlowFact(p) /\ on[p] \in Dates
  BY TypeParts DEF FlowFacts, FlowTypes
<1> SUFFICES OnlyMoves(p) /\ FlowFact(p)' /\ \A kind \in Kinds : Keeps(kind, p) \/ Takes(kind, p) \/ Gives(kind, p)
  BY OneMove
<1> DEFINE Ended == MoveOn(p, AfterOk(p)) \/ MoveOn(p, AfterError(p))
<1> USE DEF Kinds, Reruns, RerunSteps, DeliverySteps
<1>1. CASE Rerun(p)
  <2>1. CASE <<"rerun", on[p]>> \in busy \/ ~Rerunnable(row[on[p]])
    BY <1>1, <2>1, Ending, InsideFacts DEF Rerun, Keeps
  <2>2. CASE ~(<<"rerun", on[p]>> \in busy \/ ~Rerunnable(row[on[p]]))
    BY <1>1, <2>2, OnlyStepAlone, InsideFacts DEF Rerun, FlowFact, Takes, Keeps, Inside, GenSteps
  <2> QED
    BY <2>1, <2>2
<1>2. CASE Collect(p)
  <2>1. CASE OnlyStep(p, IF flow[p] \in Reruns THEN "prepare" ELSE "create") /\ UNCHANGED busy
    BY <1>2, <2>1, OnlyStepAlone, InsideFacts DEF Collect, FlowFact, Keeps, Inside, GenSteps
  <2>2. CASE /\ MoveOn(p, AfterError(p))
             /\ busy' = (IF flow[p] \in Reruns THEN busy \ {<<"rerun", on[p]>>} ELSE busy)
    BY <1>2, <2>2, Ending, InsideFacts DEF Collect, Gives, Keeps
  <2> QED
    BY <1>2, <2>1, <2>2 DEF Collect
<1>3. CASE Prepare(p)
  <2>1. OnlyMoves(p) /\ pc'[p] = "start" /\ flow'[p] = flow[p] /\ UNCHANGED busy
    BY <1>3 DEF Prepare, OnlyMoves, Goto, FlowTypes
  <2> QED
    BY <1>3, <2>1, InsideFacts DEF Prepare, FlowFact, Keeps, Inside, GenSteps
<1>4. CASE Start(p)
  <2>1. CASE GenerationTaken(on[p])
    <3>1. \/ flow[p] \in Reruns /\ Gives("rerun", p)
          \/ flow[p] \notin Reruns /\ Keeps("rerun", p)
      BY <1>4, <2>1, Ending, InsideFacts DEF Start, Gives, Keeps
    <3>2. Keeps("generation", p) /\ Keeps("delivery", p)
      BY <1>4, <2>1, Ending, InsideFacts DEF Start, Keeps
    <3> QED
      BY <1>4, <2>1, <3>1, <3>2, Ending DEF Start
  <2>2. CASE ~GenerationTaken(on[p])
    BY <1>4, <2>2, OnlyStepAlone, InsideFacts DEF Start, GenerationTaken, FlowFact, Takes, Keeps, Inside, GenSteps
  <2> QED
    BY <2>1, <2>2
<1>5. CASE Deliver(p)
  <2>1. CASE <<"delivery", on[p]>> \in busy
    BY <1>5, <2>1, Ending, InsideFacts DEF Deliver, Keeps
  <2>2. CASE <<"delivery", on[p]>> \notin busy
    BY <1>5, <2>2, OnlyStepAlone, InsideFacts DEF Deliver, FlowFact, Takes, Keeps, Inside, GenSteps, GenPcs
  <2> QED
    BY <2>1, <2>2
<1>6. CASE Send(p)
  BY <1>6, OnlyStepAlone, InsideFacts DEF Send, FlowFact, Keeps, Inside, GenSteps, GenPcs
<1>7. CASE Record(p) \/ DeliveryError(p)
  <2>1. /\ Ended /\ pc[p] \in DeliverySteps /\ busy' = busy \ {<<"delivery", on[p]>>}
    BY <1>7 DEF Record, DeliveryError
  <2> QED
    BY <2>1, Ending, InsideFacts DEF Gives, Keeps
<1>8. CASE CallerError(p)
  <2>1. /\ MoveOn(p, AfterError(p)) /\ p[1] # "gen"
        /\ pc[p] \in {"read", "create", "rerun", "collect", "prepare", "running", "redeliver"}
        /\ busy' = busy \ ((IF pc[p] = "running" THEN {<<"generation", on[p]>>} ELSE {}) \cup
                           (IF flow[p] \in Reruns /\ pc[p] # "rerun" THEN {<<"rerun", on[p]>>} ELSE {}))
    BY <1>8 DEF CallerError
  <2>2. Keeps("delivery", p)
    BY <2>1, Ending, InsideFacts DEF Keeps
  <2>3. Gives("generation", p) \/ Keeps("generation", p)
    BY <2>1, Ending, InsideFacts DEF Gives, Keeps
  <2>4. Gives("rerun", p) \/ Keeps("rerun", p)
    BY <2>1, Ending, InsideFacts DEF Gives, Keeps, FlowFact
  <2> QED
    BY <2>1, <2>2, <2>3, <2>4, Ending
<1> QED
  BY <1>1, <1>2, <1>3, <1>4, <1>5, <1>6, <1>7, <1>8

\* The goroutine of a generation is inside what its caller has entered.
LEMMA HandOver ==
  ASSUME TypeOK, FlowFacts, KeyInv, NEW p \in Procs, SetRunning(p)
  PROVE  FlowFacts' /\ KeyInv'
<1> DEFINE d == on[p]
           g == Gen(d)
<1> FlowTypes /\ FlowFact(p) /\ FlowFact(g) /\ d \in Dates /\ g \in Procs /\ on[g] = d /\ g[1] = "gen"
  BY TypeParts, ProcFacts DEF FlowFacts, FlowTypes
<1> USE DEF Kinds, Reruns, RerunSteps, DeliverySteps
<1>1. pc[p] = "running" /\ p[1] # "gen" /\ p # g
  BY InsideFacts DEF SetRunning
<1>2. pc[g] = "idle"
  BY <1>1, InsideFacts, ZenonT(30) DEF KeyInv
<1>3. /\ UNCHANGED on
      /\ pc'[p] = AfterOk(p) /\ pc'[g] = "load" /\ flow'[g] = flow[g]
      /\ flow'[p] = IF pc'[p] = "idle" THEN "none" ELSE flow[p]
      /\ \A q \in Procs : q # p /\ q # g => pc'[q] = pc[q] /\ flow'[q] = flow[q]
      /\ busy' = busy \ (IF flow[p] \in Reruns THEN {<<"rerun", d>>} ELSE {})
  BY <1>1 DEF SetRunning, FlowTypes
<1> pc'[p] \in {"recStarted", "recCheck", "recFailed", "idle"}
  BY <1>1, <1>3, EndFacts DEF Ends
<1>4. FlowFacts'
  <2>1. FlowFact(p)'
    BY <1>1, <1>3 DEF FlowFact, GenSteps
  <2>2. FlowFact(g)'
    BY <1>3 DEF FlowFact, GenSteps, GenPcs
  <2> QED
    BY <1>3, <2>1, <2>2 DEF FlowFacts, FlowFact
<1>5. \A kind \in Kinds, q \in Procs : q # p /\ q # g => (Inside(kind, q)' <=> Inside(kind, q))
  BY <1>3 DEF Inside
<1>6. /\ ~Inside("rerun", p)' /\ ~Inside("generation", p)' /\ ~Inside("delivery", p)'
      /\ Inside("rerun", p) <=> flow[p] \in Reruns
      /\ Inside("generation", p) /\ ~Inside("delivery", p)
      /\ ~Inside("rerun", g)' /\ Inside("generation", g)' /\ ~Inside("delivery", g)'
      /\ ~Inside("rerun", g) /\ ~Inside("generation", g) /\ ~Inside("delivery", g)
  BY <1>1, <1>2, <1>3 DEF Inside, GenSteps
<1>7. KeyInv'
  <2> SUFFICES ASSUME NEW kind \in Kinds, NEW e \in Dates
               PROVE  /\ \A r, q \in Procs : on[r] = e /\ on[q] = e /\ Inside(kind, r)' /\ Inside(kind, q)' => r = q
                      /\ <<kind, e>> \in busy' <=> \E q \in Procs : on[q] = e /\ Inside(kind, q)'
    BY <1>3 DEF KeyInv
  <2> /\ \A r, q \in Procs : on[r] = e /\ on[q] = e /\ Inside(kind, r) /\ Inside(kind, q) => r = q
      /\ <<kind, e>> \in busy <=> \E q \in Procs : on[q] = e /\ Inside(kind, q)
    BY DEF KeyInv
  <2>1. CASE kind = "rerun"
    BY <1>3, <1>5, <1>6, <2>1
  <2>2. CASE kind = "generation"
    BY <1>3, <1>5, <1>6, <2>2
  <2>3. CASE kind = "delivery"
    BY <1>3, <1>5, <1>6, <2>3
  <2> QED
    BY <2>1, <2>2, <2>3
<1> QED
  BY <1>4, <1>7

LEMMA GenerationKeys ==
  ASSUME TypeOK, FlowFacts, KeyInv, NEW d \in Dates, Generation(d) \/ GenError(d)
  PROVE  FlowFacts' /\ KeyInv'
<1> DEFINE p == Gen(d)
<1> FlowTypes /\ FlowFact(p) /\ on[p] = d /\ p \in Procs /\ p[1] = "gen"
  BY TypeParts, ProcFacts DEF FlowFacts, FlowTypes
<1> SUFFICES OnlyMoves(p) /\ FlowFact(p)' /\ \A kind \in Kinds : Keeps(kind, p) \/ Takes(kind, p) \/ Gives(kind, p)
  BY OneMove
<1> HIDE DEF p
<1> USE DEF Kinds, Reruns, RerunSteps, DeliverySteps, GenSteps
<1>1. CASE Load(d) \/ SaveResult(d) \/ FailUnexpected(d) \/ GenError(d)
  <2>1. PICK step \in {"save", "deliver", "end", "fail"} : Goto(p, step) /\ UNCHANGED <<on, flow, busy>>
    BY <1>1 DEF Load, SaveResult, FailUnexpected, GenError, OnlyStep, p
  <2>2. pc[p] \in {"load", "save", "fail"}
    BY <1>1 DEF Load, SaveResult, FailUnexpected, GenError, p
  <2>3. OnlyMoves(p) /\ pc'[p] = step /\ flow'[p] = flow[p]
    BY <2>1 DEF OnlyMoves, Goto, FlowTypes
  <2> QED
    BY <2>1, <2>2, <2>3, InsideFacts DEF FlowFact, GenPcs, Keeps, Inside
<1>2. CASE End(d)
  <2>1. pc[p] = "end" /\ Leave(p) /\ busy' = busy \ {<<"generation", d>>}
    BY <1>2 DEF End, p
  <2> QED
    BY <2>1, LeaveAlone, InsideFacts DEF FlowFact, GenPcs, Keeps, Gives, Inside
<1> QED
  BY <1>1, <1>2 DEF Generation

LEMMA SchedKeys ==
  ASSUME TypeOK, FlowFacts, KeyInv, SchedTick \/ SchedRead \/ Create
  PROVE  FlowFacts' /\ KeyInv'
<1> FlowTypes /\ Sched \in Procs /\ FlowFact(Sched) /\ Sched[1] = "sched"
  BY TypeParts, ProcFacts DEF FlowFacts
<1> USE DEF Kinds, Reruns, RerunSteps, DeliverySteps, GenSteps
<1>1. CASE SchedTick
  <2>1. /\ pc[Sched] = "idle" /\ pc'[Sched] = "read" /\ UNCHANGED <<flow, busy>>
        /\ \A q \in Procs : q # Sched => pc'[q] = pc[q] /\ on'[q] = on[q]
    BY <1>1 DEF SchedTick, Goto, FlowTypes
  <2>2. FlowFacts'
    BY <2>1 DEF FlowFacts, FlowFact
  <2>3. \A kind \in Kinds, q \in Procs : /\ Inside(kind, q)' <=> Inside(kind, q)
                                         /\ Inside(kind, q) => on'[q] = on[q]
    <3>1. \A kind \in Kinds : ~Inside(kind, Sched) /\ ~Inside(kind, Sched)'
      BY <2>1 DEF Inside
    <3>2. ASSUME NEW q \in Procs \ {Sched}, NEW kind \in Kinds
          PROVE  /\ Inside(kind, q)' <=> Inside(kind, q)
                 /\ Inside(kind, q) => on'[q] = on[q]
      <4>1. pc'[q] = pc[q] /\ on'[q] = on[q] /\ flow'[q] = flow[q]
        BY <2>1
      <4> QED
        BY <4>1 DEF Inside
    <3> QED
      BY <3>1, <3>2
  <2> QED
    BY <2>1, <2>2, <2>3 DEF KeyInv
<1>2. CASE SchedRead
  <2>1. CASE row[on[Sched]].status = "absent"
    <3>1. /\ OnlyMoves(Sched) /\ pc[Sched] = "read" /\ pc'[Sched] = "collect" /\ flow'[Sched] = flow[Sched]
          /\ UNCHANGED busy
      BY <1>2, <2>1, OnlyStepAlone DEF SchedRead
    <3>2. FlowFact(Sched)' /\ \A kind \in Kinds : Keeps(kind, Sched)
      BY <3>1 DEF FlowFact, Keeps, Inside
    <3> QED
      BY <3>1, <3>2, OneMove
  <2> QED
    BY <1>2, <2>1, ContinueKeys DEF SchedRead
<1>3. CASE Create
  <2>1. OnlyMoves(Sched) /\ pc[Sched] = "create" /\ pc'[Sched] = "start" /\ flow'[Sched] = "first" /\ UNCHANGED busy
    BY <1>3, TakeAlone DEF Create
  <2>2. FlowFact(Sched)' /\ \A kind \in Kinds : Keeps(kind, Sched)
    BY <2>1 DEF FlowFact, Keeps, Inside
  <2> QED
    BY <2>1, <2>2, OneMove
<1> QED
  BY <1>1, <1>2, <1>3

LEMMA StayKeys ==
  ASSUME FlowFacts, KeyInv, UNCHANGED <<flowVars, busy>>
  PROVE  FlowFacts' /\ KeyInv'
  BY DEF FlowFacts, FlowFact, KeyInv, Inside, Kinds, flowVars

LEMMA MaintKeys ==
  ASSUME TypeOK, FlowFacts, KeyInv, NEW d \in Dates, HistoryRead(d) \/ Recovery(d) \/ MaintError(d)
  PROVE  FlowFacts' /\ KeyInv'
<1> DEFINE p == Maint(d)
<1> FlowTypes /\ p \in Procs /\ FlowFact(p) /\ p[1] = "maint" /\ row[d] \in Row
  BY TypeParts, ProcFacts DEF FlowFacts, StoreTypes
<1> HIDE DEF p
<1>1. UNCHANGED busy
  BY DEF HistoryRead, Recovery, RecoverRead, Redeliver, RecoverStarted, RecoverCheck, MaintError
<1>2. CASE HistoryRead(d)
  BY <1>1, <1>2, ContinueKeys DEF HistoryRead, p
<1>3. CASE UNCHANGED flowVars
  BY <1>1, <1>3, StayKeys
<1> USE DEF Kinds, Reruns, RerunSteps, DeliverySteps, GenSteps
<1>4. CASE RecoverRead(d)
  <2>1. pc[p] = "idle"
    BY <1>4 DEF RecoverRead, p
  <2>2. \/ Take(p, "recDeliver", "redeliver", NoItem) \/ Take(p, "recRerun", "rerun", NoItem)
        \/ UNCHANGED flowVars \/ Continue(p, row[d])
    BY <1>4 DEF RecoverRead, p
  <2>3. ASSUME Take(p, "recDeliver", "redeliver", NoItem) \/ Take(p, "recRerun", "rerun", NoItem)
        PROVE  FlowFacts' /\ KeyInv'
    <3>1. /\ OnlyMoves(p)
          /\ \/ pc'[p] = "redeliver" /\ flow'[p] = "recDeliver"
             \/ pc'[p] = "rerun" /\ flow'[p] = "recRerun"
      BY <2>3, TakeAlone
    <3>2. FlowFact(p)' /\ \A kind \in Kinds : Keeps(kind, p)
      BY <1>1, <2>1, <3>1 DEF FlowFact, Keeps, Inside
    <3> QED
      BY <3>1, <3>2, OneMove
  <2> QED
    BY <1>1, <1>3, <2>1, <2>2, <2>3, ContinueKeys
<1>5. CASE Redeliver(d)
  <2>1. pc[p] = "redeliver"
    BY <1>5 DEF Redeliver, p
  <2>2. OnlyMoves(p) /\ pc'[p] \in {"deliver", "recFailed"} /\ flow'[p] = flow[p]
    BY <1>5, TakeAlone, OnlyStepAlone DEF Redeliver, p
  <2>3. FlowFact(p)' /\ \A kind \in Kinds : Keeps(kind, p)
    BY <1>1, <2>1, <2>2 DEF FlowFact, Keeps, Inside
  <2> QED
    BY <2>2, <2>3, OneMove
<1>6. CASE Leave(p) /\ pc[p] \in {"recStarted", "recCheck", "recFailed"}
  <2>1. FlowFact(p)' /\ \A kind \in Kinds : Keeps(kind, p)
    BY <1>1, <1>6, LeaveAlone DEF FlowFact, Keeps, Inside
  <2> QED
    BY <1>6, <2>1, LeaveAlone, OneMove
<1> QED
  BY <1>2, <1>3, <1>4, <1>5, <1>6 DEF Recovery, RecoverStarted, RecoverCheck, MaintError, p

LEMMA OtherKeys ==
  ASSUME TypeOK, FlowFacts, KeyInv,
         \/ \E u \in Users, d \in Dates : UserRerun(u, d) \/ UserRetryDelivery(u, d)
         \/ \E d \in Dates : Elapse(d)
         \/ MaintRecovery \/ MaintHistory \/ QueueFailed \/ Midnight \/ Restart \/ UNCHANGED vars
  PROVE  FlowFacts' /\ KeyInv'
<1> FlowTypes
  BY TypeParts
<1> USE DEF Kinds, Reruns, RerunSteps, DeliverySteps, GenSteps
<1>1. ASSUME NEW u \in Users, NEW d \in Dates, UserRerun(u, d) \/ UserRetryDelivery(u, d)
      PROVE  FlowFacts' /\ KeyInv'
  <2> DEFINE p == User(u)
  <2> p \in Procs /\ p[1] = "user" /\ FlowFact(p)
    BY ProcFacts DEF FlowFacts
  <2> HIDE DEF p
  <2>1. /\ pc[p] = "idle" /\ UNCHANGED busy
        /\ \/ pc'[p] = "rerun" /\ flow'[p] = "rerun"
           \/ pc'[p] = "deliver" /\ flow'[p] = "deliver"
        /\ \A q \in Procs : q # p => pc'[q] = pc[q] /\ on'[q] = on[q] /\ flow'[q] = flow[q]
    BY <1>1 DEF UserRerun, UserRetryDelivery, Request, Goto, FlowTypes, p
  <2>2. FlowFacts'
    BY <2>1 DEF FlowFacts, FlowFact
  <2>3. \A kind \in Kinds : ~Inside(kind, p) /\ ~Inside(kind, p)'
    BY <2>1 DEF Inside
  <2>4. \A kind \in Kinds, q \in Procs : q # p => (Inside(kind, q)' <=> Inside(kind, q))
    BY <2>1 DEF Inside
  <2> QED
    BY <2>1, <2>2, <2>3, <2>4 DEF KeyInv
<1>2. CASE Restart
  <2>1. FlowFacts'
    BY <1>2 DEF Restart, FlowFacts, FlowFact, GenPcs
  <2>2. busy' = {} /\ \A kind \in Kinds, q \in Procs : ~Inside(kind, q)'
    BY <1>2 DEF Restart, Inside
  <2> QED
    BY <2>1, <2>2 DEF KeyInv
<1>3. CASE \/ \E d \in Dates : Elapse(d)
           \/ MaintRecovery \/ MaintHistory \/ QueueFailed \/ Midnight \/ UNCHANGED vars
  BY <1>3, StayKeys DEF Elapse, MaintRecovery, MaintHistory, QueueFailed, Midnight, vars
<1> QED
  BY <1>1, <1>2, <1>3

LEMMA InitKeys == Init => FlowFacts /\ KeyInv
<1> SUFFICES ASSUME Init PROVE FlowFacts /\ KeyInv
  OBVIOUS
<1>1. FlowFacts
  BY DEF Init, FlowFacts, FlowFact, GenPcs, GenSteps, Reruns
<1>2. \A kind \in Kinds, q \in Procs : ~Inside(kind, q)
  BY DEF Init, Inside, Kinds, RerunSteps, DeliverySteps
<1> QED
  BY <1>1, <1>2 DEF Init, KeyInv

LEMMA NextKeys == TypeOK /\ FlowFacts /\ KeyInv /\ [Next]_vars => FlowFacts' /\ KeyInv'
  BY StepKeys, HandOver, GenerationKeys, SchedKeys, MaintKeys, OtherKeys DEF Next, Step

\* At most one flow is inside of what a key protects, and the in-memory set names
\* exactly those keys: through the generation whose key one flow takes and its
\* goroutine gives back, and through every error path and restart.
THEOREM KeysGuard == Spec => []KeysExact
<1>1. TypeOK /\ FlowFacts /\ KeyInv /\ [Next]_vars => (TypeOK /\ FlowFacts /\ KeyInv)'
  BY NextTypes, NextKeys
<1>2. KeyInv => KeysExact
  <2> SUFFICES ASSUME KeyInv, NEW kind \in Kinds, NEW d \in Dates
               PROVE  /\ Cardinality({p \in Procs : on[p] = d /\ Inside(kind, p)}) <= 1
                      /\ <<kind, d>> \in busy <=> {p \in Procs : on[p] = d /\ Inside(kind, p)} # {}
    BY DEF KeysExact, Kinds
  <2> DEFINE inside == {p \in Procs : on[p] = d /\ Inside(kind, p)}
  <2>1. inside = {} \/ \E p : inside = {p}
    <3>1. \A p, q \in inside : p = q
      BY DEF KeyInv
    <3> HIDE DEF inside
    <3> QED
      BY <3>1
  <2>2. Cardinality(inside) <= 1
    BY <2>1, FS_EmptySet, FS_Singleton
  <2>3. <<kind, d>> \in busy <=> inside # {}
    BY DEF KeyInv
  <2> QED
    BY <2>2, <2>3
<1> QED
  BY InitTypes, InitKeys, <1>1, <1>2, PTL DEF Spec

-----------------------------------------------------------------------------
(* The number of retries.  A flow owes a retry between its decision and        *)
(* SetRetryRunning; the count and the retries owed for a date stay together    *)
(* within the limit and one.                                                   *)

RetryPending(p) == flow[p] = "retry" /\ pc[p] \in {"start", "running"}
SchedOwes(d) == on[Sched] = d /\ RetryPending(Sched)
MaintOwes(d) == RetryPending(Maint(d))

\* Who retries: the scheduler and the maintenance loop.
Retriers == {Sched} \cup {Maint(d) : d \in Dates}

RetryInv ==
  /\ \A p \in Procs : flow[p] = "retry" => p \in Retriers
  /\ \A d \in Dates :
       /\ row[d].retry <= Limit + 1
       /\ SchedOwes(d) \/ MaintOwes(d) => row[d].retry <= Limit
       /\ SchedOwes(d) /\ MaintOwes(d) => row[d].retry < Limit

LEMMA RetryFacts ==
  /\ Sched \in Procs /\ \A d \in Dates : Maint(d) \in Procs /\ Maint(d) # Sched /\ Gen(d) \notin Retriers
  /\ \A d, e \in Dates : Maint(d) = Maint(e) => d = e
  /\ \A u \in Users : User(u) \notin Retriers
  BY DEF Procs, Sched, Maint, Gen, User, Retriers

LEMMA CountFacts ==
  ASSUME StoreTypes
  PROVE  \A d \in Dates : row[d].retry \in Nat
  BY DEF StoreTypes, Row

\* A step after which no more is owed than before, and no count is higher.
LEMMA NoNewDebt ==
  ASSUME StoreTypes, StoreTypes', RetryInv,
         \A p \in Procs : /\ flow'[p] = "retry" => flow[p] = "retry"
                          /\ RetryPending(p)' => RetryPending(p) /\ on'[p] = on[p],
         \A d \in Dates : row'[d].retry <= row[d].retry
  PROVE  RetryInv'
<1>1. \A d \in Dates : row[d].retry \in Nat /\ row'[d].retry \in Nat
  BY DEF StoreTypes, Row
<1>2. \A d \in Dates : (SchedOwes(d)' => SchedOwes(d)) /\ (MaintOwes(d)' => MaintOwes(d))
  BY RetryFacts DEF SchedOwes, MaintOwes
<1>3. \A p \in Procs : flow'[p] = "retry" => p \in Retriers
  BY DEF RetryInv
<1>4. ASSUME NEW d \in Dates
      PROVE  /\ row'[d].retry <= Limit + 1
             /\ SchedOwes(d)' \/ MaintOwes(d)' => row'[d].retry <= Limit
             /\ SchedOwes(d)' /\ MaintOwes(d)' => row'[d].retry < Limit
  <2>1. row[d].retry \in Nat /\ row'[d].retry \in Nat /\ row'[d].retry <= row[d].retry /\ Limit \in Nat
    BY <1>1, DigestAssumption
  <2>2. /\ row[d].retry <= Limit + 1
        /\ SchedOwes(d) \/ MaintOwes(d) => row[d].retry <= Limit
        /\ SchedOwes(d) /\ MaintOwes(d) => row[d].retry < Limit
    BY DEF RetryInv
  <2> QED
    BY <1>2, <2>1, <2>2
<1> QED
  BY <1>3, <1>4 DEF RetryInv

\* The flow of p moves as it is, or to a purpose that is no retry.
LEMMA MoveRetry ==
  ASSUME TypeOK, StoreTypes', RetryInv, NEW p \in Procs, OnlyMoves(p),
         flow'[p] # "retry" \/ flow'[p] = flow[p],
         pc'[p] = "start" => flow'[p] # "retry",
         pc'[p] = "running" => pc[p] = "start",
         \A d \in Dates : row'[d].retry <= row[d].retry
  PROVE  RetryInv'
<1>1. \A q \in Procs : /\ flow'[q] = "retry" => flow[q] = "retry"
                       /\ RetryPending(q)' => RetryPending(q) /\ on'[q] = on[q]
  BY DEF OnlyMoves, RetryPending
<1> QED
  BY <1>1, NoNewDebt, TypeParts

LEMMA SameCount ==
  ASSUME StoreTypes, UNCHANGED row
  PROVE  \A d \in Dates : row'[d].retry <= row[d].retry
  BY CountFacts

LEMMA WriteCount ==
  ASSUME StoreTypes, NEW d \in Dates, NEW r \in Row, r.retry = row[d].retry \/ r.retry = 0, WriteRow(d, r)
  PROVE  \A e \in Dates : row'[e].retry <= row[e].retry
  BY CountFacts DEF WriteRow, StoreTypes

\* ContinueExisting decides on a retry while the count is below the limit.
LEMMA ContinueRetry ==
  ASSUME TypeOK, StoreTypes', RetryInv, NEW p \in Retriers, Continue(p, row[on[p]]),
         ~RetryPending(p), UNCHANGED row
  PROVE  RetryInv'
<1> DEFINE d == on[p]
<1> StoreTypes /\ FlowTypes /\ p \in Procs /\ d \in Dates
  BY TypeParts, RetryFacts DEF FlowTypes, Retriers
<1>1. \/ Take(p, "retry", "start", NoItem) /\ row[d].retry < Limit
      \/ Take(p, "first", "start", NoItem) \/ Take(p, "deliver", "deliver", ItemOf(row[d])) \/ Leave(p)
  BY DEF Continue, RetryDue
<1>2. CASE Take(p, "first", "start", NoItem) \/ Take(p, "deliver", "deliver", ItemOf(row[d])) \/ Leave(p)
  BY <1>2, TakeAlone, LeaveAlone, SameCount, MoveRetry
<1>3. CASE Take(p, "retry", "start", NoItem) /\ row[d].retry < Limit
  <2>1. OnlyMoves(p) /\ flow'[p] = "retry"
    BY <1>3, TakeAlone
  <2>2. \A q \in Procs : flow'[q] = "retry" => q \in Retriers
    BY <2>1 DEF OnlyMoves, RetryInv
  <2>3. \A q \in Procs : q # p => (RetryPending(q)' <=> RetryPending(q)) /\ on'[q] = on[q]
    BY <2>1 DEF OnlyMoves, RetryPending
  <2>4. \A e \in Dates : e # d => (SchedOwes(e)' <=> SchedOwes(e)) /\ (MaintOwes(e)' <=> MaintOwes(e))
    BY <2>1, <2>3, RetryFacts DEF SchedOwes, MaintOwes, OnlyMoves, FlowTypes
  <2>5. \A e \in Dates : row[e].retry \in Nat
    BY CountFacts
  <2> QED
    BY <1>3, <2>2, <2>4, <2>5, DigestAssumption DEF RetryInv
<1> QED
  BY <1>1, <1>2, <1>3

\* SetRetryRunning pays the retry its flow owed.
LEMMA RetryPaid ==
  ASSUME TypeOK, FlowFacts, KeyInv, StoreTypes', RetryInv, NEW p \in Procs, SetRunning(p)
  PROVE  RetryInv'
<1> DEFINE d == on[p]
           g == Gen(d)
<1> StoreTypes /\ FlowTypes /\ FlowFact(p) /\ FlowFact(g) /\ d \in Dates /\ g \in Procs /\ g[1] = "gen" /\ row[d] \in Row
  BY TypeParts, ProcFacts DEF FlowFacts, FlowTypes, StoreTypes
<1>1. pc[p] = "running" /\ p[1] # "gen" /\ p # g
  BY InsideFacts DEF SetRunning, RerunSteps
<1>2. /\ UNCHANGED on
      /\ pc'[p] = AfterOk(p) /\ pc'[g] = "load" /\ flow'[g] = flow[g]
      /\ flow'[p] = flow[p] \/ flow'[p] = "none"
      /\ \A q \in Procs : q # p /\ q # g => pc'[q] = pc[q] /\ flow'[q] = flow[q]
      /\ row' = [row EXCEPT ![d] = Running(row[d], flow[p])]
  BY <1>1 DEF SetRunning, FlowTypes, WriteRow
<1>3. ~RetryPending(p)' /\ ~RetryPending(g)'
  BY <1>2, EndFacts DEF RetryPending, Ends
<1>4. \A q \in Procs : flow'[q] = "retry" => flow[q] = "retry"
  BY <1>2
<1>5. \A q \in Procs : q # p => (RetryPending(q)' => RetryPending(q))
  BY <1>2, <1>3 DEF RetryPending
<1>6. CASE flow[p] # "retry"
  <2>1. Running(row[d], flow[p]).retry = 0
    BY <1>6 DEF Running, NoRow
  <2>2. \A e \in Dates : row'[e].retry <= row[e].retry
    <3> HIDE DEF Running
    <3> QED
      BY <1>2, <2>1, CountFacts DEF StoreTypes
  <2> QED
    BY <1>2, <1>3, <1>4, <1>5, <2>2, NoNewDebt
<1>7. CASE flow[p] = "retry"
  <2>1. Running(row[d], flow[p]).retry = row[d].retry + 1
    BY <1>7 DEF Running, Row
  <2>2. \A e \in Dates : row'[e].retry = IF e = d THEN row[d].retry + 1 ELSE row[e].retry
    <3> HIDE DEF Running
    <3> QED
      BY <1>2, <2>1 DEF StoreTypes
  <2>3. p = Sched \/ p = Maint(d)
    BY <1>7 DEF RetryInv, Retriers, FlowTypes
  <2>4. RetryPending(p)
    BY <1>1, <1>7 DEF RetryPending
  <2>5. \A e \in Dates : e # d => (SchedOwes(e)' => SchedOwes(e)) /\ (MaintOwes(e)' => MaintOwes(e))
    BY <1>2, <1>3, <1>5, <2>3, RetryFacts DEF SchedOwes, MaintOwes
  <2>6. /\ SchedOwes(d) \/ MaintOwes(d)
        /\ SchedOwes(d)' => MaintOwes(d) /\ SchedOwes(d)
        /\ MaintOwes(d)' => MaintOwes(d) /\ SchedOwes(d)
        /\ ~(SchedOwes(d)' /\ MaintOwes(d)')
    BY <1>2, <1>3, <1>5, <2>3, <2>4, RetryFacts DEF SchedOwes, MaintOwes
  <2>7. \A e \in Dates : row[e].retry \in Nat
    BY CountFacts
  <2>8. ASSUME NEW e \in Dates
        PROVE  /\ row'[e].retry <= Limit + 1
               /\ SchedOwes(e)' \/ MaintOwes(e)' => row'[e].retry <= Limit
               /\ SchedOwes(e)' /\ MaintOwes(e)' => row'[e].retry < Limit
    <3>1. CASE e = d
      <4>1. /\ row[d].retry <= Limit + 1 /\ row[d].retry \in Nat
            /\ SchedOwes(d) \/ MaintOwes(d) => row[d].retry <= Limit
            /\ SchedOwes(d) /\ MaintOwes(d) => row[d].retry < Limit
        BY <2>7 DEF RetryInv
      <4>2. row'[d].retry = row[d].retry + 1
        BY <2>2
      <4>3. /\ row'[d].retry <= Limit + 1
            /\ SchedOwes(d)' \/ MaintOwes(d)' => row'[d].retry <= Limit
            /\ SchedOwes(d)' /\ MaintOwes(d)' => row'[d].retry < Limit
        <5> HIDE DEF d
        <5> QED
          BY <2>6, <4>1, <4>2, DigestAssumption
      <4>4. SchedOwes(e)' = SchedOwes(d)' /\ MaintOwes(e)' = MaintOwes(d)' /\ row'[e] = row'[d]
        BY <1>2, <3>1 DEF SchedOwes, MaintOwes
      <4> QED
        BY <4>3, <4>4
    <3>2. CASE e # d
      <4>1. row'[e].retry = row[e].retry /\ (SchedOwes(e)' => SchedOwes(e)) /\ (MaintOwes(e)' => MaintOwes(e))
        BY <2>2, <2>5, <3>2
      <4>2. /\ row[e].retry <= Limit + 1
            /\ SchedOwes(e) \/ MaintOwes(e) => row[e].retry <= Limit
            /\ SchedOwes(e) /\ MaintOwes(e) => row[e].retry < Limit
        BY DEF RetryInv
      <4> QED
        BY <4>1, <4>2
    <3> QED
      BY <3>1, <3>2
  <2> QED
    BY <1>4, <2>8 DEF RetryInv
<1> QED
  BY <1>6, <1>7

LEMMA StepRetry ==
  ASSUME TypeOK, FlowFacts, KeyInv, RetryInv, NEW p \in Procs, Step(p) \/ CallerError(p) \/ DeliveryError(p)
  PROVE  RetryInv'
<1> FlowTypes /\ StoreTypes /\ FlowFact(p) /\ on[p] \in Dates /\ row[on[p]] \in Row
  BY TypeParts DEF FlowFacts, FlowTypes, StoreTypes
<1> StoreTypes'
  BY StepTypes, ErrorTypes, TypeParts
<1>1. CASE Rerun(p) \/ Collect(p) \/ Start(p) \/ Deliver(p) \/ Send(p) \/ CallerError(p) \/ DeliveryError(p)
  <2>1. PICK step \in Ends \cup {"collect", "prepare", "create", "running", "send", "recordOk", "recordFail"} :
          (MoveOn(p, step) \/ OnlyStep(p, step)) /\ (step = "running" => pc[p] = "start")
    <3>1. CASE Rerun(p) \/ Collect(p) \/ Start(p)
      BY <3>1, EndFacts DEF Rerun, Collect, Start, Ends
    <3>2. CASE Deliver(p) \/ Send(p) \/ CallerError(p) \/ DeliveryError(p)
      BY <3>2, EndFacts DEF Deliver, Send, CallerError, DeliveryError, Ends
    <3> QED
      BY <1>1, <3>1, <3>2
  <2>2. OnlyMoves(p) /\ pc'[p] = step /\ flow'[p] \in {flow[p], "none"}
    BY <2>1, MoveOnAlone, OnlyStepAlone
  <2>3. UNCHANGED row
    BY <1>1 DEF Rerun, Collect, Start, Deliver, Send, CallerError, DeliveryError
  <2> QED
    BY <2>1, <2>2, <2>3, SameCount, MoveRetry DEF Ends
<1>2. CASE Prepare(p)
  <2>1. flow[p] # "retry" /\ pc[p] = "prepare"
    BY <1>2 DEF Prepare, FlowFact, Reruns
  <2>2. OnlyMoves(p) /\ pc'[p] = "start" /\ flow'[p] = flow[p]
    BY <1>2 DEF Prepare, OnlyMoves, Goto, FlowTypes
  <2>3. Prepared(row[on[p]]) \in Row /\ Prepared(row[on[p]]).retry = 0
    BY RowUpdates DEF Prepared, NoRow
  <2>4. \A d \in Dates : row'[d].retry <= row[d].retry
    BY <1>2, <2>3, WriteCount DEF Prepare
  <2> QED
    BY <2>1, <2>2, <2>4, MoveRetry
<1>3. CASE SetRunning(p)
  BY <1>3, RetryPaid
<1>4. CASE Record(p)
  <2>1. OnlyMoves(p) /\ pc'[p] \in Ends /\ flow'[p] \in {flow[p], "none"}
    BY <1>4, MoveOnAlone, EndFacts DEF Record
  <2>2. \A a, b \in BOOLEAN : [row[on[p]] EXCEPT !.delivered = a, !.derror = b].retry = row[on[p]].retry
    BY DEF Row
  <2>3. \A d \in Dates : row'[d].retry <= row[d].retry
    BY <1>4, <2>2, RowUpdates, WriteCount DEF Record
  <2> QED
    BY <2>1, <2>3, MoveRetry DEF Ends
<1> QED
  BY <1>1, <1>2, <1>3, <1>4 DEF Step

LEMMA GenerationRetry ==
  ASSUME TypeOK, FlowFacts, RetryInv, NEW d \in Dates, Generation(d) \/ GenError(d)
  PROVE  RetryInv'
<1> DEFINE p == Gen(d)
<1> FlowTypes /\ StoreTypes /\ row[d] \in Row /\ p \in Procs /\ FlowFact(p) /\ p[1] = "gen" /\ item[p] \in Item
  BY TypeParts, ProcFacts DEF FlowFacts, FlowTypes, StoreTypes
<1> StoreTypes'
  BY GenerationTypes, TypeParts
<1>1. /\ OnlyMoves(p) /\ flow'[p] \in {flow[p], "none"}
      /\ pc'[p] \in {"save", "deliver", "end", "fail", "idle"}
  BY DEF Generation, Load, SaveResult, FailUnexpected, End, GenError, OnlyStep, Leave, Goto, OnlyMoves, FlowTypes
<1>2. \A e \in Dates : row'[e].retry <= row[e].retry
  <2>1. CASE UNCHANGED row
    BY <2>1, SameCount
  <2>2. CASE SaveResult(d)
    <3>1. Generated(row[d], item[p]) \subseteq Row
      BY RowUpdates
    <3>2. ASSUME NEW r \in Generated(row[d], item[p]) PROVE r.retry = row[d].retry
      BY DEF Generated, Row
    <3> QED
      BY <2>2, <3>1, <3>2, WriteCount DEF SaveResult
  <2>3. CASE FailUnexpected(d)
    <3>1. [row[d] EXCEPT !.status = "failed", !.next = None].retry = row[d].retry
      BY DEF Row
    <3> QED
      BY <2>3, <3>1, RowUpdates, WriteCount DEF FailUnexpected
  <2> QED
    BY <2>1, <2>2, <2>3 DEF Generation, Load, End, GenError
<1> QED
  BY <1>1, <1>2, MoveRetry

LEMMA SchedRetry ==
  ASSUME TypeOK, RetryInv, SchedTick \/ SchedRead \/ Create
  PROVE  RetryInv'
<1> FlowTypes /\ StoreTypes /\ StoreTypes' /\ Sched \in Procs /\ Sched \in Retriers /\ on[Sched] \in Dates
  BY SchedTypes, TypeParts, RetryFacts DEF Retriers, FlowTypes
<1>1. CASE SchedTick
  <2>1. /\ UNCHANGED flow /\ pc'[Sched] = "read"
        /\ \A q \in Procs : q # Sched => pc'[q] = pc[q] /\ on'[q] = on[q]
    BY <1>1 DEF SchedTick, Goto, FlowTypes
  <2>2. \A q \in Procs : /\ flow'[q] = "retry" => flow[q] = "retry"
                         /\ RetryPending(q)' => RetryPending(q) /\ on'[q] = on[q]
    BY <2>1 DEF RetryPending
  <2> QED
    BY <1>1, <2>2, NoNewDebt, SameCount DEF SchedTick
<1>2. CASE SchedRead
  <2>1. CASE row[on[Sched]].status = "absent"
    BY <1>2, <2>1, OnlyStepAlone, SameCount, MoveRetry DEF SchedRead
  <2>2. CASE row[on[Sched]].status # "absent"
    BY <1>2, <2>2, ContinueRetry DEF SchedRead, RetryPending
  <2> QED
    BY <2>1, <2>2
<1>3. CASE Create
  <2>1. OnlyMoves(Sched) /\ flow'[Sched] = "first" /\ pc'[Sched] = "start"
    BY <1>3, TakeAlone DEF Create
  <2>2. [NoRow EXCEPT !.status = "pending"].retry = 0
    BY DEF NoRow
  <2>3. \A d \in Dates : row'[d].retry <= row[d].retry
    BY <1>3, <2>2, CountFacts DEF Create, WriteRow, StoreTypes
  <2> QED
    BY <2>1, <2>3, MoveRetry
<1> QED
  BY <1>1, <1>2, <1>3

LEMMA MaintRetry ==
  ASSUME TypeOK, RetryInv, NEW d \in Dates, HistoryRead(d) \/ Recovery(d) \/ MaintError(d)
  PROVE  RetryInv'
<1> DEFINE p == Maint(d)
<1> FlowTypes /\ StoreTypes /\ StoreTypes' /\ p \in Procs /\ p \in Retriers /\ on[p] = d /\ row[d] \in Row
  BY MaintTypes, TypeParts, RetryFacts DEF Retriers, FlowTypes, StoreTypes
<1> HIDE DEF p
<1>1. UNCHANGED row
  BY DEF HistoryRead, Recovery, RecoverRead, Redeliver, RecoverStarted, RecoverCheck, MaintError
<1>2. CASE UNCHANGED flowVars
  <2>1. \A q \in Procs : /\ flow'[q] = "retry" => flow[q] = "retry"
                         /\ RetryPending(q)' => RetryPending(q) /\ on'[q] = on[q]
    BY <1>2 DEF flowVars, RetryPending
  <2> QED
    BY <1>1, <2>1, NoNewDebt, SameCount
<1>3. CASE pc[p] = "idle" /\ Continue(p, row[d])
  BY <1>1, <1>3, ContinueRetry DEF RetryPending
<1>4. CASE \E step \in {"redeliver", "rerun"} : \E f \in Flows \ {"retry"} : Take(p, f, step, NoItem)
  BY <1>1, <1>4, TakeAlone, SameCount, MoveRetry
<1>5. CASE Take(p, flow[p], "deliver", ItemOf(row[d])) \/ OnlyStep(p, "recFailed") \/ Leave(p)
  BY <1>1, <1>5, TakeAlone, OnlyStepAlone, LeaveAlone, SameCount, MoveRetry
<1>6. CASE HistoryRead(d)
  BY <1>3, <1>6 DEF HistoryRead, p
<1>7. CASE RecoverRead(d)
  BY <1>2, <1>3, <1>4, <1>7 DEF RecoverRead, p, Flows
<1>8. CASE Redeliver(d) \/ RecoverStarted(d) \/ RecoverCheck(d) \/ MaintError(d)
  BY <1>2, <1>5, <1>8 DEF Redeliver, RecoverStarted, RecoverCheck, MaintError, p
<1> QED
  BY <1>6, <1>7, <1>8 DEF Recovery

LEMMA OtherRetry ==
  ASSUME TypeOK, RetryInv,
         \/ \E u \in Users, d \in Dates : UserRerun(u, d) \/ UserRetryDelivery(u, d)
         \/ \E d \in Dates : Elapse(d)
         \/ MaintRecovery \/ MaintHistory \/ QueueFailed \/ Midnight \/ Restart \/ UNCHANGED vars
  PROVE  RetryInv'
<1> FlowTypes /\ StoreTypes
  BY TypeParts
<1> StoreTypes'
  BY OtherTypes, MaintTypes, TypeParts
<1>1. ASSUME NEW u \in Users, NEW d \in Dates, UserRerun(u, d) \/ UserRetryDelivery(u, d)
      PROVE  RetryInv'
  <2> DEFINE p == User(u)
  <2>1. /\ flow'[p] \in {"rerun", "deliver"} /\ UNCHANGED row
        /\ \A q \in Procs : q # p => pc'[q] = pc[q] /\ on'[q] = on[q] /\ flow'[q] = flow[q]
    BY <1>1, ProcFacts DEF UserRerun, UserRetryDelivery, Request, Goto, FlowTypes
  <2> HIDE DEF p
  <2>2. \A q \in Procs : /\ flow'[q] = "retry" => flow[q] = "retry"
                         /\ RetryPending(q)' => RetryPending(q) /\ on'[q] = on[q]
    BY <2>1 DEF RetryPending
  <2> QED
    BY <2>1, <2>2, NoNewDebt, SameCount
<1>2. CASE UNCHANGED flowVars /\ \A d \in Dates : row'[d].retry <= row[d].retry
  <2>1. \A q \in Procs : /\ flow'[q] = "retry" => flow[q] = "retry"
                         /\ RetryPending(q)' => RetryPending(q) /\ on'[q] = on[q]
    BY <1>2 DEF flowVars, RetryPending
  <2> QED
    BY <1>2, <2>1, NoNewDebt
<1>3. ASSUME NEW d \in Dates, Elapse(d) PROVE RetryInv'
  <2>1. row[d] \in Row /\ [row[d] EXCEPT !.next = "due"].retry = row[d].retry
    BY DEF StoreTypes, Row
  <2>2. \A e \in Dates : row'[e].retry <= row[e].retry
    BY <1>3, <2>1, RowUpdates, WriteCount DEF Elapse
  <2> QED
    BY <1>2, <1>3, <2>2 DEF Elapse
<1>4. CASE MaintRecovery \/ MaintHistory \/ QueueFailed \/ Midnight \/ UNCHANGED vars
  BY <1>2, <1>4, SameCount DEF MaintRecovery, MaintHistory, QueueFailed, Midnight, vars
<1>5. CASE Restart
  <2>1. \A q \in Procs : flow'[q] # "retry" /\ ~RetryPending(q)'
    BY <1>5 DEF Restart, RetryPending
  <2>2. \A d \in Dates : row'[d].retry <= row[d].retry
    <3>1. \A d \in Dates : Recovered(row[d]).retry = row[d].retry
      BY DEF Recovered, StoreTypes, Row
    <3> QED
      BY <1>5, <3>1, CountFacts DEF Restart
  <2> QED
    BY <2>1, <2>2, NoNewDebt
<1> QED
  BY <1>1, <1>3, <1>4, <1>5

LEMMA InitRetry == Init => RetryInv
<1> SUFFICES ASSUME Init PROVE RetryInv
  OBVIOUS
<1>1. \A p \in Procs : flow[p] # "retry" /\ ~RetryPending(p)
  BY DEF Init, RetryPending
<1>2. \A d \in Dates : row[d].retry = 0
  BY DEF Init, NoRow
<1> QED
  BY <1>1, <1>2, RetryFacts, DigestAssumption DEF RetryInv, SchedOwes, MaintOwes

DigestInv == TypeOK /\ FlowFacts /\ KeyInv /\ RetryInv

\* However the scheduler, the maintenance loop, reruns, failing calls and restarts
\* interleave, a failed digest is retried at most once more than configured.
THEOREM RetriesBounded == Spec => []RetryOvershoot
<1>1. Init => DigestInv
  BY InitTypes, InitKeys, InitRetry DEF DigestInv
<1>2. DigestInv /\ [Next]_vars => DigestInv'
  <2>1. DigestInv /\ [Next]_vars => RetryInv'
    BY StepRetry, GenerationRetry, SchedRetry, MaintRetry, OtherRetry DEF DigestInv, Next
  <2> QED
    BY <2>1, NextTypes, NextKeys DEF DigestInv
<1>3. DigestInv => RetryOvershoot
  BY DEF DigestInv, RetryInv, RetryOvershoot
<1> QED
  BY <1>1, <1>2, <1>3, PTL DEF Spec
=============================================================================
