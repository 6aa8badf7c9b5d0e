-------------------------- MODULE SummaryLifeProofs --------------------------
(* SummaryTasks implements SummaryLife, for every set of keys and users and  *)
(* every limit and bound: each step of a flow, of a loop, of a request or of *)
(* the environment is a step of the abstract summary or none.                *)
EXTENDS SummaryTasksProofs

Exists(k) == row[k].status # "absent"

\* The flows that start from a row somebody has found.
RowFlows == RetryFlows \cup RecoverFlows

\* Rows are never deleted, so that a flow that has seen one may record a
\* failure later, whatever has become of the row.
KnownRows ==
  /\ \A k \in Keys : queue[k].status = "queued" \/ mjob[k] # "none" => Exists(k)
  /\ \A k \in Keys : ~Exists(k) => row[k].retry = 0
  /\ \A p \in Procs : flow[p] \in RowFlows => Exists(on[p])
  /\ \A p \in Procs : pc[p] \in {"running", "generate", "save", "schedule", "reread", "abandon"} => Exists(on[p])
  /\ \A p \in Procs : pc[p] \in {"recStarted", "setFailed"} => flow[p] \in RowFlows

\* A step deletes no row, and touches none that is not there.
Kept(k) == Exists(k)' \/ (~Exists(k) /\ row'[k].retry = row[k].retry)

\* A step of one flow: its program counter moves, its purpose stays or is forgotten.
LEMMA MoveKnown ==
  ASSUME TypeAndFlow, KnownRows, NEW p \in Procs, NEW step \in Steps, Goto(p, step),
         flow' = flow \/ flow' = [flow EXCEPT ![p] = "none"], UNCHANGED on,
         \A k \in Keys : Kept(k),
         \A k \in Keys : /\ mjob'[k] # "none" => mjob[k] # "none"
                         /\ queue'[k].status = "queued" => queue[k].status = "queued",
         step \in {"running", "generate", "save", "schedule", "reread", "abandon"} => Exists(on[p])',
         step \in {"recStarted", "setFailed"} => flow[p] \in RowFlows /\ UNCHANGED flow
  PROVE  KnownRows'
<1> TaskTypes
  BY TypeParts
<1>1. \A q \in Procs : q # p => pc'[q] = pc[q] /\ flow'[q] = flow[q] /\ on[q] \in Keys
  BY DEF TaskTypes, Goto
<1>2. pc'[p] = step /\ (flow'[p] = flow[p] \/ flow'[p] = "none") /\ on[p] \in Keys
  BY DEF TaskTypes, Goto
<1>3. "none" \notin RowFlows
  BY DEF RowFlows, RetryFlows, RecoverFlows
<1> QED
  BY <1>1, <1>2, <1>3 DEF KnownRows, Kept

LEMMA AfterTaskKnown ==
  ASSUME NEW p \in Procs
  PROVE  /\ AfterTask(p) \in {"idle", "recStarted", "setFailed"}
         /\ AfterTask(p) # "idle" => flow[p] \in RowFlows
  BY DEF AfterTask, RowFlows, RetryFlows, RecoverFlows

LEMMA StepKnown ==
  ASSUME TypeAndFlow, KnownRows, NEW p \in Procs, Step(p)
  PROVE  KnownRows'
<1> TaskTypes /\ StoreTypes /\ on[p] \in Keys /\ row[on[p]] \in Row
  BY TypeParts DEF TaskTypes, StoreTypes
<1> USE DEF Steps, Holding, maintVars
<1>1. CASE Begin(p)
  <2>1. UNCHANGED <<row, mjob, queue>>
    BY <1>1 DEF Begin
  <2>2. CASE Taken(on[p])
    BY <1>1, <2>1, <2>2, AfterTaskKnown, MoveOnFlow, MoveOnGoes, MoveKnown DEF Begin, MoveOn, OnlyStep, Kept, Exists
  <2>3. CASE ~Taken(on[p])
    <3>1. /\ flow[p] \in Deciding
          /\ FirstStep(flow[p]) \in {"pending", "running", "send"}
          /\ FirstStep(flow[p]) = "running" => flow[p] \in RowFlows
      BY <1>1 DEF Begin, TaskTypes, DecidedFlow, Deciding, FirstStep, RowFlows, RetryFlows
    <3> QED
      BY <1>1, <2>1, <2>3, <3>1, MoveKnown DEF Begin, OnlyStep, KnownRows, Kept, Exists
  <2> QED
    BY <2>2, <2>3
<1>2. CASE UpsertPending(p)
  <2>1. \A k \in Keys : Kept(k) /\ (k = on[p] => Exists(k)')
    BY <1>2 DEF UpsertPending, WriteRow, StoreTypes, NoRow, Kept, Exists
  <2> QED
    BY <1>2, <2>1, MoveKnown DEF UpsertPending, OnlyStep, Kept, Exists
<1>3. CASE SetRunning(p)
  <2>1. \A k \in Keys : Kept(k) /\ (k = on[p] => Exists(k)')
    BY <1>3 DEF SetRunning, WriteRow, StoreTypes, Row, Kept, Exists
  <2> QED
    BY <1>3, <2>1, MoveKnown DEF SetRunning, OnlyStep, Kept, Exists
<1>4. CASE Generate(p)
  BY <1>4, MoveKnown DEF Generate, Kept, Exists, KnownRows
<1>5. CASE SaveResult(p)
  <2>1. \A k \in Keys : Kept(k) /\ (k = on[p] => Exists(k)')
    BY <1>5 DEF SaveResult, WriteRow, StoreTypes, Saved, NoRow, Kept, Exists
  <2>2. PICK step \in {"reread", "schedule", "finish"} : Goto(p, step)
    BY <1>5 DEF SaveResult
  <2> QED
    BY <1>5, <2>1, <2>2, MoveKnown DEF SaveResult, Kept, Exists
<1>6. CASE ScheduleRetry(p)
  <2>1. \A k \in Keys : Kept(k)
    BY <1>6 DEF ScheduleRetry, WriteRow, StoreTypes, Row, Kept, Exists
  <2> QED
    BY <1>6, <2>1, MoveKnown DEF ScheduleRetry, OnlyStep
<1>7. CASE Reread(p)
  BY <1>7, MoveKnown DEF Reread, Kept, Exists
<1>8. CASE Send(p)
  BY <1>8, MoveKnown DEF Send, OnlyStep, Kept, Exists
<1>9. CASE MarkDelivered(p)
  <2>1. \A k \in Keys : Kept(k)
    BY <1>9 DEF MarkDelivered, WriteRow, StoreTypes, Row, Kept, Exists
  <2> QED
    BY <1>9, <2>1, MoveKnown DEF MarkDelivered, OnlyStep
<1>10. CASE RecordDeliveryFailure(p)
  <2>1. \A k \in Keys : Kept(k)
    BY <1>10 DEF RecordDeliveryFailure, WriteRow, StoreTypes, Row, Kept, Exists
  <2> QED
    BY <1>10, <2>1, MoveKnown DEF RecordDeliveryFailure, OnlyStep
<1>11. CASE SetFailed(p)
  <2>1. \A k \in Keys : Kept(k)
    BY <1>11 DEF SetFailed, WriteRow, StoreTypes, Row, Kept, Exists
  <2>2. PICK step \in {"finish", "recFailed", "idle"} : MoveOn(p, step)
    BY <1>11 DEF SetFailed
  <2> QED
    BY <1>11, <2>1, <2>2, MoveOnFlow, MoveOnGoes, MoveKnown DEF SetFailed
<1>12. CASE Finish(p)
  BY <1>12, AfterTaskKnown, MoveOnFlow, MoveOnGoes, MoveKnown DEF Finish, MoveOn, OnlyStep, Kept, Exists
<1> QED
  BY <1>1, <1>2, <1>3, <1>4, <1>5, <1>6, <1>7, <1>8, <1>9, <1>10, <1>11, <1>12 DEF Step

LEMMA FaultKnown ==
  ASSUME TypeAndFlow, KnownRows, NEW p \in Procs, Fault(p)
  PROVE  KnownRows'
<1> TaskTypes /\ StoreTypes /\ on[p] \in Keys /\ row[on[p]] \in Row
  BY TypeParts DEF TaskTypes, StoreTypes
<1> USE DEF Steps, Holding, maintVars
<1>1. CASE DbError(p)
  <2>1. PICK step \in {"finish", "abandon"} : Goto(p, step) /\ (step = "abandon" => pc[p] \notin {"pending", "running"})
    BY <1>1 DEF DbError, ErrorStep
  <2> QED
    BY <1>1, <2>1, MoveKnown DEF DbError, KnownRows, Kept, Exists
<1>2. CASE RecordError(p)
  BY <1>2, MoveKnown DEF RecordError, OnlyStep, Kept, Exists
<1>3. CASE SettingsError(p)
  <2>1. \A k \in Keys : Kept(k)
    BY <1>3 DEF SettingsError, WriteRow, StoreTypes, Row, Kept, Exists
  <2> QED
    BY <1>3, <2>1, MoveKnown DEF SettingsError, OnlyStep
<1> QED
  BY <1>1, <1>2, <1>3 DEF Fault

\* A flow takes up a key: for a retry or a recovery its row is there.
LEMMA DecideKnown ==
  ASSUME TypeAndFlow, KnownRows, NEW p \in Procs, NEW f \in Deciding, NEW it, Decide(p, f, it), UNCHANGED <<row, queue>>,
         \A k \in Keys : mjob'[k] # "none" => mjob[k] # "none",
         f \in RowFlows => Exists(on[p])
  PROVE  KnownRows'
<1> TaskTypes
  BY TypeParts
<1>1. /\ \A q \in Procs : q # p => pc'[q] = pc[q] /\ flow'[q] = flow[q]
      /\ pc'[p] = "decided" /\ flow'[p] = f /\ UNCHANGED on
  BY DEF Decide, Goto, TaskTypes
<1> QED
  BY <1>1 DEF KnownRows, Kept, Exists

LEMMA LoopKnown ==
  ASSUME TypeAndFlow, KnownRows, NEW k \in Keys,
         \/ SchedRead(k) \/ SchedReadError(k) \/ HistoryRead(k) \/ RecoverRead(k) \/ RecoverStarted(k)
         \/ RecoverCheck(k) \/ MaintReadError(k) \/ MaintWriteError(k)
  PROVE  KnownRows'
<1> DEFINE p == Maint(k)
<1> /\ TaskTypes /\ StoreTypes /\ p \in Procs /\ Sched(k) \in Procs
    /\ on[p] = k /\ on[Sched(k)] = k
  BY TypeParts, ProcFacts DEF TaskTypes
<1>1. ASSUME UNCHANGED taskVars, UNCHANGED row,
             \A j \in Keys : /\ mjob'[j] # "none" => mjob[j] # "none"
                             /\ queue'[j].status = "queued" => queue[j].status = "queued"
      PROVE  KnownRows'
  BY <1>1 DEF KnownRows, Kept, Exists, taskVars
<1>2. CASE SchedRead(k)
  <2>1. PICK day \in 0..MaxDay :
          LET f == ScheduledAction(k, row[k], day)
          IN  IF f = "none" THEN UNCHANGED taskVars
              ELSE Decide(Sched(k), f, IF f = "schedDeliver" THEN ItemOf(row[k]) ELSE NoItem)
    BY <1>2 DEF SchedRead
  <2>2. /\ ScheduledAction(k, row[k], day) \in {"none"} \cup Deciding
        /\ ScheduledAction(k, row[k], day) \in RowFlows => Exists(k)
    BY DEF ScheduledAction, Deciding, RowFlows, RetryFlows, RecoverFlows, StoreTypes, Row, Status, Kept, Exists
  <2> QED
    BY <1>1, <1>2, <2>1, <2>2, DecideKnown DEF SchedRead, maintVars
<1>3. CASE SchedReadError(k)
  BY <1>1, <1>3 DEF SchedReadError, maintVars
<1>4. CASE HistoryRead(k)
  <2>1. Exists(k) /\ \A j \in Keys : mjob'[j] # "none" => mjob[j] # "none"
    BY <1>4 DEF HistoryRead, KnownRows, StoreTypes
  <2> QED
    BY <1>1, <1>4, <2>1, DecideKnown DEF HistoryRead, Deciding
<1>5. CASE RecoverRead(k)
  <2>1. Exists(k) /\ \A j \in Keys : /\ mjob'[j] # "none" => mjob[j] # "none"
                                     /\ queue'[j].status = "queued" => queue[j].status = "queued"
    BY <1>5 DEF RecoverRead, KnownRows, StoreTypes, Queues
  <2> QED
    BY <1>1, <1>5, <2>1, DecideKnown DEF RecoverRead, Deciding
<1>6. CASE RecoverStarted(k)
  <2>1. \A j \in Keys : queue'[j].status = "queued" => queue[j].status = "queued"
    BY <1>6 DEF RecoverStarted, StoreTypes, Queues
  <2> QED
    BY <1>6, <2>1, MoveKnown DEF RecoverStarted, OnlyStep, maintVars, Steps, Kept, Exists, KnownRows
<1>7. CASE RecoverCheck(k)
  <2>1. \A j \in Keys : queue'[j].status = "queued" => queue[j].status = "queued"
    BY <1>7 DEF RecoverCheck, StoreTypes, Queues
  <2> QED
    BY <1>7, <2>1, MoveKnown DEF RecoverCheck, Leave, maintVars, Steps, Kept, Exists
<1>8. CASE MaintReadError(k)
  <2>1. \A j \in Keys : /\ mjob'[j] # "none" => mjob[j] # "none"
                        /\ queue'[j].status = "queued" => queue[j].status = "queued"
    BY <1>8 DEF MaintReadError, StoreTypes, Queues
  <2> QED
    BY <1>1, <1>8, <2>1 DEF MaintReadError
<1>9. CASE MaintWriteError(k)
  BY <1>9, MoveKnown DEF MaintWriteError, Leave, maintVars, Steps, Kept, Exists
<1> QED
  BY <1>2, <1>3, <1>4, <1>5, <1>6, <1>7, <1>8, <1>9

\* The passing of time changes time stamps only.
LEMMA ElapseKeeps ==
  ASSUME StoreTypes, NEW k \in Keys, Elapse(k)
  PROVE  \A j \in Keys : /\ row'[j].status = row[j].status /\ row'[j].retry = row[j].retry
                         /\ row'[j].ready = row[j].ready /\ row'[j].dretry = row[j].dretry
<1> DEFINE n == IF row[k].next = "later" THEN "due" ELSE row[k].next
           d == IF row[k].dnext = "later" THEN "due" ELSE row[k].dnext
           r == [row[k] EXCEPT !.next = n, !.dnext = d]
<1>1. row' = [row EXCEPT ![k] = r]
  BY DEF Elapse, WriteRow
<1>2. /\ r.status = row[k].status /\ r.retry = row[k].retry
      /\ r.ready = row[k].ready /\ r.dretry = row[k].dretry
  BY DEF StoreTypes, Row
<1> HIDE DEF r
<1> QED
  BY <1>1, <1>2 DEF StoreTypes

LEMMA OtherKnown ==
  ASSUME TypeAndFlow, KnownRows,
         \/ SchedTick \/ MaintRecovery \/ MaintHistory \/ QueueFailedSummaries
         \/ TimePasses \/ Restart \/ UNCHANGED vars
         \/ \E k \in Keys : Elapse(k)
         \/ \E u \in Users, k \in Keys : RunNowAsync(u, k) \/ RetryDelivery(u, k)
  PROVE  KnownRows'
<1> TaskTypes /\ StoreTypes
  BY TypeParts
<1>1. CASE Restart
  <2>1. \A k \in Keys : Kept(k)
    BY <1>1, ZenonT(30) DEF Restart, StoreTypes, Row, Kept, Exists
  <2> QED
    BY <1>1, <2>1 DEF Restart, KnownRows, Kept, RowFlows, RetryFlows, RecoverFlows, TaskTypes
<1>2. CASE SchedTick \/ TimePasses \/ UNCHANGED vars
  BY <1>2 DEF SchedTick, TimePasses, vars, taskVars, maintVars, KnownRows, Kept, Exists
<1>3. CASE MaintRecovery \/ MaintHistory
  <2>1. \A k \in Keys : mjob'[k] # "none" => Exists(k)
    BY <1>3 DEF MaintRecovery, MaintHistory, Pick, Queued, Historical, KnownRows, Kept, Exists
  <2> QED
    BY <1>3, <2>1 DEF MaintRecovery, MaintHistory, taskVars, KnownRows, Kept, Exists
<1>4. CASE QueueFailedSummaries
  <2>1. \A k \in Keys : queue'[k].status = "queued" => Exists(k)
    BY <1>4 DEF QueueFailedSummaries, Kept, Exists
  <2> QED
    BY <1>4, <2>1 DEF QueueFailedSummaries, taskVars, maintVars, KnownRows, Kept, Exists
<1>5. ASSUME NEW k \in Keys, Elapse(k) PROVE KnownRows'
  <2>1. \A j \in Keys : row'[j].status = row[j].status /\ row'[j].retry = row[j].retry
    BY <1>5, ElapseKeeps
  <2>2. \A q \in Procs : on[q] \in Keys
    BY DEF TaskTypes
  <2> QED
    BY <1>5, <2>1, <2>2 DEF Elapse, taskVars, maintVars, KnownRows, Kept, Exists
<1>6. ASSUME NEW u \in Users, NEW k \in Keys, RunNowAsync(u, k) \/ RetryDelivery(u, k) PROVE KnownRows'
  <2> DEFINE p == <<"user", u>>
  <2>1. p \in Procs /\ UNCHANGED <<row, queue, mjob>>
    BY <1>6, ProcFacts DEF RunNowAsync, RetryDelivery, maintVars
  <2>2. /\ \A q \in Procs : q # p => pc'[q] = pc[q] /\ flow'[q] = flow[q] /\ on'[q] = on[q]
        /\ pc'[p] \in {"pending", "decided"} /\ flow'[p] \notin RowFlows
    BY <1>6, <2>1 DEF RunNowAsync, RetryDelivery, Goto, TaskTypes, RowFlows, RetryFlows, RecoverFlows
  <2> HIDE DEF p
  <2> QED
    BY <2>1, <2>2 DEF KnownRows, Kept, Exists
<1> QED
  BY <1>1, <1>2, <1>3, <1>4, <1>5, <1>6

LEMMA NextKnown == TypeAndFlow /\ KnownRows /\ [Next]_vars => KnownRows'
  BY StepKnown, FaultKnown, LoopKnown, OtherKnown DEF Next
-----------------------------------------------------------------------------
(* What SummaryLife sees of a state, and how a step changes it.               *)

LifeStatus   == [k \in Keys |-> row[k].status]
LifeAttempts == [k \in Keys |-> row[k].retry]

InGeneration(p) == pc[p] \in {"generate", "save"}
Generating == {on[p] : p \in {p \in Procs : InGeneration(p)}}

LifeState == <<LifeStatus, LifeAttempts, Generating>>
LifeStep == [Life!Next]_(Life!lifeVars)

LEMMA Stutters ==
  ASSUME UNCHANGED LifeState
  PROVE  LifeStep
  BY DEF LifeStep, Life!lifeVars, LifeState, LifeStatus, LifeAttempts, Generating, InGeneration

LEMMA Written ==
  ASSUME StoreTypes, NEW k \in Keys, NEW r, WriteRow(k, r)
  PROVE  /\ LifeStatus' = [LifeStatus EXCEPT ![k] = r.status]
         /\ LifeAttempts' = [LifeAttempts EXCEPT ![k] = r.retry]
  BY DEF StoreTypes, WriteRow, LifeStatus, LifeAttempts

LEMMA WrittenSame ==
  ASSUME StoreTypes, NEW k \in Keys, NEW r, r.status = row[k].status, r.retry = row[k].retry,
         WriteRow(k, r) \/ UNCHANGED row
  PROVE  UNCHANGED <<LifeStatus, LifeAttempts>>
<1>1. CASE WriteRow(k, r)
  <2>1. LifeStatus[k] = r.status /\ LifeAttempts[k] = r.retry
    BY DEF LifeStatus, LifeAttempts
  <2>2. LifeStatus' = [LifeStatus EXCEPT ![k] = r.status] /\ LifeAttempts' = [LifeAttempts EXCEPT ![k] = r.retry]
    BY <1>1, Written
  <2> QED
    BY <2>1, <2>2 DEF LifeStatus, LifeAttempts
<1>2. CASE UNCHANGED row
  BY <1>2 DEF LifeStatus, LifeAttempts
<1> QED
  BY <1>1, <1>2

\* The keys a generation is under way of: unchanged while no flow begins or
\* ends one; the one flow that does is the only one inside of its task.
LEMMA SameGenerating ==
  ASSUME UNCHANGED on, \A p \in Procs : InGeneration(p)' <=> InGeneration(p)
  PROVE  UNCHANGED Generating
  BY DEF Generating

LEMMA MoveGenerating ==
  ASSUME TaskTypes, NEW p \in Procs, NEW step, Goto(p, step), UNCHANGED on,
         InGeneration(p) <=> step \in {"generate", "save"}
  PROVE  UNCHANGED Generating
  BY SameGenerating DEF Goto, TaskTypes, InGeneration

LEMMA BeginGenerating ==
  ASSUME TaskTypes, TaskLock, NEW p \in Procs, pc[p] = "running", Goto(p, "generate"), UNCHANGED on
  PROVE  on[p] \notin Generating /\ Generating' = Generating \cup {on[p]}
<1>1. \A q \in Procs : InGeneration(q) => on[q] # on[p]
  BY DEF TaskLock, Holds, Holding, InGeneration
<1>2. \A q \in Procs : InGeneration(q)' <=> q = p \/ InGeneration(q)
  BY DEF Goto, TaskTypes, InGeneration
<1> QED
  BY <1>1, <1>2 DEF Generating

LEMMA EndGenerating ==
  ASSUME TaskTypes, TaskLock, NEW p \in Procs, InGeneration(p), UNCHANGED on,
         NEW step \in Steps \ {"generate", "save"}, Goto(p, step)
  PROVE  on[p] \in Generating /\ Generating' = Generating \ {on[p]}
<1>1. \A q \in Procs : InGeneration(q) /\ on[q] = on[p] => q = p
  BY DEF TaskLock, Holds, Holding, InGeneration
<1>2. \A q \in Procs : InGeneration(q)' <=> q # p /\ InGeneration(q)
  BY DEF Goto, TaskTypes, InGeneration
<1> QED
  BY <1>1, <1>2 DEF Generating

\* The steps of SummaryLife, as seen from a state of SummaryTasks.
LEMMA MapsToPlan ==
  ASSUME NEW k \in Keys, LifeStatus[k] = "absent", LifeStatus' = [LifeStatus EXCEPT ![k] = "pending"],
         UNCHANGED <<LifeAttempts, Generating>>
  PROVE  LifeStep
<1>1. Life!Plan(k)
  BY DEF Life!Plan, Life!Become, LifeStatus, LifeAttempts, Generating, InGeneration
<1> QED
  BY <1>1 DEF LifeStep, Life!Next

LEMMA MapsToGenerate ==
  ASSUME NEW k \in Keys, k \notin Generating, Generating' = Generating \cup {k},
         LifeStatus' = [LifeStatus EXCEPT ![k] = "running"],
         NEW n \in {0, LifeAttempts[k] + 1}, n <= Limit + 1, LifeAttempts' = [LifeAttempts EXCEPT ![k] = n]
  PROVE  LifeStep
<1>1. Life!Generate(k)
  BY DEF Life!Generate, Life!Become, LifeStatus, LifeAttempts, Generating, InGeneration
<1> QED
  BY <1>1 DEF LifeStep, Life!Next

LEMMA MapsToResult ==
  ASSUME NEW k \in Keys, k \in Generating, Generating' = Generating \ {k},
         \/ LifeStatus' = [LifeStatus EXCEPT ![k] = "succeeded"] /\ LifeAttempts' = [LifeAttempts EXCEPT ![k] = 0]
         \/ LifeStatus' = [LifeStatus EXCEPT ![k] = "failed"] /\ UNCHANGED LifeAttempts
         \/ UNCHANGED <<LifeStatus, LifeAttempts>>
  PROVE  LifeStep
<1>1. Life!Done(k)
  BY DEF Life!Done, Generating, InGeneration
<1>2. Life!Succeed(k) \/ Life!Fail(k) \/ Life!Lose(k)
  BY <1>1 DEF Life!Succeed, Life!Fail, Life!Lose, Life!Become, LifeStatus, LifeAttempts
<1> QED
  BY <1>2 DEF LifeStep, Life!Next

LEMMA MapsToGiveUp ==
  ASSUME NEW k \in Keys, LifeStatus[k] # "absent", LifeStatus' = [LifeStatus EXCEPT ![k] = "failed"],
         UNCHANGED <<LifeAttempts, Generating>>
  PROVE  LifeStep
<1>1. Life!GiveUp(k)
  BY DEF Life!GiveUp, Life!Become, LifeStatus, LifeAttempts, Generating, InGeneration
<1> QED
  BY <1>1 DEF LifeStep, Life!Next
-----------------------------------------------------------------------------
(* Every action maps to one of them or to a stutter.                          *)

\* What the invariants say together.
LifeInv == TypeAndFlow /\ TaskLock /\ RetryInv /\ KnownRows

LEMMA StepMaps ==
  ASSUME LifeInv, RetryInv', NEW p \in Procs, Step(p)
  PROVE  LifeStep
<1> DEFINE k == on[p]
<1> /\ TaskTypes /\ StoreTypes /\ TaskLock /\ k \in Keys /\ row[k] \in Row
    /\ LifeStatus[k] = row[k].status /\ LifeAttempts[k] = row[k].retry
  BY TypeParts DEF TaskTypes, StoreTypes, LifeStatus, LifeAttempts, LifeInv
<1> USE DEF LifeState
<1>1. CASE Begin(p)
  <2>1. UNCHANGED <<LifeStatus, LifeAttempts>>
    BY <1>1 DEF Begin, LifeStatus, LifeAttempts
  <2>2. CASE Taken(on[p])
    BY <1>1, <2>1, <2>2, AfterTaskKnown, MoveOnGoes, MoveGenerating, Stutters DEF Begin, InGeneration
  <2>3. CASE ~Taken(on[p])
    <3>1. FirstStep(flow[p]) \in {"pending", "running", "send"}
      BY <1>1 DEF Begin, LifeInv, TaskTypes, DecidedFlow, Deciding, FirstStep, RetryFlows
    <3> QED
      BY <1>1, <2>1, <2>3, <3>1, MoveGenerating, Stutters DEF Begin, OnlyStep, InGeneration
  <2> QED
    BY <2>2, <2>3
<1>2. CASE UpsertPending(p)
  <2>1. UNCHANGED Generating
    BY <1>2, MoveGenerating DEF UpsertPending, OnlyStep, InGeneration
  <2>2. CASE row[k].status = "absent"
    <3>1. LifeStatus' = [LifeStatus EXCEPT ![k] = "pending"]
      BY <1>2, <2>2, Written DEF UpsertPending, NoRow
    <3>2. LifeAttempts[k] = 0 /\ LifeAttempts' = [LifeAttempts EXCEPT ![k] = 0]
      BY <1>2, <2>2, Written DEF UpsertPending, NoRow, LifeAttempts, LifeInv, KnownRows, Exists
    <3>3. UNCHANGED LifeAttempts
      BY <3>2 DEF LifeAttempts
    <3> QED
      BY <2>1, <2>2, <3>1, <3>3, MapsToPlan
  <2>3. CASE row[k].status # "absent"
    BY <1>2, <2>1, <2>3, Stutters DEF UpsertPending, LifeStatus, LifeAttempts
  <2> QED
    BY <2>2, <2>3
<1>3. CASE SetRunning(p)
  <2> DEFINE n == Attempt(row[k], flow[p])
  <2>1. k \notin Generating /\ Generating' = Generating \cup {k}
    BY <1>3, BeginGenerating DEF SetRunning, OnlyStep
  <2>2. LifeStatus' = [LifeStatus EXCEPT ![k] = "running"] /\ LifeAttempts' = [LifeAttempts EXCEPT ![k] = n]
    <3> DEFINE r == [row[k] EXCEPT !.status = "running", !.next = None, !.retry = n]
    <3>1. WriteRow(k, r)
      BY <1>3 DEF SetRunning
    <3>2. r.status = "running" /\ r.retry = n
      BY DEF Row
    <3> HIDE DEF r, n
    <3> QED
      BY <3>1, <3>2, Written
  <2>3. n \in {0, LifeAttempts[k] + 1}
    BY DEF Attempt
  <2>4. n <= Limit + 1
    <3>1. row'[k].retry = n /\ row'[k].retry <= Limit + 1
      BY <1>3 DEF SetRunning, WriteRow, StoreTypes, Row, RetryInv, RetryBudget
    <3> QED
      BY <3>1
  <2> QED
    BY <2>1, <2>2, <2>3, <2>4, MapsToGenerate
<1>4. CASE Generate(p)
  BY <1>4, MoveGenerating, Stutters DEF Generate, InGeneration, LifeStatus, LifeAttempts
<1>5. CASE SaveResult(p)
  <2> DEFINE r == Saved(row[k], outcome[p] = "ok", stamp[p])
  <2>1. k \in Generating /\ Generating' = Generating \ {k}
    <3>1. PICK step \in {"reread", "schedule", "finish"} : Goto(p, step)
      BY <1>5 DEF SaveResult
    <3> QED
      BY <1>5, <3>1, EndGenerating DEF SaveResult, InGeneration, Steps, Holding
  <2>2. LifeStatus' = [LifeStatus EXCEPT ![k] = r.status] /\ LifeAttempts' = [LifeAttempts EXCEPT ![k] = r.retry]
    BY <1>5, Written DEF SaveResult
  <2>3. CASE outcome[p] = "ok"
    BY <2>1, <2>2, <2>3, MapsToResult DEF Saved, NoRow
  <2>4. CASE outcome[p] # "ok"
    <3>1. r.status = "failed" /\ r.retry = LifeAttempts[k]
      BY <2>4 DEF Saved, NoRow
    <3>2. UNCHANGED LifeAttempts
      BY <2>2, <3>1 DEF LifeAttempts
    <3> QED
      BY <2>1, <2>2, <3>1, <3>2, MapsToResult
  <2> QED
    BY <2>3, <2>4
<1>6. CASE ScheduleRetry(p)
  <2>1. UNCHANGED Generating
    BY <1>6, MoveGenerating DEF ScheduleRetry, OnlyStep, InGeneration
  <2>2. UNCHANGED <<LifeStatus, LifeAttempts>>
    <3> DEFINE r == [row[k] EXCEPT !.next = "later"]
    <3>1. r.status = row[k].status /\ r.retry = row[k].retry
      BY DEF Row
    <3>2. WriteRow(k, r) \/ UNCHANGED row
      BY <1>6 DEF ScheduleRetry
    <3> HIDE DEF r
    <3> QED
      BY <3>1, <3>2, WrittenSame
  <2> QED
    BY <2>1, <2>2, Stutters
<1>7. CASE Reread(p)
  <2>1. PICK step \in {"send", "finish"} : Goto(p, step)
    BY <1>7 DEF Reread
  <2> QED
    BY <1>7, <2>1, MoveGenerating, Stutters DEF Reread, InGeneration, LifeStatus, LifeAttempts
<1>8. CASE Send(p)
  <2>1. PICK step \in {"recordOk", "recordFail"} : Goto(p, step) /\ UNCHANGED on
    BY <1>8 DEF Send, OnlyStep
  <2> QED
    BY <1>8, <2>1, MoveGenerating, Stutters DEF Send, InGeneration, LifeStatus, LifeAttempts
<1>9. CASE MarkDelivered(p)
  <2>1. UNCHANGED Generating
    BY <1>9, MoveGenerating DEF MarkDelivered, OnlyStep, InGeneration
  <2>2. UNCHANGED <<LifeStatus, LifeAttempts>>
    <3> DEFINE r == [row[k] EXCEPT !.delivered = TRUE, !.dretry = 0, !.dnext = None]
    <3>1. r.status = row[k].status /\ r.retry = row[k].retry
      BY DEF Row
    <3>2. WriteRow(k, r)
      BY <1>9 DEF MarkDelivered
    <3> HIDE DEF r
    <3> QED
      BY <3>1, <3>2, WrittenSame
  <2> QED
    BY <2>1, <2>2, Stutters
<1>10. CASE RecordDeliveryFailure(p)
  <2>1. UNCHANGED Generating
    BY <1>10, MoveGenerating DEF RecordDeliveryFailure, OnlyStep, InGeneration
  <2>2. UNCHANGED <<LifeStatus, LifeAttempts>>
    <3> DEFINE d == IF item[p].dretry < Limit THEN "later" ELSE None
               r == IF flow[p] = "userDeliver" THEN [row[k] EXCEPT !.delivered = FALSE]
                    ELSE [row[k] EXCEPT !.delivered = FALSE, !.dretry = row[k].dretry + 1, !.dnext = d]
    <3>1. r.status = row[k].status /\ r.retry = row[k].retry
      BY DEF Row
    <3>2. WriteRow(k, r)
      BY <1>10 DEF RecordDeliveryFailure
    <3> HIDE DEF r
    <3> QED
      BY <3>1, <3>2, WrittenSame
  <2> QED
    BY <2>1, <2>2, Stutters
<1>11. CASE SetFailed(p)
  <2>1. UNCHANGED Generating
    <3>1. PICK step \in {"finish", "recFailed", "idle"} : MoveOn(p, step)
      BY <1>11 DEF SetFailed
    <3> QED
      BY <1>11, <3>1, MoveOnGoes, MoveGenerating DEF SetFailed, InGeneration
  <2>2. row[k].status # "absent"
    BY <1>11 DEF SetFailed, LifeInv, KnownRows, Exists
  <2> DEFINE r == [row[k] EXCEPT !.status = "failed", !.next = None]
  <2>3. r.status = "failed" /\ r.retry = LifeAttempts[k]
    BY DEF Row
  <2>4. LifeStatus' = [LifeStatus EXCEPT ![k] = "failed"] /\ LifeAttempts' = [LifeAttempts EXCEPT ![k] = LifeAttempts[k]]
    <3>1. WriteRow(k, r)
      BY <1>11 DEF SetFailed
    <3> HIDE DEF r
    <3> QED
      BY <2>3, <3>1, Written
  <2>5. UNCHANGED LifeAttempts
    BY <2>4 DEF LifeAttempts
  <2> QED
    BY <2>1, <2>2, <2>4, <2>5, MapsToGiveUp
<1>12. CASE Finish(p)
  BY <1>12, AfterTaskKnown, MoveOnGoes, MoveGenerating, Stutters DEF Finish, InGeneration, LifeStatus, LifeAttempts
<1> QED
  BY <1>1, <1>2, <1>3, <1>4, <1>5, <1>6, <1>7, <1>8, <1>9, <1>10, <1>11, <1>12 DEF Step

LEMMA FaultMaps ==
  ASSUME LifeInv, NEW p \in Procs, Fault(p)
  PROVE  LifeStep
<1> DEFINE k == on[p]
<1> TaskTypes /\ StoreTypes /\ TaskLock /\ k \in Keys /\ row[k] \in Row
  BY TypeParts DEF TaskTypes, StoreTypes, LifeInv
<1> USE DEF LifeState
<1>1. CASE DbError(p)
  <2>1. PICK step \in {"finish", "abandon"} : Goto(p, step)
    BY <1>1 DEF DbError, ErrorStep
  <2>2. UNCHANGED <<LifeStatus, LifeAttempts>> /\ UNCHANGED on
    BY <1>1 DEF DbError, LifeStatus, LifeAttempts
  <2>3. CASE InGeneration(p)
    BY <2>1, <2>2, <2>3, EndGenerating, MapsToResult DEF Steps, Holding
  <2>4. CASE ~InGeneration(p)
    BY <2>1, <2>2, <2>4, MoveGenerating, Stutters
  <2> QED
    BY <2>3, <2>4
<1>2. CASE RecordError(p)
  BY <1>2, MoveGenerating, Stutters DEF RecordError, OnlyStep, InGeneration, LifeStatus, LifeAttempts
<1>3. CASE SettingsError(p)
  <2>1. UNCHANGED Generating
    BY <1>3, MoveGenerating DEF SettingsError, OnlyStep, InGeneration
  <2>2. UNCHANGED <<LifeStatus, LifeAttempts>>
    <3> DEFINE r == [row[k] EXCEPT !.delivered = FALSE]
    <3>1. r.status = row[k].status /\ r.retry = row[k].retry
      BY DEF Row
    <3>2. WriteRow(k, r) \/ UNCHANGED row
      BY <1>3 DEF SettingsError
    <3> HIDE DEF r
    <3> QED
      BY <3>1, <3>2, WrittenSame
  <2> QED
    BY <2>1, <2>2, Stutters
<1> QED
  BY <1>1, <1>2, <1>3 DEF Fault

LEMMA DecideMaps ==
  ASSUME TaskTypes, NEW p \in Procs, NEW f, NEW it, Decide(p, f, it), pc[p] = "idle"
  PROVE  UNCHANGED Generating
  BY MoveGenerating, DecideGoes DEF InGeneration

LEMMA LoopMaps ==
  ASSUME LifeInv, NEW k \in Keys,
         \/ SchedRead(k) \/ SchedReadError(k) \/ HistoryRead(k) \/ RecoverRead(k) \/ RecoverStarted(k)
         \/ RecoverCheck(k) \/ MaintReadError(k) \/ MaintWriteError(k)
  PROVE  LifeStep
<1> TaskTypes /\ StoreTypes /\ Maint(k) \in Procs /\ Sched(k) \in Procs
  BY TypeParts, ProcFacts DEF LifeInv
<1>1. UNCHANGED <<LifeStatus, LifeAttempts>>
  BY DEF SchedRead, SchedReadError, HistoryRead, RecoverRead, RecoverStarted, RecoverCheck,
         MaintReadError, MaintWriteError, LifeStatus, LifeAttempts
<1>2. UNCHANGED taskVars => UNCHANGED Generating
  BY DEF taskVars, Generating, InGeneration
<1>3. CASE SchedReadError(k) \/ MaintReadError(k)
  BY <1>1, <1>2, <1>3, Stutters DEF SchedReadError, MaintReadError, LifeState
<1>4. CASE SchedRead(k) \/ HistoryRead(k) \/ RecoverRead(k)
  <2>1. UNCHANGED Generating
    BY <1>2, <1>4, DecideMaps DEF SchedRead, HistoryRead, RecoverRead
  <2> QED
    BY <1>1, <2>1, Stutters DEF LifeState
<1>5. CASE RecoverStarted(k) \/ RecoverCheck(k) \/ MaintWriteError(k)
  <2>1. PICK step \in {"setFailed", "recCheck", "idle"} :
          Goto(Maint(k), step) /\ UNCHANGED on /\ ~InGeneration(Maint(k))
    BY <1>5 DEF RecoverStarted, RecoverCheck, MaintWriteError, OnlyStep, Leave, InGeneration
  <2> QED
    BY <1>1, <2>1, MoveGenerating, Stutters DEF LifeState
<1> QED
  BY <1>3, <1>4, <1>5

LEMMA RequestMaps ==
  ASSUME LifeInv, NEW u \in Users, NEW k \in Keys, RunNowAsync(u, k) \/ RetryDelivery(u, k)
  PROVE  LifeStep
<1> DEFINE p == <<"user", u>>
<1> TaskTypes /\ p \in Procs
  BY TypeParts, ProcFacts DEF LifeInv
<1>1. /\ \A q \in Procs : q # p => pc'[q] = pc[q] /\ on'[q] = on[q]
      /\ ~InGeneration(p) /\ ~InGeneration(p)'
  BY DEF RunNowAsync, RetryDelivery, Request, Goto, TaskTypes, InGeneration
<1>2. UNCHANGED Generating
  <2> HIDE DEF p
  <2>1. \A q \in Procs : (InGeneration(q)' <=> InGeneration(q)) /\ (InGeneration(q) => on'[q] = on[q])
    BY <1>1 DEF InGeneration
  <2> QED
    BY <2>1 DEF Generating
<1>3. UNCHANGED <<LifeStatus, LifeAttempts>>
  BY DEF RunNowAsync, RetryDelivery, LifeStatus, LifeAttempts
<1> QED
  BY <1>2, <1>3, Stutters DEF LifeState

LEMMA OtherMaps ==
  ASSUME LifeInv,
         \/ SchedTick \/ MaintRecovery \/ MaintHistory \/ QueueFailedSummaries
         \/ TimePasses \/ Restart \/ UNCHANGED vars \/ \E k \in Keys : Elapse(k)
  PROVE  LifeStep
<1> TaskTypes /\ StoreTypes
  BY TypeParts DEF LifeInv
<1>1. CASE Restart
  <2>1. Generating' = {}
    BY <1>1 DEF Restart, Generating, InGeneration
  <2>2. \A k \in Keys : /\ row'[k].status = IF row[k].status \in {"pending", "running"} THEN "failed" ELSE row[k].status
                        /\ row'[k].retry = row[k].retry
    BY <1>1, ZenonT(30) DEF Restart, Interrupted, StoreTypes, Row
  <2>3. LifeStatus' = [k \in Keys |-> IF LifeStatus[k] \in {"pending", "running"} THEN "failed" ELSE LifeStatus[k]]
    BY <2>2 DEF LifeStatus
  <2>4. UNCHANGED LifeAttempts
    BY <2>2 DEF LifeAttempts
  <2>5. Life!Crash
    BY <2>1, <2>3, <2>4 DEF Life!Crash, LifeStatus, LifeAttempts, Generating, InGeneration
  <2> QED
    BY <2>5 DEF LifeStep, Life!Next
<1>2. CASE \E k \in Keys : Elapse(k)
  <2>1. UNCHANGED <<LifeStatus, LifeAttempts>>
    BY <1>2, ElapseKeeps DEF LifeStatus, LifeAttempts
  <2>2. UNCHANGED Generating
    BY <1>2 DEF Elapse, taskVars, Generating, InGeneration
  <2> QED
    BY <2>1, <2>2, Stutters DEF LifeState
<1>3. CASE \/ SchedTick \/ MaintRecovery \/ MaintHistory \/ QueueFailedSummaries
           \/ TimePasses \/ UNCHANGED vars
  <2>1. UNCHANGED <<row, taskVars>>
    BY <1>3 DEF SchedTick, MaintRecovery, MaintHistory, QueueFailedSummaries, TimePasses, vars
  <2> QED
    BY <2>1, Stutters DEF LifeState, taskVars, LifeStatus, LifeAttempts, Generating, InGeneration
<1> QED
  BY <1>1, <1>2, <1>3

LEMMA NextMaps == LifeInv /\ RetryInv' /\ [Next]_vars => LifeStep
<1> SUFFICES ASSUME LifeInv, RetryInv', [Next]_vars PROVE LifeStep
  OBVIOUS
<1>1. CASE \E p \in Procs : Step(p) \/ Fault(p)
  BY <1>1, StepMaps, FaultMaps
<1>2. CASE \E k \in Keys : \/ SchedRead(k) \/ HistoryRead(k) \/ RecoverRead(k) \/ RecoverStarted(k)
                           \/ RecoverCheck(k) \/ SchedReadError(k) \/ MaintReadError(k) \/ MaintWriteError(k)
  BY <1>2, LoopMaps
<1>3. CASE \E u \in Users, k \in Keys : RunNowAsync(u, k) \/ RetryDelivery(u, k)
  BY <1>3, RequestMaps
<1>4. CASE \/ SchedTick \/ MaintRecovery \/ MaintHistory \/ QueueFailedSummaries
           \/ TimePasses \/ Restart \/ UNCHANGED vars \/ \E k \in Keys : Elapse(k)
  BY <1>4, OtherMaps
<1> QED
  BY <1>1, <1>2, <1>3, <1>4 DEF Next

LEMMA InitKnown == Init => KnownRows
  BY DEF Init, KnownRows, Exists, NoRow, RowFlows, RetryFlows, RecoverFlows

\* Whatever flows, loops, requests, faults and restarts do to the rows, each of
\* them lives as SummaryLife says: one generation at a time, a result only from
\* the one under way, a success that starts the attempts again, at most the limit
\* and one attempts, and no failure recorded of a summary nobody has planned.
THEOREM LifeImplemented == Spec => ImplementsLife
<1>1. Init => Life!Init
  BY DEF Init, NoRow, Life!Init
<1>2. Init => LifeInv
  BY InitTypes, InitLock, InitRetry, InitKnown DEF LifeInv
<1>3. LifeInv /\ [Next]_vars => LifeInv'
  BY NextTypes, NextLock, NextRetry, NextKnown DEF LifeInv
<1>4. LifeInv /\ LifeInv' /\ [Next]_vars => [Life!Next]_(Life!lifeVars)
  BY NextMaps DEF LifeInv, LifeStep
<1> QED
  BY <1>1, <1>2, <1>3, <1>4, PTL DEF Spec, ImplementsLife, Life!Spec
-----------------------------------------------------------------------------
(* While no database call fails, a row in progress has a flow that works on it. *)

OwnSteps == {"pending", "running", "generate", "save"}
Busy(k) == row[k].status \in {"pending", "running"}
Owns(p, k) == on[p] = k /\ pc[p] \in OwnSteps

\* RunningOwned alone is not inductive: a context that is cancelled, or an error
\* that will cancel it, is a failing call to come.
OwnedInv ==
  used.faults = 0 =>
    /\ ~cancelled
    /\ \A p \in Procs : outcome[p] # "error"
    /\ \A k \in Keys : Busy(k) => \E p \in Procs : Owns(p, k)

LEMMA WriteBusy ==
  ASSUME StoreTypes, NEW k \in Keys, NEW r, WriteRow(k, r), r.status \notin {"pending", "running"} \/ r.status = row[k].status
  PROVE  \A j \in Keys : Busy(j)' => Busy(j)
  BY DEF StoreTypes, WriteRow, Busy

\* A step of a flow that makes no row busy but its own.
LEMMA MoveOwned ==
  ASSUME TypeAndFlow, OwnedInv, NEW p \in Procs, NEW step, Goto(p, step), UNCHANGED <<on, used>>,
         cancelled' => cancelled \/ outcome[p] = "error",
         \A q \in Procs : outcome'[q] = "error" => outcome[q] = "error",
         \A k \in Keys : Busy(k)' => Busy(k) \/ k = on[p],
         \/ step \in OwnSteps
         \/ pc[p] \notin OwnSteps /\ (Busy(on[p])' => Busy(on[p]))
         \/ ~Busy(on[p])'
  PROVE  OwnedInv'
<1> TaskTypes
  BY TypeParts
<1> SUFFICES ASSUME used.faults = 0 PROVE OwnedInv'
  BY DEF OwnedInv
<1>1. ~cancelled' /\ \A q \in Procs : outcome'[q] # "error"
  BY DEF OwnedInv
<1>2. /\ \A q \in Procs : q # p => pc'[q] = pc[q]
      /\ pc'[p] = step
  BY DEF Goto, TaskTypes
<1>3. ASSUME NEW k \in Keys, Busy(k)' PROVE \E q \in Procs : Owns(q, k)'
  <2>1. CASE k = on[p] /\ step \in OwnSteps
    BY <1>2, <2>1 DEF Owns
  <2>2. CASE ~(k = on[p] /\ step \in OwnSteps)
    <3>1. Busy(k)
      BY <1>3, <2>2
    <3>2. PICK q \in Procs : Owns(q, k)
      BY <3>1 DEF OwnedInv
    <3>3. q # p
      BY <1>3, <2>2, <3>2 DEF Owns
    <3> QED
      BY <1>2, <3>2, <3>3 DEF Owns
  <2> QED
    BY <2>1, <2>2
<1> QED
  BY <1>1, <1>3 DEF OwnedInv

LEMMA LeaveOutcome ==
  ASSUME TaskTypes, NEW p \in Procs, NEW step, MoveOn(p, step) \/ OnlyStep(p, step)
  PROVE  \A q \in Procs : outcome'[q] = "error" => outcome[q] = "error"
  BY DEF MoveOn, OnlyStep, Leave, TaskTypes

LEMMA StepOwned ==
  ASSUME TypeAndFlow, OwnedInv, NEW p \in Procs, Step(p)
  PROVE  OwnedInv'
<1> DEFINE k == on[p]
<1> TaskTypes /\ StoreTypes /\ k \in Keys /\ row[k] \in Row
  BY TypeParts DEF TaskTypes, StoreTypes
<1> USE DEF OwnSteps, schedVars
<1>1. CASE Begin(p)
  <2>1. \A j \in Keys : Busy(j)' <=> Busy(j)
    BY <1>1 DEF Begin, Busy
  <2>2. CASE Taken(k)
    BY <1>1, <2>1, <2>2, LeaveOutcome, MoveOnGoes, MoveOwned DEF Begin
  <2>3. CASE ~Taken(k)
    BY <1>1, <2>1, <2>3, LeaveOutcome, MoveOwned DEF Begin, OnlyStep
  <2> QED
    BY <2>2, <2>3
<1>2. CASE UpsertPending(p)
  <2>1. \A j \in Keys : Busy(j)' => Busy(j) \/ j = k
    BY <1>2 DEF UpsertPending, WriteRow, StoreTypes, Busy
  <2> QED
    BY <1>2, <2>1, LeaveOutcome, MoveOwned DEF UpsertPending, OnlyStep
<1>3. CASE SetRunning(p)
  <2>1. \A j \in Keys : Busy(j)' => Busy(j) \/ j = k
    BY <1>3 DEF SetRunning, WriteRow, StoreTypes, Busy
  <2> QED
    BY <1>3, <2>1, LeaveOutcome, MoveOwned DEF SetRunning, OnlyStep
<1>4. CASE Generate(p)
  <2>1. \A q \in Procs : outcome'[q] = "error" => outcome[q] = "error"
    BY <1>4 DEF Generate, TaskTypes
  <2> QED
    BY <1>4, <2>1, MoveOwned DEF Generate, Busy
<1>5. CASE SaveResult(p)
  <2>1. PICK step \in {"reread", "schedule", "finish"} : Goto(p, step)
    BY <1>5 DEF SaveResult
  <2>2. \A q \in Procs : outcome'[q] = "error" => outcome[q] = "error"
    BY <1>5 DEF SaveResult, TaskTypes
  <2>3. ~Busy(k)' /\ \A j \in Keys : Busy(j)' => Busy(j)
    BY <1>5 DEF SaveResult, WriteRow, StoreTypes, Saved, NoRow, Busy
  <2> QED
    BY <1>5, <2>1, <2>2, <2>3, MoveOwned DEF SaveResult
<1>6. CASE ScheduleRetry(p)
  <2>1. \A j \in Keys : Busy(j)' => Busy(j)
    BY <1>6 DEF ScheduleRetry, WriteRow, StoreTypes, Row, Busy
  <2> QED
    BY <1>6, <2>1, LeaveOutcome, MoveOwned DEF ScheduleRetry, OnlyStep
<1>7. CASE Reread(p)
  <2>1. PICK step \in {"send", "finish"} : Goto(p, step)
    BY <1>7 DEF Reread
  <2> QED
    BY <1>7, <2>1, MoveOwned DEF Reread, Busy
<1>8. CASE Send(p)
  <2>1. PICK step \in {"recordOk", "recordFail"} : OnlyStep(p, step)
    BY <1>8 DEF Send
  <2> QED
    BY <1>8, <2>1, LeaveOutcome, MoveOwned DEF Send, OnlyStep, Busy
<1>9. CASE MarkDelivered(p)
  <2>1. \A j \in Keys : Busy(j)' => Busy(j)
    BY <1>9 DEF MarkDelivered, WriteRow, StoreTypes, Row, Busy
  <2> QED
    BY <1>9, <2>1, LeaveOutcome, MoveOwned DEF MarkDelivered, OnlyStep
<1>10. CASE RecordDeliveryFailure(p)
  <2>1. \A j \in Keys : Busy(j)' => Busy(j)
    BY <1>10 DEF RecordDeliveryFailure, WriteRow, StoreTypes, Row, Busy
  <2> QED
    BY <1>10, <2>1, LeaveOutcome, MoveOwned DEF RecordDeliveryFailure, OnlyStep
<1>11. CASE SetFailed(p)
  <2>1. \A j \in Keys : Busy(j)' => Busy(j)
    BY <1>11 DEF SetFailed, WriteRow, StoreTypes, Row, Busy
  <2>2. PICK step : MoveOn(p, step)
    BY <1>11 DEF SetFailed
  <2> QED
    BY <1>11, <2>1, <2>2, LeaveOutcome, MoveOnGoes, MoveOwned DEF SetFailed
<1>12. CASE Finish(p)
  BY <1>12, LeaveOutcome, MoveOnGoes, MoveOwned DEF Finish, Busy
<1> QED
  BY <1>1, <1>2, <1>3, <1>4, <1>5, <1>6, <1>7, <1>8, <1>9, <1>10, <1>11, <1>12 DEF Step

\* A call can only fail when one has failed before, or by counting as a fault.
LEMMA FaultOwned ==
  ASSUME TypeAndFlow, OwnedInv,
         \/ \E p \in Procs : Fault(p)
         \/ \E k \in Keys : SchedReadError(k) \/ MaintReadError(k) \/ MaintWriteError(k)
  PROVE  OwnedInv'
<1> StoreTypes
  BY TypeParts
<1> DEFINE Failed == used'.faults # 0 \/ (cancelled /\ UNCHANGED used)
<1>1. ASSUME NEW p, MayFail(p) PROVE Failed
  BY <1>1 DEF MayFail, Cancelled, StoreTypes
<1>2. ASSUME NEW p \in Procs, Fault(p) PROVE Failed
  <2>1. CASE SettingsError(p)
    BY <2>1 DEF SettingsError, Cancelled, StoreTypes
  <2> QED
    BY <1>1, <1>2, <2>1 DEF Fault, DbError, RecordError
<1>3. ASSUME NEW k \in Keys, SchedReadError(k) \/ MaintReadError(k) \/ MaintWriteError(k) PROVE Failed
  BY <1>1, <1>3 DEF SchedReadError, MaintReadError, MaintWriteError
<1>4. Failed
  BY <1>2, <1>3
<1> QED
  BY <1>4 DEF OwnedInv

LEMMA StillOwned ==
  ASSUME TypeAndFlow, OwnedInv, used'.faults = used.faults, cancelled' => cancelled,
         \A p \in Procs : outcome'[p] = "error" => outcome[p] = "error",
         \A p \in Procs : pc[p] \in OwnSteps => pc'[p] = pc[p] /\ on'[p] = on[p],
         \A k \in Keys : Busy(k)' => Busy(k)
  PROVE  OwnedInv'
  BY DEF OwnedInv, Owns

LEMMA OtherOwned ==
  ASSUME TypeAndFlow, OwnedInv,
         \/ \E k \in Keys : SchedRead(k) \/ HistoryRead(k) \/ RecoverRead(k) \/ RecoverStarted(k) \/ RecoverCheck(k)
         \/ \E u \in Users, k \in Keys : RunNowAsync(u, k) \/ RetryDelivery(u, k)
         \/ SchedTick \/ MaintRecovery \/ MaintHistory \/ QueueFailedSummaries
         \/ TimePasses \/ Restart \/ UNCHANGED vars \/ \E k \in Keys : Elapse(k)
  PROVE  OwnedInv'
<1> TaskTypes /\ StoreTypes
  BY TypeParts
<1>1. CASE Restart
  <2>1. \A k \in Keys : ~Busy(k)'
    BY <1>1 DEF Restart, Interrupted, StoreTypes, Row, Busy
  <2> QED
    BY <1>1, <2>1 DEF Restart, OwnedInv
<1>2. ASSUME NEW p \in Procs, NEW f, NEW it, Decide(p, f, it), pc[p] = "idle"
      PROVE  /\ \A q \in Procs : pc[q] \in OwnSteps => pc'[q] = pc[q] /\ on'[q] = on[q]
             /\ UNCHANGED outcome
  BY <1>2 DEF Decide, Goto, TaskTypes, OwnSteps
<1>3. ASSUME NEW k \in Keys, SchedRead(k) \/ HistoryRead(k) \/ RecoverRead(k)
      PROVE  OwnedInv'
  <2>1. UNCHANGED <<row, cancelled, used>>
    BY <1>3 DEF SchedRead, HistoryRead, RecoverRead, schedVars
  <2>2. /\ \A q \in Procs : pc[q] \in OwnSteps => pc'[q] = pc[q] /\ on'[q] = on[q]
        /\ UNCHANGED outcome
    BY <1>2, <1>3, ProcFacts DEF SchedRead, HistoryRead, RecoverRead, taskVars
  <2> QED
    BY <2>1, <2>2, StillOwned DEF Busy
<1>4. ASSUME NEW k \in Keys, RecoverStarted(k) \/ RecoverCheck(k)
      PROVE  OwnedInv'
  <2>1. UNCHANGED <<row, cancelled, used>>
    BY <1>4 DEF RecoverStarted, RecoverCheck, schedVars
  <2>2. /\ \A q \in Procs : pc[q] \in OwnSteps => pc'[q] = pc[q] /\ on'[q] = on[q]
        /\ \A q \in Procs : outcome'[q] = "error" => outcome[q] = "error"
    BY <1>4 DEF RecoverStarted, RecoverCheck, OnlyStep, Leave, Goto, TaskTypes, OwnSteps
  <2> QED
    BY <2>1, <2>2, StillOwned DEF Busy
<1>5. ASSUME NEW u \in Users, NEW k \in Keys, RunNowAsync(u, k) \/ RetryDelivery(u, k)
      PROVE  OwnedInv'
  <2>1. UNCHANGED <<row, cancelled, outcome>> /\ used'.faults = used.faults
    BY <1>5 DEF RunNowAsync, RetryDelivery, Request, schedVars, StoreTypes
  <2>2. \A q \in Procs : pc[q] \in OwnSteps => pc'[q] = pc[q] /\ on'[q] = on[q]
    BY <1>5 DEF RunNowAsync, RetryDelivery, Request, Goto, TaskTypes, OwnSteps
  <2> QED
    BY <2>1, <2>2, StillOwned DEF Busy
<1>6. CASE \/ SchedTick \/ MaintRecovery \/ MaintHistory \/ QueueFailedSummaries
           \/ TimePasses \/ UNCHANGED vars
  <2>1. UNCHANGED <<row, taskVars>> /\ (cancelled' => cancelled) /\ used'.faults = used.faults
    BY <1>6 DEF SchedTick, MaintRecovery, MaintHistory, QueueFailedSummaries, TimePasses, vars, schedVars, StoreTypes
  <2> QED
    BY <2>1, StillOwned DEF taskVars, Busy
<1>7. ASSUME NEW k \in Keys, Elapse(k) PROVE OwnedInv'
  <2>1. \A j \in Keys : Busy(j)' => Busy(j)
    BY <1>7, ElapseKeeps DEF Busy
  <2> QED
    BY <1>7, <2>1, StillOwned DEF Elapse, taskVars, schedVars
<1> QED
  BY <1>1, <1>3, <1>4, <1>5, <1>6, <1>7

\* While no database call fails, a row that is pending or running is being worked
\* on by a flow that will write its result: no path of beginTask, of the loops or
\* of a restart leaves one behind.
THEOREM BusyRowsOwned == Spec => []RunningOwned
<1>1. Init => OwnedInv
  BY DEF Init, NoRow, OwnedInv, Busy
<1>2. TypeAndFlow /\ OwnedInv /\ [Next]_vars => (TypeAndFlow /\ OwnedInv)'
  BY NextTypes, StepOwned, FaultOwned, OtherOwned DEF Next
<1>3. OwnedInv => RunningOwned
  BY DEF OwnedInv, RunningOwned, Busy, Owns, OwnSteps
<1> QED
  BY InitTypes, <1>1, <1>2, <1>3, PTL DEF Spec
-----------------------------------------------------------------------------
(* Deliveries.  Who delivers, and with what in its hands.                      *)

GenerationSteps == {"pending", "running", "generate", "save", "schedule", "reread"}
SendSteps == {"send", "recordOk", "recordFail"}

\* A scheduled delivery is a flow of runOnce, a delivery of the historical retries
\* one of the maintenance loop; no delivery generates.
FlowKinds ==
  \A p \in Procs : /\ flow[p] = "schedDeliver" => p = Sched(on[p])
                   /\ flow[p] = "histDeliver" => p = Maint(on[p])
                   /\ pc[p] \in GenerationSteps => flow[p] \notin DeliverFlows

\* What a flow is about to send of a week or month was generated after its end,
\* from the decision on, whatever the row has become meanwhile.
HeldReady ==
  \A p \in Procs :
    pc[p] \in SendSteps \/ (pc[p] = "decided" /\ flow[p] \in DeliverFlows) => Deliverable(on[p], item[p].ready)

HeldInv == FlowKinds /\ HeldReady

\* A step of one flow that reads nothing anew.
LEMMA MoveHeld ==
  ASSUME TypeAndFlow, HeldInv, NEW p \in Procs, NEW step, Goto(p, step), UNCHANGED on,
         flow' = flow \/ flow' = [flow EXCEPT ![p] = "none"],
         step \in SendSteps => \A q \in Procs : item'[q].ready = item[q].ready,
         \A q \in Procs : q # p => item'[q].ready = item[q].ready,
         step \in GenerationSteps => flow[p] \notin DeliverFlows,
         step \in SendSteps => pc[p] \in SendSteps \/ (pc[p] = "decided" /\ flow[p] \in DeliverFlows),
         step # "decided"
  PROVE  HeldInv'
<1> TaskTypes
  BY TypeParts
<1>1. /\ \A q \in Procs : q # p => pc'[q] = pc[q] /\ flow'[q] = flow[q]
      /\ pc'[p] = step /\ (flow'[p] = flow[p] \/ flow'[p] = "none")
  BY DEF TaskTypes, Goto
<1>2. FlowKinds'
  BY <1>1 DEF HeldInv, FlowKinds, DeliverFlows
<1>3. HeldReady'
  BY <1>1 DEF HeldInv, HeldReady
<1> QED
  BY <1>2, <1>3 DEF HeldInv

LEMMA MoveOnItem ==
  ASSUME TaskTypes, NEW p \in Procs, NEW step, MoveOn(p, step) \/ OnlyStep(p, step)
  PROVE  /\ \A q \in Procs : q # p => item'[q].ready = item[q].ready
         /\ step # "idle" => \A q \in Procs : item'[q].ready = item[q].ready
  BY DEF MoveOn, OnlyStep, Leave, TaskTypes

LEMMA StepHeld ==
  ASSUME TypeAndFlow, HeldInv, NEW p \in Procs, Step(p) \/ Fault(p)
  PROVE  HeldInv'
<1> TaskTypes /\ StoreTypes
  BY TypeParts
<1> USE DEF GenerationSteps, SendSteps
<1>1. CASE Begin(p)
  <2>1. CASE Taken(on[p])
    BY <1>1, <2>1, AfterTaskKnown, MoveOnFlow, MoveOnGoes, MoveOnItem, MoveHeld DEF Begin
  <2>2. CASE ~Taken(on[p])
    <3>1. \/ FirstStep(flow[p]) \in {"pending", "running"} /\ flow[p] \notin DeliverFlows
          \/ FirstStep(flow[p]) = "send" /\ flow[p] \in DeliverFlows
      BY <1>1 DEF Begin, TaskTypes, DecidedFlow, Deciding, FirstStep, RetryFlows, DeliverFlows
    <3> QED
      BY <1>1, <2>2, <3>1, MoveOnItem, MoveHeld DEF Begin, OnlyStep
  <2> QED
    BY <2>1, <2>2
<1>2. CASE UpsertPending(p) \/ SetRunning(p) \/ ScheduleRetry(p)
  <2>1. PICK step \in {"running", "generate", "finish"} : OnlyStep(p, step) /\ pc[p] \in GenerationSteps
    BY <1>2 DEF UpsertPending, SetRunning, ScheduleRetry
  <2> QED
    BY <2>1, MoveOnItem, MoveHeld DEF OnlyStep, HeldInv, FlowKinds
<1>3. CASE Generate(p) \/ SaveResult(p)
  <2>1. PICK step \in {"save", "reread", "schedule", "finish"} : Goto(p, step) /\ UNCHANGED <<on, flow>> /\ pc[p] \in GenerationSteps
    BY <1>3 DEF Generate, SaveResult
  <2>2. \A q \in Procs : item'[q].ready = item[q].ready
    BY <1>3 DEF Generate, SaveResult, TaskTypes, Item
  <2> QED
    BY <2>1, <2>2, MoveHeld DEF HeldInv, FlowKinds
<1>4. CASE Reread(p)
  <2>1. /\ \A q \in Procs : q # p => pc'[q] = pc[q] /\ item'[q] = item[q]
        /\ pc'[p] \in {"send", "finish"} /\ item'[p].ready = row[on[p]].ready
        /\ pc'[p] = "send" => Deliverable(on[p], row[on[p]].ready)
        /\ UNCHANGED <<on, flow>>
    BY <1>4 DEF Reread, Goto, TaskTypes, ItemOf
  <2> QED
    BY <2>1 DEF HeldInv, FlowKinds, HeldReady
<1>5. CASE Send(p) \/ MarkDelivered(p) \/ RecordDeliveryFailure(p)
  <2>1. PICK step \in {"recordOk", "recordFail", "finish"} : OnlyStep(p, step) /\ pc[p] \in SendSteps
    BY <1>5 DEF Send, MarkDelivered, RecordDeliveryFailure
  <2> QED
    BY <2>1, MoveOnItem, MoveHeld DEF OnlyStep
<1>6. CASE SetFailed(p) \/ Finish(p)
  <2>1. PICK step \in {"finish", "recFailed", "idle", "recStarted", "setFailed"} : MoveOn(p, step)
    BY <1>6, AfterTaskKnown DEF SetFailed, Finish
  <2> QED
    BY <2>1, MoveOnItem, MoveOnFlow, MoveOnGoes, MoveHeld
<1>7. CASE Fault(p)
  <2>1. PICK step \in {"finish", "abandon"} : Goto(p, step) /\ UNCHANGED <<on, flow, item>>
    BY <1>7 DEF Fault, DbError, RecordError, SettingsError, ErrorStep, OnlyStep
  <2> QED
    BY <2>1, MoveHeld
<1> QED
  BY <1>1, <1>2, <1>3, <1>4, <1>5, <1>6, <1>7 DEF Step

LEMMA LoopHeld ==
  ASSUME TypeAndFlow, HeldInv, NEW k \in Keys,
         \/ SchedRead(k) \/ SchedReadError(k) \/ HistoryRead(k) \/ RecoverRead(k) \/ RecoverStarted(k)
         \/ RecoverCheck(k) \/ MaintReadError(k) \/ MaintWriteError(k)
  PROVE  HeldInv'
<1> /\ TaskTypes /\ StoreTypes /\ Maint(k) \in Procs /\ Sched(k) \in Procs
    /\ on[Maint(k)] = k /\ on[Sched(k)] = k
  BY TypeParts, ProcFacts DEF TaskTypes
<1>1. ASSUME NEW p \in Procs, NEW f, NEW it, Decide(p, f, it),
             f = "schedDeliver" => p = Sched(on[p]), f = "histDeliver" => p = Maint(on[p]),
             f \in DeliverFlows => Deliverable(on[p], it.ready)
      PROVE  HeldInv'
  <2>1. /\ \A q \in Procs : q # p => pc'[q] = pc[q] /\ flow'[q] = flow[q] /\ item'[q] = item[q]
        /\ pc'[p] = "decided" /\ flow'[p] = f /\ item'[p] = it /\ UNCHANGED on
    BY <1>1 DEF Decide, Goto, TaskTypes
  <2> QED
    BY <1>1, <2>1 DEF HeldInv, FlowKinds, HeldReady, GenerationSteps, SendSteps
<1>2. CASE UNCHANGED taskVars
  BY <1>2 DEF taskVars, HeldInv, FlowKinds, HeldReady
<1>3. CASE SchedRead(k)
  <2>1. PICK day \in 0..MaxDay :
          LET f == ScheduledAction(k, row[k], day)
          IN  IF f = "none" THEN UNCHANGED taskVars
              ELSE Decide(Sched(k), f, IF f = "schedDeliver" THEN ItemOf(row[k]) ELSE NoItem)
    BY <1>3 DEF SchedRead
  <2>2. /\ ScheduledAction(k, row[k], day) \in {"none", "schedGenerate", "schedRetry", "schedDeliver"}
        /\ ScheduledAction(k, row[k], day) = "schedDeliver" => Deliverable(k, row[k].ready)
    BY DEF ScheduledAction, StoreTypes, Row, Status, Deliverable
  <2> QED
    BY <1>1, <1>2, <2>1, <2>2 DEF DeliverFlows, ItemOf
<1>4. CASE HistoryRead(k)
  BY <1>1, <1>2, <1>4 DEF HistoryRead, DeliverFlows, ItemOf
<1>5. CASE RecoverRead(k)
  BY <1>1, <1>2, <1>5 DEF RecoverRead, DeliverFlows
<1>6. CASE RecoverStarted(k) \/ RecoverCheck(k) \/ MaintWriteError(k)
  <2>1. PICK step \in {"setFailed", "recCheck", "idle"} :
          OnlyStep(Maint(k), step) \/ (step = "idle" /\ Leave(Maint(k)))
    BY <1>6 DEF RecoverStarted, RecoverCheck, MaintWriteError
  <2>2. Goto(Maint(k), step) /\ UNCHANGED on /\ (flow' = flow \/ flow' = [flow EXCEPT ![Maint(k)] = "none"])
    BY <2>1 DEF OnlyStep, Leave
  <2>3. \A q \in Procs : q # Maint(k) => item'[q].ready = item[q].ready
    BY <2>1 DEF OnlyStep, Leave, TaskTypes
  <2> QED
    BY <2>2, <2>3, MoveHeld DEF GenerationSteps, SendSteps
<1>7. CASE SchedReadError(k) \/ MaintReadError(k)
  BY <1>2, <1>7 DEF SchedReadError, MaintReadError
<1> QED
  BY <1>3, <1>4, <1>5, <1>6, <1>7

LEMMA OtherHeld ==
  ASSUME TypeAndFlow, HeldInv,
         \/ \E u \in Users, k \in Keys : RunNowAsync(u, k) \/ RetryDelivery(u, k)
         \/ SchedTick \/ MaintRecovery \/ MaintHistory \/ QueueFailedSummaries
         \/ TimePasses \/ Restart \/ UNCHANGED vars \/ \E k \in Keys : Elapse(k)
  PROVE  HeldInv'
<1> TaskTypes
  BY TypeParts
<1>1. ASSUME NEW u \in Users, NEW k \in Keys, RunNowAsync(u, k) \/ RetryDelivery(u, k)
      PROVE  HeldInv'
  <2> DEFINE p == <<"user", u>>
  <2> p \in Procs
    BY ProcFacts
  <2>1. /\ \A q \in Procs : q # p => pc'[q] = pc[q] /\ flow'[q] = flow[q] /\ item'[q] = item[q] /\ on'[q] = on[q]
        /\ \/ pc'[p] = "pending" /\ flow'[p] = "userGenerate"
           \/ pc'[p] = "decided" /\ flow'[p] = "userDeliver" /\ Deliverable(on'[p], item'[p].ready)
    BY <1>1 DEF RunNowAsync, RetryDelivery, Goto, TaskTypes, ItemOf
  <2> HIDE DEF p
  <2> QED
    BY <2>1 DEF HeldInv, FlowKinds, HeldReady, GenerationSteps, SendSteps, DeliverFlows
<1>2. CASE Restart
  BY <1>2 DEF Restart, HeldInv, FlowKinds, HeldReady, GenerationSteps, SendSteps
<1>3. CASE \/ SchedTick \/ MaintRecovery \/ MaintHistory \/ QueueFailedSummaries
           \/ TimePasses \/ UNCHANGED vars \/ \E k \in Keys : Elapse(k)
  <2>1. UNCHANGED taskVars
    BY <1>3 DEF SchedTick, MaintRecovery, MaintHistory, QueueFailedSummaries, TimePasses, vars, Elapse
  <2> QED
    BY <2>1 DEF taskVars, HeldInv, FlowKinds, HeldReady
<1> QED
  BY <1>1, <1>2, <1>3

LEMMA InitHeld == Init => HeldInv
  BY DEF Init, HeldInv, FlowKinds, HeldReady, GenerationSteps, SendSteps

LEMMA NextHeld == TypeAndFlow /\ HeldInv /\ [Next]_vars => HeldInv'
  BY StepHeld, LoopHeld, OtherHeld DEF Next

\* The text of a week or a month that was generated before its end is never sent:
\* not by the scheduler, not by the maintenance loop, not when a user asks for it,
\* and not when the row is generated anew between a decision and its message.
THEOREM NoPartialText == Spec => []PartialNeverSent
<1>1. TypeAndFlow /\ HeldInv /\ [Next]_vars => (TypeAndFlow /\ HeldInv)'
  BY NextTypes, NextHeld
<1>2. HeldInv => PartialNeverSent
  BY DEF HeldInv, HeldReady, PartialNeverSent, SendSteps, Deliverable
<1> QED
  BY InitTypes, InitHeld, <1>1, <1>2, PTL DEF Spec
-----------------------------------------------------------------------------
(* The number of failed deliveries.  A delivery of runOnce and one of the      *)
(* maintenance loop were both decided on a record that is stale by the time it *)
(* is counted, the first delivery of a new text starts from a record of zero.  *)

PaySteps   == {"decided", "send", "recordFail"}
FreshSteps == {"reread", "send", "recordFail"}

SchedPays(k) == flow[Sched(k)] = "schedDeliver" /\ pc[Sched(k)] \in PaySteps
MaintPays(k) == mjob[k] = "deliver" \/ (flow[Maint(k)] = "histDeliver" /\ pc[Maint(k)] \in PaySteps)
FirstDelivery(k) == \E p \in Procs : on[p] = k /\ flow[p] \notin DeliverFlows /\ pc[p] \in FreshSteps

DeliveryBudget ==
  \A k \in Keys :
    /\ row[k].dretry <= Limit + 2
    /\ SchedPays(k) \/ MaintPays(k) => row[k].dretry <= Limit + 1
    /\ SchedPays(k) /\ MaintPays(k) => row[k].dretry <= Limit
    /\ MaintPays(k) => Limit > 0
    /\ FirstDelivery(k) => row[k].dretry = 0

\* The budget holds after a step that counts nothing and decides nothing.
LEMMA NoNewDelivery ==
  ASSUME StoreTypes, StoreTypes', DeliveryBudget,
         \A k \in Keys : /\ row'[k].dretry <= row[k].dretry
                         /\ SchedPays(k)' => SchedPays(k)
                         /\ MaintPays(k)' => MaintPays(k)
                         /\ FirstDelivery(k)' => FirstDelivery(k) \/ row'[k].dretry = 0
  PROVE  DeliveryBudget'
<1>1. \A k \in Keys : row[k].dretry \in Nat /\ row'[k].dretry \in Nat
  BY DEF StoreTypes, Row
<1> QED
  BY <1>1, BoundsAssumption DEF DeliveryBudget

LEMMA MoveDelivery ==
  ASSUME TypeAndFlow, StoreTypes', DeliveryBudget, NEW p \in Procs, NEW step, Goto(p, step),
         UNCHANGED <<on, mjob>>,
         flow' = flow \/ (step \notin FreshSteps /\ flow' = [flow EXCEPT ![p] = "none"]),
         \A k \in Keys : row'[k].dretry <= row[k].dretry,
         step \in PaySteps => pc[p] \in PaySteps \/ flow[p] \notin DeliverFlows,
         step \in FreshSteps => pc[p] \in FreshSteps \/ flow[p] \in DeliverFlows \/ row'[on[p]].dretry = 0
  PROVE  DeliveryBudget'
<1> TaskTypes /\ StoreTypes
  BY TypeParts
<1>1. /\ \A q \in Procs : q # p => pc'[q] = pc[q] /\ flow'[q] = flow[q] /\ on'[q] = on[q]
      /\ pc'[p] = step /\ on'[p] = on[p] /\ (flow'[p] = flow[p] \/ (step \notin FreshSteps /\ flow'[p] = "none"))
  BY DEF TaskTypes, Goto
<1>2. ASSUME NEW k \in Keys PROVE (SchedPays(k)' => SchedPays(k)) /\ (MaintPays(k)' => MaintPays(k))
  BY <1>1, ProcFacts DEF SchedPays, MaintPays, DeliverFlows
<1>3. ASSUME NEW k \in Keys, FirstDelivery(k)' PROVE FirstDelivery(k) \/ row'[k].dretry = 0
  <2>1. PICK q \in Procs : on'[q] = k /\ flow'[q] \notin DeliverFlows /\ pc'[q] \in FreshSteps
    BY <1>3 DEF FirstDelivery
  <2> QED
    BY <1>1, <2>1 DEF FirstDelivery
<1> QED
  BY <1>2, <1>3, NoNewDelivery

LEMMA SameDeliveries ==
  ASSUME StoreTypes, UNCHANGED row
  PROVE  \A k \in Keys : row'[k].dretry <= row[k].dretry
  BY DEF StoreTypes, Row

LEMMA WriteDeliveries ==
  ASSUME StoreTypes, NEW k \in Keys, NEW r \in Row, r.dretry = row[k].dretry \/ r.dretry = 0,
         WriteRow(k, r) \/ UNCHANGED row
  PROVE  \A j \in Keys : row'[j].dretry <= row[j].dretry
<1>1. \A j \in Keys : row[j].dretry \in Nat
  BY DEF StoreTypes, Row
<1> QED
  BY <1>1 DEF StoreTypes, WriteRow

LEMMA MoveOnEnds ==
  ASSUME NEW p, NEW step, MoveOn(p, step) \/ OnlyStep(p, step)
  PROVE  /\ Goto(p, step) /\ UNCHANGED on
         /\ flow' = flow \/ (step \notin FreshSteps /\ flow' = [flow EXCEPT ![p] = "none"])
  BY DEF MoveOn, OnlyStep, Leave, FreshSteps

\* scheduleDeliveryRetry counts one failure, of the only flow inside the task.
LEMMA FailureCounted ==
  ASSUME TypeAndFlow, StoreTypes', TaskLock, RetryInv, FlowKinds, DeliveryBudget,
         NEW p \in Procs, RecordDeliveryFailure(p)
  PROVE  DeliveryBudget'
<1> TaskTypes /\ StoreTypes
  BY TypeParts
<1> PICK k \in Keys : k = on[p]
  BY DEF TaskTypes
<1>1. row[k] \in Row /\ row[k].dretry \in Nat /\ \A j \in Keys : row[j].dretry \in Nat
  BY DEF StoreTypes, Row
<1>2. pc[p] = "recordFail" /\ Goto(p, "finish") /\ UNCHANGED <<on, flow, mjob>>
  BY DEF RecordDeliveryFailure, OnlyStep, maintVars
<1>3. CASE flow[p] = "userDeliver"
  <2>1. [row[k] EXCEPT !.delivered = FALSE].dretry = row[k].dretry
    BY DEF Row
  <2>2. \A j \in Keys : row'[j].dretry <= row[j].dretry
    BY <1>1, <1>3, <2>1, RowUpdates, WriteDeliveries DEF RecordDeliveryFailure
  <2> QED
    BY <1>2, <2>2, MoveDelivery DEF FreshSteps, PaySteps
<1>4. CASE flow[p] # "userDeliver"
  <2>1. \A j \in Keys : row'[j].dretry = IF j = k THEN row[k].dretry + 1 ELSE row[j].dretry
    BY <1>4 DEF RecordDeliveryFailure, WriteRow, StoreTypes, Row
  <2>2. /\ \A q \in Procs : q # p => pc'[q] = pc[q] /\ flow'[q] = flow[q] /\ on'[q] = on[q]
        /\ pc'[p] = "finish"
    BY <1>2 DEF Goto, TaskTypes
  <2>3. ~FirstDelivery(k)'
    <3>1. \A q \in Procs : pc[q] \in FreshSteps /\ on[q] = k => q = p
      BY <1>2 DEF TaskLock, Holds, Holding, FreshSteps
    <3> QED
      BY <1>2, <2>2, <3>1 DEF FirstDelivery, FreshSteps
  <2>4. \A j \in Keys : FirstDelivery(j)' => FirstDelivery(j)
    BY <1>2, <2>2 DEF FirstDelivery, FreshSteps
  <2>5. \A j \in Keys \ {k} : (SchedPays(j)' <=> SchedPays(j)) /\ (MaintPays(j)' <=> MaintPays(j))
    <3>1. \A j \in Keys \ {k} : p # Sched(j) /\ p # Maint(j)
      BY DEF TaskTypes
    <3> QED
      BY <1>2, <2>2, <3>1, ProcFacts DEF SchedPays, MaintPays
  <2>6. /\ row[k].dretry + 1 <= Limit + 2
        /\ SchedPays(k)' \/ MaintPays(k)' => row[k].dretry + 1 <= Limit + 1
        /\ SchedPays(k)' /\ MaintPays(k)' => row[k].dretry + 1 <= Limit
        /\ MaintPays(k)' => Limit > 0
    <3>1. CASE flow[p] = "schedDeliver"
      <4>1. p = Sched(k)
        BY <3>1 DEF FlowKinds
      <4>2. SchedPays(k) /\ ~SchedPays(k)' /\ (MaintPays(k)' <=> MaintPays(k))
        BY <1>2, <2>2, <3>1, <4>1, ProcFacts DEF SchedPays, MaintPays, PaySteps
      <4> QED
        BY <1>1, <4>2, BoundsAssumption DEF DeliveryBudget
    <3>2. CASE flow[p] = "histDeliver"
      <4>1. p = Maint(k)
        BY <3>2 DEF FlowKinds
      <4>2. mjob[k] = "none"
        BY <1>2, <4>1 DEF RetryInv, RetryFacts
      <4>3. MaintPays(k) /\ ~MaintPays(k)' /\ (SchedPays(k)' <=> SchedPays(k))
        BY <1>2, <2>2, <3>2, <4>1, <4>2, ProcFacts DEF SchedPays, MaintPays, PaySteps
      <4> QED
        BY <1>1, <4>3, BoundsAssumption DEF DeliveryBudget
    <3>3. CASE flow[p] \notin DeliverFlows
      <4>1. row[k].dretry = 0
        BY <1>2, <3>3 DEF DeliveryBudget, FirstDelivery, FreshSteps
      <4>2. (SchedPays(k)' <=> SchedPays(k)) /\ (MaintPays(k)' <=> MaintPays(k))
        BY <1>2, <2>2, <3>3, ProcFacts DEF SchedPays, MaintPays, DeliverFlows
      <4> QED
        BY <4>1, <4>2, BoundsAssumption DEF DeliveryBudget
    <3> QED
      BY <1>4, <3>1, <3>2, <3>3 DEF DeliverFlows
  <2> QED
    BY <2>1, <2>3, <2>4, <2>5, <2>6 DEF DeliveryBudget
<1> QED
  BY <1>3, <1>4

LEMMA StepDelivery ==
  ASSUME TypeAndFlow, TaskLock, RetryInv, FlowKinds, DeliveryBudget, NEW p \in Procs, Step(p) \/ Fault(p)
  PROVE  DeliveryBudget'
<1> TaskTypes /\ StoreTypes /\ on[p] \in Keys /\ row[on[p]] \in Row
  BY TypeParts DEF TaskTypes, StoreTypes
<1> StoreTypes'
  BY TaskStepTypes, FaultTypes, TypeParts
<1> USE DEF maintVars, PaySteps, FreshSteps
<1>1. CASE Begin(p)
  <2>1. CASE Taken(on[p])
    BY <1>1, <2>1, SameDeliveries, AfterTaskKnown, MoveOnEnds, MoveDelivery DEF Begin
  <2>2. CASE ~Taken(on[p])
    <3>1. flow[p] \in Deciding /\ pc[p] = "decided"
      BY <1>1 DEF Begin, TaskTypes, DecidedFlow
    <3>2. FirstStep(flow[p]) \in {"pending", "running"} \/ (FirstStep(flow[p]) = "send" /\ flow[p] \in DeliverFlows)
      BY <3>1 DEF Deciding, FirstStep, RetryFlows, DeliverFlows
    <3> QED
      BY <1>1, <2>2, <3>1, <3>2, SameDeliveries, MoveDelivery DEF Begin, OnlyStep
  <2> QED
    BY <2>1, <2>2
<1>2. CASE UpsertPending(p)
  <2>1. \A k \in Keys : row'[k].dretry <= row[k].dretry
    BY <1>2, SameDeliveries, WriteDeliveries, RowUpdates DEF UpsertPending, NoRow
  <2> QED
    BY <1>2, <2>1, MoveDelivery DEF UpsertPending, OnlyStep
<1>3. CASE SetRunning(p)
  <2>1. \A k \in Keys : row'[k].dretry <= row[k].dretry
    BY <1>3 DEF SetRunning, WriteRow, StoreTypes, Row
  <2> QED
    BY <1>3, <2>1, MoveDelivery DEF SetRunning, OnlyStep
<1>4. CASE Generate(p)
  BY <1>4, SameDeliveries, MoveDelivery DEF Generate
<1>5. CASE SaveResult(p)
  <2>1. /\ row'[on[p]].dretry = 0
        /\ \A k \in Keys : row'[k].dretry <= row[k].dretry
    BY <1>5 DEF SaveResult, WriteRow, Saved, NoRow, StoreTypes, Row
  <2>2. PICK step \in {"reread", "schedule", "finish"} : Goto(p, step)
    BY <1>5 DEF SaveResult
  <2> QED
    BY <1>5, <2>1, <2>2, MoveDelivery DEF SaveResult
<1>6. CASE ScheduleRetry(p)
  <2>1. \A k \in Keys : row'[k].dretry <= row[k].dretry
    <3>1. [row[on[p]] EXCEPT !.next = "later"].dretry = row[on[p]].dretry
      BY DEF Row
    <3> QED
      BY <1>6, <3>1, SameDeliveries, WriteDeliveries, RowUpdates DEF ScheduleRetry
  <2> QED
    BY <1>6, <2>1, MoveDelivery DEF ScheduleRetry, OnlyStep
<1>7. CASE Reread(p)
  <2>1. flow[p] \notin DeliverFlows
    BY <1>7 DEF Reread, FlowKinds, GenerationSteps
  <2>2. PICK step \in {"send", "finish"} : Goto(p, step)
    BY <1>7 DEF Reread
  <2> QED
    BY <1>7, <2>1, <2>2, SameDeliveries, MoveDelivery DEF Reread
<1>8. CASE Send(p)
  <2>1. PICK step \in {"recordOk", "recordFail"} : OnlyStep(p, step)
    BY <1>8 DEF Send
  <2> QED
    BY <1>8, <2>1, SameDeliveries, MoveDelivery DEF Send, OnlyStep
<1>9. CASE MarkDelivered(p)
  <2>1. \A k \in Keys : row'[k].dretry <= row[k].dretry
    BY <1>9 DEF MarkDelivered, WriteRow, StoreTypes, Row
  <2> QED
    BY <1>9, <2>1, MoveDelivery DEF MarkDelivered, OnlyStep
<1>10. CASE RecordDeliveryFailure(p)
  BY <1>10, FailureCounted
<1>11. CASE SetFailed(p)
  <2>1. \A k \in Keys : row'[k].dretry <= row[k].dretry
    BY <1>11 DEF SetFailed, WriteRow, StoreTypes, Row
  <2>2. PICK step \in {"finish", "recFailed", "idle"} : MoveOn(p, step)
    BY <1>11 DEF SetFailed
  <2> QED
    BY <1>11, <2>1, <2>2, MoveOnEnds, MoveDelivery DEF SetFailed
<1>12. CASE Finish(p)
  BY <1>12, SameDeliveries, AfterTaskKnown, MoveOnEnds, MoveDelivery DEF Finish
<1>13. CASE Fault(p)
  <2>1. \A k \in Keys : row'[k].dretry <= row[k].dretry
    BY <1>13, SameDeliveries DEF Fault, DbError, RecordError, SettingsError, WriteRow, StoreTypes, Row
  <2>2. PICK step \in {"finish", "abandon"} : Goto(p, step) /\ UNCHANGED <<on, flow, mjob>>
    BY <1>13 DEF Fault, DbError, RecordError, SettingsError, ErrorStep, OnlyStep
  <2> QED
    BY <2>1, <2>2, MoveDelivery
<1> QED
  BY <1>1, <1>2, <1>3, <1>4, <1>5, <1>6, <1>7, <1>8, <1>9, <1>10, <1>11, <1>12, <1>13 DEF Step

\* runOnce decides to deliver a record of zero, or one within the limit.
LEMMA SchedDelivery ==
  ASSUME TypeAndFlow, DeliveryBudget, NEW k \in Keys, SchedRead(k) \/ SchedReadError(k)
  PROVE  DeliveryBudget'
<1> DEFINE p == Sched(k)
<1> TaskTypes /\ StoreTypes /\ p \in Procs
  BY TypeParts, ProcFacts
<1>1. UNCHANGED <<row, mjob>>
  BY DEF SchedRead, SchedReadError, maintVars
<1>2. CASE UNCHANGED taskVars
  BY <1>1, <1>2 DEF DeliveryBudget, SchedPays, MaintPays, FirstDelivery, taskVars
<1>3. CASE \E f \in Deciding : /\ \E it : Decide(p, f, it)
                               /\ f = "schedDeliver" => row[k].dretry = 0 \/ row[k].dretry <= Limit
  <2> PICK f \in Deciding : /\ \E it : Decide(p, f, it)
                            /\ f = "schedDeliver" => row[k].dretry = 0 \/ row[k].dretry <= Limit
    BY <1>3
  <2>1. PICK it : Decide(p, f, it)
    OBVIOUS
  <2>2. /\ \A q \in Procs : q # p => pc'[q] = pc[q] /\ flow'[q] = flow[q] /\ on'[q] = on[q]
        /\ pc'[p] = "decided" /\ flow'[p] = f
    BY <2>1 DEF Decide, Goto, TaskTypes
  <2>3. \A j \in Keys : (MaintPays(j)' <=> MaintPays(j)) /\ (FirstDelivery(j)' => FirstDelivery(j))
    BY <1>1, <2>2, ProcFacts DEF MaintPays, FirstDelivery, FreshSteps
  <2>4. \A j \in Keys : j # k => (SchedPays(j)' <=> SchedPays(j))
    BY <2>2, ProcFacts DEF SchedPays
  <2>5. SchedPays(k)' => row[k].dretry <= Limit
    BY <2>1, <2>2, BoundsAssumption DEF SchedPays
  <2> QED
    BY <1>1, <2>3, <2>4, <2>5, BoundsAssumption DEF DeliveryBudget, StoreTypes, Row
<1>4. CASE SchedRead(k)
  <2>1. PICK day \in 0..MaxDay :
          LET f == ScheduledAction(k, row[k], day)
          IN  IF f = "none" THEN UNCHANGED taskVars
              ELSE Decide(Sched(k), f, IF f = "schedDeliver" THEN ItemOf(row[k]) ELSE NoItem)
    BY <1>4 DEF SchedRead
  <2>2. /\ ScheduledAction(k, row[k], day) \in {"none"} \cup Deciding
        /\ ScheduledAction(k, row[k], day) = "schedDeliver" => row[k].dretry = 0 \/ row[k].dretry <= Limit
    BY DEF ScheduledAction, Deciding, DeliveryRetryDue, StoreTypes, Row, Status
  <2> QED
    BY <1>2, <1>3, <2>1, <2>2
<1>5. CASE SchedReadError(k)
  BY <1>2, <1>5 DEF SchedReadError
<1> QED
  BY <1>4, <1>5

\* A delivery of the maintenance loop was counted when its key was selected.
LEMMA MaintDelivery ==
  ASSUME TypeAndFlow, DeliveryBudget, NEW k \in Keys,
         \/ HistoryRead(k) \/ RecoverRead(k) \/ RecoverStarted(k) \/ RecoverCheck(k)
         \/ MaintReadError(k) \/ MaintWriteError(k)
  PROVE  DeliveryBudget'
<1> DEFINE p == Maint(k)
<1> TaskTypes /\ StoreTypes /\ p \in Procs
  BY TypeParts, ProcFacts
<1>1. StoreTypes' /\ UNCHANGED row
  BY MaintTypes, TypeParts
  DEF HistoryRead, RecoverRead, RecoverStarted, RecoverCheck, MaintReadError, MaintWriteError
<1>2. CASE UNCHANGED taskVars /\ mjob' = [mjob EXCEPT ![k] = "none"]
  BY <1>1, <1>2, SameDeliveries, NoNewDelivery DEF SchedPays, MaintPays, FirstDelivery, taskVars, StoreTypes
<1>3. ASSUME NEW f, NEW it, Decide(p, f, it), mjob' = [mjob EXCEPT ![k] = "none"],
             f = "histDeliver" => mjob[k] = "deliver"
      PROVE  DeliveryBudget'
  <2>1. /\ \A q \in Procs : q # p => pc'[q] = pc[q] /\ flow'[q] = flow[q] /\ on'[q] = on[q]
        /\ pc'[p] = "decided" /\ flow'[p] = f
    BY <1>3 DEF Decide, Goto, TaskTypes
  <2>2. \A j \in Keys : (SchedPays(j)' => SchedPays(j)) /\ (FirstDelivery(j)' => FirstDelivery(j))
    BY <2>1, ProcFacts DEF SchedPays, FirstDelivery, FreshSteps
  <2>3. \A j \in Keys : MaintPays(j)' => MaintPays(j)
    BY <1>3, <2>1, ProcFacts DEF MaintPays, StoreTypes
  <2> QED
    BY <1>1, <2>2, <2>3, SameDeliveries, NoNewDelivery
<1>4. CASE HistoryRead(k)
  BY <1>2, <1>3, <1>4 DEF HistoryRead
<1>5. CASE RecoverRead(k)
  BY <1>2, <1>3, <1>5 DEF RecoverRead
<1>6. CASE MaintReadError(k)
  BY <1>2, <1>6 DEF MaintReadError
<1>7. CASE RecoverStarted(k) \/ RecoverCheck(k) \/ MaintWriteError(k)
  <2>1. PICK step \in {"setFailed", "recCheck", "idle"} : MoveOn(p, step)
    BY <1>7 DEF RecoverStarted, RecoverCheck, MaintWriteError, MoveOn
  <2>2. UNCHANGED mjob
    BY <1>7 DEF RecoverStarted, RecoverCheck, MaintWriteError, maintVars
  <2> QED
    BY <1>1, <2>1, <2>2, SameDeliveries, MoveOnEnds, MoveDelivery DEF PaySteps, FreshSteps
<1> QED
  BY <1>4, <1>5, <1>6, <1>7

\* HistoricalRetries selects only deliveries that failed, and within the limit.
LEMMA SelectDelivery ==
  ASSUME TypeAndFlow, DeliveryBudget, MaintRecovery \/ MaintHistory
  PROVE  DeliveryBudget'
<1> StoreTypes
  BY TypeParts
<1>1. UNCHANGED <<row, taskVars>> /\ \A k \in Keys : pc[Maint(k)] = "idle"
  BY DEF MaintRecovery, MaintHistory, MaintIdle
<1>2. \A k \in Keys : mjob'[k] = "deliver" => row[k].dretry > 0 /\ row[k].dretry <= Limit
  BY DEF MaintRecovery, MaintHistory, Pick, Historical
<1>3. \A k \in Keys : /\ SchedPays(k)' <=> SchedPays(k)
                      /\ FirstDelivery(k)' <=> FirstDelivery(k)
                      /\ MaintPays(k)' => mjob'[k] = "deliver"
  BY <1>1 DEF SchedPays, FirstDelivery, MaintPays, PaySteps, taskVars
<1>4. \A k \in Keys : row[k].dretry \in Nat
  BY DEF StoreTypes, Row
<1> QED
  BY <1>1, <1>2, <1>3, <1>4, BoundsAssumption DEF DeliveryBudget

LEMMA OtherDelivery ==
  ASSUME TypeAndFlow, DeliveryBudget,
         \/ \E u \in Users, k \in Keys : RunNowAsync(u, k) \/ RetryDelivery(u, k)
         \/ SchedTick \/ QueueFailedSummaries \/ TimePasses \/ Restart \/ UNCHANGED vars
         \/ \E k \in Keys : Elapse(k)
  PROVE  DeliveryBudget'
<1> TaskTypes /\ StoreTypes
  BY TypeParts
<1>1. ASSUME NEW u \in Users, NEW k \in Keys, RunNowAsync(u, k) \/ RetryDelivery(u, k)
      PROVE  DeliveryBudget'
  <2> DEFINE p == <<"user", u>>
  <2> p \in Procs
    BY ProcFacts
  <2>1. UNCHANGED <<row, mjob>>
    BY <1>1 DEF RunNowAsync, RetryDelivery, maintVars
  <2>2. /\ \A q \in Procs : q # p => pc'[q] = pc[q] /\ flow'[q] = flow[q] /\ on'[q] = on[q]
        /\ pc'[p] \in {"pending", "decided"}
    BY <1>1 DEF RunNowAsync, RetryDelivery, Goto, TaskTypes
  <2>3. \A j \in Keys : p # Sched(j) /\ p # Maint(j)
    BY ProcFacts
  <2> HIDE DEF p
  <2>4. \A j \in Keys : /\ SchedPays(j)' <=> SchedPays(j)
                        /\ MaintPays(j)' <=> MaintPays(j)
                        /\ FirstDelivery(j)' => FirstDelivery(j)
    BY <2>1, <2>2, <2>3, ProcFacts DEF SchedPays, MaintPays, FirstDelivery, FreshSteps
  <2> QED
    BY <2>1, <2>4 DEF DeliveryBudget
<1>2. CASE Restart
  <2>1. \A k \in Keys : row'[k].dretry = row[k].dretry
    BY <1>2, ZenonT(30) DEF Restart, StoreTypes, Row
  <2>2. \A k \in Keys : ~SchedPays(k)' /\ ~MaintPays(k)' /\ ~FirstDelivery(k)'
    BY <1>2, ProcFacts DEF Restart, SchedPays, MaintPays, FirstDelivery, PaySteps, FreshSteps
  <2> QED
    BY <2>1, <2>2 DEF DeliveryBudget
<1>3. CASE UNCHANGED <<taskVars, mjob>> /\ \A k \in Keys : row'[k].dretry = row[k].dretry
  BY <1>3 DEF DeliveryBudget, SchedPays, MaintPays, FirstDelivery, taskVars
<1>4. CASE SchedTick \/ QueueFailedSummaries \/ TimePasses \/ UNCHANGED vars
  BY <1>3, <1>4 DEF SchedTick, QueueFailedSummaries, TimePasses, vars, maintVars
<1>5. CASE \E k \in Keys : Elapse(k)
  BY <1>3, <1>5, ElapseKeeps DEF Elapse, maintVars
<1> QED
  BY <1>1, <1>2, <1>4, <1>5

LEMMA InitDelivery == Init => DeliveryBudget
<1> SUFFICES ASSUME Init PROVE DeliveryBudget
  OBVIOUS
<1>1. \A k \in Keys : row[k].dretry = 0 /\ ~SchedPays(k) /\ ~MaintPays(k)
  BY ProcFacts DEF Init, NoRow, SchedPays, MaintPays, PaySteps
<1> QED
  BY <1>1, BoundsAssumption DEF DeliveryBudget

DeliveryInv == TypeAndFlow /\ TaskLock /\ RetryInv /\ HeldInv /\ DeliveryBudget

\* A first delivery and Limit retries may fail, and the one of the two loops that
\* decided on a stale record once more: however runOnce, the maintenance loop, the
\* requests, failing calls and restarts interleave, the count goes no further.
THEOREM DeliveriesBounded == Spec => []DeliveryOvershoot
<1>1. Init => DeliveryInv
  BY InitTypes, InitLock, InitRetry, InitHeld, InitDelivery DEF DeliveryInv
<1>2. DeliveryInv /\ [Next]_vars => DeliveryInv'
  <2>1. DeliveryInv /\ [Next]_vars => DeliveryBudget'
    BY StepDelivery, SchedDelivery, MaintDelivery, SelectDelivery, OtherDelivery DEF DeliveryInv, HeldInv, Next
  <2> QED
    BY <2>1, NextTypes, NextLock, NextRetry, NextHeld DEF DeliveryInv
<1>3. DeliveryInv => DeliveryOvershoot
  BY DEF DeliveryInv, DeliveryBudget, DeliveryOvershoot
<1> QED
  BY <1>1, <1>2, <1>3, PTL DEF Spec
=============================================================================
