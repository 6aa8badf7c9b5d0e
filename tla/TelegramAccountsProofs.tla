----------------------- MODULE TelegramAccountsProofs -----------------------
(***************************************************************************)
(* Theorems about TelegramAccounts, for any accounts, keys, requests and   *)
(* bounds: its types, that the listeners map is exact, and, while requests *)
(* are served one at a time, that no other process puts a row back after   *)
(* its deletion than the synchronisation of a missing account, and that    *)
(* only Telegram and another login of the account end a login.             *)
(***************************************************************************)
EXTENDS TelegramAccounts, FiniteSetTheorems, TLAPS

\* From its first call on a client has a key.
WithKey == {"read", "store", "call"}

\* A process at work is about an account, its client has a key; only a
\* goroutine that has been started is cancelled.
JobsSound ==
  /\ \A p \in Processes : Busy(p) => job[p].id \in Ids
  /\ \A p \in Processes : pc[p] \in WithKey => job[p].key \in Keys
  /\ \A s \in cancelled : Busy(s)

\* TypeOK in two parts: the stored state, and the processes.
StoredTypes ==
  /\ accounts \in [Ids -> Row] /\ nextId \in 1..(MaxId + 1)
  /\ made \subseteq Ids /\ strays \subseteq Ids /\ again \subseteq Ids
  /\ valid \subseteq Keys /\ pending \in Pending
  /\ overlap \in BOOLEAN
  /\ used \in [requests : Nat, revocations : Nat, faults : Nat]
ProcessTypes ==
  /\ listeners \in [Ids -> Routines \cup {None}] /\ cancelled \subseteq Routines
  /\ pc \in [Processes -> Steps] /\ job \in [Processes -> Job]

LEMMA TypeParts ==
  /\ TypeOK <=> StoredTypes /\ ProcessTypes
  /\ TypeOK' <=> StoredTypes' /\ ProcessTypes'
  BY DEF TypeOK, StoredTypes, ProcessTypes

\* Numbers of accounts, goroutines and requests are told apart by their sign.
LEMMA Names ==
  /\ None \notin Ids /\ None \notin Routines
  /\ \A s \in Routines : s \notin Requests /\ s \in Int /\ -s \in Ids
  /\ \A i \in Ids : -i \in Routines /\ i \in Nat /\ i # 0
  /\ Requests \subseteq Processes /\ Routines \subseteq Processes
  BY AccountsAssumption DEF None, Ids, Routines, Processes

-----------------------------------------------------------------------------
(* A key nobody holds, and a goroutine that is free, exist.                 *)

\* A set with a member for each element of a finite set is no larger.
LEMMA ImageBound ==
  ASSUME NEW S, IsFiniteSet(S), NEW f, DOMAIN f = S, f = [x \in S |-> f[x]]
  PROVE  /\ IsFiniteSet({f[x] : x \in S})
         /\ Cardinality({f[x] : x \in S}) \in Nat
         /\ Cardinality({f[x] : x \in S}) <= Cardinality(S)
<1> DEFINE T == {f[x] : x \in S}
<1>1. f \in [S -> T]
  OBVIOUS
<1>2. f \in Surjection(S, T)
  BY <1>1 DEF Surjection
<1> QED
  BY <1>2, FS_Surjection, FS_CardinalityType

LEMMA UnionBound ==
  ASSUME NEW S, NEW T, IsFiniteSet(S), IsFiniteSet(T)
  PROVE  /\ IsFiniteSet(S \cup T) /\ Cardinality(S \cup T) \in Nat
         /\ Cardinality(S \cup T) <= Cardinality(S) + Cardinality(T)
<1>1. /\ IsFiniteSet(S \cup T)
      /\ Cardinality(S \cup T) = Cardinality(S) + Cardinality(T) - Cardinality(S \cap T)
  BY FS_Union
<1>2. IsFiniteSet(S \cap T)
  BY FS_Subset
<1>3. /\ Cardinality(S \cap T) \in Nat /\ Cardinality(S \cup T) \in Nat
      /\ Cardinality(S) \in Nat /\ Cardinality(T) \in Nat
  BY <1>1, <1>2, FS_CardinalityType
<1> QED
  BY <1>1, <1>3

LEMMA ProcessCount ==
  /\ IsFiniteSet(Ids) /\ Cardinality(Ids) = MaxId
  /\ IsFiniteSet(Processes) /\ Cardinality(Processes) \in Nat
  /\ Cardinality(Processes) <= Cardinality(Requests) + MaxId
<1> DEFINE f == [i \in Ids |-> -i]
<1>1. IsFiniteSet(Ids) /\ Cardinality(Ids) = MaxId
  BY FS_Interval, AccountsAssumption DEF Ids
<1>2. Routines = {f[i] : i \in Ids}
  BY DEF Routines
<1>3. IsFiniteSet(Routines) /\ Cardinality(Routines) \in Nat /\ Cardinality(Routines) <= MaxId
  BY <1>1, <1>2, ImageBound
<1>4. Cardinality(Requests) \in Nat
  BY FS_CardinalityType, AccountsAssumption
<1> QED
  BY <1>1, <1>3, <1>4, UnionBound, AccountsAssumption DEF Processes

\* Each set of keys has a least member.
LEMMA LeastKey ==
  ASSUME NEW S, S \subseteq Nat, S # {}
  PROVE  \E k \in S : \A j \in S : k <= j
<1>1. PICK k \in S : \A j \in S : <<j, k>> \notin OpToRel(<, Nat)
  BY NatLessThanWellFounded, WFMin
<1>2. ASSUME NEW j \in S PROVE k <= j
  <2>1. j \in Nat /\ k \in Nat /\ ~(j < k)
    BY <1>1 DEF OpToRel
  <2> QED
    BY <2>1
<1> QED
  BY <1>2

\* A client without a session makes a key that no row and no process holds.
LEMMA FreshKeyType ==
  ASSUME TypeOK
  PROVE  FreshKey \in Keys /\ FreshKey \notin KeysHeld
<1> DEFINE A == {accounts[i].session : i \in Ids}
           B == {job[p].key : p \in Processes}
           C == {job[p].snap.session : p \in Processes}
           a == [i \in Ids |-> accounts[i].session]
           b == [p \in Processes |-> job[p].key]
           c == [p \in Processes |-> job[p].snap.session]
           n == Cardinality(Processes)
<1>1. A = {a[i] : i \in Ids} /\ B = {b[p] : p \in Processes} /\ C = {c[p] : p \in Processes}
  OBVIOUS
<1>2. /\ IsFiniteSet(A) /\ Cardinality(A) \in Nat /\ Cardinality(A) <= MaxId
      /\ IsFiniteSet(B) /\ Cardinality(B) \in Nat /\ Cardinality(B) <= n
      /\ IsFiniteSet(C) /\ Cardinality(C) \in Nat /\ Cardinality(C) <= n
  <2>1. IsFiniteSet(A) /\ Cardinality(A) \in Nat /\ Cardinality(A) <= MaxId
    <3> HIDE DEF a
    <3>1. DOMAIN a = Ids /\ a = [i \in Ids |-> a[i]]
      BY DEF a
    <3> HIDE DEF A
    <3>2. IsFiniteSet(A) /\ Cardinality(A) \in Nat /\ Cardinality(A) <= Cardinality(Ids)
      BY <1>1, <3>1, ImageBound, ProcessCount
    <3> QED
      BY <3>2, ProcessCount
  <2>2. IsFiniteSet(B) /\ Cardinality(B) \in Nat /\ Cardinality(B) <= n
    <3> HIDE DEF b
    <3>1. DOMAIN b = Processes /\ b = [p \in Processes |-> b[p]]
      BY DEF b
    <3> QED
      BY <1>1, <3>1, ImageBound, ProcessCount
  <2>3. IsFiniteSet(C) /\ Cardinality(C) \in Nat /\ Cardinality(C) <= n
    <3> HIDE DEF c
    <3>1. DOMAIN c = Processes /\ c = [p \in Processes |-> c[p]]
      BY DEF c
    <3> QED
      BY <1>1, <3>1, ImageBound, ProcessCount
  <2> QED
    BY <2>1, <2>2, <2>3
<1>3. IsFiniteSet(KeysHeld) /\ Cardinality(KeysHeld) \in Nat /\ Cardinality(KeysHeld) <= MaxId + n + n
  <2> HIDE DEF A, B, C, n
  <2>1. IsFiniteSet(A \cup B) /\ Cardinality(A \cup B) \in Nat /\ Cardinality(A \cup B) <= MaxId + n
    BY <1>2, UnionBound, ProcessCount, AccountsAssumption DEF n
  <2>2. /\ IsFiniteSet(A \cup B \cup C) /\ Cardinality(A \cup B \cup C) \in Nat
        /\ Cardinality(A \cup B \cup C) <= Cardinality(A \cup B) + Cardinality(C)
    BY <1>2, <2>1, UnionBound
  <2>3. KeysHeld = A \cup B \cup C
    BY DEF KeysHeld, A, B, C
  <2> QED
    BY <1>2, <2>1, <2>2, <2>3, ProcessCount, AccountsAssumption DEF n
<1>4. Cardinality(KeysHeld) < MaxKey
  <2>1. Cardinality(Requests) \in Nat
    BY FS_CardinalityType, AccountsAssumption
  <2> HIDE DEF n
  <2> QED
    BY <1>3, <2>1, ProcessCount, AccountsAssumption DEF n
<1>5. IsFiniteSet(Keys) /\ Cardinality(Keys) = MaxKey /\ Keys \subseteq Nat
  <2>1. MaxKey \in Nat /\ Keys = 1..MaxKey
    BY AccountsAssumption DEF Keys
  <2>2. IsFiniteSet(1..MaxKey) /\ Cardinality(1..MaxKey) = IF 1 > MaxKey THEN 0 ELSE MaxKey - 1 + 1
    BY <2>1, FS_Interval
  <2> QED
    BY <2>1, <2>2
<1>6. Keys \ KeysHeld # {}
  <2> SUFFICES ASSUME Keys \subseteq KeysHeld PROVE FALSE
    OBVIOUS
  <2>1. Cardinality(Keys) <= Cardinality(KeysHeld)
    BY <1>3, FS_Subset
  <2> QED
    BY <1>3, <1>4, <1>5, <2>1, AccountsAssumption
<1>7. \E k \in Keys \ KeysHeld : \A j \in Keys \ KeysHeld : k <= j
  BY <1>5, <1>6, LeastKey
<1> QED
  BY <1>7 DEF FreshKey

\* An account without a goroutine leaves one for it: the busy ones are about
\* different accounts.
LEMMA FreeRoutineType ==
  ASSUME TypeOK, ListenersExact, NEW id \in Ids, listeners[id] = None
  PROVE  FreeRoutine \in Routines /\ ~Busy(FreeRoutine)
<1> SUFFICES ASSUME \A s \in Routines : Busy(s) PROVE FALSE
  BY DEF FreeRoutine
<1> DEFINE f == [i \in Ids |-> job[-i].id]
<1>1. \A i \in Ids : f[i] \in Ids /\ listeners[f[i]] = -i
  BY Names DEF ListenersExact
<1>2. \A i \in Ids : f[i] # id
  BY <1>1, Names
<1>3. f \in [Ids -> Ids \ {id}]
  BY <1>1, <1>2
<1>4. IsFiniteSet(Ids \ {id}) /\ Cardinality(Ids \ {id}) < Cardinality(Ids)
  <2>1. Cardinality(Ids \ {id}) = Cardinality(Ids) - 1 /\ IsFiniteSet(Ids \ {id})
    BY ProcessCount, FS_RemoveElement
  <2> QED
    BY <2>1, ProcessCount, AccountsAssumption
<1>5. PICK i \in Ids, j \in Ids : i # j /\ f[i] = f[j]
  <2> HIDE DEF f
  <2> QED
    BY <1>3, <1>4, ProcessCount, FS_PigeonHole
<1>6. -i = -j
  BY <1>1, <1>5
<1> QED
  BY <1>5, <1>6, Names

-----------------------------------------------------------------------------
(* The shape of a step: of the processes it moves one at most, but for the  *)
(* start of a goroutine and a restart.                                      *)

\* p has moved, alone, and is about an account unless it is idle.
Moves(p) ==
  /\ pc' = [pc EXCEPT ![p] = pc'[p]] /\ pc'[p] \in Steps
  /\ job' = [job EXCEPT ![p] = job'[p]] /\ job'[p] \in Job
  /\ pc'[p] # "idle" => job'[p].id \in Ids
  /\ pc'[p] \in WithKey => job'[p].key \in Keys

\* A goroutine stays with its account until it has ended.
Stays(p) == p \in Routines => pc'[p] # "idle" /\ job'[p].id = job[p].id

LEMMA RowTypes ==
  /\ NoRow \in Row
  /\ \A row \in Row : /\ LoggedOut(row) \in Row /\ Authorized(row) \in Row
                      /\ \A st \in Statuses, k \in 0..MaxKey : [row EXCEPT !.status = st, !.session = k] \in Row
                      /\ \A k \in 0..MaxKey : [row EXCEPT !.session = k] \in Row
                      /\ \A st \in Statuses : [row EXCEPT !.status = st] \in Row
<1>1. NoRow \in Row
  BY AccountsAssumption DEF NoRow, Row, Statuses
<1>2. ASSUME NEW row \in Row
      PROVE  /\ LoggedOut(row) \in Row /\ Authorized(row) \in Row
             /\ \A st \in Statuses, k \in 0..MaxKey : [row EXCEPT !.status = st, !.session = k] \in Row
             /\ \A k \in 0..MaxKey : [row EXCEPT !.session = k] \in Row
             /\ \A st \in Statuses : [row EXCEPT !.status = st] \in Row
  <2>1. \A st \in Statuses, k \in 0..MaxKey : [row EXCEPT !.status = st, !.session = k] \in Row
    BY DEF Row
  <2>2. \A st \in Statuses, u \in BOOLEAN : [row EXCEPT !.status = st, !.user = u] \in Row
    BY DEF Row
  <2>3. /\ \A k \in 0..MaxKey : [row EXCEPT !.session = k] \in Row
        /\ \A st \in Statuses : [row EXCEPT !.status = st] \in Row
    BY DEF Row
  <2>4. "logged_out" \in Statuses /\ "authorized" \in Statuses /\ 0 \in 0..MaxKey
    BY AccountsAssumption DEF Statuses
  <2> QED
    BY <2>1, <2>2, <2>3, <2>4 DEF LoggedOut, Authorized
<1> QED
  BY <1>1, <1>2

LEMMA BegunTypes ==
  /\ \A op \in Operations, id \in Ids :
       Begun(op, id) \in Job /\ Begun(op, id).id = id /\ Begun(op, id).op = op
  /\ NoJob \in Job
<1>1. \A op \in Operations, id \in 0..MaxId :
       Begun(op, id) \in Job /\ Begun(op, id).id = id /\ Begun(op, id).op = op
  <2>1. 0 \in 0..MaxKey
    BY AccountsAssumption
  <2>2. NoRow \in Row
    BY RowTypes
  <2> QED
    BY <2>1, <2>2 DEF Begun, Job
<1>2. NoJob \in Job
  BY <1>1, AccountsAssumption DEF NoJob, Operations
<1> QED
  BY <1>1, <1>2 DEF Ids

\* The updates of a process's local variables keep its account.
LEMMA JobTypes ==
  ASSUME NEW j \in Job
  PROVE  /\ \A k \in 0..MaxKey : [j EXCEPT !.key = k] \in Job /\ [j EXCEPT !.key = k].id = j.id
         /\ \A row \in Row : /\ [j EXCEPT !.snap = row] \in Job /\ [j EXCEPT !.snap = row].id = j.id
                            /\ [j EXCEPT !.snap = row].key = j.key
         /\ \A row \in Row : [j EXCEPT !.copy = row] \in Job /\ [j EXCEPT !.copy = row].id = j.id
         /\ [j EXCEPT !.created = TRUE] \in Job /\ [j EXCEPT !.created = TRUE].id = j.id
         /\ j.id \in 0..MaxId /\ j.key \in 0..MaxKey /\ j.snap \in Row /\ j.copy \in Row
  BY DEF Job

\* What the statements on the table make of it.
LEMMA StatementTypes ==
  ASSUME TypeOK
  PROVE  /\ \A row \in Row : Insert(row) => /\ accounts' \in [Ids -> Row] /\ nextId' \in 1..(MaxId + 1)
                                           /\ nextId \in Ids
         /\ \A row \in Row, id \in Ids : Save(id, row) =>
              accounts' \in [Ids -> Row] /\ nextId' \in 1..(MaxId + 1) /\ made' \subseteq Ids /\ again' \subseteq Ids
         /\ \A row \in Row, id \in Ids : Save(id, row) /\ ~Exists(id) => nextId \in Ids
         /\ \A id \in Ids : Delete(id) =>
              accounts' \in [Ids -> Row] /\ nextId' \in 1..(MaxId + 1) /\ made' \subseteq Ids /\ again' \subseteq Ids
<1>1. ASSUME NEW row \in Row, Insert(row)
      PROVE  accounts' \in [Ids -> Row] /\ nextId' \in 1..(MaxId + 1) /\ nextId \in Ids
  BY <1>1, AccountsAssumption DEF Insert, TypeOK, Ids
<1>2. ASSUME NEW row \in Row, NEW id \in Ids, Save(id, row)
      PROVE  accounts' \in [Ids -> Row] /\ nextId' \in 1..(MaxId + 1) /\ made' \subseteq Ids /\ again' \subseteq Ids
  BY <1>1, <1>2 DEF Save, TypeOK
<1>3. ASSUME NEW row \in Row, NEW id \in Ids, Save(id, row), ~Exists(id)
      PROVE  nextId \in Ids
  BY <1>1, <1>3 DEF Save
<1>4. ASSUME NEW id \in Ids, Delete(id)
      PROVE  accounts' \in [Ids -> Row] /\ nextId' \in 1..(MaxId + 1) /\ made' \subseteq Ids /\ again' \subseteq Ids
  BY <1>4, RowTypes DEF Delete, TypeOK
<1> QED
  BY <1>1, <1>2, <1>3, <1>4

LEMMA EventTypes ==
  ASSUME TypeOK
  PROVE  /\ \A q \in Requests : Arrive(q) => /\ used' \in [requests : Nat, revocations : Nat, faults : Nat]
                                            /\ overlap' \in BOOLEAN
         /\ \A what \in {"revocations", "faults"} :
              Event(what) => used' \in [requests : Nat, revocations : Nat, faults : Nat]
<1>1. ASSUME NEW q \in Requests, Arrive(q)
      PROVE  used' \in [requests : Nat, revocations : Nat, faults : Nat] /\ overlap' \in BOOLEAN
  BY <1>1 DEF Arrive, TypeOK
<1>2. ASSUME NEW what \in {"revocations", "faults"}, Event(what)
      PROVE  used' \in [requests : Nat, revocations : Nat, faults : Nat]
  BY <1>2 DEF Event, TypeOK
<1> QED
  BY <1>1, <1>2

\* A request arrives.
LEMMA RequestShape ==
  ASSUME TypeOK, NEW q \in Requests, Request(q)
  PROVE  Moves(q) /\ StoredTypes' /\ UNCHANGED <<listeners, cancelled>>
<1> TypeOK /\ q \in Processes /\ q \notin Routines
  BY Names
<1> USE DEF Operations, Steps, WithKey
<1>1. CASE StartNew(q)
  <2>1. [NoRow EXCEPT !.status = "authorizing"] \in Row
    BY RowTypes DEF Statuses
  <2>2. nextId \in Ids /\ accounts' \in [Ids -> Row] /\ nextId' \in 1..(MaxId + 1)
    BY <1>1, <2>1, StatementTypes DEF StartNew
  <2>3. /\ [Begun("start", nextId) EXCEPT !.created = TRUE] \in Job
        /\ [Begun("start", nextId) EXCEPT !.created = TRUE].id \in Ids
    BY <2>2, BegunTypes, JobTypes
  <2>4. Moves(q)
    BY <1>1, <2>3 DEF StartNew, Moves, Goto, TypeOK
  <2> QED
    BY <1>1, <2>2, <2>4, EventTypes DEF StartNew, StoredTypes, TypeOK
<1>2. CASE CancelPendingAuth(q)
  <2>1. pending.id \in Ids
    BY <1>2 DEF CancelPendingAuth, TypeOK, Pending
  <2>2. Begun("cancel", pending.id) \in Job /\ Begun("cancel", pending.id).id \in Ids
    BY <2>1, BegunTypes
  <2>3. Moves(q)
    BY <1>2, <2>2 DEF CancelPendingAuth, Moves, Goto, TypeOK
  <2> QED
    BY <1>2, <2>3, EventTypes DEF CancelPendingAuth, StoredTypes, TypeOK, table, history, Pending
<1>3. ASSUME NEW step \in {"code", "password"}, Verify(q, step) PROVE Moves(q) /\ StoredTypes' /\ UNCHANGED <<listeners, cancelled>>
  <2>1. pending.id \in Ids
    BY <1>3 DEF Verify, TypeOK, Pending, NoPending
  <2>2. Begun(step, pending.id) \in Job /\ Begun(step, pending.id).id \in Ids
    BY <2>1, BegunTypes
  <2>3. Moves(q)
    BY <1>3, <2>2 DEF Verify, Moves, Goto, TypeOK
  <2> QED
    BY <1>3, <2>3, EventTypes DEF Verify, StoredTypes, TypeOK, table, history
<1>4. ASSUME NEW id \in Ids, StartAgain(q, id) PROVE Moves(q) /\ StoredTypes' /\ UNCHANGED <<listeners, cancelled>>
  <2> DEFINE row == [accounts[id] EXCEPT !.status = "authorizing", !.session = 0]
             j == [Begun("start", id) EXCEPT !.copy = row]
  <2>1. accounts[id] \in Row /\ "authorizing" \in Statuses /\ 0 \in 0..MaxKey
    BY AccountsAssumption DEF TypeOK, Statuses
  <2>2. row \in Row
    BY <2>1, RowTypes
  <2>3. j \in Job /\ j.id \in Ids
    <3> HIDE DEF row
    <3>1. Begun("start", id) \in Job /\ Begun("start", id).id = id
      BY BegunTypes
    <3> QED
      BY <2>2, <3>1, JobTypes
  <2>4. job' = [job EXCEPT ![q] = j] /\ pc' = [pc EXCEPT ![q] = "prepare"] /\ UNCHANGED <<listeners, cancelled>>
    BY <1>4 DEF StartAgain, Goto
  <2>5. Moves(q)
    <3> HIDE DEF j
    <3> QED
      BY <2>3, <2>4 DEF Moves, TypeOK
  <2> QED
    BY <1>4, <2>5, EventTypes DEF StartAgain, StoredTypes, TypeOK, table, history
<1>5. ASSUME NEW id \in Ids, SyncChats(q, id) \/ DeleteAccount(q, id) PROVE Moves(q) /\ StoredTypes' /\ UNCHANGED <<listeners, cancelled>>
  <2>1. \A op \in Operations : Begun(op, id) \in Job /\ Begun(op, id).id \in Ids
    BY BegunTypes
  <2>2. Moves(q)
    BY <1>5, <2>1 DEF SyncChats, DeleteAccount, Moves, Goto, TypeOK
  <2> QED
    BY <1>5, <2>2, EventTypes DEF SyncChats, DeleteAccount, StoredTypes, TypeOK, table, history
<1> QED
  BY <1>1, <1>2, <1>3, <1>4, <1>5 DEF Request

\* A process at work.
LEMMA BusyFacts ==
  ASSUME TypeOK, JobsSound, NEW p \in Processes, Busy(p)
  PROVE  /\ job[p] \in Job /\ job[p].id \in Ids /\ accounts[job[p].id] \in Row
         /\ job[p].key \in 0..MaxKey /\ job[p].snap \in Row /\ job[p].copy \in Row
<1>1. job[p] \in Job /\ job[p].id \in Ids
  BY DEF JobsSound, TypeOK
<1>2. accounts[job[p].id] \in Row
  BY <1>1 DEF TypeOK
<1> QED
  BY <1>1, <1>2, JobTypes

\* A request or goroutine goes on at one place, with the local variables j.
LEMMA GoOn ==
  ASSUME TypeOK, JobsSound, NEW p \in Processes, Busy(p), NEW step \in Steps \ {"idle"}, Goto(p, step),
         NEW j \in Job, j.id = job[p].id, job' = [job EXCEPT ![p] = j], step \in WithKey => j.key \in Keys
  PROVE  Moves(p) /\ Stays(p) /\ pc'[p] = step /\ job'[p] = j
  BY BusyFacts DEF Moves, Stays, Goto, TypeOK, Busy

LEMMA GoOnAlone ==
  ASSUME TypeOK, JobsSound, NEW p \in Processes, Busy(p), NEW step \in Steps \ {"idle"}, Goto(p, step),
         UNCHANGED job, step \in WithKey => job[p].key \in Keys
  PROVE  Moves(p) /\ Stays(p) /\ pc'[p] = step /\ job'[p] = job[p]
  BY BusyFacts DEF Moves, Stays, Goto, TypeOK, Busy

\* It goes on with a row it has read.
LEMMA GoOnWithRow ==
  ASSUME TypeOK, JobsSound, NEW p \in Processes, Busy(p), NEW step \in Steps \ {"idle"}, Goto(p, step),
         NEW row \in Row, job' = [job EXCEPT ![p].snap = row], step \in WithKey => job[p].key \in Keys
  PROVE  Moves(p) /\ Stays(p) /\ pc'[p] = step /\ job'[p] = [job[p] EXCEPT !.snap = row]
<1> DEFINE j == [job[p] EXCEPT !.snap = row]
<1>1. j \in Job /\ j.id = job[p].id /\ j.key = job[p].key
  BY BusyFacts, JobTypes
<1>2. job' = [job EXCEPT ![p] = j]
  BY DEF TypeOK
<1> HIDE DEF j
<1>3. Moves(p) /\ Stays(p) /\ pc'[p] = step /\ job'[p] = j
  BY <1>1, <1>2, GoOn
<1> QED
  BY <1>3 DEF j

LEMMA StepNames ==
  /\ "logout" \in Steps \ {"idle"} /\ "logout" \notin WithKey
  /\ "persist" \in Steps \ {"idle"} /\ "persist" \notin WithKey
  /\ "load" \in Steps \ {"idle"} /\ "load" \notin WithKey
  BY DEF Steps, WithKey

LEMMA Returns ==
  ASSUME TypeOK, JobsSound, NEW p \in Processes, Busy(p), Return(p)
  PROVE  /\ Moves(p) /\ Stays(p)
         /\ IF p \in Routines THEN pc'[p] = "end" /\ job'[p] = job[p] ELSE pc'[p] = "idle" /\ job'[p] = NoJob
<1>1. CASE p \in Routines
  BY <1>1, GoOnAlone DEF WithKey, Return, Steps
<1>2. CASE p \notin Routines
  BY <1>2, BegunTypes DEF Return, Moves, Stays, Goto, TypeOK, Steps, WithKey
<1> QED
  BY <1>1, <1>2

LEMMA ClientShape ==
  ASSUME TypeOK, JobsSound, NEW p \in Processes, Client(p)
  PROVE  Moves(p) /\ Stays(p) /\ StoredTypes' /\ UNCHANGED <<listeners, cancelled>>
<1> DEFINE Goal == Moves(p) /\ Stays(p) /\ StoredTypes' /\ UNCHANGED <<listeners, cancelled>>
<1> StoredTypes
  BY TypeParts
<1>1. Busy(p)
  BY DEF Client, LoadSession, StoreSessionRead, StoreSessionSave, StatusUnauthorized, LogoutRead, LogoutSave, At, Busy
<1>2. /\ job[p] \in Job /\ job[p].id \in Ids /\ accounts[job[p].id] \in Row
      /\ job[p].key \in 0..MaxKey /\ job[p].snap \in Row
      /\ pc[p] \in WithKey => job[p].key \in Keys
  BY <1>1, BusyFacts DEF JobsSound
<1>3. CASE LoadSession(p)
  <2> DEFINE stored == accounts[job[p].id].session
             k == IF stored # 0 THEN stored ELSE FreshKey
  <2>1. k \in Keys
    BY <1>2, FreshKeyType DEF Row, Keys
  <2>2. /\ job' = [job EXCEPT ![p] = [job[p] EXCEPT !.key = k]] /\ Goto(p, "read")
        /\ UNCHANGED <<table, pending, listeners, cancelled, overlap, used>>
        /\ valid' \subseteq valid
    BY <1>3, <1>2 DEF LoadSession, TypeOK
  <2>3. /\ [job[p] EXCEPT !.key = k] \in Job /\ [job[p] EXCEPT !.key = k].id = job[p].id
        /\ [job[p] EXCEPT !.key = k].key = k
    <3> HIDE DEF k
    <3>1. k \in 0..MaxKey
      BY <2>1, AccountsAssumption DEF Keys
    <3> QED
      BY <1>2, <3>1, JobTypes DEF Job
  <2> HIDE DEF k
  <2>4. Moves(p) /\ Stays(p)
    BY <1>1, <2>1, <2>2, <2>3, GoOn DEF WithKey, Steps
  <2> QED
    BY <2>2, <2>4 DEF StoredTypes, table, history
<1>4. CASE StoreSessionRead(p)
  <2>1. Moves(p) /\ Stays(p)
    BY <1>1, <1>2, <1>4, GoOnWithRow DEF WithKey, At, StoreSessionRead, Steps
  <2> QED
    BY <1>4, <2>1 DEF StoreSessionRead, StoredTypes, table, history
<1>5. CASE StoreSessionSave(p)
  <2> DEFINE snap == job[p].snap
             row == IF snap.status = "none" THEN [NoRow EXCEPT !.status = "logged_in"] ELSE snap
  <2>1. row \in Row /\ [row EXCEPT !.session = job[p].key] \in Row
    <3>1. row \in Row
      BY <1>2, RowTypes DEF Statuses
    <3> HIDE DEF row
    <3> QED
      BY <1>2, <3>1, RowTypes
  <2>2. Save(job[p].id, [row EXCEPT !.session = job[p].key])
    BY <1>5 DEF StoreSessionSave
  <2>3. Moves(p) /\ Stays(p)
    BY <1>1, <1>2, <1>5, RowTypes, GoOnWithRow DEF WithKey, At, StoreSessionSave, Steps
  <2> HIDE DEF row
  <2>4. accounts' \in [Ids -> Row] /\ nextId' \in 1..(MaxId + 1) /\ made' \subseteq Ids /\ again' \subseteq Ids
    BY <1>2, <2>1, <2>2, StatementTypes
  <2>5. strays' \subseteq Ids
    BY <1>2, <1>5, <2>1, <2>2, StatementTypes DEF StoreSessionSave, TypeOK
  <2> QED
    BY <1>5, <2>3, <2>4, <2>5 DEF StoreSessionSave, StoredTypes
<1>6. CASE StatusUnauthorized(p)
  <2>1. Moves(p) /\ Stays(p)
    BY <1>1, <1>6, GoOnAlone DEF WithKey, StatusUnauthorized, Steps
  <2> QED
    BY <1>6, <2>1 DEF StatusUnauthorized, StoredTypes, table, history
<1>7. CASE LogoutRead(p)
  <2>1. Moves(p) /\ Stays(p)
    <3>1. CASE Exists(job[p].id)
      BY <1>1, <1>2, <1>7, <3>1, StepNames, GoOnWithRow DEF LogoutRead
    <3>2. CASE ~Exists(job[p].id)
      BY <1>1, <1>7, <3>2, Returns DEF LogoutRead
    <3> QED
      BY <3>1, <3>2
  <2> QED
    BY <1>7, <2>1 DEF LogoutRead, StoredTypes, table, history
<1>8. CASE LogoutSave(p)
  <2>1. Moves(p) /\ Stays(p)
    BY <1>1, <1>8, Returns DEF LogoutSave
  <2>2. LoggedOut(job[p].snap) \in Row
    BY <1>2, RowTypes
  <2>3. accounts' \in [Ids -> Row] /\ nextId' \in 1..(MaxId + 1) /\ made' \subseteq Ids /\ again' \subseteq Ids
    BY <1>2, <1>8, <2>2, StatementTypes DEF LogoutSave
  <2> QED
    BY <1>8, <2>1, <2>3 DEF LogoutSave, StoredTypes
<1> QED
  BY <1>3, <1>4, <1>5, <1>6, <1>7, <1>8 DEF Client

\* The operations that serve a request, but for the end of a synchronisation.
LEMMA ServeShape ==
  ASSUME TypeOK, JobsSound, NEW q \in Requests,
         \/ Prepare(q) \/ SendCode(q) \/ Cleanup(q) \/ SignIn(q) \/ PasswordNeeded(q) \/ Refused(q)
         \/ PersistRead(q) \/ PersistSave(q) \/ FinishAuth(q) \/ DiscardRead(q) \/ StopAccount(q)
         \/ CancelAuth(q) \/ DeleteRow(q)
  PROVE  Moves(q) /\ StoredTypes' /\ UNCHANGED listeners /\ cancelled' \subseteq cancelled \cup ({listeners[job[q].id]} \ {None})
<1> TypeOK /\ q \in Processes /\ q \notin Routines /\ StoredTypes
  BY Names, TypeParts
<1>1. Busy(q)
  BY DEF Prepare, SendCode, Cleanup, SignIn, PasswordNeeded, Refused, PersistRead, PersistSave,
         FinishAuth, DiscardRead, StopAccount, CancelAuth, DeleteRow, At, Busy
<1>2. /\ job[q] \in Job /\ job[q].id \in Ids /\ accounts[job[q].id] \in Row
      /\ job[q].key \in 0..MaxKey /\ job[q].snap \in Row /\ job[q].copy \in Row
  BY <1>1, BusyFacts
<1>3. cancelled' \subseteq cancelled \cup ({listeners[job[q].id]} \ {None}) /\ UNCHANGED listeners
  <2>1. \A s \in cancelled : s # None
    BY Names DEF TypeOK
  <2> QED
    BY <2>1 DEF Prepare, SendCode, Cleanup, SignIn, PasswordNeeded, Refused, PersistRead, PersistSave,
         FinishAuth, DiscardRead, StopAccount, CancelAuth, DeleteRow
<1>4. CASE Prepare(q)
  <2>1. Moves(q)
    BY <1>1, <1>4, GoOnAlone DEF WithKey, Prepare, Steps
  <2>2. accounts' \in [Ids -> Row] /\ nextId' \in 1..(MaxId + 1) /\ made' \subseteq Ids /\ again' \subseteq Ids
    BY <1>2, <1>4, StatementTypes DEF Prepare
  <2> QED
    BY <1>3, <1>4, <2>1, <2>2 DEF Prepare, StoredTypes
<1>5. CASE SendCode(q) \/ PasswordNeeded(q)
  <2>1. Moves(q)
    BY <1>1, <1>5, Returns DEF SendCode, PasswordNeeded
  <2>2. pending' \in Pending
    BY <1>2, <1>5 DEF SendCode, PasswordNeeded, Pending
  <2> QED
    BY <1>3, <1>5, <2>1, <2>2 DEF SendCode, PasswordNeeded, StoredTypes, table, history
<1>6. CASE Cleanup(q)
  <2>1. Moves(q)
    BY <1>1, <1>6, Returns DEF Cleanup
  <2>2. LoggedOut(job[q].copy) \in Row
    BY <1>2, RowTypes
  <2>3. accounts' \in [Ids -> Row] /\ nextId' \in 1..(MaxId + 1) /\ made' \subseteq Ids /\ again' \subseteq Ids
    BY <1>2, <1>6, <2>2, StatementTypes DEF Cleanup
  <2> QED
    BY <1>3, <1>6, <2>1, <2>3 DEF Cleanup, StoredTypes
<1>7. CASE SignIn(q)
  <2>1. Moves(q)
    BY <1>1, <1>7, GoOnAlone DEF WithKey, SignIn, Steps
  <2>2. job[q].key \in Keys
    BY <1>7 DEF SignIn, At, JobsSound, WithKey
  <2> QED
    BY <1>3, <1>7, <2>1, <2>2 DEF SignIn, StoredTypes, table, history
<1>8. CASE Refused(q)
  <2>1. Moves(q)
    BY <1>1, <1>8, GoOnAlone, Returns DEF Refused, WithKey, Steps
  <2> QED
    BY <1>3, <1>8, <2>1 DEF Refused, StoredTypes, table, history
<1>9. CASE PersistRead(q)
  <2>1. Moves(q)
    BY <1>1, <1>2, <1>9, StepNames, GoOnWithRow DEF PersistRead
  <2> QED
    BY <1>3, <1>9, <2>1 DEF PersistRead, StoredTypes, table, history
<1>10. CASE PersistSave(q)
  <2>1. Moves(q)
    BY <1>1, <1>10, GoOnAlone DEF WithKey, PersistSave, Steps
  <2>2. Authorized(job[q].snap) \in Row
    BY <1>2, RowTypes
  <2>3. accounts' \in [Ids -> Row] /\ nextId' \in 1..(MaxId + 1) /\ made' \subseteq Ids /\ again' \subseteq Ids
    BY <1>2, <1>10, <2>2, StatementTypes DEF PersistSave
  <2> QED
    BY <1>3, <1>10, <2>1, <2>3 DEF PersistSave, StoredTypes
<1>11. CASE FinishAuth(q)
  <2>1. Begun("finish", job[q].id) \in Job /\ Begun("finish", job[q].id).id = job[q].id
    BY <1>2, BegunTypes DEF Operations
  <2>2. job' = [job EXCEPT ![q] = Begun("finish", job[q].id)] /\ Goto(q, "load")
    BY <1>11 DEF FinishAuth, TypeOK
  <2>3. Moves(q)
    BY <1>1, <2>1, <2>2, StepNames, GoOn
  <2> QED
    BY <1>3, <1>11, <2>3 DEF FinishAuth, StoredTypes, table, history, Pending
<1>12. CASE DiscardRead(q)
  <2>1. CASE Return(q)
    BY <1>1, <1>3, <1>12, <2>1, Returns DEF DiscardRead, StoredTypes, table, history
  <2>2. CASE Goto(q, "delete") /\ UNCHANGED job
    <3>1. Moves(q)
      BY <1>1, <2>2, GoOnAlone DEF WithKey, Steps
    <3> QED
      BY <1>3, <1>12, <3>1 DEF DiscardRead, StoredTypes, table, history
  <2>3. CASE job' = [job EXCEPT ![q].snap = accounts[job[q].id]] /\ Goto(q, "logout")
    <3>1. Moves(q)
      BY <1>1, <1>2, <2>3, StepNames, GoOnWithRow
    <3> QED
      BY <1>3, <1>12, <3>1 DEF DiscardRead, StoredTypes, table, history
  <2> QED
    BY <1>12, <2>1, <2>2, <2>3 DEF DiscardRead
<1>13. CASE StopAccount(q) \/ CancelAuth(q)
  <2>1. Moves(q)
    BY <1>1, <1>13, GoOnAlone DEF WithKey, StopAccount, CancelAuth, Steps
  <2>2. pending' \in Pending
    BY <1>13 DEF StopAccount, CancelAuth, StoredTypes, Pending
  <2> QED
    BY <1>3, <1>13, <2>1, <2>2 DEF StopAccount, CancelAuth, StoredTypes, table, history
<1>14. CASE DeleteRow(q)
  <2>1. Moves(q)
    BY <1>1, <1>14, Returns DEF DeleteRow
  <2>2. accounts' \in [Ids -> Row] /\ nextId' \in 1..(MaxId + 1) /\ made' \subseteq Ids /\ again' \subseteq Ids
    BY <1>2, <1>14, StatementTypes DEF DeleteRow
  <2> QED
    BY <1>3, <1>14, <2>1, <2>2 DEF DeleteRow, StoredTypes
<1> QED
  BY <1>4, <1>5, <1>6, <1>7, <1>8, <1>9, <1>10, <1>11, <1>12, <1>13, <1>14

\* The loop of a listener, but for its end.
LEMMA ListenShape ==
  ASSUME TypeOK, JobsSound, NEW s \in Routines,
         Listen(s) \/ Interrupted(s) \/ CheckCurrentAuthStatus(s) \/ RunAgain(s)
  PROVE  Moves(s) /\ Stays(s) /\ Busy(s) /\ StoredTypes' /\ UNCHANGED <<table, listeners, cancelled>>
<1> StoredTypes /\ s \in Processes
  BY TypeParts, Names
<1>1. Busy(s)
  BY DEF Listen, Interrupted, CheckCurrentAuthStatus, RunAgain, At, Busy
<1>2. Moves(s) /\ Stays(s)
  <2>1. CASE Listen(s) \/ Interrupted(s) \/ CheckCurrentAuthStatus(s)
    BY <1>1, <2>1, GoOnAlone DEF Listen, Interrupted, CheckCurrentAuthStatus, WithKey, Steps
  <2>2. CASE RunAgain(s)
    <3>1. job' = [job EXCEPT ![s] = Begun("listen", job[s].id)] /\ Goto(s, "load")
      BY <2>2 DEF RunAgain, TypeOK
    <3>2. Begun("listen", job[s].id) \in Job /\ Begun("listen", job[s].id).id = job[s].id
      BY <1>1, BusyFacts, BegunTypes DEF Operations
    <3> QED
      BY <1>1, <3>1, <3>2, StepNames, GoOn
  <2> QED
    BY <2>1, <2>2
<1> QED
  BY <1>1, <1>2 DEF Listen, Interrupted, CheckCurrentAuthStatus, RunAgain, StoredTypes, table, history

LEMMA EndShape ==
  ASSUME TypeOK, JobsSound, NEW s \in Routines, EndListener(s)
  PROVE  /\ Moves(s) /\ pc'[s] = "idle" /\ job'[s] = NoJob /\ Busy(s) /\ StoredTypes'
         /\ listeners' = [listeners EXCEPT ![job[s].id] = None] /\ cancelled' = cancelled \ {s}
<1> StoredTypes /\ s \in Processes
  BY TypeParts, Names
<1>1. Busy(s)
  BY DEF EndListener, JobsSound, Busy
<1> QED
  BY <1>1, BegunTypes DEF EndListener, Moves, Goto, TypeOK, StoredTypes, Steps, WithKey, table, history

LEMMA FailShape ==
  ASSUME TypeOK, JobsSound, NEW p \in Processes, Fail(p)
  PROVE  Moves(p) /\ Stays(p) /\ Busy(p) /\ StoredTypes' /\ UNCHANGED <<table, pending, listeners, cancelled>>
<1> StoredTypes
  BY TypeParts
<1>1. Busy(p)
  BY DEF Fail, Fallible, Busy
<1>2. /\ AfterFailure(p) \in Steps \ WithKey
      /\ p \in Routines => AfterFailure(p) # "idle"
  BY DEF AfterFailure, Steps, WithKey
<1>3. Moves(p) /\ Stays(p)
  <2>1. CASE AfterFailure(p) = "idle"
    BY <1>2, <2>1, BegunTypes DEF Fail, Moves, Stays, Goto, TypeOK
  <2>2. CASE AfterFailure(p) # "idle"
    BY <1>1, <1>2, <2>2, GoOnAlone DEF Fail
  <2> QED
    BY <2>1, <2>2
<1>4. used' \in [requests : Nat, revocations : Nat, faults : Nat]
  BY EventTypes DEF Fail
<1> QED
  BY <1>1, <1>3, <1>4 DEF Fail, StoredTypes, table, history

\* A step that moves one process keeps the types; so it does the exactness of
\* the listeners if the goroutines keep theirs.
LEMMA MoveTypes ==
  ASSUME TypeOK, JobsSound, NEW p \in Processes, Moves(p), StoredTypes',
         listeners' \in [Ids -> Routines \cup {None}], cancelled' \subseteq Routines,
         \A s \in cancelled' : Busy(s)'
  PROVE  TypeOK' /\ JobsSound'
<1>1. ProcessTypes'
  BY DEF Moves, ProcessTypes, TypeOK
<1>2. ASSUME NEW r \in Processes
      PROVE  (Busy(r)' => job'[r].id \in Ids) /\ (pc'[r] \in WithKey => job'[r].key \in Keys)
  BY DEF Moves, Busy, JobsSound, TypeOK
<1> QED
  BY <1>1, <1>2, TypeParts DEF JobsSound

LEMMA MoveExact ==
  ASSUME TypeOK, JobsSound, ListenersExact, NEW p \in Processes, Moves(p), StoredTypes',
         p \in Routines => Busy(p) /\ Stays(p), UNCHANGED listeners,
         \A s \in cancelled' : s \in cancelled \/ (s # None /\ \E i \in Ids : listeners[i] = s)
  PROVE  TypeOK' /\ JobsSound' /\ ListenersExact'
<1>1. \A s \in Routines : (Busy(s)' <=> Busy(s)) /\ (Busy(s) => job'[s].id = job[s].id)
  BY Names DEF Moves, Stays, Busy, TypeOK
<1>2. ListenersExact'
  BY <1>1, Names DEF ListenersExact, TypeOK
<1>3. cancelled' \subseteq Routines /\ \A s \in cancelled' : Busy(s)'
  <2> SUFFICES ASSUME NEW s \in cancelled' PROVE s \in Routines /\ Busy(s)
    BY <1>1
  <2> QED
    BY DEF TypeOK, JobsSound, ListenersExact
<1> QED
  BY <1>2, <1>3, MoveTypes DEF TypeOK

\* The end of a goroutine takes its own entry away, and no other.
LEMMA EndExact ==
  ASSUME TypeOK, JobsSound, ListenersExact, NEW s \in Routines, EndListener(s)
  PROVE  TypeOK' /\ JobsSound' /\ ListenersExact'
<1> s \in Processes
  BY Names
<1>1. /\ Moves(s) /\ pc'[s] = "idle" /\ Busy(s) /\ StoredTypes'
      /\ listeners' = [listeners EXCEPT ![job[s].id] = None] /\ cancelled' = cancelled \ {s}
  BY EndShape
<1>2. job[s].id \in Ids /\ listeners[job[s].id] = s
  BY <1>1 DEF ListenersExact
<1>3. \A r \in Routines \ {s} : pc'[r] = pc[r] /\ job'[r] = job[r]
  BY <1>1, Names DEF Moves, TypeOK
<1>4. \A i \in Ids : listeners'[i] = IF i = job[s].id THEN None ELSE listeners[i]
  BY <1>1, <1>2 DEF TypeOK
<1>5. ~Busy(s)'
  BY <1>1 DEF Busy
<1>6. ASSUME NEW r \in Routines, Busy(r)' PROVE job'[r].id \in Ids /\ listeners'[job'[r].id] = r
  <2>1. r # s /\ Busy(r) /\ job'[r] = job[r]
    BY <1>3, <1>5, <1>6 DEF Busy
  <2>2. job[r].id \in Ids /\ listeners[job[r].id] = r
    BY <2>1 DEF ListenersExact
  <2> QED
    BY <1>2, <1>4, <2>1, <2>2
<1>7. ASSUME NEW i \in Ids, listeners'[i] # None PROVE Busy(listeners[i])' /\ job'[listeners'[i]].id = i
  <2>1. i # job[s].id /\ listeners'[i] = listeners[i]
    BY <1>4, <1>7
  <2>2. Busy(listeners[i]) /\ job[listeners[i]].id = i /\ listeners[i] \in Routines
    BY <1>7, <2>1 DEF ListenersExact, TypeOK
  <2>3. listeners[i] # s
    BY <2>1, <2>2
  <2> QED
    BY <1>3, <2>1, <2>2, <2>3 DEF Busy
<1>8. ListenersExact'
  BY <1>6, <1>7 DEF ListenersExact
<1>9. /\ listeners' \in [Ids -> Routines \cup {None}] /\ cancelled' \subseteq Routines
      /\ \A r \in cancelled' : Busy(r)'
  BY <1>1, <1>3 DEF TypeOK, JobsSound, Busy
<1> QED
  BY <1>1, <1>8, <1>9, MoveTypes

\* The end of a synchronisation: it returns, or starts a goroutine for an
\* account that has none.
LEMMA SyncedExact ==
  ASSUME TypeOK, JobsSound, ListenersExact, NEW q \in Requests, Synced(q)
  PROVE  TypeOK' /\ JobsSound' /\ ListenersExact'
<1> StoredTypes /\ q \in Processes /\ q \notin Routines
  BY TypeParts, Names
<1>1. Busy(q)
  BY DEF Synced, At, Busy
<1>2. job[q].id \in Ids
  BY <1>1, BusyFacts
<1>3. StoredTypes'
  BY DEF Synced, StoredTypes, table, history
<1>4. CASE Return(q) /\ UNCHANGED listeners
  <2>1. Moves(q)
    BY <1>1, <1>4, Returns
  <2>2. UNCHANGED cancelled
    BY DEF Synced
  <2> QED
    BY <1>3, <1>4, <2>1, <2>2, MoveExact
<1>5. CASE /\ job[q].op = "finish" /\ EnsureListener(job[q].id)
           /\ pc' = [pc EXCEPT ![q] = "idle", ![FreeRoutine] = "load"]
           /\ job' = [job EXCEPT ![q] = NoJob, ![FreeRoutine] = Begun("listen", job[q].id)]
  <2> DEFINE s == FreeRoutine
             id == job[q].id
  <2>1. listeners[id] = None
    BY <1>5 DEF EnsureListener
  <2>2. s \in Routines /\ ~Busy(s) /\ s \in Processes /\ s # q
    BY <1>2, <2>1, FreeRoutineType, Names
  <2>3. listeners' = [listeners EXCEPT ![id] = s] /\ UNCHANGED cancelled
    BY <1>5 DEF EnsureListener, Synced
  <2>4. Begun("listen", id) \in Job /\ Begun("listen", id).id = id
    BY <1>2, BegunTypes DEF Operations
  <2> HIDE DEF s
  <2>5. /\ pc' = [pc EXCEPT ![q] = "idle", ![s] = "load"]
        /\ job' = [job EXCEPT ![q] = NoJob, ![s] = Begun("listen", id)]
    BY <1>5 DEF s
  <2> HIDE DEF id
  <2>6. /\ pc'[s] = "load" /\ job'[s] = Begun("listen", id) /\ pc'[q] = "idle" /\ job'[q] = NoJob
        /\ \A r \in Processes \ {q, s} : pc'[r] = pc[r] /\ job'[r] = job[r]
    BY <2>2, <2>5 DEF TypeOK
  <2>7. ProcessTypes'
    BY <1>2, <2>2, <2>3, <2>4, <2>5, BegunTypes DEF ProcessTypes, TypeOK, Steps
  <2>8. JobsSound'
    <3>1. ASSUME NEW r \in Processes
          PROVE  (Busy(r)' => job'[r].id \in Ids) /\ (pc'[r] \in WithKey => job'[r].key \in Keys)
      BY <1>2, <2>4, <2>6 DEF Busy, JobsSound, WithKey, id
    <3>2. \A r \in cancelled' : Busy(r)'
      BY <2>2, <2>3, <2>6, Names DEF Busy, JobsSound, TypeOK
    <3> QED
      BY <3>1, <3>2 DEF JobsSound
  <2>9. ListenersExact'
    <3>1. \A i \in Ids : listeners'[i] = IF i = id THEN s ELSE listeners[i]
      BY <2>3 DEF TypeOK
    <3>2. ASSUME NEW r \in Routines, Busy(r)' PROVE job'[r].id \in Ids /\ listeners'[job'[r].id] = r
      <4>1. CASE r = s
        BY <1>2, <2>4, <2>6, <3>1, <4>1 DEF id
      <4>2. CASE r # s
        <5>1. Busy(r) /\ job'[r] = job[r]
          BY <2>6, <3>2, <4>2, Names DEF Busy
        <5>2. job[r].id \in Ids /\ listeners[job[r].id] = r
          BY <5>1 DEF ListenersExact
        <5>3. job[r].id # id
          BY <2>1, <5>2, Names DEF id
        <5> QED
          BY <3>1, <5>1, <5>2, <5>3
      <4> QED
        BY <4>1, <4>2
    <3>3. ASSUME NEW i \in Ids, listeners'[i] # None PROVE Busy(listeners[i])' /\ job'[listeners'[i]].id = i
      <4>1. CASE i = id
        BY <2>4, <2>6, <3>1, <4>1 DEF Busy
      <4>2. CASE i # id
        <5>1. listeners'[i] = listeners[i] /\ Busy(listeners[i]) /\ job[listeners[i]].id = i /\ listeners[i] \in Routines
          BY <3>1, <3>3, <4>2 DEF ListenersExact, TypeOK
        <5>2. listeners[i] # s /\ listeners[i] # q /\ listeners[i] \in Processes
          BY <2>2, <5>1, Names
        <5> QED
          BY <2>6, <5>1, <5>2 DEF Busy
      <4> QED
        BY <4>1, <4>2
    <3> QED
      BY <3>2, <3>3 DEF ListenersExact
  <2> QED
    BY <1>3, <2>7, <2>8, <2>9, TypeParts
<1> QED
  BY <1>4, <1>5 DEF Synced

LEMMA RestartExact ==
  ASSUME TypeOK, Restart
  PROVE  TypeOK' /\ JobsSound' /\ ListenersExact'
<1> DEFINE on == {s \in Routines : accounts[-s].status = "authorized"}
<1>1. /\ listeners' = [i \in Ids |-> IF -i \in on THEN -i ELSE None]
      /\ pc' = [p \in Processes |-> IF p \in on THEN "load" ELSE "idle"]
      /\ job' = [p \in Processes |-> IF p \in on THEN Begun("listen", -p) ELSE NoJob]
      /\ cancelled' = {} /\ pending' = NoPending /\ UNCHANGED <<table, valid, overlap>>
  BY DEF Restart
<1>2. used' \in [requests : Nat, revocations : Nat, faults : Nat]
  BY EventTypes DEF Restart
<1>3. on \subseteq Routines /\ on \subseteq Processes
  BY Names
<1> HIDE DEF on
<1>4. \A s \in on : -s \in Ids /\ -(-s) = s /\ Begun("listen", -s) \in Job /\ Begun("listen", -s).id = -s
  BY <1>3, Names, BegunTypes DEF Operations
<1>5. StoredTypes'
  BY <1>1, <1>2 DEF TypeOK, StoredTypes, table, history, Pending
<1>6. ProcessTypes'
  BY <1>1, <1>3, <1>4, BegunTypes, Names DEF ProcessTypes, Steps
<1>7. JobsSound'
  BY <1>1, <1>4 DEF JobsSound, Busy, WithKey
<1>8. ListenersExact'
  <2>1. ASSUME NEW s \in Routines, Busy(s)' PROVE job'[s].id \in Ids /\ listeners'[job'[s].id] = s
    <3>1. s \in on /\ s \in Processes
      BY <1>1, <2>1, Names DEF Busy
    <3> QED
      BY <1>1, <1>4, <3>1
  <2>2. ASSUME NEW i \in Ids, listeners'[i] # None PROVE Busy(listeners[i])' /\ job'[listeners'[i]].id = i
    <3>1. -i \in on /\ -i \in Processes /\ listeners'[i] = -i /\ -(-i) = i
      BY <1>1, <1>3, <2>2, Names
    <3> QED
      BY <1>1, <1>4, <3>1 DEF Busy
  <2> QED
    BY <2>1, <2>2 DEF ListenersExact
<1> QED
  BY <1>5, <1>6, <1>7, <1>8, TypeParts

-----------------------------------------------------------------------------
(* The types and the listeners map.                                         *)

\* What every step keeps, whatever is served together and whatever fails.
Base == TypeOK /\ JobsSound /\ ListenersExact

\* The operations that serve a request as ServeShape takes them.
Served(q) ==
  \/ Prepare(q) \/ SendCode(q) \/ Cleanup(q) \/ SignIn(q) \/ PasswordNeeded(q) \/ Refused(q)
  \/ PersistRead(q) \/ PersistSave(q) \/ FinishAuth(q) \/ DiscardRead(q) \/ StopAccount(q)
  \/ CancelAuth(q) \/ DeleteRow(q)

LEMMA BaseInit == Init => Base
<1> SUFFICES ASSUME Init PROVE Base
  OBVIOUS
<1>1. TypeOK
  <2>1. NoRow \in Row /\ NoJob \in Job
    BY RowTypes, BegunTypes
  <2>2. 1 \in 1..(MaxId + 1)
    BY AccountsAssumption
  <2>3. StoredTypes
    BY <2>1, <2>2 DEF Init, StoredTypes, Pending
  <2>4. ProcessTypes
    BY <2>1 DEF Init, ProcessTypes, Steps
  <2> QED
    BY <2>3, <2>4, TypeParts
<1>2. JobsSound
  BY DEF Init, JobsSound, Busy, WithKey
<1>3. ListenersExact
  BY Names DEF Init, ListenersExact, Busy
<1> QED
  BY <1>1, <1>2, <1>3 DEF Base

LEMMA BaseStep == Base /\ [Next]_vars => Base'
<1> SUFFICES ASSUME Base, [Next]_vars PROVE Base'
  OBVIOUS
<1> TypeOK /\ JobsSound /\ ListenersExact
  BY DEF Base
<1>1. ASSUME NEW q \in Requests, Request(q) PROVE Base'
  <2>1. Moves(q) /\ StoredTypes' /\ UNCHANGED <<listeners, cancelled>> /\ q \in Processes /\ q \notin Routines
    BY <1>1, RequestShape, Names
  <2> QED
    BY <2>1, MoveExact DEF Base
<1>2. ASSUME NEW p \in Processes, Client(p) PROVE Base'
  <2>1. Moves(p) /\ Stays(p) /\ StoredTypes' /\ UNCHANGED <<listeners, cancelled>>
    BY <1>2, ClientShape
  <2>2. Busy(p)
    BY <1>2 DEF Client, LoadSession, StoreSessionRead, StoreSessionSave, StatusUnauthorized, LogoutRead, LogoutSave,
                At, Busy
  <2> QED
    BY <2>1, <2>2, MoveExact DEF Base
<1>3. ASSUME NEW q \in Requests, Served(q) PROVE Base'
  <2>1. /\ Moves(q) /\ StoredTypes' /\ UNCHANGED listeners /\ q \in Processes /\ q \notin Routines
        /\ cancelled' \subseteq cancelled \cup ({listeners[job[q].id]} \ {None})
    BY <1>3, ServeShape, Names DEF Served
  <2>2. Busy(q)
    BY <1>3 DEF Served, Prepare, SendCode, Cleanup, SignIn, PasswordNeeded, Refused, PersistRead, PersistSave,
                FinishAuth, DiscardRead, StopAccount, CancelAuth, DeleteRow, At, Busy
  <2>3. job[q].id \in Ids
    BY <2>1, <2>2, BusyFacts
  <2> QED
    BY <2>1, <2>3, MoveExact DEF Base
<1>4. ASSUME NEW q \in Requests, Synced(q) PROVE Base'
  BY <1>4, SyncedExact DEF Base
<1>5. ASSUME NEW s \in Routines, Listen(s) \/ Interrupted(s) \/ CheckCurrentAuthStatus(s) \/ RunAgain(s)
      PROVE  Base'
  BY <1>5, ListenShape, MoveExact, Names DEF Base
<1>6. ASSUME NEW s \in Routines, EndListener(s) PROVE Base'
  BY <1>6, EndExact DEF Base
<1>7. ASSUME NEW p \in Processes, Fail(p) PROVE Base'
  BY <1>7, FailShape, MoveExact DEF Base
<1>8. ASSUME NEW k \in Keys, Revoke(k) PROVE Base'
  <2>1. TypeOK'
    BY <1>8, EventTypes DEF Revoke, TypeOK, table, history
  <2> QED
    BY <1>8, <2>1 DEF Revoke, Base, JobsSound, ListenersExact, Busy
<1>9. CASE Expire
  BY <1>9 DEF Expire, Base, TypeOK, Pending, table, history, JobsSound, ListenersExact, Busy
<1>10. CASE Restart
  BY <1>10, RestartExact DEF Base
<1>11. CASE UNCHANGED vars
  BY <1>11 DEF vars, table, history, Base, TypeOK, JobsSound, ListenersExact, Busy
<1> QED
  BY <1>1, <1>2, <1>3, <1>4, <1>5, <1>6, <1>7, <1>8, <1>9, <1>10, <1>11, Names
     DEF Next, Serve, Served, Listener

\* The variables stay in their types: among them, a client always has a row
\* and a key to work with, and a goroutine is free when one is to be started.
THEOREM Types == Spec => []TypeOK
<1>1. Base => TypeOK
  BY DEF Base
<1> QED
  BY BaseInit, BaseStep, <1>1, PTL DEF Spec

\* The listeners map says exactly which goroutines run, whatever is deleted,
\* synchronised, restarted or fails meanwhile (EnsureListener, StopAccount and
\* the deferred deletion of the goroutine).
THEOREM OneListener == Spec => []ListenersExact
<1>1. Base => ListenersExact
  BY DEF Base
<1> QED
  BY BaseInit, BaseStep, <1>1, PTL DEF Spec

-----------------------------------------------------------------------------
(* While requests are served one at a time, no deleted row comes back but   *)
(* for the ones that a synchronisation of a missing account inserts.        *)

\* p may go on: a cancelled goroutine can only end.
Active(p) == Busy(p) /\ p \notin cancelled /\ (p \in Routines => pc[p] # "end")

\* No goroutine is at work on the account.
Quiet(id) == \A s \in Routines : Active(s) => job[s].id # id

\* Where a process holds a row it has read.
WithRow == {"store", "logout", "persist"}

OneByOne == \A q, r \in Requests : Busy(q) /\ Busy(r) => q = r

RowsMade ==
  \A i \in Ids :
    \/ accounts[i] = NoRow
    \/ /\ Exists(i) /\ i \in made \cup strays /\ i < nextId
       /\ accounts[i].status = "authorized" => accounts[i].user

PendingExists == pending # NoPending => Exists(pending.id)

\* Where the user of the account is known: in its goroutine, and once a login
\* has stored the user.
Knows(p) == p \in Routines \/ pc[p] = "clear" \/ job[p].op = "finish"

\* What a page asks for by its id may be gone; a logout makes sure that it is not.
Gone(p) == p \in Requests /\ (job[p].op = "delete" \/ (job[p].op = "sync" /\ pc[p] # "logout"))

\* Any other process works on a row that is there, and what a process has read
\* of its row still says whether there is one and who its user is.
ClientFact(p) ==
  Active(p) =>
    /\ Exists(job[p].id) \/ Gone(p)
    /\ pc[p] \in WithRow => /\ job[p].snap.status = "none" <=> ~Exists(job[p].id)
                            /\ job[p].snap.status = "authorized" => job[p].snap.user
                            /\ job[p].snap.user = accounts[job[p].id].user
    /\ Knows(p) => accounts[job[p].id].user

\* A request that may delete a row has made sure that no goroutine and no
\* login is about it.
Placed(q) ==
  /\ job[q].op = "delete" => pc[q] \in {"stop", "unpend", "delete"}
  /\ pc[q] = "prepare" => job[q].op = "start" /\ ~job[q].created
  /\ pc[q] = "cleanup" => job[q].op = "start"
  /\ pc[q] \in {"self", "persist", "clear"} => job[q].op \in {"code", "password"}
  /\ pc[q] = "discard" => pending = NoPending /\ job[q].op = "cancel"
  /\ pc[q] \in {"unpend", "delete"} => Quiet(job[q].id)
  /\ pc[q] = "delete" => pending.id # job[q].id

\* A new login made its row, or starts from a copy that is up to date.
LoginFact(q) ==
  job[q].op = "start" =>
    /\ job[q].created => ~accounts[job[q].id].user /\ pending.id # job[q].id
    /\ ~job[q].created => /\ job[q].copy.status = "authorizing"
                          /\ job[q].copy.user = accounts[job[q].id].user

RequestFact(q) == Busy(q) => Placed(q) /\ LoginFact(q)

OneRequest ==
  /\ OneByOne /\ RowsMade /\ PendingExists
  /\ \A p \in Processes : ClientFact(p)
  /\ \A q \in Requests : RequestFact(q)

\* The inductive invariant.
RowsInv == Base /\ (~overlap => OneRequest)

\* A step of p leaves the other rows alone; a request may insert a row, make the
\* user of its own row known, or delete it when nobody is at work on it.
RowsKept(p) ==
  \A i \in Ids :
    \/ /\ Exists(i) => Exists(i)'
       /\ Exists(i)' => Exists(i) \/ p \in Requests
       /\ accounts'[i].user = accounts[i].user
    \/ /\ p \in Requests /\ i = job[p].id
       /\ \/ Exists(i)' /\ accounts'[i].user
          \/ Quiet(i) /\ pending'.id # i

PendingKept(p) ==
  \/ UNCHANGED pending
  \/ p \in Requests /\ (pending' = NoPending \/ (pending'.id = job[p].id /\ Exists(job[p].id)))

\* The others notice nothing: what holds of them still holds.
LEMMA OthersKept ==
  ASSUME Base, Base', OneRequest, NEW p \in Processes, Busy(p), Moves(p), RowsKept(p), PendingKept(p),
         \A r \in cancelled : r # p => r \in cancelled',
         p \in Routines => job'[p].id = job[p].id \/ ~Active(p)', p \in Routines => (Active(p)' => Active(p)),
         RowsMade', ClientFact(p)', p \in Requests => RequestFact(p)'
  PROVE  OneRequest'
<1> /\ OneByOne /\ RowsMade /\ PendingExists /\ TypeOK /\ JobsSound
    /\ \A r \in Processes : ClientFact(r)
    /\ \A q \in Requests : RequestFact(q)
  BY DEF OneRequest, Base
<1>1. \A r \in Processes : r # p => pc'[r] = pc[r] /\ job'[r] = job[r]
  BY DEF Moves, TypeOK
<1>2. \A r \in Processes : r # p => (Active(r)' => Active(r))
  BY <1>1 DEF Active, Busy
<1>3. \A s \in Routines : Active(s)' => Active(s) /\ job'[s].id = job[s].id
  BY <1>1, <1>2, Names
<1>4. p \in Requests => Active(p) /\ \A q \in Requests : Busy(q) => q = p
  BY Names DEF Active, OneByOne, TypeOK
<1>5. OneByOne'
  BY <1>1, Names DEF OneByOne, Busy
<1>6. PendingExists'
  <2> SUFFICES ASSUME pending' # NoPending PROVE accounts'[pending'.id].status # "none"
    BY DEF PendingExists, Exists
  <2>1. CASE UNCHANGED pending
    <3>1. pending.id \in Ids /\ Exists(pending.id)
      BY <2>1 DEF TypeOK, Pending, PendingExists
    <3> QED
      BY <2>1, <3>1 DEF RowsKept, Exists
  <2>2. CASE p \in Requests /\ pending'.id = job[p].id /\ Exists(job[p].id)
    <3>1. job[p].id \in Ids
      BY <1>4, BusyFacts
    <3> QED
      BY <2>2, <3>1 DEF RowsKept, Exists
  <2> QED
    BY <2>1, <2>2 DEF PendingKept
<1>7. \A i \in Ids : Quiet(i) => Quiet(i)'
  BY <1>3 DEF Quiet
<1>8. ASSUME NEW r \in Processes, r # p, Active(r)
      PROVE  /\ accounts'[job[r].id].status # "none" <=> Exists(job[r].id)
             /\ accounts'[job[r].id].user = accounts[job[r].id].user
  <2>1. job[r].id \in Ids
    BY <1>8, BusyFacts DEF Active
  <2>2. p \in Requests => /\ r \in Routines /\ accounts[job[r].id].user /\ ~Quiet(job[r].id)
                          /\ Exists(job[r].id)
    BY <1>4, <1>8, Names DEF Active, Processes, ClientFact, Quiet, Knows, Gone
  <2>3. accounts[job[r].id].user \in BOOLEAN /\ accounts'[job[r].id].user \in BOOLEAN
    BY <2>1 DEF Row, Base, TypeOK
  <2> QED
    BY <2>1, <2>2, <2>3 DEF RowsKept, Exists
<1>9. ASSUME NEW r \in Processes, r # p PROVE ClientFact(r)'
  <2> SUFFICES ASSUME Active(r)' PROVE ClientFact(r)'
    BY DEF ClientFact
  <2>1. Active(r) /\ pc'[r] = pc[r] /\ job'[r] = job[r]
    BY <1>1, <1>2, <1>9
  <2>2. ClientFact(r)
    OBVIOUS
  <2> QED
    BY <1>8, <1>9, <2>1, <2>2 DEF ClientFact, Exists, Knows, Gone
<1>10. ASSUME NEW q \in Requests, q # p PROVE RequestFact(q)'
  <2> SUFFICES ASSUME Busy(q)' PROVE RequestFact(q)'
    BY DEF RequestFact
  <2>1. Busy(q) /\ pc'[q] = pc[q] /\ job'[q] = job[q] /\ q \in Processes
    BY <1>1, <1>10, Names DEF Busy
  <2>2. p \notin Requests /\ UNCHANGED pending
    BY <1>4, <1>10, <2>1 DEF PendingKept
  <2>3. Active(q) /\ job[q].id \in Ids
    BY <2>1, Names, BusyFacts DEF Active, TypeOK
  <2>4. accounts'[job[q].id].user = accounts[job[q].id].user
    BY <1>8, <1>10, <2>1, <2>3
  <2>5. Quiet(job[q].id) => Quiet(job[q].id)'
    BY <1>7, <2>1, <2>3 DEF Quiet
  <2>6. RequestFact(q)
    OBVIOUS
  <2> QED
    BY <2>1, <2>2, <2>4, <2>5, <2>6 DEF RequestFact, Placed, LoginFact
<1>11. \A r \in Processes : ClientFact(r)'
  BY <1>9
<1>12. \A q \in Requests : RequestFact(q)'
  BY <1>10
<1> QED
  BY <1>5, <1>6, <1>11, <1>12 DEF OneRequest

LEMMA SameTable ==
  ASSUME RowsMade, UNCHANGED table
  PROVE  RowsMade' /\ \A i \in Ids : (Exists(i)' <=> Exists(i)) /\ accounts'[i] = accounts[i]
  BY DEF RowsMade, Exists, table, history

\* A row that is there is written: no row is inserted.
LEMMA SaveKept ==
  ASSUME TypeOK, RowsMade, NEW id \in Ids, Exists(id), NEW row, row.status # "none",
         row.status = "authorized" => row.user, Save(id, row), UNCHANGED strays
  PROVE  /\ RowsMade' /\ UNCHANGED nextId /\ accounts' = [accounts EXCEPT ![id] = row]
         /\ \A i \in Ids : /\ Exists(i)' <=> Exists(i)
                           /\ accounts'[i] = IF i = id THEN row ELSE accounts[i]
<1>1. accounts' = [accounts EXCEPT ![id] = row] /\ UNCHANGED <<nextId, made, strays>>
  BY DEF Save
<1>2. \A i \in Ids : accounts'[i] = IF i = id THEN row ELSE accounts[i]
  BY <1>1 DEF TypeOK
<1> QED
  BY <1>1, <1>2 DEF RowsMade, Exists, NoRow

\* The row is missing: another one is inserted, which nobody knows of.
LEMMA InsertKept ==
  ASSUME TypeOK, RowsMade, NEW row, row.status \notin {"none", "authorized"}, row.user = FALSE,
         Insert(row), (made \cup strays)' = made \cup strays \cup {nextId}
  PROVE  /\ nextId \in Ids /\ accounts[nextId] = NoRow /\ ~Exists(nextId) /\ RowsMade'
         /\ \A i \in Ids : /\ accounts'[i] = IF i = nextId THEN row ELSE accounts[i]
                           /\ Exists(i) => Exists(i)' /\ accounts'[i] = accounts[i]
                           /\ accounts'[i].user = accounts[i].user
<1>1. /\ nextId \in Ids /\ nextId \in Nat /\ nextId' = nextId + 1
      /\ \A i \in Ids : accounts'[i] = IF i = nextId THEN row ELSE accounts[i]
  BY AccountsAssumption DEF Insert, TypeOK, Ids
<1>2. accounts[nextId] = NoRow /\ ~Exists(nextId)
  BY <1>1 DEF RowsMade, Exists, NoRow
<1>3. \A i \in Ids : i \in Nat
  BY Names
<1>4. RowsMade'
  <2> SUFFICES ASSUME NEW i \in Ids, accounts'[i] # NoRow
               PROVE  /\ Exists(i)' /\ i \in (made \cup strays)' /\ i < nextId'
                      /\ accounts'[i].status = "authorized" => accounts'[i].user
    BY DEF RowsMade
  <2>1. CASE i = nextId
    BY <1>1, <2>1 DEF Exists
  <2>2. CASE i # nextId
    <3>1. accounts'[i] = accounts[i]
      BY <1>1, <2>2
    <3> QED
      BY <1>1, <1>3, <3>1 DEF RowsMade, Exists
  <2> QED
    BY <2>1, <2>2
<1>5. NoRow.user = FALSE
  BY DEF NoRow
<1> QED
  BY <1>1, <1>2, <1>4, <1>5 DEF Exists

LEMMA DeleteKept ==
  ASSUME TypeOK, RowsMade, NEW id \in Ids, Delete(id), UNCHANGED strays
  PROVE  /\ RowsMade'
         /\ \A i \in Ids : i # id => (Exists(i)' <=> Exists(i)) /\ accounts'[i] = accounts[i]
<1>1. accounts' = [accounts EXCEPT ![id] = NoRow] /\ UNCHANGED <<nextId, made, strays>>
  BY DEF Delete
<1>2. \A i \in Ids : accounts'[i] = IF i = id THEN NoRow ELSE accounts[i]
  BY <1>1 DEF TypeOK
<1> QED
  BY <1>1, <1>2 DEF RowsMade, Exists, NoRow

LEMMA ActiveFacts ==
  ASSUME Base, OneRequest, NEW p \in Processes, Active(p)
  PROVE  /\ job[p].id \in Ids /\ (Exists(job[p].id) \/ Gone(p)) /\ accounts[job[p].id] \in Row /\ Busy(p)
         /\ job[p] \in Job /\ job[p].snap \in Row /\ job[p].copy \in Row
         /\ pc[p] \in WithRow => /\ job[p].snap.status = "none" <=> ~Exists(job[p].id)
                                 /\ job[p].snap.status = "authorized" => job[p].snap.user
                                 /\ job[p].snap.user = accounts[job[p].id].user
         /\ accounts[job[p].id].status = "authorized" => accounts[job[p].id].user
<1>1. Busy(p)
  BY DEF Active
<1> QED
  BY <1>1, BusyFacts DEF Base, OneRequest, ClientFact, RowsMade, NoRow

LEMMA Elsewhere ==
  ASSUME NEW q, pc'[q] \notin {"prepare", "cleanup", "self", "persist", "clear", "discard", "unpend", "delete"},
         pc'[q] = "stop" \/ job'[q].op # "delete"
  PROVE  Placed(q)'
  BY DEF Placed

\* p goes on with the same account, which keeps its row and its user.
LEMMA GoesOn ==
  ASSUME Base, Base', OneRequest, NEW p \in Processes, Active(p), Moves(p), job'[p].id = job[p].id,
         p \in Requests => \/ job'[p].op # "start"
                           \/ /\ job[p].op = "start" /\ job'[p].created = job[p].created
                              /\ job'[p].copy = job[p].copy,
         Exists(job[p].id) \/ (job'[p].op = job[p].op /\ pc'[p] # "logout"),
         RowsMade', \A i \in Ids : (Exists(i)' <=> Exists(i)) /\ accounts'[i].user = accounts[i].user,
         UNCHANGED pending \/ (p \in Requests /\ pending' = NoPending), cancelled \subseteq cancelled',
         p \in Requests => Placed(p)', Active(p)' => Active(p), Knows(p)' => Knows(p),
         pc'[p] \in WithRow => /\ job'[p].snap.status = "none" <=> ~Exists(job[p].id)
                               /\ job'[p].snap.status = "authorized" => job'[p].snap.user
                               /\ job'[p].snap.user = accounts'[job[p].id].user
  PROVE  OneRequest'
<1>1. job[p].id \in Ids /\ (Exists(job[p].id) \/ Gone(p)) /\ Busy(p)
  BY ActiveFacts
<1>2. ClientFact(p)
  BY DEF OneRequest
<1>3. ClientFact(p)'
  <2>1. accounts'[job[p].id].status # "none" <=> Exists(job[p].id)
    BY <1>1 DEF Exists
  <2>2. accounts'[job[p].id].status # "none" \/ Gone(p)'
    BY <1>1, <2>1 DEF Gone
  <2> QED
    BY <1>1, <1>2, <2>1, <2>2 DEF ClientFact, Exists
<1>4. ASSUME p \in Requests PROVE RequestFact(p)'
  <2>1. LoginFact(p) /\ Placed(p)'
    BY <1>1, <1>4 DEF OneRequest, RequestFact
  <2>2. pending'.id = pending.id \/ pending'.id = 0
    BY DEF NoPending
  <2>3. /\ job[p].created \in BOOLEAN /\ accounts[job[p].id].user \in BOOLEAN
        /\ accounts'[job[p].id].user = accounts[job[p].id].user
    BY <1>1, ActiveFacts DEF Row, Job
  <2>4. LoginFact(p)'
    BY <1>1, <1>4, <2>1, <2>2, <2>3, Names DEF LoginFact
  <2> QED
    BY <2>1, <2>4 DEF RequestFact
<1>5. RowsKept(p) /\ PendingKept(p)
  BY DEF RowsKept, PendingKept
<1> QED
  BY <1>1, <1>3, <1>4, <1>5, OthersKept

\* p has ended.
LEMMA GoesAway ==
  ASSUME Base, Base', OneRequest, NEW p \in Processes, Busy(p), Moves(p), ~Active(p)', p \in Requests => pc'[p] = "idle",
         RowsMade', RowsKept(p), PendingKept(p), \A r \in cancelled : r # p => r \in cancelled'
  PROVE  OneRequest'
<1>1. ClientFact(p)' /\ (p \in Requests => RequestFact(p)')
  BY DEF ClientFact, RequestFact, Busy
<1> QED
  BY <1>1, OthersKept

LEMMA ReturnsAway ==
  ASSUME Base, Base', OneRequest, NEW p \in Processes, Busy(p), Return(p),
         RowsMade', RowsKept(p), PendingKept(p), UNCHANGED cancelled
  PROVE  OneRequest'
<1>1. Moves(p) /\ (p \in Routines => pc'[p] = "end") /\ (p \notin Routines => pc'[p] = "idle")
  BY Returns DEF Base
<1>2. ~Active(p)' /\ (p \in Requests => pc'[p] = "idle")
  BY <1>1, Names DEF Active, Busy
<1> QED
  BY <1>1, <1>2, GoesAway

LEMMA ClientKeeps ==
  ASSUME Base, Base', OneRequest, NEW p \in Processes, Client(p)
  PROVE  OneRequest'
<1> TypeOK /\ JobsSound /\ RowsMade
  BY DEF Base, OneRequest
<1>1. Active(p)
  BY DEF Client, LoadSession, StoreSessionRead, StoreSessionSave, StatusUnauthorized, LogoutRead, LogoutSave,
         At, Active, Busy
<1>2. /\ Busy(p) /\ job[p] \in Job /\ job[p].snap \in Row /\ job[p].id \in Ids
      /\ Exists(job[p].id) \/ Gone(p)
      /\ accounts[job[p].id] \in Row
      /\ accounts[job[p].id].status = "authorized" => accounts[job[p].id].user
      /\ pc[p] \in WithRow => /\ job[p].snap.status = "none" <=> ~Exists(job[p].id)
                              /\ job[p].snap.user = accounts[job[p].id].user
                              /\ job[p].snap.status = "authorized" => job[p].snap.user
  BY <1>1, ActiveFacts
<1>11. p \in Requests => job[p].op # "delete"
  BY <1>2 DEF OneRequest, RequestFact, Placed, Client, LoadSession, StoreSessionRead, StoreSessionSave,
              StatusUnauthorized, LogoutRead, LogoutSave, At
<1>3. Moves(p) /\ UNCHANGED cancelled /\ UNCHANGED pending
  BY ClientShape DEF Client, LoadSession, StoreSessionRead, StoreSessionSave, StatusUnauthorized, LogoutRead, LogoutSave
<1>4. CASE LoadSession(p)
  <2>1. PICK k : job' = [job EXCEPT ![p].key = k]
    BY <1>4 DEF LoadSession
  <2>2. /\ job'[p].id = job[p].id /\ job'[p].op = job[p].op /\ job'[p].created = job[p].created
        /\ job'[p].copy = job[p].copy
    BY <1>2, <2>1 DEF TypeOK, Job
  <2>3. pc'[p] = "read"
    BY <1>4 DEF LoadSession, Goto, TypeOK
  <2>4. UNCHANGED table
    BY <1>4 DEF LoadSession
  <2> QED
    BY <1>1, <1>3, <1>11, <2>2, <2>3, <2>4, SameTable, Elsewhere, GoesOn DEF WithRow, Knows
<1>5. CASE StoreSessionRead(p) \/ (LogoutRead(p) /\ Exists(job[p].id))
  <2>1. job' = [job EXCEPT ![p].snap = accounts[job[p].id]] /\ UNCHANGED table
    BY <1>5 DEF StoreSessionRead, LogoutRead
  <2>2. /\ job'[p].id = job[p].id /\ job'[p].op = job[p].op /\ job'[p].created = job[p].created
        /\ job'[p].copy = job[p].copy /\ job'[p].snap = accounts[job[p].id]
    BY <1>2, <2>1 DEF TypeOK, Job
  <2>3. pc'[p] \in {"store", "logout"} /\ (Exists(job[p].id) \/ pc'[p] # "logout")
    BY <1>5 DEF StoreSessionRead, LogoutRead, Goto, TypeOK
  <2>4. /\ RowsMade'
        /\ \A i \in Ids : (Exists(i)' <=> Exists(i)) /\ accounts'[i] = accounts[i]
    BY <2>1, SameTable
  <2>5. /\ job'[p].snap.status = "none" <=> ~Exists(job[p].id)
        /\ job'[p].snap.status = "authorized" => job'[p].snap.user
        /\ job'[p].snap.user = accounts'[job[p].id].user
    BY <1>2, <2>2, <2>4 DEF Exists
  <2>6. p \in Requests => Placed(p)'
    BY <1>11, <2>2, <2>3, Elsewhere
  <2>7. Knows(p)' => Knows(p)
    BY <2>2, <2>3 DEF Knows
  <2> QED
    BY <1>1, <1>3, <2>2, <2>3, <2>4, <2>5, <2>6, <2>7, GoesOn
<1>6. CASE StoreSessionSave(p) /\ Exists(job[p].id)
  <2> DEFINE row == [job[p].snap EXCEPT !.session = job[p].key]
  <2>1. /\ job[p].snap.status # "none" /\ job[p].snap.user = accounts[job[p].id].user
        /\ job[p].snap.status = "authorized" => job[p].snap.user
    BY <1>2, <1>6 DEF StoreSessionSave, At, WithRow
  <2>2. /\ Save(job[p].id, row) /\ job' = [job EXCEPT ![p].snap = NoRow] /\ Goto(p, "call")
        /\ UNCHANGED strays
    BY <1>6, <2>1 DEF StoreSessionSave
  <2>3. row.status = job[p].snap.status /\ row.user = job[p].snap.user
    BY <1>2 DEF Row
  <2> HIDE DEF row
  <2>4. /\ RowsMade' /\ \A i \in Ids : /\ Exists(i)' <=> Exists(i)
                                       /\ accounts'[i] = IF i = job[p].id THEN row ELSE accounts[i]
    BY <1>2, <1>6, <2>1, <2>2, <2>3, SaveKept
  <2>5. \A i \in Ids : (Exists(i)' <=> Exists(i)) /\ accounts'[i].user = accounts[i].user
    BY <2>1, <2>3, <2>4
  <2>6. /\ job'[p].id = job[p].id /\ job'[p].op = job[p].op /\ job'[p].created = job[p].created
        /\ job'[p].copy = job[p].copy
    BY <1>2, <2>2 DEF TypeOK, Job
  <2>7. pc'[p] = "call"
    BY <2>2 DEF Goto, TypeOK
  <2> QED
    BY <1>1, <1>3, <1>11, <2>4, <2>5, <2>6, <2>7, Elsewhere, GoesOn DEF WithRow, Knows
<1>10. CASE StoreSessionSave(p) /\ ~Exists(job[p].id)
  <2> DEFINE row == [[NoRow EXCEPT !.status = "logged_in"] EXCEPT !.session = job[p].key]
  <2>1. pc[p] = "store" /\ job[p].snap.status = "none" /\ p \in Requests /\ job[p].op = "sync"
    BY <1>2, <1>10, <1>11 DEF StoreSessionSave, At, WithRow, Gone
  <2>2. row.status = "logged_in" /\ row.user = FALSE
    BY DEF NoRow
  <2>3. /\ Save(job[p].id, row) /\ strays' = strays \cup {nextId}
        /\ job' = [job EXCEPT ![p].snap = NoRow] /\ Goto(p, "call")
    BY <1>10, <2>1 DEF StoreSessionSave
  <2> HIDE DEF row
  <2>4. Insert(row) /\ (made \cup strays)' = made \cup strays \cup {nextId}
    BY <1>10, <2>3 DEF Save
  <2>5. /\ RowsMade'
        /\ \A i \in Ids : (Exists(i) => Exists(i)') /\ accounts'[i].user = accounts[i].user
    BY <2>2, <2>4, InsertKept
  <2>6. RowsKept(p) /\ PendingKept(p)
    BY <1>3, <2>1, <2>5 DEF RowsKept, PendingKept
  <2>7. job'[p].id = job[p].id /\ job'[p].op = "sync" /\ pc'[p] = "call"
    BY <1>2, <2>1, <2>3 DEF TypeOK, Job, Goto
  <2>8. ClientFact(p)'
    BY <2>1, <2>7, Names DEF ClientFact, Gone, WithRow, Knows
  <2>9. RequestFact(p)'
    BY <2>7, Elsewhere DEF RequestFact, LoginFact
  <2> QED
    BY <1>1, <1>2, <1>3, <2>1, <2>5, <2>6, <2>8, <2>9, Names, OthersKept
<1>7. CASE StatusUnauthorized(p)
  <2>1. pc'[p] = "forget" /\ job'[p] = job[p] /\ UNCHANGED table
    BY <1>7 DEF StatusUnauthorized, Goto, TypeOK
  <2> QED
    BY <1>1, <1>3, <1>11, <2>1, SameTable, Elsewhere, GoesOn DEF WithRow, Knows
<1>8. CASE LogoutRead(p) /\ ~Exists(job[p].id)
  <2>1. Return(p) /\ UNCHANGED table
    BY <1>8 DEF LogoutRead
  <2> QED
    BY <1>2, <1>3, <2>1, SameTable, ReturnsAway DEF RowsKept, PendingKept
<1>9. CASE LogoutSave(p)
  <2> DEFINE row == LoggedOut(job[p].snap)
  <2>1. job[p].snap.user = accounts[job[p].id].user /\ Exists(job[p].id)
    BY <1>2, <1>9, <1>11 DEF LogoutSave, At, WithRow, Gone
  <2>2. row.status = "logged_out" /\ row.user = job[p].snap.user
    BY <1>2 DEF Row, LoggedOut
  <2>3. Save(job[p].id, row) /\ Return(p) /\ UNCHANGED strays
    BY <1>9 DEF LogoutSave
  <2> HIDE DEF row
  <2>4. /\ RowsMade' /\ \A i \in Ids : /\ Exists(i)' <=> Exists(i)
                                       /\ accounts'[i] = IF i = job[p].id THEN row ELSE accounts[i]
    BY <1>2, <2>1, <2>2, <2>3, SaveKept
  <2>5. RowsKept(p) /\ PendingKept(p)
    BY <1>3, <2>1, <2>2, <2>4 DEF RowsKept, PendingKept
  <2> QED
    BY <1>2, <1>3, <2>3, <2>4, <2>5, ReturnsAway
<1> QED
  BY <1>4, <1>5, <1>6, <1>7, <1>8, <1>9, <1>10 DEF Client

LEMMA RequestActive ==
  ASSUME Base, OneRequest, NEW q \in Requests, Busy(q)
  PROVE  q \in Processes /\ q \notin Routines /\ Active(q) /\ Placed(q) /\ LoginFact(q)
  BY Names DEF Active, OneRequest, RequestFact, Base, TypeOK

\* An account whose user is not known has no goroutine.
LEMMA NewIsQuiet ==
  ASSUME OneRequest, NEW id \in Ids, ~accounts[id].user
  PROVE  Quiet(id)
  BY Names DEF Quiet, OneRequest, ClientFact, Knows

\* A step of a request that leaves the goroutines alone.
LEMMA StaysQuiet ==
  ASSUME Base, NEW q \in Requests, Moves(q), cancelled \subseteq cancelled', NEW id \in Ids, Quiet(id)
  PROVE  \A s \in Routines : Active(s)' => job'[s].id # id
  BY Names DEF Moves, Quiet, Active, Busy, Base, TypeOK

LEMMA ServedKeeps ==
  ASSUME Base, Base', OneRequest, NEW q \in Requests, Served(q)
  PROVE  OneRequest'
<1> TypeOK /\ JobsSound /\ RowsMade /\ PendingExists
  BY DEF Base, OneRequest
<1>1. Busy(q)
  BY DEF Served, Prepare, SendCode, Cleanup, SignIn, PasswordNeeded, Refused, PersistRead, PersistSave,
         FinishAuth, DiscardRead, StopAccount, CancelAuth, DeleteRow, At, Busy
<1>2. q \in Processes /\ q \notin Routines /\ Active(q) /\ Placed(q) /\ LoginFact(q)
  BY <1>1, RequestActive
<1>3. /\ job[q] \in Job /\ job[q].snap \in Row /\ job[q].copy \in Row /\ job[q].id \in Ids
      /\ job[q].op \in {"sync", "delete"} \/ Exists(job[q].id)
      /\ accounts[job[q].id] \in Row
      /\ accounts[job[q].id].status = "authorized" => accounts[job[q].id].user
      /\ pc[q] \in WithRow => /\ job[q].snap.status = "none" <=> ~Exists(job[q].id)
                              /\ job[q].snap.user = accounts[job[q].id].user
                              /\ job[q].snap.status = "authorized" => job[q].snap.user
  BY <1>2, ActiveFacts DEF Gone
<1>4. Moves(q) /\ cancelled \subseteq cancelled' /\ (StopAccount(q) \/ UNCHANGED cancelled)
  BY ServeShape DEF Served, Prepare, SendCode, Cleanup, SignIn, PasswordNeeded, Refused, PersistRead, PersistSave,
         FinishAuth, DiscardRead, StopAccount, CancelAuth, DeleteRow
<1>5. Active(q)' => Active(q)
  BY <1>2
<1>6. UNCHANGED table =>
        RowsMade' /\ RowsKept(q) /\ \A i \in Ids : (Exists(i)' <=> Exists(i)) /\ accounts'[i] = accounts[i]
  BY SameTable DEF RowsKept
<1>7. CASE Prepare(q)
  <2>1. pc[q] = "prepare" /\ Save(job[q].id, job[q].copy) /\ UNCHANGED <<strays, job, pending>> /\ pc'[q] = "load"
    BY <1>2, <1>7 DEF Prepare, At, Goto, TypeOK
  <2>2. job[q].op = "start" /\ job[q].copy.status = "authorizing" /\ job[q].copy.user = accounts[job[q].id].user
    BY <1>2, <2>1 DEF Placed, LoginFact
  <2>3. /\ RowsMade' /\ \A i \in Ids : /\ Exists(i)' <=> Exists(i)
                                       /\ accounts'[i] = IF i = job[q].id THEN job[q].copy ELSE accounts[i]
    BY <1>3, <2>1, <2>2, SaveKept
  <2>4. \A i \in Ids : (Exists(i)' <=> Exists(i)) /\ accounts'[i].user = accounts[i].user
    BY <2>2, <2>3
  <2> QED
    BY <1>2, <1>4, <1>5, <2>1, <2>2, <2>3, <2>4, Elsewhere, GoesOn DEF WithRow, Knows
<1>8. CASE SendCode(q) \/ PasswordNeeded(q)
  <2>1. Return(q) /\ PendingKept(q) /\ UNCHANGED <<table, cancelled>>
    BY <1>3, <1>8 DEF SendCode, PasswordNeeded, PendingKept
  <2> QED
    BY <1>1, <1>2, <1>6, <2>1, ReturnsAway
<1>9. CASE Cleanup(q)
  <2>1. pc[q] = "cleanup" /\ Return(q) /\ UNCHANGED <<strays, pending, cancelled>> /\ PendingKept(q)
    BY <1>9 DEF Cleanup, At, PendingKept
  <2>2. job[q].op = "start"
    BY <1>2, <2>1 DEF Placed
  <2>3. CASE job[q].created
    <3>1. Quiet(job[q].id) /\ pending'.id # job[q].id
      BY <1>2, <1>3, <2>1, <2>2, <2>3, NewIsQuiet DEF LoginFact
    <3>2. Delete(job[q].id)
      BY <1>9, <2>3 DEF Cleanup
    <3>3. RowsMade' /\ \A i \in Ids : i # job[q].id => (Exists(i)' <=> Exists(i)) /\ accounts'[i] = accounts[i]
      BY <1>3, <2>1, <3>2, DeleteKept
    <3>4. RowsKept(q)
      BY <3>1, <3>3 DEF RowsKept
    <3> QED
      BY <1>1, <1>2, <2>1, <3>3, <3>4, ReturnsAway
  <2>4. CASE ~job[q].created
    <3> DEFINE row == LoggedOut(job[q].copy)
    <3>1. job[q].copy.user = accounts[job[q].id].user
      BY <1>2, <2>2, <2>4 DEF LoginFact
    <3>2. row.status = "logged_out" /\ row.user = job[q].copy.user
      BY <1>3 DEF Row, LoggedOut
    <3>3. Save(job[q].id, row)
      BY <1>9, <2>4 DEF Cleanup
    <3> HIDE DEF row
    <3>4. /\ RowsMade' /\ \A i \in Ids : /\ Exists(i)' <=> Exists(i)
                                         /\ accounts'[i] = IF i = job[q].id THEN row ELSE accounts[i]
      BY <1>3, <2>1, <2>2, <3>2, <3>3, SaveKept
    <3>5. RowsKept(q)
      BY <3>1, <3>2, <3>4 DEF RowsKept
    <3> QED
      BY <1>1, <1>2, <2>1, <3>4, <3>5, ReturnsAway
  <2> QED
    BY <2>3, <2>4
<1>10. CASE SignIn(q)
  <2>1. /\ pc'[q] = "self" /\ job'[q] = job[q] /\ job[q].op \in {"code", "password"}
        /\ UNCHANGED <<table, pending>>
    BY <1>2, <1>10 DEF SignIn, Goto, TypeOK
  <2>2. Placed(q)'
    BY <2>1 DEF Placed
  <2> QED
    BY <1>2, <1>3, <1>4, <1>5, <1>6, <2>1, <2>2, GoesOn DEF WithRow, Knows
<1>11. CASE Refused(q)
  <2>1. CASE job[q].op = "start"
    <3>1. pc'[q] = "cleanup" /\ job'[q] = job[q] /\ UNCHANGED <<table, pending>>
      BY <1>2, <1>11, <2>1 DEF Refused, Goto, TypeOK
    <3>2. Placed(q)'
      BY <2>1, <3>1 DEF Placed
    <3> QED
      BY <1>2, <1>3, <1>4, <1>5, <1>6, <2>1, <3>1, <3>2, GoesOn DEF WithRow, Knows
  <2>2. CASE job[q].op # "start"
    BY <1>1, <1>2, <1>6, <1>11, <2>2, ReturnsAway DEF Refused, PendingKept
  <2> QED
    BY <2>1, <2>2
<1>12. CASE PersistRead(q)
  <2>1. job' = [job EXCEPT ![q].snap = accounts[job[q].id]] /\ UNCHANGED <<table, pending>> /\ pc[q] = "self"
    BY <1>12 DEF PersistRead, At
  <2>2. /\ job'[q].id = job[q].id /\ job'[q].op = job[q].op /\ job'[q].created = job[q].created
        /\ job'[q].copy = job[q].copy /\ job'[q].snap = accounts[job[q].id]
    BY <1>2, <1>3, <2>1 DEF TypeOK, Job
  <2>3. pc'[q] = "persist" /\ job[q].op \in {"code", "password"}
    BY <1>2, <1>12, <2>1 DEF PersistRead, Goto, TypeOK, Placed
  <2>4. Placed(q)'
    BY <2>2, <2>3 DEF Placed
  <2> QED
    BY <1>2, <1>3, <1>4, <1>5, <1>6, <2>1, <2>2, <2>3, <2>4, GoesOn DEF Exists, Knows
<1>13. CASE PersistSave(q)
  <2> DEFINE row == Authorized(job[q].snap)
  <2>1. pc[q] = "persist" /\ Save(job[q].id, row) /\ UNCHANGED <<strays, job, pending, cancelled>> /\ pc'[q] = "clear"
    BY <1>2, <1>13 DEF PersistSave, At, Goto, TypeOK
  <2>2. row.status = "authorized" /\ row.user = TRUE
    BY <1>3 DEF Row, Authorized
  <2>3. job[q].op \in {"code", "password"}
    BY <1>2, <2>1 DEF Placed
  <2> HIDE DEF row
  <2>4. /\ RowsMade' /\ \A i \in Ids : /\ Exists(i)' <=> Exists(i)
                                       /\ accounts'[i] = IF i = job[q].id THEN row ELSE accounts[i]
    BY <1>3, <2>1, <2>2, <2>3, SaveKept
  <2>5. RowsKept(q) /\ PendingKept(q)
    BY <1>2, <1>3, <2>1, <2>2, <2>3, <2>4 DEF RowsKept, PendingKept
  <2>6. ClientFact(q)'
    BY <1>2, <1>3, <2>1, <2>2, <2>3, <2>4 DEF ClientFact, Exists, WithRow
  <2>7. RequestFact(q)'
    BY <2>1, <2>3 DEF RequestFact, LoginFact, Placed
  <2> QED
    BY <1>1, <1>2, <1>4, <1>5, <2>1, <2>4, <2>5, <2>6, <2>7, OthersKept
<1>14. CASE FinishAuth(q)
  <2>1. /\ pc'[q] = "load" /\ job' = [job EXCEPT ![q] = Begun("finish", job[q].id)] /\ pending' = NoPending
        /\ pc[q] = "clear" /\ UNCHANGED table /\ Exists(job[q].id)
    BY <1>2, <1>3, <1>14 DEF FinishAuth, At, Goto, TypeOK, Placed
  <2>2. job'[q] = Begun("finish", job[q].id)
    BY <1>2, <2>1 DEF TypeOK
  <2>3. job'[q].id = job[q].id /\ job'[q].op = "finish"
    BY <1>3, <2>2, BegunTypes DEF Operations
  <2> QED
    BY <1>2, <1>4, <1>5, <1>6, <2>1, <2>3, Elsewhere, GoesOn DEF WithRow, Knows
<1>15. CASE DiscardRead(q)
  <2>1. pc[q] = "discard" /\ UNCHANGED <<table, pending, cancelled>> /\ pending = NoPending /\ PendingKept(q)
        /\ job[q].op = "cancel"
    BY <1>2, <1>15 DEF DiscardRead, At, Placed, PendingKept
  <2>2. CASE Return(q)
    BY <1>1, <1>2, <1>6, <2>1, <2>2, ReturnsAway
  <2>3. CASE ~accounts[job[q].id].user /\ Goto(q, "delete") /\ UNCHANGED job
    <3>1. pc'[q] = "delete" /\ job'[q] = job[q]
      BY <1>2, <2>3 DEF Goto, TypeOK
    <3>2. Quiet(job[q].id)
      BY <1>3, <2>3, NewIsQuiet
    <3>3. Quiet(job[q].id)'
      BY <1>3, <1>4, <3>1, <3>2, StaysQuiet DEF Quiet
    <3>4. pending'.id # job'[q].id
      BY <1>3, <2>1, <3>1, Names DEF NoPending
    <3>5. Placed(q)'
      BY <3>1, <3>3, <3>4 DEF Placed
    <3> QED
      BY <1>2, <1>3, <1>4, <1>5, <1>6, <2>1, <3>1, <3>5, GoesOn DEF WithRow, Knows
  <2>4. CASE job' = [job EXCEPT ![q].snap = accounts[job[q].id]] /\ Goto(q, "logout")
    <3>1. /\ job'[q].id = job[q].id /\ job'[q].op = job[q].op /\ job'[q].created = job[q].created
          /\ job'[q].copy = job[q].copy /\ job'[q].snap = accounts[job[q].id]
      BY <1>2, <1>3, <2>4 DEF TypeOK, Job
    <3>2. pc'[q] = "logout"
      BY <1>2, <2>4 DEF Goto, TypeOK
    <3> QED
      BY <1>2, <1>3, <1>4, <1>5, <1>6, <2>1, <3>1, <3>2, Elsewhere, GoesOn DEF Exists, Knows
  <2> QED
    BY <1>15, <2>2, <2>3, <2>4 DEF DiscardRead
<1>16. CASE StopAccount(q)
  <2>1. pc'[q] = "unpend" /\ job'[q] = job[q] /\ UNCHANGED <<table, pending>>
    BY <1>2, <1>16 DEF StopAccount, Goto, TypeOK
  <2>2. ASSUME NEW s \in Routines, Active(s)' PROVE job'[s].id # job[q].id
    <3>1. s \in Processes /\ s # q /\ Busy(s) /\ job'[s] = job[s]
      BY <1>2, <1>4, <2>2, Names DEF Active, Busy, Moves, TypeOK
    <3>2. listeners[job[s].id] = s /\ s # None
      BY <2>2, <3>1, Names DEF Base, ListenersExact
    <3>3. listeners[job[q].id] # s
      BY <1>16, <2>2, <3>2 DEF StopAccount, Active
    <3> QED
      BY <3>1, <3>2, <3>3
  <2>3. Quiet(job[q].id)'
    BY <2>1, <2>2 DEF Quiet
  <2>4. Placed(q)'
    BY <2>1, <2>3 DEF Placed
  <2> QED
    BY <1>2, <1>4, <1>5, <1>6, <2>1, <2>4, GoesOn DEF WithRow, Knows
<1>17. CASE CancelAuth(q)
  <2>1. pc[q] = "unpend" /\ pc'[q] = "delete" /\ job'[q] = job[q] /\ UNCHANGED table
    BY <1>2, <1>17 DEF CancelAuth, At, Goto, TypeOK
  <2>2. (UNCHANGED pending \/ pending' = NoPending) /\ pending'.id # job[q].id
    BY <1>3, <1>17, Names DEF CancelAuth, NoPending
  <2>3. Quiet(job[q].id)'
    BY <1>2, <1>3, <1>4, <2>1, StaysQuiet DEF Quiet, Placed
  <2>4. Placed(q)'
    BY <2>1, <2>2, <2>3 DEF Placed
  <2> QED
    BY <1>2, <1>4, <1>5, <1>6, <2>1, <2>2, <2>4, GoesOn DEF WithRow, Knows
<1>18. CASE DeleteRow(q)
  <2>1. pc[q] = "delete" /\ Delete(job[q].id) /\ Return(q) /\ UNCHANGED <<strays, pending, cancelled>> /\ PendingKept(q)
    BY <1>18 DEF DeleteRow, At, PendingKept
  <2>2. Quiet(job[q].id) /\ pending'.id # job[q].id
    BY <1>2, <2>1 DEF Placed
  <2>3. RowsMade' /\ \A i \in Ids : i # job[q].id => (Exists(i)' <=> Exists(i)) /\ accounts'[i] = accounts[i]
    BY <1>3, <2>1, DeleteKept
  <2>4. RowsKept(q)
    BY <2>2, <2>3 DEF RowsKept
  <2> QED
    BY <1>1, <1>2, <2>1, <2>3, <2>4, ReturnsAway
<1> QED
  BY <1>7, <1>8, <1>9, <1>10, <1>11, <1>12, <1>13, <1>14, <1>15, <1>16, <1>17, <1>18 DEF Served

LEMMA ListenerKeeps ==
  ASSUME Base, Base', OneRequest, NEW s \in Routines,
         Listen(s) \/ Interrupted(s) \/ CheckCurrentAuthStatus(s) \/ RunAgain(s) \/ EndListener(s)
  PROVE  OneRequest'
<1> TypeOK /\ JobsSound /\ RowsMade /\ s \in Processes /\ s \notin Requests
  BY Names DEF Base, OneRequest
<1>1. UNCHANGED <<table, pending>>
  BY DEF Listen, Interrupted, CheckCurrentAuthStatus, RunAgain, EndListener
<1>2. /\ RowsMade' /\ RowsKept(s) /\ PendingKept(s)
      /\ \A i \in Ids : (Exists(i)' <=> Exists(i)) /\ accounts'[i].user = accounts[i].user
  BY <1>1, SameTable DEF RowsKept, PendingKept
<1>3. CASE EndListener(s)
  <2>1. Moves(s) /\ pc'[s] = "idle" /\ Busy(s) /\ cancelled' = cancelled \ {s}
    BY <1>3, EndShape
  <2>2. ~Active(s)'
    BY <2>1 DEF Active, Busy
  <2> QED
    BY <1>2, <2>1, <2>2, GoesAway
<1>4. CASE Listen(s) \/ Interrupted(s) \/ CheckCurrentAuthStatus(s) \/ RunAgain(s)
  <2>1. Moves(s) /\ Stays(s) /\ UNCHANGED cancelled
    BY <1>4, ListenShape
  <2>2. Active(s)
    BY <1>4 DEF Listen, Interrupted, CheckCurrentAuthStatus, RunAgain, At, Active, Busy
  <2>3. pc'[s] \in {"run", "check", "wait", "forget", "load"}
    BY <1>4 DEF Listen, Interrupted, CheckCurrentAuthStatus, RunAgain, Goto, TypeOK
  <2>4. Exists(job[s].id)
    BY <2>2, ActiveFacts DEF Gone
  <2> QED
    BY <1>1, <1>2, <2>1, <2>2, <2>3, <2>4, GoesOn DEF Stays, WithRow, Knows
<1> QED
  BY <1>3, <1>4

LEMMA FailKeeps ==
  ASSUME Base, Base', OneRequest, NEW p \in Processes, Fail(p)
  PROVE  OneRequest'
<1> TypeOK /\ JobsSound /\ RowsMade
  BY DEF Base, OneRequest
<1>1. Moves(p) /\ Stays(p) /\ Busy(p) /\ UNCHANGED <<table, pending, cancelled>>
  BY FailShape
<1>2. /\ RowsMade' /\ RowsKept(p) /\ PendingKept(p)
      /\ \A i \in Ids : (Exists(i)' <=> Exists(i)) /\ accounts'[i].user = accounts[i].user
  BY <1>1, SameTable DEF RowsKept, PendingKept
<1>3. Active(p) /\ pc'[p] = AfterFailure(p)
  BY <1>1 DEF Fail, Fallible, Active, Goto, TypeOK
<1>4. CASE AfterFailure(p) = "idle"
  <2>1. ~Active(p)'
    BY <1>3, <1>4 DEF Active, Busy
  <2> QED
    BY <1>1, <1>2, <1>3, <1>4, <2>1, GoesAway
<1>5. CASE AfterFailure(p) # "idle"
  <2>1. job'[p] = job[p]
    BY <1>5 DEF Fail
  <2>2. /\ pc'[p] \in {"check", "wait", "cleanup"}
        /\ p \in Requests => pc'[p] = "cleanup" /\ job[p].op = "start"
    BY <1>3, <1>5, Names DEF AfterFailure, Processes
  <2>3. p \in Requests => Placed(p)'
    BY <2>1, <2>2 DEF Placed
  <2> QED
    BY <1>1, <1>2, <1>3, <2>1, <2>2, <2>3, GoesOn DEF WithRow, Knows
<1> QED
  BY <1>4, <1>5

\* A request arrives when none is served: the rows that are there stay.
LEMMA Arrives ==
  ASSUME Base, Base', OneRequest, NEW q \in Requests, \A r \in Requests : ~Busy(r),
         Moves(q), UNCHANGED <<listeners, cancelled>>, UNCHANGED pending \/ pending' = NoPending,
         RowsMade', \A i \in Ids : Exists(i) => Exists(i)' /\ accounts'[i].user = accounts[i].user,
         ClientFact(q)', RequestFact(q)'
  PROVE  OneRequest'
<1> q \in Processes /\ q \notin Routines /\ TypeOK /\ JobsSound /\ PendingExists
  BY Names DEF Base, OneRequest
<1>1. \A r \in Processes : r # q => pc'[r] = pc[r] /\ job'[r] = job[r]
  BY DEF Moves, TypeOK
<1>2. \A r \in Requests : r # q => ~Busy(r)'
  BY <1>1, Names DEF Busy
<1>3. OneByOne'
  BY <1>2 DEF OneByOne
<1>4. PendingExists'
  <2>1. pending # NoPending => pending.id \in Ids
    BY DEF TypeOK, Pending
  <2> QED
    BY <2>1 DEF PendingExists, Exists
<1>5. ASSUME NEW r \in Processes, r # q PROVE ClientFact(r)'
  <2> SUFFICES ASSUME Active(r)' PROVE ClientFact(r)'
    BY DEF ClientFact
  <2>1. Active(r) /\ pc'[r] = pc[r] /\ job'[r] = job[r]
    BY <1>1, <1>5 DEF Active, Busy
  <2>2. job[r].id \in Ids /\ Exists(job[r].id) /\ ClientFact(r)
    BY <1>5, <2>1, ActiveFacts DEF OneRequest, Gone, Active
  <2> QED
    BY <2>1, <2>2 DEF ClientFact, Exists, Knows
<1>6. \A r \in Requests : RequestFact(r)'
  BY <1>2 DEF RequestFact
<1> QED
  BY <1>3, <1>4, <1>5, <1>6 DEF OneRequest

LEMMA RequestKeeps ==
  ASSUME Base, Base', OneRequest, NEW q \in Requests, Request(q), ~overlap'
  PROVE  OneRequest'
<1> q \in Processes /\ q \notin Routines /\ TypeOK /\ RowsMade /\ PendingExists
  BY Names DEF Base, OneRequest
<1>1. Arrive(q)
  BY DEF Request, StartNew, CancelPendingAuth, Verify, StartAgain, SyncChats, DeleteAccount
<1>2. \A r \in Requests : ~Busy(r)
  BY <1>1 DEF Arrive
<1>3. Moves(q) /\ UNCHANGED <<listeners, cancelled>>
  BY RequestShape
<1>4. pending = NoPending \/ (pending.id \in Ids /\ Exists(pending.id))
  BY DEF PendingExists, TypeOK, Pending
<1>5. CASE StartNew(q)
  <2> DEFINE row == [NoRow EXCEPT !.status = "authorizing"]
             j == [Begun("start", nextId) EXCEPT !.created = TRUE]
  <2>1. row.status = "authorizing" /\ row.user = FALSE
    BY DEF NoRow
  <2>2. j.op = "start" /\ j.id = nextId /\ j.created = TRUE
    BY DEF Begun
  <2>3. /\ Insert(row) /\ (made \cup strays)' = made \cup strays \cup {nextId}
        /\ UNCHANGED pending /\ pc'[q] = "load" /\ job'[q] = j
    BY <1>5 DEF StartNew, Goto, TypeOK
  <2> HIDE DEF row, j
  <2>4. /\ nextId \in Ids /\ ~Exists(nextId) /\ RowsMade'
        /\ \A i \in Ids : /\ accounts'[i] = IF i = nextId THEN row ELSE accounts[i]
                          /\ Exists(i) => Exists(i)' /\ accounts'[i] = accounts[i]
    BY <2>1, <2>3, InsertKept
  <2>5. ClientFact(q)'
    BY <2>1, <2>2, <2>3, <2>4 DEF ClientFact, Exists, WithRow, Knows
  <2>6. pending'.id # nextId
    BY <1>4, <2>3, <2>4, Names DEF NoPending
  <2>7. LoginFact(q)'
    BY <2>1, <2>2, <2>3, <2>4, <2>6 DEF LoginFact
  <2>8. RequestFact(q)'
    BY <2>2, <2>3, <2>7, Elsewhere DEF RequestFact
  <2> QED
    BY <1>2, <1>3, <2>3, <2>4, <2>5, <2>8, Arrives
<1>6. ASSUME UNCHANGED <<accounts, nextId, made, strays>>, UNCHANGED pending \/ pending' = NoPending, ClientFact(q)', RequestFact(q)'
      PROVE  OneRequest'
  <2>1. RowsMade' /\ \A i \in Ids : (Exists(i)' <=> Exists(i)) /\ accounts'[i] = accounts[i]
    BY <1>6 DEF RowsMade, Exists
  <2> QED
    BY <1>2, <1>3, <1>6, <2>1, Arrives
<1>7. ASSUME NEW op \in {"cancel", "code", "password", "sync", "delete"}, NEW id \in Ids,
             Exists(id) \/ op \in {"sync", "delete"}, NEW step \in {"load", "discard", "stop"},
             job' = [job EXCEPT ![q] = Begun(op, id)], Goto(q, step), UNCHANGED table,
             UNCHANGED pending \/ pending' = NoPending, step = "discard" => pending' = NoPending /\ op = "cancel",
             op = "delete" => step = "stop"
      PROVE  OneRequest'
  <2>1. pc'[q] = step /\ job'[q] = Begun(op, id)
    BY <1>7 DEF Goto, TypeOK
  <2>2. job'[q].op = op /\ job'[q].id = id
    BY <2>1 DEF Begun
  <2>3. ClientFact(q)'
    BY <1>7, <2>1, <2>2 DEF ClientFact, Exists, WithRow, Knows, Gone, table, history
  <2>4. RequestFact(q)'
    BY <1>7, <2>1, <2>2 DEF RequestFact, Placed, LoginFact
  <2> QED
    BY <1>6, <1>7, <2>3, <2>4 DEF table, history
<1>8. CASE CancelPendingAuth(q)
  BY <1>4, <1>7, <1>8 DEF CancelPendingAuth
<1>9. ASSUME NEW step \in {"code", "password"}, Verify(q, step) PROVE OneRequest'
  <2>1. pending # NoPending
    BY <1>9 DEF Verify, NoPending
  <2> QED
    BY <1>4, <1>7, <1>9, <2>1 DEF Verify
<1>10. ASSUME NEW id \in Ids, SyncChats(q, id) \/ DeleteAccount(q, id) PROVE OneRequest'
  BY <1>7, <1>10 DEF SyncChats, DeleteAccount
<1>11. ASSUME NEW id \in Ids, StartAgain(q, id) PROVE OneRequest'
  <2> DEFINE row == [accounts[id] EXCEPT !.status = "authorizing", !.session = 0]
             j == [Begun("start", id) EXCEPT !.copy = row]
  <2>1. row.status = "authorizing" /\ row.user = accounts[id].user
    BY DEF TypeOK, Row
  <2>2. j.op = "start" /\ j.id = id /\ j.created = FALSE /\ j.copy = row
    BY DEF Begun
  <2>3. /\ pc'[q] = "prepare" /\ job'[q] = j /\ Exists(id)
        /\ UNCHANGED <<accounts, nextId, made, strays, pending>>
    BY <1>11 DEF StartAgain, Goto, TypeOK
  <2> HIDE DEF row, j
  <2>4. accounts'[id] = accounts[id]
    BY <2>3
  <2>5. ClientFact(q)'
    BY <2>2, <2>3, <2>4 DEF ClientFact, Exists, WithRow, Knows
  <2>6. LoginFact(q)'
    BY <2>1, <2>2, <2>3, <2>4 DEF LoginFact
  <2>7. Placed(q)'
    BY <2>2, <2>3 DEF Placed
  <2> QED
    BY <1>6, <2>3, <2>5, <2>6, <2>7 DEF RequestFact
<1> QED
  BY <1>5, <1>8, <1>9, <1>10, <1>11 DEF Request

\* The synchronisation at the end of a login starts the goroutine of an account
\* whose user it has stored.
LEMMA SyncedKeeps ==
  ASSUME Base, Base', OneRequest, NEW q \in Requests, Synced(q)
  PROVE  OneRequest'
<1> /\ q \in Processes /\ q \notin Routines /\ TypeOK /\ JobsSound /\ ListenersExact
    /\ OneByOne /\ RowsMade /\ PendingExists
  BY Names DEF Base, OneRequest
<1>1. Busy(q) /\ UNCHANGED <<table, pending, cancelled>>
  BY DEF Synced, At, Busy
<1>2. RowsMade' /\ \A i \in Ids : (Exists(i)' <=> Exists(i)) /\ accounts'[i] = accounts[i]
  BY <1>1, SameTable
<1>3. CASE Return(q)
  BY <1>1, <1>2, <1>3, ReturnsAway DEF RowsKept, PendingKept
<1>4. CASE /\ job[q].op = "finish" /\ EnsureListener(job[q].id)
           /\ pc' = [pc EXCEPT ![q] = "idle", ![FreeRoutine] = "load"]
           /\ job' = [job EXCEPT ![q] = NoJob, ![FreeRoutine] = Begun("listen", job[q].id)]
  <2> DEFINE s == FreeRoutine
             id == job[q].id
  <2>1. id \in Ids /\ Exists(id) /\ accounts[id].user
    <3>1. Active(q) /\ ClientFact(q)
      BY <1>1, RequestActive DEF OneRequest
    <3>2. job[q].id \in Ids
      BY <1>1, BusyFacts
    <3> QED
      BY <1>4, <3>1, <3>2 DEF ClientFact, Knows, Gone
  <2>2. s \in Routines /\ ~Busy(s) /\ s \in Processes /\ s # q
    BY <1>4, <2>1, FreeRoutineType, Names DEF EnsureListener
  <2>3. id \in Ids /\ Begun("listen", id).id = id
    BY <2>1 DEF Begun
  <2> HIDE DEF s
  <2>4. /\ pc' = [pc EXCEPT ![q] = "idle", ![s] = "load"]
        /\ job' = [job EXCEPT ![q] = NoJob, ![s] = Begun("listen", id)]
    BY <1>4 DEF s
  <2> HIDE DEF id
  <2>5. /\ pc'[s] = "load" /\ job'[s] = Begun("listen", id) /\ pc'[q] = "idle"
        /\ \A r \in Processes \ {q, s} : pc'[r] = pc[r] /\ job'[r] = job[r]
    BY <2>2, <2>4 DEF TypeOK
  <2>6. \A r \in Requests : ~Busy(r)'
    <3>1. \A r \in Requests : r # q => ~Busy(r) /\ r # s /\ r \in Processes
      BY <1>1, <2>2, Names DEF OneByOne
    <3> QED
      BY <2>5, <3>1 DEF Busy
  <2>7. OneByOne' /\ \A r \in Requests : RequestFact(r)'
    BY <2>6 DEF OneByOne, RequestFact
  <2>8. PendingExists'
    BY <1>1, <1>2 DEF PendingExists, TypeOK, Pending
  <2>9. ASSUME NEW r \in Processes PROVE ClientFact(r)'
    <3>1. CASE r = q
      BY <2>5, <3>1 DEF ClientFact, Active, Busy
    <3>2. CASE r = s
      <4>1. pc'[s] = "load" /\ job'[s].id = id
        BY <2>3, <2>5
      <4>2. accounts'[id] = accounts[id] /\ accounts[id].status # "none"
        BY <1>2, <2>1 DEF Exists
      <4> QED
        BY <2>1, <3>2, <4>1, <4>2 DEF ClientFact, WithRow, Exists
    <3>3. CASE r # q /\ r # s
      <4>1. pc'[r] = pc[r] /\ job'[r] = job[r] /\ ClientFact(r)
        BY <2>5, <3>3 DEF OneRequest
      <4>2. Active(r)' => Active(r) /\ job[r].id \in Ids /\ accounts'[job[r].id] = accounts[job[r].id]
        BY <1>1, <1>2, <4>1, ActiveFacts DEF Active, Busy
      <4> QED
        BY <4>1, <4>2 DEF ClientFact, Exists, Knows, Gone
    <3> QED
      BY <3>1, <3>2, <3>3
  <2> QED
    BY <1>2, <2>7, <2>8, <2>9 DEF OneRequest
<1> QED
  BY <1>3, <1>4 DEF Synced

LEMMA RestartKeeps ==
  ASSUME Base, Base', OneRequest, Restart
  PROVE  OneRequest'
<1> RowsMade
  BY DEF OneRequest
<1> DEFINE on == {s \in Routines : accounts[-s].status = "authorized"}
<1>1. /\ pc' = [p \in Processes |-> IF p \in on THEN "load" ELSE "idle"]
      /\ job' = [p \in Processes |-> IF p \in on THEN Begun("listen", -p) ELSE NoJob]
      /\ pending' = NoPending /\ UNCHANGED table
  BY DEF Restart
<1>2. \A s \in on : s \in Routines /\ -s \in Ids /\ accounts[-s].status = "authorized"
  BY Names
<1> HIDE DEF on
<1>3. \A r \in Requests : ~Busy(r)'
  BY <1>1, <1>2, Names DEF Busy
<1>4. RowsMade' /\ \A i \in Ids : (Exists(i)' <=> Exists(i)) /\ accounts'[i] = accounts[i]
  BY <1>1, SameTable
<1>5. ASSUME NEW p \in Processes PROVE ClientFact(p)'
  <2>1. CASE p \in on
    <3>1. pc'[p] = "load" /\ job'[p].id = -p /\ -p \in Ids /\ accounts[-p].status = "authorized"
      BY <1>1, <1>2, <2>1 DEF Begun
    <3>2. Exists(-p) /\ accounts[-p].user
      BY <3>1 DEF RowsMade, Exists, NoRow
    <3> QED
      BY <1>4, <3>1, <3>2 DEF ClientFact, WithRow, Exists
  <2>2. CASE p \notin on
    BY <1>1, <2>2 DEF ClientFact, Active, Busy
  <2> QED
    BY <2>1, <2>2
<1> QED
  BY <1>1, <1>3, <1>4, <1>5 DEF OneRequest, OneByOne, PendingExists, RequestFact

\* The clients' facts and those about requests are not about pending, but for
\* the requests that need it to be about another account.
LEMMA QuietKeeps ==
  ASSUME Base, OneRequest, Expire \/ (\E k \in Keys : Revoke(k)) \/ UNCHANGED vars
  PROVE  OneRequest'
<1>1. /\ UNCHANGED <<accounts, nextId, made, strays, listeners, cancelled, pc, job>>
      /\ UNCHANGED pending \/ pending' = NoPending
  BY DEF Expire, Revoke, vars, table, history
<1>2. /\ OneByOne' /\ RowsMade' /\ PendingExists'
      /\ \A p \in Processes : ClientFact(p)'
  BY <1>1 DEF OneRequest, OneByOne, RowsMade, PendingExists, ClientFact, Active, Busy, Exists, Knows, Gone
<1>3. ASSUME NEW q \in Requests PROVE RequestFact(q)'
  <2> SUFFICES ASSUME Busy(q) PROVE Placed(q)' /\ LoginFact(q)'
    BY <1>1 DEF RequestFact, Busy
  <2>1. Placed(q) /\ LoginFact(q) /\ job[q].id \in Ids
    BY RequestActive, BusyFacts DEF Base
  <2>2. Quiet(job[q].id) => Quiet(job[q].id)'
    BY <1>1 DEF Quiet, Active, Busy
  <2>3. NoPending.id # job[q].id
    BY <2>1, Names DEF NoPending
  <2> QED
    BY <1>1, <2>1, <2>2, <2>3 DEF Placed, LoginFact
<1> QED
  BY <1>2, <1>3 DEF OneRequest

\* Counters and the history of requests only grow.
LEMMA HistoryGrows ==
  ASSUME TypeOK, [Next]_vars
  PROVE  /\ ~overlap' => ~overlap
         /\ used'.revocations = 0 => used.revocations = 0 /\ ~\E k \in Keys : Revoke(k)
         /\ used.revocations = 0 /\ used'.revocations # 0 => UNCHANGED accounts
<1>1. overlap => overlap'
  BY ZenonT(90) DEF Next, Request, StartNew, CancelPendingAuth, Verify, StartAgain, SyncChats, DeleteAccount, Arrive,
         Serve, Client, LoadSession, StoreSessionRead, StoreSessionSave, StatusUnauthorized, LogoutRead, LogoutSave,
         Prepare, SendCode, Cleanup, SignIn, PasswordNeeded, Refused, PersistRead, PersistSave, FinishAuth, Synced,
         DiscardRead, StopAccount, CancelAuth, DeleteRow,
         Listener, Listen, Interrupted, CheckCurrentAuthStatus, RunAgain, EndListener, Fail, Revoke, Expire, Restart,
         vars
<1>2. \/ UNCHANGED used
      \/ \E k \in Keys : Revoke(k)
      \/ Event("faults")
      \/ \E q \in Requests : Arrive(q)
  BY ZenonT(30) DEF Next, Request, StartNew, CancelPendingAuth, Verify, StartAgain, SyncChats, DeleteAccount,
         Serve, Client, LoadSession, StoreSessionRead, StoreSessionSave, StatusUnauthorized, LogoutRead, LogoutSave,
         Prepare, SendCode, Cleanup, SignIn, PasswordNeeded, Refused, PersistRead, PersistSave, FinishAuth, Synced,
         DiscardRead, StopAccount, CancelAuth, DeleteRow,
         Listener, Listen, Interrupted, CheckCurrentAuthStatus, RunAgain, EndListener, Fail, Expire, Restart,
         vars
<1>3. used.revocations \in Nat
  BY DEF TypeOK
<1>4. ASSUME NEW k \in Keys, Revoke(k) PROVE used'.revocations # 0
  <2>1. used' = [used EXCEPT !.revocations = @ + 1]
    BY <1>4 DEF Revoke, Event
  <2>2. used'.revocations = used.revocations + 1
    BY <2>1 DEF TypeOK
  <2> QED
    BY <1>3, <2>2
<1>5. Event("faults") => used'.revocations = used.revocations
  BY DEF Event, TypeOK
<1>6. \A q \in Requests : Arrive(q) => used'.revocations = used.revocations
  BY DEF Arrive, TypeOK
<1>7. (\E k \in Keys : Revoke(k)) => UNCHANGED accounts
  BY DEF Revoke, table, history
<1> QED
  BY <1>1, <1>2, <1>4, <1>5, <1>6, <1>7

LEMMA RowsInit == Init => RowsInv
<1> SUFFICES ASSUME Init PROVE RowsInv
  OBVIOUS
<1>1. \A p \in Processes : ~Busy(p)
  BY DEF Init, Busy
<1>2. \A i \in Ids : accounts[i] = NoRow
  BY DEF Init
<1>3. pending = NoPending
  BY DEF Init
<1> QED
  BY <1>1, <1>2, <1>3, BaseInit, Names
     DEF RowsInv, OneRequest, OneByOne, RowsMade, PendingExists, ClientFact, RequestFact, Active

LEMMA RowsStep == RowsInv /\ [Next]_vars => RowsInv'
<1> SUFFICES ASSUME RowsInv, [Next]_vars PROVE RowsInv'
  OBVIOUS
<1>1. Base /\ Base'
  BY BaseStep DEF RowsInv
<1>2. ~overlap' => ~overlap
  BY <1>1, HistoryGrows DEF Base
<1> SUFFICES ASSUME ~overlap' PROVE OneRequest'
  BY <1>1 DEF RowsInv
<1> OneRequest
  BY <1>2 DEF RowsInv
<1>3. ASSUME NEW q \in Requests, Request(q) \/ Serve(q) PROVE OneRequest'
  BY <1>1, <1>3, RequestKeeps, ClientKeeps, ServedKeeps, SyncedKeeps, Names DEF Serve, Served
<1>4. ASSUME NEW s \in Routines, Listener(s) PROVE OneRequest'
  BY <1>1, <1>4, ClientKeeps, ListenerKeeps, Names DEF Listener
<1>5. ASSUME NEW p \in Processes, Fail(p) PROVE OneRequest'
  BY <1>1, <1>5, FailKeeps
<1>6. CASE Expire \/ (\E k \in Keys : Revoke(k)) \/ UNCHANGED vars
  BY <1>1, <1>6, QuietKeeps
<1>7. CASE Restart
  BY <1>1, <1>7, RestartKeeps
<1> QED
  BY <1>3, <1>4, <1>5, <1>6, <1>7 DEF Next

\* While requests are served one at a time, every row of the table is one that
\* StartAuth has created or that a synchronisation of a missing account has
\* inserted: no listener, login, logout or cancelled login puts a row back after
\* its deletion.  The first half of RowsSound.
THEOREM NoRowReturns == Spec => [](~overlap => NoGhost)
<1>1. RowsInv => (~overlap => NoGhost)
  BY DEF RowsInv, OneRequest, RowsMade, NoGhost, Exists, NoRow
<1> QED
  BY RowsInit, RowsStep, <1>1, PTL DEF Spec

-----------------------------------------------------------------------------
(* Only Telegram and another login of the account end a login, while        *)
(* requests are served one at a time.                                       *)

LoggedIn(id) == accounts[id].status = "authorized"

\* What a client knows as long as Telegram has ended no session and nobody has
\* begun another login of its account: the row has the session it works with, or
\* none yet, and is still as the client has read it.
CalmClient(p) ==
  Active(p) /\ job[p].id \notin again =>
    /\ Knows(p) => LoggedIn(job[p].id)
    /\ pc[p] \in {"read", "store"} => accounts[job[p].id].session \in {0, job[p].key}
    /\ pc[p] \in {"call", "self", "persist", "run", "check"} /\ Exists(job[p].id) =>
         accounts[job[p].id].session = job[p].key
    /\ pc[p] \in WithRow => job[p].snap = accounts[job[p].id]
    /\ pc[p] \in {"self", "persist"} => job[p].key \in valid
    /\ pc[p] \in {"forget", "logout"} => ~LoggedIn(job[p].id)
    /\ job[p].op \in {"start", "code", "password", "cancel"} /\ pc[p] # "clear" => ~LoggedIn(job[p].id)

SessionsValid == \A i \in Ids \ again : LoggedIn(i) => accounts[i].session \in valid

\* A login is pending for an account that is not logged in, until it is cleared.
PendingCalm ==
  pending # NoPending /\ pending.id \notin again /\ LoggedIn(pending.id) => \E q \in Requests : pc[q] = "clear"

Calm == SessionsValid /\ PendingCalm /\ \A p \in Processes : CalmClient(p)

\* The inductive invariant.
CalmInv == RowsInv /\ (~overlap /\ used.revocations = 0 => Calm)

\* No login ends but by a deletion, unless another one has been begun.
LoginsKept == \A i \in Ids \ again : LoggedIn(i) => accounts'[i].status \in {"authorized", "none"}

\* A step of p changes the row of its own account only, or inserts one.
Own(p) ==
  \A i \in Ids : \/ i = job[p].id \/ accounts'[i] = accounts[i]
                 \/ p \in Requests /\ accounts[i] = NoRow /\ accounts'[i].status # "authorized"

\* It does so only when nobody else is at work on that account.
OwnRow(p) ==
  \A i \in Ids \ again :
    \/ accounts'[i] = accounts[i]
    \/ /\ p \in Requests /\ Quiet(i)
       /\ i = job[p].id \/ (~Exists(i) /\ accounts'[i].status # "authorized")

LEMMA OwnIsQuiet ==
  ASSUME OneRequest, NEW p \in Processes, Own(p),
         job[p].id \notin again => \/ accounts'[job[p].id] = accounts[job[p].id]
                                   \/ p \in Requests /\ Quiet(job[p].id)
  PROVE  OwnRow(p)
<1> NoRow.user = FALSE /\ NoRow.status = "none"
  BY DEF NoRow
<1>1. ASSUME NEW i \in Ids, accounts[i] = NoRow PROVE Quiet(i) /\ ~Exists(i)
  BY <1>1, NewIsQuiet DEF Exists
<1> QED
  BY <1>1 DEF Own, OwnRow

LEMMA CalmOthers ==
  ASSUME Base, Base', OneRequest, Calm, NEW p \in Processes, Busy(p), Moves(p), OwnRow(p), PendingKept(p),
         UNCHANGED again, \A r \in cancelled : r # p => r \in cancelled',
         \A k \in valid : k \in valid' \/ k \notin KeysHeld,
         job[p].id \notin again /\ accounts'[job[p].id].status = "authorized" =>
           accounts'[job[p].id].session \in valid',
         pc[p] = "clear" => pending' = NoPending,
         p \in Requests /\ job[p].id \notin again /\ accounts'[job[p].id].status = "authorized" =>
           pending'.id # job[p].id \/ pc'[p] = "clear",
         CalmClient(p)'
  PROVE  Calm'
<1> TypeOK /\ JobsSound /\ OneByOne /\ SessionsValid /\ PendingCalm /\ PendingExists
  BY DEF Base, OneRequest, Calm
<1>1. \A r \in Processes : r # p => pc'[r] = pc[r] /\ job'[r] = job[r]
  BY DEF Moves, TypeOK
<1>2. \A r \in Processes : r # p => (Active(r)' => Active(r))
  BY <1>1 DEF Active, Busy
<1>3. p \in Requests => \A q \in Requests : q # p => ~Busy(q)
  BY DEF OneByOne
<1>4. SessionsValid'
  <2> SUFFICES ASSUME NEW i \in Ids \ again, accounts'[i].status = "authorized"
               PROVE  accounts'[i].session \in valid'
    BY DEF SessionsValid, LoggedIn
  <2>1. CASE i = job[p].id
    BY <2>1
  <2>2. CASE accounts'[i] = accounts[i]
    <3>1. accounts[i].session \in valid /\ accounts[i].session \in KeysHeld
      BY <2>2 DEF SessionsValid, LoggedIn, KeysHeld
    <3> QED
      BY <2>2, <3>1
  <2> QED
    BY <2>1, <2>2 DEF OwnRow
<1>5. PendingCalm'
  <2> SUFFICES ASSUME pending' # NoPending, pending'.id \notin again, accounts'[pending'.id].status = "authorized"
               PROVE  \E q \in Requests : pc'[q] = "clear"
    BY DEF PendingCalm, LoggedIn
  <2>1. CASE p \in Requests /\ pending'.id = job[p].id
    BY <2>1
  <2>2. CASE ~(p \in Requests /\ pending'.id = job[p].id)
    <3>1. UNCHANGED pending /\ pending.id \in Ids
      BY <2>2 DEF PendingKept, Pending, TypeOK
    <3>2. accounts'[pending.id] = accounts[pending.id]
      BY <2>2, <3>1 DEF OwnRow, PendingExists
    <3>3. PICK q \in Requests : pc[q] = "clear"
      BY <3>1, <3>2 DEF PendingCalm, LoggedIn
    <3>4. q # p /\ q \in Processes
      BY <3>1, <3>3, Names
    <3> QED
      BY <1>1, <3>3, <3>4
  <2> QED
    BY <2>1, <2>2
<1>6. ASSUME NEW r \in Processes, r # p PROVE CalmClient(r)'
  <2> SUFFICES ASSUME Active(r)', job'[r].id \notin again PROVE CalmClient(r)'
    BY DEF CalmClient
  <2>1. Active(r) /\ pc'[r] = pc[r] /\ job'[r] = job[r]
    BY <1>1, <1>2, <1>6
  <2>2. job[r].id \in Ids /\ CalmClient(r)
    BY <2>1, ActiveFacts DEF Calm
  <2>3. accounts'[job[r].id] = accounts[job[r].id]
    <3>1. p \in Requests => r \in Routines
      BY <1>3, <1>6, <2>1 DEF Active, Processes
    <3> QED
      BY <2>1, <2>2, <3>1 DEF OwnRow, Quiet
  <2>4. job[r].key \in valid => job[r].key \in valid'
    BY DEF KeysHeld
  <2> QED
    BY <2>1, <2>2, <2>3, <2>4 DEF CalmClient, LoggedIn, Knows, Exists
<1> QED
  BY <1>4, <1>5, <1>6 DEF Calm

\* p goes on with its row unchanged, and the logins it knows of.
LEMMA CalmGoesOn ==
  ASSUME Base, Base', OneRequest, Calm, NEW p \in Processes, Active(p), Moves(p),
         UNCHANGED <<accounts, again>>, \A r \in cancelled : r # p => r \in cancelled',
         \A k \in valid : k \in valid' \/ k \notin KeysHeld,
         PendingKept(p), pc[p] = "clear" => pending' = NoPending,
         p \in Requests /\ job[p].id \notin again /\ LoggedIn(job[p].id) =>
           pending'.id # job[p].id \/ pc'[p] = "clear" \/ UNCHANGED pending,
         CalmClient(p)'
  PROVE  Calm'
<1> job[p].id \in Ids /\ SessionsValid /\ PendingCalm /\ OneByOne /\ TypeOK /\ Busy(p)
  BY ActiveFacts DEF Base, Calm, OneRequest
<1>1. job[p].id \notin again /\ LoggedIn(job[p].id) => accounts[job[p].id].session \in valid'
  BY DEF SessionsValid, LoggedIn, KeysHeld
<1>2. OwnRow(p)
  BY DEF OwnRow
<1>3. p \in Requests /\ job[p].id \notin again /\ LoggedIn(job[p].id) /\ UNCHANGED pending =>
        pending.id # job[p].id \/ pending = NoPending
  <2> SUFFICES ASSUME p \in Requests, job[p].id \notin again, LoggedIn(job[p].id), UNCHANGED pending,
                      pending.id = job[p].id, pending # NoPending
               PROVE  FALSE
    OBVIOUS
  <2>1. PICK q \in Requests : pc[q] = "clear"
    BY DEF PendingCalm
  <2>2. q = p
    BY <2>1 DEF Busy, OneByOne
  <2> QED
    BY <2>1, <2>2
<1>4. NoPending.id # job[p].id
  BY Names DEF NoPending
<1> QED
  BY <1>1, <1>2, <1>3, <1>4, CalmOthers DEF LoggedIn

\* Every goroutine at work is about an account that is logged in.
LEMMA OffIsQuiet ==
  ASSUME Calm, NEW id, id \notin again, ~LoggedIn(id)
  PROVE  Quiet(id)
  BY Names DEF Quiet, Calm, CalmClient, Knows

\* Clients and the operations that serve a request change no other row.
LEMMA SaveOwn ==
  ASSUME TypeOK, NEW p \in Processes, job[p].id \in Ids, NEW row, Save(job[p].id, row), Exists(job[p].id)
  PROVE  Own(p)
  BY DEF Save, Own, TypeOK

LEMMA ClientOwn ==
  ASSUME Base, OneRequest, NEW p \in Processes, Client(p)
  PROVE  Own(p)
<1> TypeOK /\ RowsMade
  BY DEF Base, OneRequest
<1>1. Active(p)
  BY DEF Client, LoadSession, StoreSessionRead, StoreSessionSave, StatusUnauthorized, LogoutRead, LogoutSave,
         At, Active, Busy
<1>2. /\ job[p].id \in Ids /\ job[p].snap \in Row /\ Busy(p)
      /\ Exists(job[p].id) \/ Gone(p)
      /\ pc[p] \in WithRow => (job[p].snap.status = "none" <=> ~Exists(job[p].id))
  BY <1>1, ActiveFacts
<1>3. CASE UNCHANGED accounts
  BY <1>3 DEF Own
<1>4. CASE (StoreSessionSave(p) \/ LogoutSave(p)) /\ Exists(job[p].id)
  BY <1>2, <1>4, SaveOwn DEF StoreSessionSave, LogoutSave
<1>5. CASE StoreSessionSave(p) /\ ~Exists(job[p].id)
  <2> DEFINE row == [[NoRow EXCEPT !.status = "logged_in"] EXCEPT !.session = job[p].key]
  <2>1. job[p].snap.status = "none" /\ p \in Requests
    BY <1>2, <1>5 DEF StoreSessionSave, At, WithRow, Gone
  <2>2. row.status = "logged_in"
    BY DEF NoRow
  <2>3. Save(job[p].id, row)
    BY <1>5, <2>1 DEF StoreSessionSave
  <2> HIDE DEF row
  <2>4. nextId \in Nat /\ accounts' = [accounts EXCEPT ![nextId] = row]
    BY <1>5, <2>3, AccountsAssumption DEF Save, Insert, TypeOK
  <2>5. nextId \in Ids => accounts[nextId] = NoRow
    BY <2>4 DEF RowsMade
  <2> QED
    BY <2>1, <2>2, <2>4, <2>5 DEF Own, TypeOK
<1>6. CASE LogoutSave(p) /\ ~Exists(job[p].id)
  <2>1. Gone(p) /\ pc[p] = "logout" /\ p \in Requests
    BY <1>2, <1>6 DEF LogoutSave, At, Gone
  <2>2. job[p].op # "delete"
    BY <1>2, <2>1 DEF OneRequest, RequestFact, Placed
  <2> QED
    BY <2>1, <2>2 DEF Gone
<1> QED
  BY <1>3, <1>4, <1>5, <1>6 DEF Client, LoadSession, StoreSessionRead, StatusUnauthorized, LogoutRead, table, history

LEMMA ServedOwn ==
  ASSUME Base, OneRequest, NEW q \in Requests, Served(q)
  PROVE  Own(q)
<1> TypeOK
  BY DEF Base
<1>1. Busy(q)
  BY DEF Served, Prepare, SendCode, Cleanup, SignIn, PasswordNeeded, Refused, PersistRead, PersistSave,
         FinishAuth, DiscardRead, StopAccount, CancelAuth, DeleteRow, At, Busy
<1>2. q \in Processes /\ Active(q) /\ Placed(q) /\ job[q].id \in Ids /\ (Exists(job[q].id) \/ Gone(q))
  BY <1>1, RequestActive, ActiveFacts
<1>3. CASE UNCHANGED accounts
  BY <1>3 DEF Own
<1>4. CASE Prepare(q) \/ PersistSave(q) \/ (Cleanup(q) /\ ~job[q].created)
  <2>1. Exists(job[q].id)
    BY <1>2, <1>4 DEF Prepare, PersistSave, Cleanup, At, Placed, Gone
  <2> QED
    BY <1>2, <1>4, <2>1, SaveOwn DEF Prepare, PersistSave, Cleanup
<1>5. CASE DeleteRow(q) \/ (Cleanup(q) /\ job[q].created)
  BY <1>2, <1>5 DEF DeleteRow, Cleanup, Delete, Own, TypeOK
<1> QED
  BY <1>3, <1>4, <1>5 DEF Served, SendCode, SignIn, PasswordNeeded, Refused, PersistRead,
         FinishAuth, DiscardRead, StopAccount, CancelAuth, table, history

\* A step about an account that has been logged in again disturbs no other.
LEMMA AgainKeeps ==
  ASSUME Base, Base', OneRequest, Calm, NEW p \in Processes, Busy(p), Moves(p), job[p].id \in again,
         job'[p].id = job[p].id \/ ~Active(p)', Own(p), PendingKept(p), UNCHANGED again,
         cancelled \subseteq cancelled', \A k \in valid : k \in valid' \/ k \notin KeysHeld,
         pc[p] = "clear" => pending' = NoPending
  PROVE  Calm' /\ LoginsKept
<1>1. CalmClient(p)'
  BY DEF CalmClient
<1>2. OwnRow(p)
  BY OwnIsQuiet
<1>3. LoginsKept
  <2>1. NoRow.status = "none"
    BY DEF NoRow
  <2> QED
    BY <2>1 DEF Own, LoginsKept, LoggedIn
<1> QED
  BY <1>1, <1>2, <1>3, CalmOthers

LEMMA CalmClientKeeps ==
  ASSUME Base, Base', OneRequest, Calm, NEW p \in Processes, Client(p)
  PROVE  Calm' /\ LoginsKept
<1> TypeOK /\ JobsSound /\ RowsMade /\ SessionsValid /\ PendingCalm
  BY DEF Base, OneRequest, Calm
<1>1. Active(p)
  BY DEF Client, LoadSession, StoreSessionRead, StoreSessionSave, StatusUnauthorized, LogoutRead, LogoutSave,
         At, Active, Busy
<1>2. /\ Busy(p) /\ job[p] \in Job /\ job[p].snap \in Row /\ job[p].id \in Ids
      /\ accounts[job[p].id] \in Row /\ (Exists(job[p].id) \/ Gone(p))
      /\ ~Exists(job[p].id) => accounts[job[p].id] = NoRow
  BY <1>1, ActiveFacts DEF RowsMade, Exists
<1>3. Moves(p) /\ UNCHANGED cancelled /\ PendingKept(p) /\ UNCHANGED pending
  BY ClientShape DEF Client, LoadSession, StoreSessionRead, StoreSessionSave, StatusUnauthorized, LogoutRead,
                     LogoutSave, PendingKept
<1>13. UNCHANGED again
  BY DEF Client, LoadSession, StoreSessionRead, StoreSessionSave, StatusUnauthorized, LogoutRead, LogoutSave,
         Save, table, history
<1>14. FreshKey \notin KeysHeld
  BY FreshKeyType
<1>15. Own(p)
  BY ClientOwn
<1>16. CASE job[p].id \in again
  <2>1. job'[p].id = job[p].id \/ ~Active(p)'
    <3>1. CASE Return(p)
      BY <1>2, <3>1, Returns DEF Active, Busy
    <3>2. CASE LoadSession(p)
      <4>1. PICK k : job' = [job EXCEPT ![p].key = k]
        BY <3>2 DEF LoadSession
      <4> QED
        BY <1>2, <4>1 DEF TypeOK, Job
    <3>3. ASSUME NEW row, job' = [job EXCEPT ![p].snap = row] PROVE job'[p].id = job[p].id
      BY <1>2, <3>3 DEF TypeOK, Job
    <3> QED
      BY <3>1, <3>2, <3>3 DEF Client, StoreSessionRead, StoreSessionSave, StatusUnauthorized, LogoutRead, LogoutSave
  <2>2. \A k \in valid : k \in valid' \/ k \notin KeysHeld
    BY <1>14 DEF Client, LoadSession, StoreSessionRead, StoreSessionSave, StatusUnauthorized, LogoutRead, LogoutSave
  <2>3. pc[p] # "clear"
    BY DEF Client, LoadSession, StoreSessionRead, StoreSessionSave, StatusUnauthorized, LogoutRead, LogoutSave, At
  <2> QED
    BY <1>2, <1>3, <1>13, <1>15, <1>16, <2>1, <2>2, <2>3, AgainKeeps
<1> SUFFICES ASSUME job[p].id \notin again PROVE Calm' /\ LoginsKept
  BY <1>16
<1>4. CalmClient(p) /\ pc[p] # "clear"
  BY DEF Calm, Client, LoadSession, StoreSessionRead, StoreSessionSave, StatusUnauthorized, LogoutRead,
         LogoutSave, At
<1>5. ASSUME UNCHANGED <<accounts, valid>>, CalmClient(p)' PROVE Calm' /\ LoginsKept
  <2>1. LoginsKept
    BY <1>5 DEF LoginsKept, LoggedIn
  <2> QED
    BY <1>1, <1>3, <1>4, <1>5, <1>13, <2>1, CalmGoesOn
<1>6. ~LoggedIn(job[p].id) => Quiet(job[p].id)
  BY OffIsQuiet
<1>7. CASE LoadSession(p)
  <2> DEFINE stored == accounts[job[p].id].session
             k == IF stored # 0 THEN stored ELSE FreshKey
  <2>1. /\ job' = [job EXCEPT ![p].key = k] /\ valid' = (IF stored # 0 THEN valid ELSE valid \ {k})
        /\ pc[p] = "load" /\ Goto(p, "read") /\ UNCHANGED <<accounts, cancelled>>
    BY <1>7 DEF LoadSession, At, table, history
  <2>2. stored \in {0, k} /\ \A j \in valid : j \in valid' \/ j \notin KeysHeld
    BY <1>14, <2>1
  <2> HIDE DEF k
  <2>3. job'[p].id = job[p].id /\ job'[p].op = job[p].op /\ job'[p].key = k /\ pc'[p] = "read"
    BY <1>2, <2>1 DEF Goto, TypeOK, Job
  <2>4. CalmClient(p)'
    BY <1>1, <1>4, <2>1, <2>2, <2>3 DEF CalmClient, LoggedIn, Knows, WithRow
  <2>5. LoginsKept
    BY <2>1 DEF LoginsKept, LoggedIn
  <2> QED
    BY <1>1, <1>3, <1>4, <1>13, <2>1, <2>2, <2>4, <2>5, CalmGoesOn
<1>8. CASE StoreSessionRead(p) \/ (LogoutRead(p) /\ Exists(job[p].id))
  <2>1. /\ job' = [job EXCEPT ![p].snap = accounts[job[p].id]] /\ UNCHANGED <<accounts, valid>>
        /\ \/ pc[p] = "read" /\ Goto(p, "store")
           \/ pc[p] = "forget" /\ Goto(p, "logout")
    BY <1>8 DEF StoreSessionRead, LogoutRead, At, table, history
  <2>2. /\ job'[p].id = job[p].id /\ job'[p].op = job[p].op /\ job'[p].key = job[p].key
        /\ job'[p].snap = accounts[job[p].id]
    BY <1>2, <2>1 DEF TypeOK, Job
  <2>3. (pc[p] = "read" /\ pc'[p] = "store") \/ (pc[p] = "forget" /\ pc'[p] = "logout")
    BY <2>1 DEF Goto, TypeOK
  <2>4. CalmClient(p)'
    BY <1>1, <1>4, <2>1, <2>2, <2>3 DEF CalmClient, LoggedIn, Knows
  <2> QED
    BY <1>5, <2>1, <2>4
<1>9. CASE StoreSessionSave(p) /\ Exists(job[p].id)
  <2> DEFINE id == job[p].id
             row == [accounts[id] EXCEPT !.session = job[p].key]
  <2>1. pc[p] = "store" /\ job[p].snap = accounts[id] /\ accounts[id].session \in {0, job[p].key}
    BY <1>1, <1>4, <1>9 DEF StoreSessionSave, At, CalmClient, WithRow
  <2>2. Save(id, row) /\ job' = [job EXCEPT ![p].snap = NoRow] /\ pc'[p] = "call" /\ UNCHANGED valid
    BY <1>2, <1>9, <2>1 DEF StoreSessionSave, Exists, Goto, TypeOK
  <2>3. row.status = accounts[id].status /\ row.session = job[p].key /\ row.user = accounts[id].user
    BY <1>2 DEF Row
  <2>4. LoggedIn(id) => row = accounts[id]
    <3>1. LoggedIn(id) => accounts[id].session = job[p].key
      BY <1>2, <2>1 DEF SessionsValid, TypeOK, Keys
    <3> QED
      BY <1>2, <3>1 DEF Row
  <2> HIDE DEF row
  <2>5. \A i \in Ids : accounts'[i] = IF i = id THEN row ELSE accounts[i]
    BY <1>2, <1>9, <2>2 DEF Save, TypeOK
  <2>6. OwnRow(p)
    <3>1. row = accounts[id] \/ (p \in Requests /\ Quiet(id))
      BY <1>1, <1>4, <1>6, <2>4 DEF CalmClient, Knows, Processes
    <3> QED
      BY <2>5, <3>1 DEF OwnRow
  <2>7. /\ job'[p].id = job[p].id /\ job'[p].op = job[p].op /\ job'[p].key = job[p].key
    BY <1>2, <2>2 DEF TypeOK, Job
  <2>8. CalmClient(p)'
    BY <1>1, <1>2, <1>4, <2>1, <2>2, <2>3, <2>5, <2>7 DEF CalmClient, LoggedIn, Knows, WithRow
  <2>9. LoginsKept
    BY <2>3, <2>5 DEF LoginsKept, LoggedIn
  <2>10. accounts'[id].status = "authorized" => LoggedIn(id) /\ accounts'[id] = accounts[id]
    BY <1>2, <2>3, <2>4, <2>5 DEF LoggedIn
  <2>11. LoggedIn(id) => accounts[id].session \in valid'
    BY <1>2, <2>2 DEF SessionsValid
  <2>12. p \in Requests /\ LoggedIn(id) => pending'.id # id
    <3> SUFFICES ASSUME p \in Requests, LoggedIn(id), pending.id = id PROVE FALSE
      BY <1>3
    <3>1. pending # NoPending
      BY <1>2, Names DEF NoPending
    <3>2. PICK q \in Requests : pc[q] = "clear"
      BY <3>1 DEF PendingCalm
    <3>3. q = p
      BY <1>2, <3>2 DEF OneRequest, OneByOne, Busy
    <3> QED
      BY <1>4, <3>2, <3>3
  <2> QED
    BY <1>2, <1>3, <1>4, <1>13, <2>2, <2>6, <2>8, <2>9, <2>10, <2>11, <2>12, CalmOthers
<1>17. CASE StoreSessionSave(p) /\ ~Exists(job[p].id)
  <2> DEFINE id == job[p].id
             row == [[NoRow EXCEPT !.status = "logged_in"] EXCEPT !.session = job[p].key]
  <2>1. pc[p] = "store" /\ job[p].snap = NoRow /\ p \in Requests /\ job[p].op = "sync"
    <3>1. pc[p] = "store" /\ job[p].snap = NoRow /\ Gone(p)
      BY <1>1, <1>2, <1>4, <1>17 DEF StoreSessionSave, At, CalmClient, WithRow
    <3>2. p \in Requests => job[p].op # "delete"
      BY <1>2, <3>1 DEF OneRequest, RequestFact, Placed
    <3> QED
      BY <3>1, <3>2 DEF Gone
  <2>2. row.status = "logged_in" /\ row.session = job[p].key
    BY DEF NoRow
  <2>3. Save(id, row) /\ job' = [job EXCEPT ![p].snap = NoRow] /\ pc'[p] = "call" /\ UNCHANGED valid
    BY <1>17, <2>1 DEF StoreSessionSave, NoRow, Goto, TypeOK
  <2> HIDE DEF row
  <2>4. accounts' = [accounts EXCEPT ![nextId] = row] /\ nextId \in Nat
    BY <1>17, <2>3, AccountsAssumption DEF Save, Insert, TypeOK
  <2>5. accounts'[id] \in {NoRow, row} /\ (id # nextId => accounts'[id] = NoRow)
    BY <1>2, <1>17, <2>4 DEF TypeOK
  <2>6. NoRow.status = "none"
    BY DEF NoRow
  <2>7. /\ job'[p].id = job[p].id /\ job'[p].op = "sync" /\ job'[p].key = job[p].key
    BY <1>2, <2>1, <2>3 DEF TypeOK, Job
  <2>8. CalmClient(p)'
    BY <2>1, <2>2, <2>3, <2>5, <2>6, <2>7, Names DEF CalmClient, Knows, WithRow, Exists
  <2>9. Quiet(id) /\ ~LoggedIn(id)
    BY <1>6, <1>17 DEF LoggedIn, Exists
  <2>10. OwnRow(p)
    BY <1>15, <2>1, <2>9, OwnIsQuiet
  <2>11. LoginsKept
    BY <1>15, <2>6, <2>9 DEF Own, LoginsKept, LoggedIn
  <2>12. accounts'[id].status # "authorized"
    BY <2>2, <2>5, <2>6
  <2> QED
    BY <1>2, <1>3, <1>4, <1>13, <2>3, <2>8, <2>10, <2>11, <2>12, CalmOthers
<1>10. CASE StatusUnauthorized(p)
  <2>1. /\ pc[p] = "call" /\ job[p].key \notin valid /\ pc'[p] = "forget" /\ job'[p] = job[p]
        /\ UNCHANGED <<accounts, valid>>
    BY <1>10 DEF StatusUnauthorized, At, Goto, TypeOK, table, history
  <2>2. ~LoggedIn(job[p].id)
    BY <1>1, <1>2, <1>4, <2>1 DEF CalmClient, SessionsValid, LoggedIn, Exists
  <2>3. CalmClient(p)'
    BY <1>1, <1>4, <2>1, <2>2 DEF CalmClient, LoggedIn, Knows, WithRow
  <2> QED
    BY <1>5, <2>1, <2>3
<1>11. CASE LogoutRead(p) /\ ~Exists(job[p].id)
  <2>1. Return(p) /\ UNCHANGED <<accounts, valid>>
    BY <1>11 DEF LogoutRead, table, history
  <2>2. ~LoggedIn(job[p].id) /\ p \in Requests
    BY <1>2, <1>11 DEF LoggedIn, Exists, Gone
  <2>3. CalmClient(p)'
    BY <1>2, <2>1, <2>2, Returns, Names DEF CalmClient, Active, Busy
  <2> QED
    BY <1>5, <2>1, <2>3
<1>12. CASE LogoutSave(p)
  <2> DEFINE id == job[p].id
             row == LoggedOut(job[p].snap)
  <2>1. pc[p] = "logout" /\ Save(id, row) /\ Return(p) /\ UNCHANGED valid
    BY <1>12 DEF LogoutSave, At
  <2>2. ~LoggedIn(id) /\ p \in Requests
    BY <1>1, <1>4, <2>1 DEF CalmClient, Knows, Processes
  <2>3. row.status = "logged_out"
    BY <1>2 DEF Row, LoggedOut
  <2> HIDE DEF row
  <2>4. accounts'[id].status # "authorized"
    <3>1. Exists(id)
      BY <1>2, <2>1, <2>2 DEF OneRequest, RequestFact, Placed, Gone
    <3> QED
      BY <1>2, <2>1, <2>3, <3>1 DEF Save, TypeOK
  <2>5. OwnRow(p) /\ LoginsKept
    <3>1. NoRow.status = "none"
      BY DEF NoRow
    <3> QED
      BY <1>6, <1>15, <2>2, <3>1, OwnIsQuiet DEF Own, LoginsKept, LoggedIn
  <2>6. CalmClient(p)'
    BY <1>2, <2>1, <2>2, Returns, Names DEF CalmClient, Active, Busy
  <2> QED
    BY <1>2, <1>3, <1>4, <1>13, <2>1, <2>4, <2>5, <2>6, CalmOthers
<1> QED
  BY <1>7, <1>8, <1>9, <1>10, <1>11, <1>12, <1>17 DEF Client

\* A request changes the row of its account so that it is not logged in.
LEMMA CalmRowOff ==
  ASSUME Base, Base', OneRequest, Calm, NEW q \in Requests, Active(q), Moves(q), Quiet(job[q].id),
         job[q].id \notin again, UNCHANGED again, NEW row, row.status # "authorized", LoggedIn(job[q].id) => row.status = "none",
         \A i \in Ids : accounts'[i] = IF i = job[q].id THEN row ELSE accounts[i],
         UNCHANGED <<valid, cancelled>>, PendingKept(q), pc[q] # "clear", CalmClient(q)'
  PROVE  Calm' /\ LoginsKept
<1> q \in Processes /\ job[q].id \in Ids /\ Busy(q)
  BY ActiveFacts, Names
<1>1. OwnRow(q) /\ LoginsKept
  BY DEF OwnRow, LoginsKept, LoggedIn
<1>2. accounts'[job[q].id].status # "authorized"
  OBVIOUS
<1> QED
  BY <1>1, <1>2, CalmOthers

LEMMA CalmServedKeeps ==
  ASSUME Base, Base', OneRequest, Calm, NEW q \in Requests, Served(q)
  PROVE  Calm' /\ LoginsKept
<1> TypeOK /\ JobsSound /\ RowsMade /\ SessionsValid
  BY DEF Base, OneRequest, Calm
<1>1. Busy(q)
  BY DEF Served, Prepare, SendCode, Cleanup, SignIn, PasswordNeeded, Refused, PersistRead, PersistSave,
         FinishAuth, DiscardRead, StopAccount, CancelAuth, DeleteRow, At, Busy
<1>2. q \in Processes /\ q \notin Routines /\ Active(q) /\ Placed(q) /\ LoginFact(q) /\ CalmClient(q)
  BY <1>1, RequestActive DEF Calm
<1>3. /\ job[q] \in Job /\ job[q].snap \in Row /\ job[q].copy \in Row /\ job[q].id \in Ids
      /\ accounts[job[q].id] \in Row /\ (job[q].op \in {"sync", "delete"} \/ Exists(job[q].id))
  BY <1>2, ActiveFacts DEF Gone
<1>4. Moves(q) /\ cancelled \subseteq cancelled'
  BY ServeShape DEF Served, Prepare, SendCode, Cleanup, SignIn, PasswordNeeded, Refused, PersistRead, PersistSave,
         FinishAuth, DiscardRead, StopAccount, CancelAuth, DeleteRow
<1>20. UNCHANGED again
  BY DEF Served, Prepare, SendCode, Cleanup, SignIn, PasswordNeeded, Refused, PersistRead, PersistSave,
         FinishAuth, DiscardRead, StopAccount, CancelAuth, DeleteRow, Save, Delete, table, history
<1>5. ASSUME UNCHANGED accounts, valid \subseteq valid', PendingKept(q), pc[q] = "clear" => pending' = NoPending,
             job[q].id \notin again, LoggedIn(job[q].id) => pending' \in {pending, NoPending}, CalmClient(q)'
      PROVE  Calm' /\ LoginsKept
  <2>1. LoginsKept
    BY <1>5 DEF LoginsKept, LoggedIn
  <2>2. NoPending.id # job[q].id
    BY <1>3, Names DEF NoPending
  <2> QED
    BY <1>2, <1>4, <1>5, <1>20, <2>1, <2>2, CalmGoesOn
<1>6. ASSUME pc'[q] = "idle" PROVE CalmClient(q)'
  BY <1>6 DEF CalmClient, Active, Busy
<1>7. Return(q) => pc'[q] = "idle"
  BY <1>2 DEF Return, Goto, TypeOK
<1>21. CASE job[q].id \in again
  <2>1. job'[q].id = job[q].id \/ ~Active(q)'
    <3>1. CASE Return(q)
      BY <1>7, <3>1 DEF Active, Busy
    <3>2. CASE UNCHANGED job
      BY <3>2
    <3>3. CASE FinishAuth(q)
      <4>1. job'[q] = Begun("finish", job[q].id)
        BY <1>2, <3>3 DEF FinishAuth, TypeOK
      <4> QED
        BY <4>1 DEF Begun
    <3>4. CASE job' = [job EXCEPT ![q].snap = accounts[job[q].id]]
      BY <1>2, <1>3, <3>4 DEF TypeOK, Job
    <3> QED
      BY <3>1, <3>2, <3>3, <3>4 DEF Served, Prepare, SendCode, Cleanup, SignIn, PasswordNeeded, Refused,
         PersistRead, PersistSave, DiscardRead, StopAccount, CancelAuth, DeleteRow
  <2>2. PendingKept(q)
    BY <1>3 DEF PendingKept, Served, Prepare, SendCode, Cleanup, SignIn, PasswordNeeded, Refused,
         PersistRead, PersistSave, FinishAuth, DiscardRead, StopAccount, CancelAuth, DeleteRow
  <2>3. valid \subseteq valid' /\ (pc[q] = "clear" => pending' = NoPending)
    BY DEF Served, Prepare, SendCode, Cleanup, SignIn, PasswordNeeded, Refused,
         PersistRead, PersistSave, FinishAuth, DiscardRead, StopAccount, CancelAuth, DeleteRow, At
  <2>4. Own(q)
    BY ServedOwn
  <2> QED
    BY <1>1, <1>2, <1>4, <1>20, <1>21, <2>1, <2>2, <2>3, <2>4, AgainKeeps
<1> SUFFICES ASSUME job[q].id \notin again PROVE Calm' /\ LoginsKept
  BY <1>21
<1>8. CASE Prepare(q)
  <2>1. pc[q] = "prepare" /\ Save(job[q].id, job[q].copy) /\ UNCHANGED <<job, pending, valid, cancelled>> /\ pc'[q] = "load"
    BY <1>2, <1>8 DEF Prepare, At, Goto, TypeOK
  <2>2. job[q].op = "start" /\ job[q].copy.status = "authorizing"
    BY <1>2, <2>1 DEF Placed, LoginFact
  <2>3. ~LoggedIn(job[q].id) /\ Quiet(job[q].id)
    BY <1>2, <2>1, <2>2, OffIsQuiet DEF CalmClient
  <2>4. \A i \in Ids : accounts'[i] = IF i = job[q].id THEN job[q].copy ELSE accounts[i]
    BY <1>3, <2>1, <2>2 DEF Save, TypeOK
  <2>5. CalmClient(q)'
    BY <1>2, <1>3, <2>1, <2>2, <2>4 DEF CalmClient, LoggedIn, Knows, WithRow
  <2> QED
    BY <1>2, <1>4, <1>20, <2>1, <2>2, <2>3, <2>4, <2>5, CalmRowOff DEF PendingKept
<1>9. CASE SendCode(q) \/ PasswordNeeded(q)
  <2>1. /\ pc[q] = "call" /\ job[q].op \in {"start", "code"} /\ Return(q) /\ pending'.id = job[q].id
        /\ UNCHANGED <<accounts, valid>>
    BY <1>9 DEF SendCode, PasswordNeeded, At, table, history
  <2>2. ~LoggedIn(job[q].id)
    BY <1>2, <2>1 DEF CalmClient
  <2> QED
    BY <1>3, <1>5, <1>6, <1>7, <2>1, <2>2 DEF PendingKept
<1>10. CASE Cleanup(q)
  <2> DEFINE row == IF job[q].created THEN NoRow ELSE LoggedOut(job[q].copy)
  <2>1. pc[q] = "cleanup" /\ Return(q) /\ UNCHANGED <<pending, valid, cancelled>>
    BY <1>10 DEF Cleanup, At
  <2>2. ~LoggedIn(job[q].id) /\ Quiet(job[q].id)
    BY <1>2, <2>1, OffIsQuiet DEF CalmClient, Placed
  <2>3. row.status # "authorized"
    BY <1>3 DEF Row, LoggedOut, NoRow
  <2>4. \A i \in Ids : accounts'[i] = IF i = job[q].id THEN row ELSE accounts[i]
    BY <1>2, <1>3, <1>10, <2>1 DEF Cleanup, Save, Delete, TypeOK, Placed
  <2> HIDE DEF row
  <2> QED
    BY <1>2, <1>4, <1>6, <1>7, <1>20, <2>1, <2>2, <2>3, <2>4, CalmRowOff DEF PendingKept
<1>11. CASE SignIn(q)
  <2>1. /\ pc[q] = "call" /\ pc'[q] = "self" /\ job'[q] = job[q] /\ job[q].op \in {"code", "password"}
        /\ UNCHANGED <<accounts, pending>> /\ valid' = valid \cup {job[q].key}
    BY <1>2, <1>11 DEF SignIn, At, Goto, TypeOK, table, history
  <2>2. CalmClient(q)'
    BY <1>2, <2>1 DEF CalmClient, LoggedIn, Knows, WithRow, Exists
  <2> QED
    BY <1>5, <2>1, <2>2 DEF PendingKept
<1>12. CASE Refused(q)
  <2>1. pc[q] = "call" /\ UNCHANGED <<accounts, pending, valid>>
    BY <1>12 DEF Refused, At, table, history
  <2>2. CalmClient(q)'
    <3>1. CASE job[q].op = "start"
      <4>1. pc'[q] = "cleanup" /\ job'[q] = job[q]
        BY <1>2, <1>12, <3>1 DEF Refused, Goto, TypeOK
      <4> QED
        BY <1>2, <2>1, <3>1, <4>1 DEF CalmClient, LoggedIn, Knows, WithRow
    <3>2. CASE job[q].op # "start"
      BY <1>6, <1>7, <1>12, <3>2 DEF Refused
    <3> QED
      BY <3>1, <3>2
  <2> QED
    BY <1>5, <2>1, <2>2 DEF PendingKept
<1>13. CASE PersistRead(q)
  <2>1. /\ pc[q] = "self" /\ pc'[q] = "persist" /\ job' = [job EXCEPT ![q].snap = accounts[job[q].id]]
        /\ UNCHANGED <<accounts, pending, valid>>
    BY <1>2, <1>13 DEF PersistRead, At, Goto, TypeOK, table, history
  <2>2. /\ job'[q].id = job[q].id /\ job'[q].op = job[q].op /\ job'[q].key = job[q].key
        /\ job'[q].snap = accounts[job[q].id]
    BY <1>2, <1>3, <2>1 DEF TypeOK, Job
  <2>3. CalmClient(q)'
    BY <1>2, <2>1, <2>2 DEF CalmClient, LoggedIn, Knows, Exists
  <2> QED
    BY <1>5, <2>1, <2>3 DEF PendingKept
<1>14. CASE PersistSave(q)
  <2> DEFINE id == job[q].id
             row == Authorized(accounts[id])
  <2>1. /\ pc[q] = "persist" /\ pc'[q] = "clear" /\ job'[q] = job[q] /\ Save(id, Authorized(job[q].snap))
        /\ UNCHANGED <<valid, pending, cancelled>>
    BY <1>2, <1>14 DEF PersistSave, At, Goto, TypeOK
  <2>2. job[q].snap = accounts[id] /\ job[q].key \in valid /\ accounts[id].session = job[q].key
    BY <1>2, <1>3, <2>1 DEF CalmClient, WithRow, Placed
  <2>3. ~LoggedIn(id) /\ Quiet(id)
    BY <1>2, <2>1, OffIsQuiet DEF CalmClient, Placed
  <2>4. row.status = "authorized" /\ row.session = accounts[id].session
    BY <1>3 DEF Authorized, Row
  <2>5. Save(id, row)
    BY <2>1, <2>2
  <2> HIDE DEF row
  <2>6. \A i \in Ids : accounts'[i] = IF i = id THEN row ELSE accounts[i]
    BY <1>2, <1>3, <2>1, <2>5 DEF Save, TypeOK, Placed
  <2>7. OwnRow(q) /\ LoginsKept
    BY <2>3, <2>6 DEF OwnRow, LoginsKept, LoggedIn
  <2>8. CalmClient(q)'
    BY <1>2, <1>3, <2>1, <2>4, <2>6 DEF CalmClient, LoggedIn, WithRow
  <2> QED
    BY <1>1, <1>2, <1>3, <1>4, <1>20, <2>1, <2>2, <2>4, <2>6, <2>7, <2>8, CalmOthers DEF PendingKept
<1>15. CASE FinishAuth(q)
  <2>1. /\ pc[q] = "clear" /\ pc'[q] = "load" /\ job'[q] = Begun("finish", job[q].id) /\ pending' = NoPending
        /\ UNCHANGED <<accounts, valid>>
    BY <1>2, <1>15 DEF FinishAuth, At, Goto, TypeOK, table, history
  <2>2. job'[q].id = job[q].id /\ job'[q].op = "finish"
    BY <2>1 DEF Begun
  <2>3. CalmClient(q)'
    BY <1>2, <2>1, <2>2 DEF CalmClient, LoggedIn, Knows, WithRow
  <2> QED
    BY <1>2, <1>5, <2>1, <2>3 DEF PendingKept
<1>16. CASE DiscardRead(q)
  <2>1. pc[q] = "discard" /\ UNCHANGED <<accounts, pending, valid>>
    BY <1>16 DEF DiscardRead, At, table, history
  <2>2. CASE Return(q)
    BY <1>3, <1>5, <1>6, <1>7, <2>1, <2>2 DEF PendingKept
  <2>3. CASE Goto(q, "delete") /\ UNCHANGED job
    <3>1. pc'[q] = "delete" /\ job'[q] = job[q]
      BY <1>2, <2>3 DEF Goto, TypeOK
    <3>2. CalmClient(q)'
      BY <1>2, <2>1, <3>1 DEF CalmClient, LoggedIn, Knows, WithRow
    <3> QED
      BY <1>5, <2>1, <3>2 DEF PendingKept
  <2>4. CASE job' = [job EXCEPT ![q].snap = accounts[job[q].id]] /\ Goto(q, "logout")
    <3>1. /\ job'[q].id = job[q].id /\ job'[q].op = job[q].op /\ job'[q].key = job[q].key
          /\ job'[q].snap = accounts[job[q].id] /\ pc'[q] = "logout"
      BY <1>2, <1>3, <2>4 DEF TypeOK, Job, Goto
    <3>2. job[q].op = "cancel"
      BY <1>2, <2>1 DEF Placed
    <3>3. CalmClient(q)'
      BY <1>2, <2>1, <3>1, <3>2 DEF CalmClient, LoggedIn, Knows
    <3> QED
      BY <1>5, <2>1, <3>3 DEF PendingKept
  <2> QED
    BY <1>16, <2>2, <2>3, <2>4 DEF DiscardRead
<1>17. CASE StopAccount(q) \/ CancelAuth(q)
  <2>1. /\ pc[q] \in {"stop", "unpend"} /\ pc'[q] \in {"unpend", "delete"} /\ job'[q] = job[q]
        /\ UNCHANGED <<accounts, valid>> /\ pending' \in {pending, NoPending}
    BY <1>2, <1>17 DEF StopAccount, CancelAuth, At, Goto, TypeOK, table, history
  <2>2. CalmClient(q)'
    BY <1>2, <2>1 DEF CalmClient, LoggedIn, Knows, WithRow
  <2> QED
    BY <1>2, <1>5, <2>1, <2>2 DEF PendingKept
<1>18. CASE DeleteRow(q)
  <2>1. pc[q] = "delete" /\ Delete(job[q].id) /\ Return(q) /\ UNCHANGED <<pending, valid, cancelled>>
    BY <1>18 DEF DeleteRow, At
  <2>2. Quiet(job[q].id)
    BY <1>2, <2>1 DEF Placed
  <2>3. NoRow.status = "none"
    BY DEF NoRow
  <2>4. \A i \in Ids : accounts'[i] = IF i = job[q].id THEN NoRow ELSE accounts[i]
    BY <1>3, <2>1 DEF Delete, TypeOK
  <2> QED
    BY <1>2, <1>4, <1>6, <1>7, <1>20, <2>1, <2>2, <2>3, <2>4, CalmRowOff DEF PendingKept
<1> QED
  BY <1>8, <1>9, <1>10, <1>11, <1>12, <1>13, <1>14, <1>15, <1>16, <1>17, <1>18 DEF Served

\* Without a request nothing is pending for an account that is logged in.
LEMMA CalmRequest ==
  ASSUME Base, Base', OneRequest, Calm, NEW q \in Requests, Request(q), ~overlap', OneRequest'
  PROVE  Calm' /\ LoginsKept
<1> /\ q \in Processes /\ q \notin Routines /\ TypeOK /\ RowsMade /\ PendingExists
    /\ SessionsValid /\ PendingCalm
  BY Names DEF Base, OneRequest, Calm
<1>1. \A r \in Requests : ~Busy(r)
  BY DEF Request, StartNew, CancelPendingAuth, Verify, StartAgain, SyncChats, DeleteAccount, Arrive
<1>2. Moves(q) /\ UNCHANGED <<listeners, cancelled>>
  BY RequestShape
<1>3. UNCHANGED valid /\ pending' \in {pending, NoPending}
  BY DEF Request, StartNew, CancelPendingAuth, Verify, StartAgain, SyncChats, DeleteAccount
<1>4. pending # NoPending => pending.id \in Ids /\ Exists(pending.id)
                             /\ (pending.id \in again \/ ~LoggedIn(pending.id))
  <2>1. \A r \in Requests : pc[r] # "clear"
    BY <1>1 DEF Busy
  <2> QED
    BY <2>1 DEF PendingExists, PendingCalm, TypeOK, Pending
<1>5. \A r \in Processes : r # q => pc'[r] = pc[r] /\ job'[r] = job[r]
  BY <1>2 DEF Moves, TypeOK
<1>6. ASSUME \A i \in Ids : \/ accounts'[i] = accounts[i]
                            \/ ~Exists(i) /\ accounts'[i].status # "authorized",
             again \subseteq again', CalmClient(q)'
      PROVE  Calm' /\ LoginsKept
  <2>1. \A i \in Ids : Exists(i) => accounts'[i] = accounts[i]
    BY <1>6
  <2>2. LoginsKept
    BY <2>1 DEF LoginsKept, LoggedIn, Exists
  <2>3. SessionsValid'
    BY <1>3, <1>6 DEF SessionsValid, LoggedIn
  <2>4. PendingCalm'
    <3>1. CASE pending' = NoPending
      BY <3>1 DEF PendingCalm
    <3>2. CASE pending' = pending /\ pending # NoPending /\ pending.id \in again
      BY <1>6, <3>2 DEF PendingCalm
    <3>3. CASE pending' = pending /\ pending # NoPending /\ pending.id \notin again
      <4>1. accounts'[pending'.id].status # "authorized"
        BY <1>4, <2>1, <3>3 DEF LoggedIn
      <4> QED
        BY <4>1 DEF PendingCalm, LoggedIn
    <3> QED
      BY <1>3, <3>1, <3>2, <3>3
  <2>5. ASSUME NEW r \in Processes, r # q PROVE CalmClient(r)'
    <3> SUFFICES ASSUME Active(r)', job'[r].id \notin again' PROVE CalmClient(r)'
      BY DEF CalmClient
    <3>1. Active(r) /\ pc'[r] = pc[r] /\ job'[r] = job[r] /\ job[r].id \notin again
      BY <1>2, <1>5, <1>6, <2>5 DEF Active, Busy
    <3>2. accounts'[job[r].id] = accounts[job[r].id] /\ CalmClient(r)
      BY <1>1, <2>1, <3>1, ActiveFacts DEF Calm, Gone, Active
    <3> QED
      BY <1>3, <3>1, <3>2 DEF CalmClient, LoggedIn, Knows, Exists
  <2> QED
    BY <1>6, <2>2, <2>3, <2>4, <2>5 DEF Calm
<1>7. ASSUME UNCHANGED accounts, again \subseteq again', pc'[q] \in {"prepare", "load", "discard", "stop"}, job'[q].op # "finish",
             job'[q].op \in {"start", "code", "password", "cancel"} =>
               job'[q].id \in again' \/ ~LoggedIn(job'[q].id)
      PROVE  Calm' /\ LoginsKept
  <2>1. CalmClient(q)'
    BY <1>7 DEF CalmClient, LoggedIn, Knows, WithRow
  <2> QED
    BY <1>6, <1>7, <2>1
<1>8. CASE StartNew(q)
  <2> DEFINE row == [NoRow EXCEPT !.status = "authorizing"]
             j == [Begun("start", nextId) EXCEPT !.created = TRUE]
  <2>1. row.status = "authorizing" /\ j.op = "start" /\ j.id = nextId
    BY DEF NoRow, Begun
  <2>2. /\ nextId \in Ids /\ accounts' = [accounts EXCEPT ![nextId] = row]
        /\ pc'[q] = "load" /\ job'[q] = j /\ UNCHANGED again
    BY <1>8, AccountsAssumption DEF StartNew, Insert, Goto, TypeOK, Ids
  <2> HIDE DEF row, j
  <2>3. ~Exists(nextId)
    BY <2>2, Names DEF RowsMade, NoRow, Exists
  <2>4. \A i \in Ids : accounts'[i] = IF i = nextId THEN row ELSE accounts[i]
    BY <2>2 DEF TypeOK
  <2>5. CalmClient(q)'
    BY <2>1, <2>2, <2>4 DEF CalmClient, LoggedIn, Knows, WithRow
  <2> QED
    BY <1>6, <2>1, <2>2, <2>3, <2>4, <2>5
<1>9. CASE CancelPendingAuth(q)
  <2>1. pc'[q] = "discard" /\ job'[q] = Begun("cancel", pending.id) /\ pending # NoPending
        /\ UNCHANGED <<accounts, again>>
    BY <1>9 DEF CancelPendingAuth, Goto, TypeOK, table, history
  <2> QED
    BY <1>4, <1>7, <2>1 DEF Begun
<1>10. ASSUME NEW step \in {"code", "password"}, Verify(q, step) PROVE Calm' /\ LoginsKept
  <2>1. pc'[q] = "load" /\ job'[q] = Begun(step, pending.id) /\ pending # NoPending
        /\ UNCHANGED <<accounts, again>>
    BY <1>10 DEF Verify, Goto, TypeOK, NoPending, table, history
  <2> QED
    BY <1>4, <1>7, <2>1 DEF Begun
<1>11. ASSUME NEW id \in Ids, StartAgain(q, id) PROVE Calm' /\ LoginsKept
  <2>1. /\ pc'[q] = "prepare" /\ (id \in again' \/ ~LoggedIn(id)) /\ UNCHANGED accounts /\ again \subseteq again'
        /\ job'[q] = [Begun("start", id) EXCEPT
                        !.copy = [accounts[id] EXCEPT !.status = "authorizing", !.session = 0]]
    BY <1>11 DEF StartAgain, Goto, TypeOK, LoggedIn
  <2>2. job'[q].id = id /\ job'[q].op = "start"
    BY <2>1 DEF Begun
  <2> QED
    BY <1>7, <2>1, <2>2
<1>12. ASSUME NEW id \in Ids, SyncChats(q, id) \/ DeleteAccount(q, id) PROVE Calm' /\ LoginsKept
  <2>1. pc'[q] \in {"load", "stop"} /\ job'[q].op \in {"sync", "delete"}
        /\ UNCHANGED <<accounts, again>>
    BY <1>12 DEF SyncChats, DeleteAccount, Goto, TypeOK, Begun, table, history
  <2> QED
    BY <1>7, <2>1
<1> QED
  BY <1>8, <1>9, <1>10, <1>11, <1>12 DEF Request

LEMMA CalmSynced ==
  ASSUME Base, Base', OneRequest, Calm, NEW q \in Requests, Synced(q), OneRequest'
  PROVE  Calm' /\ LoginsKept
<1> /\ q \in Processes /\ q \notin Routines /\ TypeOK /\ JobsSound /\ ListenersExact
    /\ OneByOne /\ SessionsValid /\ PendingCalm
  BY Names DEF Base, OneRequest, Calm
<1>1. Busy(q) /\ pc[q] = "call" /\ UNCHANGED <<accounts, again, valid, pending, cancelled>>
  BY DEF Synced, At, Busy, table, history
<1>2. LoginsKept /\ SessionsValid'
  BY <1>1 DEF LoginsKept, SessionsValid, LoggedIn
<1>3. Active(q) /\ CalmClient(q) /\ job[q].id \in Ids
  BY <1>1, RequestActive, BusyFacts DEF Calm
<1>4. CASE Return(q)
  <2>1. Moves(q) /\ pc'[q] = "idle"
    BY <1>1, <1>4, Returns
  <2>2. CalmClient(q)'
    BY <2>1 DEF CalmClient, Active, Busy
  <2> QED
    BY <1>1, <1>2, <1>3, <2>1, <2>2, CalmGoesOn DEF PendingKept
<1>5. CASE /\ job[q].op = "finish" /\ EnsureListener(job[q].id)
           /\ pc' = [pc EXCEPT ![q] = "idle", ![FreeRoutine] = "load"]
           /\ job' = [job EXCEPT ![q] = NoJob, ![FreeRoutine] = Begun("listen", job[q].id)]
  <2> DEFINE s == FreeRoutine
             id == job[q].id
  <2>1. id \notin again => LoggedIn(id)
    BY <1>3, <1>5 DEF CalmClient, Knows
  <2>2. s \in Routines /\ ~Busy(s) /\ s \in Processes /\ s # q
    BY <1>3, <1>5, FreeRoutineType, Names DEF EnsureListener
  <2>3. Begun("listen", id).id = id /\ Begun("listen", id).op = "listen"
    BY DEF Begun
  <2> HIDE DEF s
  <2>4. /\ pc' = [pc EXCEPT ![q] = "idle", ![s] = "load"]
        /\ job' = [job EXCEPT ![q] = NoJob, ![s] = Begun("listen", id)]
    BY <1>5 DEF s
  <2> HIDE DEF id
  <2>5. /\ pc'[s] = "load" /\ job'[s] = Begun("listen", id) /\ pc'[q] = "idle"
        /\ \A r \in Processes \ {q, s} : pc'[r] = pc[r] /\ job'[r] = job[r]
    BY <2>2, <2>4 DEF TypeOK
  <2>6. PendingCalm'
    <3> SUFFICES ASSUME pending # NoPending, pending.id \notin again, accounts[pending.id].status = "authorized"
                 PROVE  FALSE
      BY <1>1 DEF PendingCalm, LoggedIn
    <3>1. PICK r \in Requests : pc[r] = "clear"
      BY DEF PendingCalm, LoggedIn
    <3>2. r = q
      BY <1>1, <3>1 DEF OneByOne, Busy
    <3> QED
      BY <1>1, <3>1, <3>2
  <2>7. ASSUME NEW r \in Processes PROVE CalmClient(r)'
    <3>1. CASE r = q
      BY <2>5, <3>1 DEF CalmClient, Active, Busy
    <3>2. CASE r = s
      <4>1. pc'[s] = "load" /\ job'[s].id = id /\ job'[s].op = "listen"
        BY <2>3, <2>5
      <4> QED
        BY <1>1, <2>1, <3>2, <4>1 DEF CalmClient, WithRow, LoggedIn
    <3>3. CASE r # q /\ r # s
      <4>1. pc'[r] = pc[r] /\ job'[r] = job[r] /\ CalmClient(r) /\ (Active(r)' => Active(r))
        BY <1>1, <2>5, <3>3 DEF Calm, Active, Busy
      <4> QED
        BY <1>1, <4>1 DEF CalmClient, LoggedIn, Knows, Exists
    <3> QED
      BY <3>1, <3>2, <3>3
  <2> QED
    BY <1>2, <2>6, <2>7 DEF Calm
<1> QED
  BY <1>4, <1>5 DEF Synced

LEMMA CalmListener ==
  ASSUME Base, Base', OneRequest, Calm, NEW s \in Routines,
         Listen(s) \/ Interrupted(s) \/ CheckCurrentAuthStatus(s) \/ RunAgain(s) \/ EndListener(s)
  PROVE  Calm' /\ LoginsKept
<1> TypeOK /\ JobsSound /\ SessionsValid /\ s \in Processes /\ s \notin Requests /\ CalmClient(s)
  BY Names DEF Base, Calm
<1>1. UNCHANGED <<accounts, again, valid, pending>>
  BY DEF Listen, Interrupted, CheckCurrentAuthStatus, RunAgain, EndListener, table, history
<1>2. LoginsKept
  BY <1>1 DEF LoginsKept, LoggedIn
<1>3. CASE EndListener(s)
  <2>2. Moves(s) /\ pc'[s] = "idle" /\ Busy(s) /\ cancelled' = cancelled \ {s}
    BY <1>3, EndShape
  <2>3. CalmClient(s)'
    BY <2>2 DEF CalmClient, Active, Busy
  <2>4. \A r \in Processes \ {s} : CalmClient(r)'
    <3> SUFFICES ASSUME NEW r \in Processes \ {s}, Active(r)' PROVE CalmClient(r)'
      BY DEF CalmClient
    <3>1. pc'[r] = pc[r] /\ job'[r] = job[r] /\ Active(r) /\ CalmClient(r)
      BY <2>2 DEF Moves, TypeOK, Active, Busy, Calm
    <3> QED
      BY <1>1, <3>1 DEF CalmClient, LoggedIn, Knows, Exists
  <2>5. \A q \in Requests : pc'[q] = pc[q]
    BY <2>2, Names DEF Moves, TypeOK
  <2>6. SessionsValid' /\ PendingCalm'
    BY <1>1, <2>5 DEF SessionsValid, PendingCalm, LoggedIn, Calm
  <2> QED
    BY <1>2, <2>3, <2>4, <2>6 DEF Calm
<1>4. CASE Listen(s) \/ Interrupted(s) \/ CheckCurrentAuthStatus(s) \/ RunAgain(s)
  <2>1. Moves(s) /\ Stays(s) /\ UNCHANGED cancelled
    BY <1>4, ListenShape
  <2>2. Active(s) /\ pc[s] # "clear" /\ job'[s].id = job[s].id /\ job[s].id \in Ids
    BY <1>4, <2>1, ActiveFacts DEF Listen, Interrupted, CheckCurrentAuthStatus, RunAgain, At, Active, Busy, Stays
  <2>3. job[s].id \notin again => LoggedIn(job[s].id)
    BY <2>2 DEF CalmClient, Knows
  <2>4. CalmClient(s)'
    <3> SUFFICES ASSUME job[s].id \notin again PROVE CalmClient(s)'
      BY <1>1, <2>2 DEF CalmClient
    <3>1. CASE Listen(s) \/ Interrupted(s)
      <4>1. pc[s] \in {"call", "run"} /\ pc'[s] \in {"run", "check"} /\ job'[s] = job[s]
        BY <3>1 DEF Listen, Interrupted, At, Goto, TypeOK
      <4> QED
        BY <1>1, <2>2, <2>3, <4>1 DEF CalmClient, LoggedIn, WithRow, Exists
    <3>2. CASE CheckCurrentAuthStatus(s)
      <4>1. pc[s] = "check" /\ job'[s] = job[s] /\ pc'[s] = IF job[s].key \in valid THEN "wait" ELSE "forget"
        BY <3>2 DEF CheckCurrentAuthStatus, At, Goto, TypeOK
      <4>2. job[s].key \in valid
        BY <2>2, <2>3, <4>1 DEF CalmClient, SessionsValid, LoggedIn, Exists
      <4> QED
        BY <1>1, <2>2, <2>3, <4>1, <4>2 DEF CalmClient, LoggedIn, WithRow
    <3>3. CASE RunAgain(s)
      <4>1. pc'[s] = "load" /\ job'[s] = Begun("listen", job[s].id)
        BY <3>3 DEF RunAgain, Goto, TypeOK
      <4>2. job'[s].op = "listen"
        BY <4>1 DEF Begun
      <4> QED
        BY <1>1, <2>2, <2>3, <4>1, <4>2 DEF CalmClient, LoggedIn, WithRow
    <3> QED
      BY <1>4, <3>1, <3>2, <3>3
  <2> QED
    BY <1>1, <1>2, <2>1, <2>2, <2>4, CalmGoesOn DEF PendingKept
<1> QED
  BY <1>3, <1>4

LEMMA CalmFail ==
  ASSUME Base, Base', OneRequest, Calm, NEW p \in Processes, Fail(p)
  PROVE  Calm' /\ LoginsKept
<1> TypeOK /\ JobsSound /\ CalmClient(p)
  BY DEF Base, Calm
<1>1. Moves(p) /\ Stays(p) /\ Busy(p) /\ UNCHANGED <<accounts, again, valid, pending, cancelled>>
  BY FailShape DEF Fail, table, history
<1>2. Active(p) /\ pc'[p] = AfterFailure(p) /\ pc[p] # "clear"
  BY <1>1 DEF Fail, Fallible, Active, Goto, TypeOK
<1>3. LoginsKept
  BY <1>1 DEF LoginsKept, LoggedIn
<1>4. CalmClient(p)'
  <2>1. CASE AfterFailure(p) = "idle"
    BY <1>2, <2>1 DEF CalmClient, Active, Busy
  <2>2. CASE AfterFailure(p) # "idle"
    <3>1. job'[p] = job[p]
      BY <2>2 DEF Fail
    <3>2. \/ pc[p] = "run" /\ pc'[p] = "check"
          \/ pc'[p] \in {"wait", "cleanup"}
      BY <1>2, <2>2 DEF AfterFailure
    <3> QED
      BY <1>1, <1>2, <3>1, <3>2 DEF CalmClient, LoggedIn, Knows, WithRow, Exists
  <2> QED
    BY <2>1, <2>2
<1> QED
  BY <1>1, <1>2, <1>3, <1>4, CalmGoesOn DEF PendingKept

LEMMA CalmRestart ==
  ASSUME Base, Calm, Restart
  PROVE  Calm' /\ LoginsKept
<1> DEFINE on == {s \in Routines : accounts[-s].status = "authorized"}
<1>1. /\ pc' = [p \in Processes |-> IF p \in on THEN "load" ELSE "idle"]
      /\ job' = [p \in Processes |-> IF p \in on THEN Begun("listen", -p) ELSE NoJob]
      /\ pending' = NoPending /\ UNCHANGED <<accounts, again, valid>>
  BY DEF Restart, table, history
<1>2. LoginsKept /\ SessionsValid' /\ PendingCalm'
  BY <1>1 DEF LoginsKept, LoggedIn, Calm, SessionsValid, PendingCalm
<1>3. \A s \in on : accounts[-s].status = "authorized"
  OBVIOUS
<1> HIDE DEF on
<1>4. ASSUME NEW p \in Processes PROVE CalmClient(p)'
  <2>1. CASE p \in on
    <3>1. /\ pc'[p] = "load" /\ job'[p].id = -p /\ job'[p].op = "listen"
          /\ accounts'[-p].status = "authorized"
      BY <1>1, <1>3, <2>1 DEF Begun
    <3> QED
      BY <3>1 DEF CalmClient, LoggedIn, WithRow
  <2>2. CASE p \notin on
    BY <1>1, <2>2 DEF CalmClient, Active, Busy
  <2> QED
    BY <2>1, <2>2
<1> QED
  BY <1>2, <1>4 DEF Calm

LEMMA CalmQuiet ==
  ASSUME Calm, Expire \/ UNCHANGED vars
  PROVE  Calm' /\ LoginsKept
<1>1. /\ UNCHANGED <<accounts, again, valid, cancelled, pc, job>>
      /\ UNCHANGED pending \/ pending' = NoPending
  BY DEF Expire, vars, table, history
<1> QED
  BY <1>1 DEF Calm, LoginsKept, SessionsValid, PendingCalm, CalmClient, Active, Busy, LoggedIn, Knows,
              Exists

LEMMA CalmInit == Init => CalmInv
<1> SUFFICES ASSUME Init PROVE CalmInv
  OBVIOUS
<1>1. \A p \in Processes : ~Busy(p)
  BY DEF Init, Busy
<1>2. \A i \in Ids : ~LoggedIn(i)
  BY DEF Init, LoggedIn, NoRow
<1>3. pending = NoPending
  BY DEF Init
<1> QED
  BY <1>1, <1>2, <1>3, RowsInit DEF CalmInv, Calm, SessionsValid, PendingCalm, CalmClient, Active

\* As long as Telegram has ended no session, every step keeps the logins.
LEMMA CalmStep ==
  ASSUME CalmInv, [Next]_vars
  PROVE  CalmInv' /\ (~overlap' /\ used'.revocations = 0 => LoginsKept)
<1>1. RowsInv' /\ Base /\ Base'
  BY RowsStep, BaseStep DEF CalmInv, RowsInv
<1> SUFFICES ASSUME ~overlap', used'.revocations = 0
             PROVE  Calm' /\ LoginsKept
  BY <1>1 DEF CalmInv
<1>2. ~overlap /\ used.revocations = 0 /\ ~\E k \in Keys : Revoke(k)
  BY <1>1, HistoryGrows DEF Base
<1>3. OneRequest /\ OneRequest' /\ Calm
  BY <1>1, <1>2 DEF CalmInv, RowsInv
<1>4. ASSUME NEW q \in Requests, Request(q) \/ Serve(q) PROVE Calm' /\ LoginsKept
  BY <1>1, <1>3, <1>4, CalmRequest, CalmClientKeeps, CalmServedKeeps, CalmSynced, Names DEF Serve, Served
<1>5. ASSUME NEW s \in Routines, Listener(s) PROVE Calm' /\ LoginsKept
  BY <1>1, <1>3, <1>5, CalmClientKeeps, CalmListener, Names DEF Listener
<1>6. ASSUME NEW p \in Processes, Fail(p) PROVE Calm' /\ LoginsKept
  BY <1>1, <1>3, <1>6, CalmFail
<1>7. CASE Expire \/ UNCHANGED vars
  BY <1>3, <1>7, CalmQuiet
<1>8. CASE Restart
  BY <1>1, <1>3, <1>8, CalmRestart
<1> QED
  BY <1>2, <1>4, <1>5, <1>6, <1>7, <1>8 DEF Next

\* While requests are served one at a time, every row is one that StartAuth has
\* created or that a synchronisation of a missing account has inserted, and, as
\* long as Telegram has ended no session, an account that is shown as authorized
\* has one unless another login has been begun for it, although its status and
\* its session are written by different functions from rows read earlier.
THEOREM RowsAreSound == Spec => []RowsSound
<1>1. CalmInv => RowsSound
  <2> SUFFICES ASSUME CalmInv, ~overlap PROVE NoGhost /\ (used.revocations = 0 => AuthorizedHasSession)
    BY DEF RowsSound
  <2>1. NoGhost
    BY DEF CalmInv, RowsInv, OneRequest, RowsMade, NoGhost, Exists, NoRow
  <2>2. valid \subseteq Keys
    BY DEF CalmInv, RowsInv, Base, TypeOK
  <2>3. used.revocations = 0 => AuthorizedHasSession
    BY <2>2 DEF CalmInv, Calm, SessionsValid, LoggedIn, AuthorizedHasSession, Keys
  <2> QED
    BY <2>1, <2>3
<1>2. CalmInv /\ [Next]_vars => CalmInv'
  BY CalmStep
<1> QED
  BY CalmInit, <1>1, <1>2, PTL DEF Spec

\* As long as Telegram has ended no session, with requests served one at a time,
\* nothing but a deletion or another login of the account logs it out: no failure,
\* restart, synchronisation, login of another account or late step of a listener,
\* its own or another (LogoutSave, Prepare and cleanupFailedAuth write rows that
\* were read before).
THEOREM LoginsStay == Spec => LoginKept
<1>1. CalmInv /\ [Next]_vars => CalmInv'
  BY CalmStep
<1>2. CalmInv /\ [Next]_vars =>
        [\A i \in Ids \ again :
           used.revocations = 0 /\ ~overlap' /\ accounts[i].status = "authorized"
           => accounts'[i].status \in {"authorized", "none"}]_vars
  <2> SUFFICES ASSUME CalmInv, [Next]_vars, NEW i \in Ids \ again,
                      used.revocations = 0, ~overlap', accounts[i].status = "authorized"
               PROVE  accounts'[i].status \in {"authorized", "none"}
    OBVIOUS
  <2>1. CASE used'.revocations = 0
    BY <2>1, CalmStep DEF LoginsKept, LoggedIn
  <2>2. CASE used'.revocations # 0
    <3>1. TypeOK
      BY DEF CalmInv, RowsInv, Base
    <3>2. UNCHANGED accounts
      BY <2>2, <3>1, HistoryGrows
    <3> QED
      BY <3>2
  <2> QED
    BY <2>1, <2>2
<1> QED
  BY CalmInit, <1>1, <1>2, PTL DEF Spec, LoginKept

=============================================================================
