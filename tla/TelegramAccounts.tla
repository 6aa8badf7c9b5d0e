-------------------------- MODULE TelegramAccounts --------------------------
(***************************************************************************)
(* The Telegram accounts: logging in (StartAuth, VerifyCode,               *)
(* VerifyPassword, CancelPendingAuth), deleting an account, synchronising  *)
(* its chats, and the listener goroutine of each account with the logout   *)
(* it performs when Telegram refuses its session.  A request and a         *)
(* listener are processes; both run a Telegram client, which loads the     *)
(* session of the account's row and writes it back with the whole row it   *)
(* has read in between, so every one of them is a chain of statements that *)
(* the others interleave with.                                             *)
(*                                                                         *)
(* Abstractions: a session is the number of its key, 0 is no session; a    *)
(* row keeps its status, its session and whether a Telegram user is known  *)
(* (telegram_user_id # 0).  AuthRepository.Save reads the row and writes   *)
(* it in two statements; a deletion between them has the outcome of a      *)
(* deletion after them, because an id never comes back, so Save is one     *)
(* step.  The messages and chats a client handles are not modelled here.   *)
(***************************************************************************)
EXTENDS Integers, FiniteSets

CONSTANTS
  MaxId,        \* bound: rows ever inserted into telegram_accounts
  MaxKey,       \* session keys: a row holds one, a process two
  Requests,     \* numbers: API requests that may be served together
  MaxRequests,  \* bound: requests in all
  MaxTogether,  \* bound: requests in all, once two have been served together
  MaxEvents     \* bound: revoked sessions, failing calls and restarts

ASSUME AccountsAssumption ==
  /\ MaxId \in Nat \ {0}
  /\ Requests \subseteq Nat /\ IsFiniteSet(Requests)
  /\ MaxKey \in Nat /\ MaxKey > MaxId + 2 * (Cardinality(Requests) + MaxId)
  /\ MaxRequests \in Nat /\ MaxTogether \in Nat /\ MaxEvents \in Nat

VARIABLES
  accounts,   \* the telegram_accounts table
  nextId,     \* its identity column
  made,       \* history: the ids StartAuth has created
  strays,     \* history: the ids inserted by a synchronisation of a missing account
  again,      \* history: the accounts logged in again while they were authorized
  valid,      \* the keys Telegram accepts as logged in
  pending,    \* Service.pending
  listeners,  \* Service.listeners: the goroutine entered for an account
  cancelled,  \* the goroutines whose context has been cancelled
  pc,         \* what a request or a goroutine does next
  job,        \* its local variables
  overlap,    \* history: two requests have been served at the same time
  used        \* requests, revocations, failures and restarts so far

history == <<made, strays, again>>
table == <<accounts, nextId, history>>
vars == <<table, valid, pending, listeners, cancelled, pc, job, overlap, used>>

Ids == 1..MaxId
Keys == 1..MaxKey
None == 0

\* A goroutine has a name of its own; each account needs one at most.
Routines == {-i : i \in Ids}
Processes == Requests \cup Routines

Statuses == {"none", "authorizing", "authorized", "logged_in", "logged_out"}
Operations == {"start", "code", "password", "sync", "finish", "cancel", "delete", "listen"}
Steps == {"idle", "prepare", "load", "read", "store", "call", "cleanup", "self", "persist",
          "clear", "forget", "logout", "discard", "stop", "unpend", "delete",
          "run", "check", "wait", "end"}

Row == [status : Statuses, session : 0..MaxKey, user : BOOLEAN]
NoRow == [status |-> "none", session |-> 0, user |-> FALSE]

Job == [op : Operations, id : 0..MaxId, key : 0..MaxKey, snap : Row, copy : Row, created : BOOLEAN]
Begun(op, id) ==
  [op |-> op, id |-> id, key |-> 0, snap |-> NoRow, copy |-> NoRow, created |-> FALSE]
NoJob == Begun("listen", 0)

NoPending == [step |-> "none", id |-> 0]
Pending == {NoPending} \cup [step : {"code", "password"}, id : Ids]

Exists(id) == accounts[id].status # "none"
Busy(p) == pc[p] # "idle"
-----------------------------------------------------------------------------
(* Statements on telegram_accounts, and sessions.                           *)

LoggedOut(row) == [row EXCEPT !.status = "logged_out", !.session = 0]

\* Insert under the next id, whatever id the caller had in mind.
Insert(row) ==
  /\ nextId <= MaxId
  /\ accounts' = [accounts EXCEPT ![nextId] = row]
  /\ nextId' = nextId + 1

\* AuthRepository.Save
Save(id, row) ==
  /\ \/ /\ Exists(id)
        /\ accounts' = [accounts EXCEPT ![id] = row] /\ UNCHANGED nextId
     \/ ~Exists(id) /\ Insert(row)
  /\ UNCHANGED <<made, again>>

\* AuthRepository.Delete
Delete(id) == accounts' = [accounts EXCEPT ![id] = NoRow] /\ UNCHANGED <<nextId, made, again>>

\* A client without a session makes a key that nobody holds.
KeysHeld ==
  {accounts[i].session : i \in Ids}
    \cup {job[p].key : p \in Processes} \cup {job[p].snap.session : p \in Processes}
FreshKey == CHOOSE k \in Keys \ KeysHeld : \A j \in Keys \ KeysHeld : k <= j
-----------------------------------------------------------------------------
Init ==
  /\ accounts = [i \in Ids |-> NoRow] /\ nextId = 1
  /\ made = {} /\ strays = {} /\ again = {}
  /\ valid = {}
  /\ pending = NoPending
  /\ listeners = [i \in Ids |-> None]
  /\ cancelled = {}
  /\ pc = [p \in Processes |-> "idle"] /\ job = [p \in Processes |-> NoJob]
  /\ overlap = FALSE
  /\ used = [requests |-> 0, revocations |-> 0, faults |-> 0]

\* A cancelled context fails every call of a goroutine but its end.
At(p, step) == pc[p] = step /\ p \notin cancelled
Goto(p, step) == pc' = [pc EXCEPT ![p] = step]

\* The end of a request; of a goroutine, up to the deferred deletion.
Return(p) ==
  IF p \in Routines
  THEN Goto(p, "end") /\ UNCHANGED job
  ELSE Goto(p, "idle") /\ job' = [job EXCEPT ![p] = NoJob]

Event(what) ==
  /\ used.revocations + used.faults < MaxEvents
  /\ used' = [used EXCEPT ![what] = @ + 1]

\* A request arrives: the first free process serves it.
Arrive(q) ==
  /\ q \in Requests /\ ~Busy(q) /\ \A r \in Requests : r < q => Busy(r)
  /\ used.requests < MaxRequests /\ used' = [used EXCEPT !.requests = @ + 1]
  /\ overlap' = (overlap \/ \E r \in Requests : Busy(r))
  /\ overlap' => used.requests < MaxTogether

\* The goroutines of a service whose listeners map is map, after EnsureListener(id).
FreeRoutine == CHOOSE s \in Routines : ~Busy(s)
EnsureListener(id) ==
  /\ listeners[id] = None
  /\ listeners' = [listeners EXCEPT ![id] = FreeRoutine]
-----------------------------------------------------------------------------
(* A Telegram client: every login, synchronisation and listener runs one.   *)

\* LoadSession, or a new key when the row has no session.
LoadSession(p) ==
  /\ At(p, "load")
  /\ LET stored == accounts[job[p].id].session
         k == IF stored # 0 THEN stored ELSE FreshKey
     IN  /\ job' = [job EXCEPT ![p].key = k]
         /\ valid' = IF stored # 0 THEN valid ELSE valid \ {k}
  /\ Goto(p, "read")
  /\ UNCHANGED <<table, pending, listeners, cancelled, overlap, used>>

\* StoreSession: the row is read ...
StoreSessionRead(p) ==
  /\ At(p, "read")
  /\ job' = [job EXCEPT ![p].snap = accounts[job[p].id]]
  /\ Goto(p, "store")
  /\ UNCHANGED <<table, valid, pending, listeners, cancelled, overlap, used>>

\* ... and saved with the session; a row that is gone is inserted again.
StoreSessionSave(p) ==
  /\ At(p, "store")
  /\ LET snap == job[p].snap
         row == IF snap.status = "none" THEN [NoRow EXCEPT !.status = "logged_in"] ELSE snap
     IN  Save(job[p].id, [row EXCEPT !.session = job[p].key])
  /\ strays' = IF job[p].op = "sync" /\ ~Exists(job[p].id) THEN strays \cup {nextId} ELSE strays
  /\ job' = [job EXCEPT ![p].snap = NoRow]
  /\ Goto(p, "call")
  /\ UNCHANGED <<valid, pending, listeners, cancelled, overlap, used>>

\* markAuthLoggedOut: the row is read ...
LogoutRead(p) ==
  /\ At(p, "forget")
  /\ IF Exists(job[p].id)
     THEN job' = [job EXCEPT ![p].snap = accounts[job[p].id]] /\ Goto(p, "logout")
     ELSE Return(p)
  /\ UNCHANGED <<table, valid, pending, listeners, cancelled, overlap, used>>

\* ... and saved as logged out.
LogoutSave(p) ==
  /\ At(p, "logout")
  /\ Save(job[p].id, LoggedOut(job[p].snap))
  /\ Return(p)
  /\ UNCHANGED <<strays, valid, pending, listeners, cancelled, overlap, used>>
-----------------------------------------------------------------------------
(* StartAuth                                                                *)

\* prepareAuthAccount without an account: Create.
StartNew(q) ==
  /\ Arrive(q)
  /\ Insert([NoRow EXCEPT !.status = "authorizing"])
  /\ made' = made \cup {nextId}
  /\ job' = [job EXCEPT ![q] = [Begun("start", nextId) EXCEPT !.created = TRUE]]
  /\ Goto(q, "load")
  /\ UNCHANGED <<strays, again, valid, pending, listeners, cancelled>>

\* prepareAuthAccount of an account that exists, whatever its status: a page
\* that is not up to date offers it for an authorized account as well.
StartAgain(q, id) ==
  /\ Arrive(q)
  /\ Exists(id)
  /\ job' = [job EXCEPT ![q] = [Begun("start", id) EXCEPT !.copy =
                [accounts[id] EXCEPT !.status = "authorizing", !.session = 0]]]
  /\ Goto(q, "prepare")
  /\ again' = IF accounts[id].status = "authorized" THEN again \cup {id} ELSE again
  /\ UNCHANGED <<accounts, nextId, made, strays, valid, pending, listeners, cancelled>>

Prepare(q) ==
  /\ At(q, "prepare")
  /\ Save(job[q].id, job[q].copy)
  /\ Goto(q, "load")
  /\ UNCHANGED <<strays, valid, pending, listeners, cancelled, job, overlap, used>>

\* Mutant: the login is for the account that was asked for, 0 for a new one.
SendCodeAsked(q) ==
  /\ At(q, "call") /\ job[q].op = "start"
  /\ pending' = [step |-> "code", id |-> IF job[q].created THEN 0 ELSE job[q].id]
  /\ Return(q)
  /\ UNCHANGED <<table, valid, listeners, cancelled, overlap, used>>

\* SendCode has succeeded.
SendCode(q) ==
  /\ At(q, "call") /\ job[q].op = "start"
  /\ pending' = [step |-> "code", id |-> job[q].id]
  /\ Return(q)
  /\ UNCHANGED <<table, valid, listeners, cancelled, overlap, used>>

\* cleanupFailedAuth
Cleanup(q) ==
  /\ At(q, "cleanup")
  /\ IF job[q].created THEN Delete(job[q].id) ELSE Save(job[q].id, LoggedOut(job[q].copy))
  /\ Return(q)
  /\ UNCHANGED <<strays, valid, pending, listeners, cancelled, overlap, used>>
-----------------------------------------------------------------------------
(* VerifyCode, VerifyPassword and finishAuth                                *)

\* requirePending finds the step the request is about.
Verify(q, step) ==
  /\ Arrive(q)
  /\ pending.step = step
  /\ job' = [job EXCEPT ![q] = Begun(step, pending.id)]
  /\ Goto(q, "load")
  /\ UNCHANGED <<table, valid, pending, listeners, cancelled>>

\* requirePending after the deadline.
Expire ==
  /\ pending # NoPending
  /\ pending' = NoPending
  /\ UNCHANGED <<table, valid, listeners, cancelled, pc, job, overlap, used>>

\* SignIn or Password is accepted.
SignIn(q) ==
  /\ At(q, "call") /\ job[q].op \in {"code", "password"}
  /\ valid' = valid \cup {job[q].key}
  /\ Goto(q, "self")
  /\ UNCHANGED <<table, pending, listeners, cancelled, job, overlap, used>>

\* SignIn asks for the password of the account.
PasswordNeeded(q) ==
  /\ At(q, "call") /\ job[q].op = "code"
  /\ pending' = [step |-> "password", id |-> job[q].id]
  /\ Return(q)
  /\ UNCHANGED <<table, valid, listeners, cancelled, overlap, used>>

\* A wrong code or password, and a number Telegram refuses a code for.
Refused(q) ==
  /\ At(q, "call") /\ job[q].op \in {"start", "code", "password"}
  /\ IF job[q].op = "start" THEN Goto(q, "cleanup") /\ UNCHANGED job ELSE Return(q)
  /\ UNCHANGED <<table, valid, pending, listeners, cancelled, overlap, used>>

\* persistAuthorizedUser: the row is read, after the client has asked for the user ...
PersistRead(q) ==
  /\ At(q, "self")
  /\ job' = [job EXCEPT ![q].snap = accounts[job[q].id]]
  /\ Goto(q, "persist")
  /\ UNCHANGED <<table, valid, pending, listeners, cancelled, overlap, used>>

\* Mutant: the row is written without the session that was read with it.
AuthorizedAnew(row) == [status |-> "authorized", session |-> 0, user |-> TRUE]

Authorized(row) == [row EXCEPT !.status = "authorized", !.user = TRUE]

\* ... and saved as authorized.
PersistSave(q) ==
  /\ At(q, "persist")
  /\ Save(job[q].id, Authorized(job[q].snap))
  /\ Goto(q, "clear")
  /\ UNCHANGED <<strays, valid, pending, listeners, cancelled, job, overlap, used>>

\* finishAuth: clearPending, then SyncChats with a client of its own.
FinishAuth(q) ==
  /\ At(q, "clear")
  /\ pending' = NoPending
  /\ job' = [job EXCEPT ![q] = Begun("finish", @.id)]
  /\ Goto(q, "load")
  /\ UNCHANGED <<table, valid, listeners, cancelled, overlap, used>>
-----------------------------------------------------------------------------
(* SyncChats, and Status in every client                                    *)

\* Of the account the page names, which may have been deleted since, or of the
\* newest authorized one.
SyncChats(q, id) ==
  /\ Arrive(q)
  /\ Exists(id) \/ nextId <= MaxId  \* bound
  /\ job' = [job EXCEPT ![q] = Begun("sync", id)]
  /\ Goto(q, "load")
  /\ UNCHANGED <<table, valid, pending, listeners, cancelled>>

StatusUnauthorized(p) ==
  /\ At(p, "call") /\ job[p].op \in {"sync", "finish", "listen"}
  /\ job[p].key \notin valid
  /\ Goto(p, "forget")
  /\ UNCHANGED <<table, valid, pending, listeners, cancelled, job, overlap, used>>

\* The chats of the account are stored; finishAuth goes on to its listener.
Synced(q) ==
  /\ At(q, "call") /\ job[q].op \in {"sync", "finish"}
  /\ job[q].key \in valid
  /\ LET id == job[q].id IN
     \/ /\ job[q].op = "finish" /\ EnsureListener(id)
        /\ pc' = [pc EXCEPT ![q] = "idle", ![FreeRoutine] = "load"]
        /\ job' = [job EXCEPT ![q] = NoJob, ![FreeRoutine] = Begun("listen", id)]
     \/ /\ job[q].op = "finish" => listeners[id] # None
        /\ Return(q) /\ UNCHANGED listeners
  /\ UNCHANGED <<table, valid, pending, cancelled, overlap, used>>
-----------------------------------------------------------------------------
(* CancelPendingAuth and the deletion of an account                         *)

CancelPendingAuth(q) ==
  /\ Arrive(q)
  /\ pending # NoPending
  /\ job' = [job EXCEPT ![q] = Begun("cancel", pending.id)]
  /\ pending' = NoPending
  /\ Goto(q, "discard")
  /\ UNCHANGED <<table, valid, listeners, cancelled>>

\* The row is read; it is deleted, or logged out when its user is known.
DiscardRead(q) ==
  /\ At(q, "discard")
  /\ LET id == job[q].id IN
     \/ ~Exists(id) /\ Return(q)
     \/ Exists(id) /\ ~accounts[id].user /\ Goto(q, "delete") /\ UNCHANGED job
     \/ /\ Exists(id) /\ accounts[id].user
        /\ job' = [job EXCEPT ![q].snap = accounts[id]] /\ Goto(q, "logout")
  /\ UNCHANGED <<table, valid, pending, listeners, cancelled, overlap, used>>

\* handleTelegramAccountByID, for an id, deleted before or not, that collects no chat.
DeleteAccount(q, id) ==
  /\ Arrive(q)
  /\ job' = [job EXCEPT ![q] = Begun("delete", id)]
  /\ Goto(q, "stop")
  /\ UNCHANGED <<table, valid, pending, listeners, cancelled>>

\* Mutant: the listener is left running.
StopNobody(q) ==
  /\ At(q, "stop")
  /\ Goto(q, "unpend")
  /\ UNCHANGED <<table, valid, pending, listeners, cancelled, job, overlap, used>>

\* Mutant: the entry of the goroutine is deleted with the cancellation.
StopForget(q) ==
  /\ At(q, "stop")
  /\ cancelled' = cancelled \cup ({listeners[job[q].id]} \ {None})
  /\ listeners' = [listeners EXCEPT ![job[q].id] = None]
  /\ Goto(q, "unpend")
  /\ UNCHANGED <<table, valid, pending, job, overlap, used>>

\* StopAccount
StopAccount(q) ==
  /\ At(q, "stop")
  /\ cancelled' = cancelled \cup ({listeners[job[q].id]} \ {None})
  /\ Goto(q, "unpend")
  /\ UNCHANGED <<table, valid, pending, listeners, job, overlap, used>>

\* CancelAuth
CancelAuth(q) ==
  /\ At(q, "unpend")
  /\ pending' = IF pending.id = job[q].id THEN NoPending ELSE pending
  /\ Goto(q, "delete")
  /\ UNCHANGED <<table, valid, listeners, cancelled, job, overlap, used>>

DeleteRow(q) ==
  /\ At(q, "delete")
  /\ Delete(job[q].id)
  /\ Return(q)
  /\ UNCHANGED <<strays, valid, pending, listeners, cancelled, overlap, used>>
-----------------------------------------------------------------------------
(* The listener: runListenerLoop and runListener                            *)

\* Status is authorized: updates and downloads run.
Listen(s) ==
  /\ At(s, "call") /\ s \in Routines
  /\ job[s].key \in valid
  /\ Goto(s, "run")
  /\ UNCHANGED <<table, valid, pending, listeners, cancelled, job, overlap, used>>

\* Telegram refuses the session the client runs with.
Interrupted(s) ==
  /\ At(s, "run") /\ job[s].key \notin valid
  /\ Goto(s, "check")
  /\ UNCHANGED <<table, valid, pending, listeners, cancelled, job, overlap, used>>

\* checkCurrentAuthStatus after an error.
CheckCurrentAuthStatus(s) ==
  /\ At(s, "check")
  /\ Goto(s, IF job[s].key \in valid THEN "wait" ELSE "forget")
  /\ UNCHANGED <<table, valid, pending, listeners, cancelled, job, overlap, used>>

\* After five seconds.
RunAgain(s) ==
  /\ At(s, "wait")
  /\ job' = [job EXCEPT ![s] = Begun("listen", @.id)]
  /\ Goto(s, "load")
  /\ UNCHANGED <<table, valid, pending, listeners, cancelled, overlap, used>>

\* The goroutine returns: its deferred function deletes the entry.
EndListener(s) ==
  /\ s \in Routines /\ (pc[s] = "end" \/ s \in cancelled)
  /\ listeners' = [listeners EXCEPT ![job[s].id] = None]
  /\ cancelled' = cancelled \ {s}
  /\ Goto(s, "idle")
  /\ job' = [job EXCEPT ![s] = NoJob]
  /\ UNCHANGED <<table, valid, pending, overlap, used>>
-----------------------------------------------------------------------------
(* What may go wrong                                                        *)

\* The session is ended from another device.
Revoke(k) ==
  /\ Event("revocations")
  /\ k \in valid
  /\ valid' = valid \ {k}
  /\ UNCHANGED <<table, pending, listeners, cancelled, pc, job, overlap>>

\* Mutant: an error of the second Status counts as unauthorized.
AfterFailureStrict(p) ==
  IF p \in Routines THEN IF pc[p] \in {"run", "check"} THEN "forget" ELSE "wait"
  ELSE IF job[p].op = "start" /\ pc[p] \in {"load", "read", "store", "call"} THEN "cleanup" ELSE "idle"

\* Mutant: the loop returns on any error.
AfterFailureEnd(p) ==
  IF p \in Routines THEN IF pc[p] = "run" THEN "check" ELSE "end"
  ELSE IF job[p].op = "start" /\ pc[p] \in {"load", "read", "store", "call"} THEN "cleanup" ELSE "idle"

\* Where a process goes when a statement, a call or the connection fails.
AfterFailure(p) ==
  IF p \in Routines THEN IF pc[p] = "run" THEN "check" ELSE "wait"
  ELSE IF job[p].op = "start" /\ pc[p] \in {"load", "read", "store", "call"} THEN "cleanup" ELSE "idle"

Fallible == Steps \ {"idle", "clear", "stop", "unpend", "wait", "end"}

Fail(p) ==
  /\ Event("faults")
  /\ pc[p] \in Fallible /\ p \notin cancelled
  /\ Goto(p, AfterFailure(p))
  /\ job' = IF AfterFailure(p) = "idle" THEN [job EXCEPT ![p] = NoJob] ELSE job
  /\ UNCHANGED <<table, valid, pending, listeners, cancelled, overlap>>

\* The server stops (StopListener) and starts again: a listener for each
\* account that is authorized.
Restart ==
  /\ Event("faults")
  /\ LET on == {s \in Routines : accounts[-s].status = "authorized"} IN
     /\ listeners' = [i \in Ids |-> IF -i \in on THEN -i ELSE None]
     /\ pc' = [p \in Processes |-> IF p \in on THEN "load" ELSE "idle"]
     /\ job' = [p \in Processes |-> IF p \in on THEN Begun("listen", -p) ELSE NoJob]
  /\ cancelled' = {} /\ pending' = NoPending
  /\ UNCHANGED <<table, valid, overlap>>
-----------------------------------------------------------------------------
Request(q) ==
  \/ StartNew(q) \/ CancelPendingAuth(q)
  \/ \E step \in {"code", "password"} : Verify(q, step)
  \/ \E id \in Ids : StartAgain(q, id) \/ SyncChats(q, id) \/ DeleteAccount(q, id)

Client(p) ==
  \/ LoadSession(p) \/ StoreSessionRead(p) \/ StoreSessionSave(p)
  \/ StatusUnauthorized(p) \/ LogoutRead(p) \/ LogoutSave(p)

Serve(q) ==
  \/ Client(q)
  \/ Prepare(q) \/ SendCode(q) \/ Cleanup(q)
  \/ SignIn(q) \/ PasswordNeeded(q) \/ Refused(q)
  \/ PersistRead(q) \/ PersistSave(q) \/ FinishAuth(q) \/ Synced(q)
  \/ DiscardRead(q) \/ StopAccount(q) \/ CancelAuth(q) \/ DeleteRow(q)

Listener(s) ==
  \/ Client(s)
  \/ Listen(s) \/ Interrupted(s) \/ CheckCurrentAuthStatus(s) \/ RunAgain(s) \/ EndListener(s)

Next ==
  \/ \E q \in Requests : Request(q) \/ Serve(q)
  \/ \E s \in Routines : Listener(s)
  \/ \E p \in Processes : Fail(p)
  \/ \E k \in Keys : Revoke(k)
  \/ Expire \/ Restart

Spec == Init /\ [][Next]_vars

\* A request and a goroutine that can go on do so: nothing they call blocks
\* for ever, an unanswered call fails by its own timeout.
Fairness ==
  /\ \A q \in Requests : WF_vars(Serve(q))
  /\ \A s \in Routines : WF_vars(Listener(s))

FairSpec == Spec /\ Fairness
-----------------------------------------------------------------------------
TypeOK ==
  /\ accounts \in [Ids -> Row] /\ nextId \in 1..(MaxId + 1)
  /\ made \subseteq Ids /\ strays \subseteq Ids /\ again \subseteq Ids
  /\ valid \subseteq Keys
  /\ pending \in Pending
  /\ listeners \in [Ids -> Routines \cup {None}] /\ cancelled \subseteq Routines
  /\ pc \in [Processes -> Steps] /\ job \in [Processes -> Job]
  /\ overlap \in BOOLEAN
  /\ used \in [requests : Nat, revocations : Nat, faults : Nat]

\* The listeners map says exactly which goroutines run: an account never has
\* two listeners, and an entry never outlives its goroutine, so that neither a
\* deletion during a login nor a restart leaves an account doubly or never
\* listened to (EnsureListener, StopAccount, the deferred deletion).
ListenersExact ==
  /\ \A s \in Routines : Busy(s) => job[s].id \in Ids /\ listeners[job[s].id] = s
  /\ \A i \in Ids : listeners[i] # None => Busy(listeners[i]) /\ job[listeners[i]].id = i

\* A row of the table is one that StartAuth has created, or a synchronisation
\* asked for by an id that has no row: no listener, login, logout or cancelled
\* login puts an account back that has been deleted under it (Save inserts when
\* its row is missing).
NoGhost == \A i \in Ids : Exists(i) => i \in made \cup strays

\* An account that is shown as authorized has a session, although its status
\* and its session are written by different functions from rows read earlier,
\* unless a login was begun for it while it was authorized: its old listener,
\* which nothing stops, may then log it out between the two statements of the
\* new login, as it may once Telegram has ended a session.
AuthorizedHasSession ==
  \A i \in Ids \ again : accounts[i].status = "authorized" => accounts[i].session # 0

\* While requests are served one at a time, the first holds of every row,
\* whatever listeners and synchronisations save beside them, and the second as
\* long as Telegram has ended no session.
RowsSound == ~overlap => NoGhost /\ (used.revocations = 0 => AuthorizedHasSession)

\* As long as Telegram has ended no session and nobody has begun another login
\* for it, an authorized account stays so until it is deleted, with requests
\* served one at a time: no failure, restart, synchronisation or late step of a
\* listener, its own or another, and no login of another account logs it out.
LoginKept ==
  [][\A i \in Ids \ again :
       used.revocations = 0 /\ ~overlap' /\ accounts[i].status = "authorized"
       => accounts'[i].status \in {"authorized", "none"}]_vars

\* The account is shown as authorized with a session that Telegram has ended.
Dead(i) == accounts[i].status = "authorized" /\ accounts[i].session \notin valid

\* Its listener is at work, and not with an older session that Telegram accepts.
Listening(i) ==
  /\ listeners[i] # None /\ listeners[i] \notin cancelled
  /\ pc[listeners[i]] # "end" /\ job[listeners[i]].key \notin valid

\* An account whose session Telegram has ended is not shown as authorized for
\* ever when its listener is at work: the listener logs it out, unless a
\* request about the account comes in between.
DeadSessionCleared ==
  \A i \in Ids :
    (~overlap /\ Dead(i) /\ Listening(i))
    ~> (~Dead(i) \/ \E q \in Requests : Busy(q) /\ job[q].id = i)

\* The listener of an account whose session Telegram has ended clears that
\* session for good, with one request at a time and unless it is stopped or the
\* account logged in again.  A
\* client of SyncChats that has read the row before puts the session back.
DeadSessionEnds ==
  \A i \in Ids :
    (~overlap /\ Dead(i) /\ Listening(i))
    ~> \/ ~Dead(i) /\ \A q \in Requests : ~Busy(q)
       \/ listeners[i] \in cancelled \/ i \in again
=============================================================================
