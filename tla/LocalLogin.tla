----------------------------- MODULE LocalLogin -----------------------------
(***************************************************************************)
(* The local password: one stored password with a session version, the     *)
(* sessions made for it, the limiter of failing logins, and the check      *)
(* every request passes (withMiddleware).  The handlers are made of        *)
(* separate database calls, and those of several clients interleave.       *)
(*                                                                         *)
(* Abstractions: a password is the number of the save that stored it, 0    *)
(* while none is stored; a client keeps its latest cookie only; whether    *)
(* what a user types matches is a choice.                                  *)
(***************************************************************************)
EXTENDS Integers

CONSTANTS
  Browsers,          \* clients, each with one request at a time
  MaxFailedLogins,   \* maxFailedLoginAttempts
  MaxPasswords,      \* bound: set-ups and changes
  MaxRequestFaults   \* bound: requests that end at a failing call

ASSUME LocalLoginAssumption ==
  /\ MaxFailedLogins \in Nat \ {0} /\ MaxPasswords \in Nat /\ MaxRequestFaults \in Nat

VARIABLES
  stored,    \* the local_auth row Get returns
  session,   \* the session each client has a cookie for, and its password (history)
  failures,  \* loginLimiter.failures
  locked,    \* now is before loginLimiter.lockedUntil
  visit,   \* what the request of a client does next, and what it has read
  passwords, \* passwords stored so far
  together,   \* history: two set-ups or changes were under way together
  broken     \* requests ended by a failing call

loginVars == <<stored, session, failures, locked, visit, passwords, together, broken>>

NoSession == [version |-> 0, password |-> 0]
NoVisit == [step |-> "idle", read |-> NoSession]
LoginSteps == {"attempt", "compare", "purge", "create"}
SetupSteps == {"save"}
ChangeSteps == {"change", "purgeChanged", "deleteOwn"}
UseSteps == {"lookup", "check", "admitted"}

Configured == stored.password # 0
Proceed(u, next) == visit' = [visit EXCEPT ![u].step = next]
ProceedWith(u, next, copy) == visit' = [visit EXCEPT ![u] = [step |-> next, read |-> copy]]
Respond(u) == visit' = [visit EXCEPT ![u] = NoVisit]

Writing(u) == visit[u].step \in SetupSteps \cup ChangeSteps
Together(u) == together' = (together \/ \E w \in Browsers \ {u} : Writing(w))
-----------------------------------------------------------------------------
LoginInit ==
  /\ stored = NoSession /\ session = [u \in Browsers |-> NoSession]
  /\ failures = 0 /\ locked = FALSE
  /\ visit = [u \in Browsers |-> NoVisit]
  /\ passwords = 0 /\ together = FALSE /\ broken = 0

(* Login                                                                    *)
BeginLogin(u) ==
  /\ visit[u].step = "idle" /\ Configured
  /\ ProceedWith(u, "attempt", stored)
  /\ UNCHANGED <<stored, session, failures, locked, passwords, together, broken>>

\* beforeLogin
BeforeLogin(u) ==
  /\ visit[u].step = "attempt"
  /\ IF locked THEN Respond(u) ELSE Proceed(u, "compare")
  /\ UNCHANGED <<stored, session, failures, locked, passwords, together, broken>>

\* recordFailure
WrongPassword(u) ==
  /\ visit[u].step = "compare"
  /\ failures' = (failures + 1) % MaxFailedLogins
  /\ locked' = (locked \/ failures + 1 = MaxFailedLogins)
  /\ Respond(u)
  /\ UNCHANGED <<stored, session, passwords, together, broken>>

\* recordSuccess
RightPassword(u) ==
  /\ visit[u].step = "compare"
  /\ failures' = 0 /\ locked' = FALSE
  /\ Proceed(u, "purge")
  /\ UNCHANGED <<stored, session, passwords, together, broken>>

\* DeleteByVersionMismatch, in a login with the version it has read, in a
\* change with the new one.
Matching(version) ==
  [w \in Browsers |-> IF session[w].version = version THEN session[w] ELSE NoSession]

Purge(u) ==
  /\ \/ visit[u].step = "purge" /\ Proceed(u, "create")
     \/ visit[u].step = "purgeChanged" /\ Proceed(u, "deleteOwn")
  /\ session' = Matching(visit[u].read.version)
  /\ UNCHANGED <<stored, failures, locked, passwords, together, broken>>

\* createSession, at the end of a login, a set-up or a change.
CreateSession(u) ==
  /\ visit[u].step = "create"
  /\ session' = [session EXCEPT ![u] = visit[u].read]
  /\ Respond(u)
  /\ UNCHANGED <<stored, failures, locked, passwords, together, broken>>
-----------------------------------------------------------------------------
(* SetupPassword, ChangePassword                                            *)

BeginSetup(u) ==
  /\ visit[u].step = "idle" /\ ~Configured
  /\ ProceedWith(u, "save", NoSession) /\ Together(u)
  /\ UNCHANGED <<stored, session, failures, locked, passwords, broken>>

\* Save of the first password, with version 1.  Two of them may meet: the
\* second one updates the row, or, if it had looked before the first one was
\* there, inserts another row that Get never returns.
SaveSetup(u) ==
  /\ visit[u].step = "save"
  /\ passwords < MaxPasswords /\ passwords' = passwords + 1
  /\ LET new == [version |-> 1, password |-> passwords + 1] IN
     /\ stored' \in IF Configured THEN {new, stored} ELSE {new}
     /\ ProceedWith(u, "create", new)
  /\ UNCHANGED <<session, failures, locked, together, broken>>

\* Reads the row and compares the current password with it.
BeginChange(u) ==
  /\ visit[u].step = "admitted" /\ Configured
  /\ ProceedWith(u, "change", stored) \/ Respond(u)
  /\ Together(u)
  /\ UNCHANGED <<stored, session, failures, locked, passwords, broken>>

\* Mutant: the version is kept.
NextVersionKept(version) == version

NextVersion(version) == version + 1

SaveChange(u) ==
  /\ visit[u].step = "change"
  /\ passwords < MaxPasswords /\ passwords' = passwords + 1
  /\ stored' = [version |-> NextVersion(visit[u].read.version), password |-> passwords + 1]
  /\ ProceedWith(u, "purgeChanged", stored')
  /\ UNCHANGED <<session, failures, locked, together, broken>>

\* Delete of the session the change was asked with.
DeleteOwn(u) ==
  /\ visit[u].step = "deleteOwn"
  /\ session' = [session EXCEPT ![u] = NoSession]
  /\ Proceed(u, "create")
  /\ UNCHANGED <<stored, failures, locked, passwords, together, broken>>
-----------------------------------------------------------------------------
(* Any other visit: authorizeRequest, ValidateSession                     *)

\* DeleteExpired and GetBySessionID
Lookup(u) ==
  /\ visit[u].step = "idle" /\ session[u] # NoSession
  /\ ProceedWith(u, "check", session[u])
  /\ UNCHANGED <<stored, session, failures, locked, passwords, together, broken>>

Check(u) ==
  /\ visit[u].step = "check"
  /\ IF visit[u].read.version = stored.version
     THEN Proceed(u, "admitted") /\ UNCHANGED session
     ELSE Respond(u) /\ session' = [session EXCEPT ![u] = NoSession]
  /\ UNCHANGED <<stored, failures, locked, passwords, together, broken>>

\* The handler of another request answers.
Answer(u) ==
  /\ visit[u].step = "admitted" /\ Respond(u)
  /\ UNCHANGED <<stored, session, failures, locked, passwords, together, broken>>

\* Logout, or the end of the lifetime of a session.
SignOut(u) ==
  /\ visit[u].step = "idle" /\ session[u] # NoSession
  /\ session' = [session EXCEPT ![u] = NoSession]
  /\ UNCHANGED <<stored, failures, locked, visit, passwords, together, broken>>

\* A minute has passed.
Unlock ==
  /\ locked /\ locked' = FALSE
  /\ UNCHANGED <<stored, session, failures, visit, passwords, together, broken>>

\* A database call of a request fails.
BreakOff(u) ==
  /\ visit[u].step # "idle" /\ broken < MaxRequestFaults
  /\ broken' = broken + 1 /\ Respond(u)
  /\ UNCHANGED <<stored, session, failures, locked, passwords, together>>
-----------------------------------------------------------------------------
LoginNext ==
  \/ \E u \in Browsers :
       \/ BeginLogin(u) \/ BeforeLogin(u) \/ WrongPassword(u) \/ RightPassword(u)
       \/ Purge(u) \/ CreateSession(u)
       \/ BeginSetup(u) \/ SaveSetup(u) \/ BeginChange(u) \/ SaveChange(u) \/ DeleteOwn(u)
       \/ Lookup(u) \/ Check(u) \/ Answer(u) \/ SignOut(u) \/ BreakOff(u)
  \/ Unlock

LoginSpec == LoginInit /\ [][LoginNext]_loginVars
-----------------------------------------------------------------------------
Credential == [version : 0..MaxPasswords, password : 0..MaxPasswords]

LoginTypeOK ==
  /\ stored \in Credential /\ session \in [Browsers -> Credential]
  /\ failures \in 0..(MaxFailedLogins - 1) /\ locked \in BOOLEAN
  /\ visit \in [Browsers -> [step : {"idle"} \cup LoginSteps \cup SetupSteps \cup ChangeSteps \cup UseSteps,
                               read : Credential]]
  /\ passwords \in 0..MaxPasswords /\ together \in BOOLEAN /\ broken \in 0..MaxRequestFaults

\* A request is let in only with a session of the password that is stored:
\* after a change every other cookie is refused, also one that a login makes
\* with what it had read before (ValidateSession compares versions), as long
\* as no two set-ups or changes were under way together.
SessionOfPassword ==
  [][\A u \in Browsers :
       visit[u].step = "check" /\ visit'[u].step = "admitted" /\ ~together =>
         visit[u].read.password = stored.password]_loginVars
=============================================================================
