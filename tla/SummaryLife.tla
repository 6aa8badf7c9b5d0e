---------------------------- MODULE SummaryLife -----------------------------
(***************************************************************************)
(* What internal/scheduler promises about a summary, whichever of its      *)
(* flows works on it and however they interleave: one generation at a time,*)
(* a result only from the generation that is under way, a success that     *)
(* forgets the failures before it, and a bounded series of attempts.       *)
(* SummaryTasks implements it (SummaryTasks!ImplementsLife).               *)
(***************************************************************************)
EXTENDS Integers

CONSTANTS
  Keys,   \* the (chat, summary date) pairs
  Limit   \* AppSettings.SummaryRetryLimit

VARIABLES
  status,     \* SummaryStatus of each key, "absent" before there is a row
  attempts,   \* RetryCount
  generating  \* the keys a generation is under way of

lifeVars == <<status, attempts, generating>>

Init ==
  /\ status = [k \in Keys |-> "absent"]
  /\ attempts = [k \in Keys |-> 0]
  /\ generating = {}

Become(k, s) == status' = [status EXCEPT ![k] = s]

Plan(k) ==
  /\ status[k] = "absent" /\ Become(k, "pending")
  /\ UNCHANGED <<attempts, generating>>

\* The first generation of a series, or a retry; the flows look at the limit
\* before they enter the task, so that it may be passed by one.
Generate(k) ==
  /\ k \notin generating /\ generating' = generating \cup {k}
  /\ Become(k, "running")
  /\ \E n \in {0, attempts[k] + 1} :
       n <= Limit + 1 /\ attempts' = [attempts EXCEPT ![k] = n]

Done(k) == k \in generating /\ generating' = generating \ {k}

Succeed(k) == Done(k) /\ Become(k, "succeeded") /\ attempts' = [attempts EXCEPT ![k] = 0]
Fail(k) == Done(k) /\ Become(k, "failed") /\ UNCHANGED attempts

\* A failing database call loses the result ...
Lose(k) == Done(k) /\ UNCHANGED <<status, attempts>>

\* ... and a flow that met one may record a failure afterwards, whatever has
\* become of the row meanwhile.
GiveUp(k) ==
  /\ status[k] # "absent" /\ Become(k, "failed")
  /\ UNCHANGED <<attempts, generating>>

\* The process dies; what it had begun has failed.
Crash ==
  /\ generating' = {}
  /\ status' = [k \in Keys |-> IF status[k] \in {"pending", "running"} THEN "failed" ELSE status[k]]
  /\ UNCHANGED attempts

Next ==
  \/ Crash
  \/ \E k \in Keys : Plan(k) \/ Generate(k) \/ Succeed(k) \/ Fail(k) \/ Lose(k) \/ GiveUp(k)

Spec == Init /\ [][Next]_lifeVars
=============================================================================
