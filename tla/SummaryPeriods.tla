--------------------------- MODULE SummaryPeriods ---------------------------
(***************************************************************************)
(* The calendar of the summaries of one chat (model/summary_period.go):    *)
(* which period a date belongs to while its frequency is daily, weekly or  *)
(* monthly, and what happens to the periods around a change of frequency.  *)
(* The scheduler generates the latest period that has ended, a user the    *)
(* period of any date; rows is the set of summaries that exist.            *)
(*                                                                         *)
(* A date is a day number; day 0 is the day the summaries were enabled.    *)
(***************************************************************************)
EXTENDS Integers

CONSTANTS
  Monday,       \* the residue of Mondays modulo 7
  MonthStarts,  \* the day numbers of the first of each month
  MaxDay,       \* bound: the last day of the clock
  MaxChanges,   \* bound: changes of the frequency
  MaxRequests,  \* bound: "generate now" requests
  MaxMissed     \* bound: days the process is down at and after the summary time

ASSUME CalendarAssumption ==
  /\ Monday \in 0..6 /\ MonthStarts \subseteq Int
  /\ MaxDay \in Nat /\ MaxChanges \in Nat /\ MaxRequests \in Nat /\ MaxMissed \in Nat

VARIABLES
  chat,   \* SummaryFrequency, PreviousSummaryFrequency, SummaryFrequencyEffectiveDate
  today,
  rows,   \* the summaries of the chat: first day and period
  ran,    \* runOnce has handled the chat today
  used    \* history: changes, requests and missed days so far

vars == <<chat, today, rows, ran, used>>

Periods == {"day", "week", "month"}
Chat == [freq : Periods, prev : Periods, switched : BOOLEAN, eff : Int]
Summary == [start : Int, period : Periods]
-----------------------------------------------------------------------------
(* The calendar.                                                            *)

\* d is in the month that begins on s.
MonthOf(d) == CHOOSE s \in MonthStarts : s <= d /\ \A t \in MonthStarts : t <= d => t <= s

\* The first of the month after the one that begins on s.
NextMonth(s) == CHOOSE n \in MonthStarts : n > s /\ \A t \in MonthStarts : t > s => n <= t

\* periodStart: weeks begin on Mondays, months on their first day.
periodStart(p, d) ==
  CASE p = "week"  -> d - ((d - Monday) % 7)
    [] p = "month" -> MonthOf(d)
    [] p = "day"   -> d

\* periodEnd: the last day, inclusive, of the period that begins on s.
periodEnd(p, s) ==
  CASE p = "week"  -> s + 6
    [] p = "month" -> NextMonth(s) - 1
    [] p = "day"   -> s

\* The last day of the period of d.
EndOf(p, d) == periodEnd(p, periodStart(p, d))

\* Mutant: an old period may reach over the change.
SummaryPeriodForAcross(c, d) == IF ~c.switched \/ d >= c.eff THEN c.freq ELSE c.prev

\* SummaryPeriodFor: days of an old period that would reach over the change are
\* summarised one by one.
SummaryPeriodFor(c, d) ==
  IF ~c.switched \/ d >= c.eff THEN c.freq
  ELSE IF EndOf(c.prev, d) < c.eff THEN c.prev
  ELSE "day"

\* SummaryPeriodStart
SummaryPeriodStart(c, d) ==
  LET p == SummaryPeriodFor(c, d) IN [start |-> periodStart(p, d), period |-> p]

\* LatestEndedPeriod: the period of last if it is over, the one before it if not.
LatestEndedPeriod(c, last) ==
  LET now == SummaryPeriodStart(c, last)
  IN  IF periodEnd(now.period, now.start) > last THEN SummaryPeriodStart(c, now.start - 1) ELSE now

\* Mutant: the new frequency begins with the period the change falls into.
ChangedAtOnce(c, next, day) ==
  LET current  == SummaryPeriodFor(c, day)
      boundary == EndOf(current, day) + 1
      eff      == periodStart(next, boundary)
  IN  [freq |-> next, prev |-> current, switched |-> TRUE, eff |-> eff]

\* ChangeSummaryFrequency: the current period is completed, the new frequency
\* begins with its first full period after that.
Changed(c, next, day) ==
  LET current  == SummaryPeriodFor(c, day)
      boundary == EndOf(current, day) + 1
      start    == periodStart(next, boundary)
      eff      == IF start < boundary THEN periodEnd(next, start) + 1 ELSE start
  IN  [freq |-> next, prev |-> current, switched |-> TRUE, eff |-> eff]

Days(r) == r.start..periodEnd(r.period, r.start)
-----------------------------------------------------------------------------
Init ==
  /\ \E f \in Periods : chat = [freq |-> f, prev |-> "day", switched |-> FALSE, eff |-> 0]
  /\ today = 0 /\ ran = FALSE
  /\ rows = {}
  /\ used = [changes |-> 0, requests |-> 0, missed |-> 0]

\* ChangeSummaryFrequency: the same frequency keeps a change that is under way.
ChangeSummaryFrequency(next) ==
  /\ next # chat.freq
  /\ used.changes < MaxChanges /\ used' = [used EXCEPT !.changes = @ + 1]
  /\ chat' = Changed(chat, next, today)
  /\ UNCHANGED <<today, rows, ran>>

\* runOnce for one chat: a row of another period is left alone; a row of the
\* same period is generated again or kept, it exists either way.
RunOnce ==
  LET due == LatestEndedPeriod(chat, today - 1)
  IN  /\ ran' = TRUE
      /\ rows' = IF \E r \in rows : r.start = due.start THEN rows ELSE rows \cup {due}
      /\ UNCHANGED <<chat, today, used>>

\* Mutant: the summary is stored under the requested day.
summaryTargetOnDay(d) == [start |-> d, period |-> SummaryPeriodFor(chat, d)]

\* summaryTarget: an existing summary keeps its own period.
summaryTarget(d) ==
  LET own == SummaryPeriodStart(chat, d)
      at  == IF \E r \in rows : r.start = d THEN d ELSE own.start
  IN  IF \E r \in rows : r.start = at THEN CHOOSE r \in rows : r.start = at ELSE own

\* RunNow and RunNowAsync for a day that has come.
RunNow(d) ==
  /\ d <= today
  /\ used.requests < MaxRequests /\ used' = [used EXCEPT !.requests = @ + 1]
  /\ rows' = rows \cup {summaryTarget(d)}
  /\ UNCHANGED <<chat, today, ran>>

Midnight ==
  /\ today < MaxDay
  /\ today' = today + 1 /\ ran' = FALSE
  /\ IF ran THEN UNCHANGED used
     ELSE used.missed < MaxMissed /\ used' = [used EXCEPT !.missed = @ + 1]
  /\ UNCHANGED <<chat, rows>>

Next ==
  \/ \E next \in Periods : ChangeSummaryFrequency(next)
  \/ RunOnce
  \/ \E d \in 0..MaxDay : RunNow(d)
  \/ Midnight

Spec == Init /\ [][Next]_vars
-----------------------------------------------------------------------------
(* Properties.                                                              *)

\* Every variable has its type; a row is stored under the first day of its
\* period, and once per first day, as the primary key of the table demands.
TypeOK ==
  /\ chat \in Chat /\ today \in 0..MaxDay /\ ran \in BOOLEAN
  /\ rows \subseteq Summary /\ \A r \in rows : r.start = periodStart(r.period, r.start)
  /\ \A r, s \in rows : r.start = s.start => r = s
  /\ used \in [changes : Nat, requests : Nat, missed : Nat]

\* Old and new periods do not overlap: whatever was generated before and after
\* a change, by the scheduler or on demand, no day is summarised twice.
Disjoint == \A r, s \in rows : r # s => Days(r) \cap Days(s) = {}

\* And leave no gap: when the scheduler has never missed its day, every day is
\* summarised up to the end of the latest period that has ended.
NoGap ==
  ran /\ used.missed = 0 =>
    LET due == LatestEndedPeriod(chat, today - 1)
    IN  \A d \in 0..periodEnd(due.period, due.start) : \E r \in rows : d \in Days(r)

\* A change completes the current period at the old frequency: no day of it
\* changes its period, also when the change replaces one that is under way.
CurrentKept ==
  [][\A d \in today..EndOf(SummaryPeriodFor(chat, today), today) :
       chat' # chat => SummaryPeriodStart(chat', d) = SummaryPeriodStart(chat, d)]_vars
=============================================================================
