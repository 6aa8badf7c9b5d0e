------------------------ MODULE SummaryPeriodsProofs ------------------------
(* What SummaryPeriods promises for every calendar, every horizon and every  *)
(* number of requests and missed days.                                       *)
EXTENDS SummaryPeriods, TLAPS

\* The calendar goes on in both directions: every day is in a month, and every
\* month has an end.
EndlessCalendar ==
  \A d \in Int :
    /\ \E s \in MonthStarts : s <= d /\ \A t \in MonthStarts : t <= d => t <= s
    /\ \E n \in MonthStarts : n > d /\ \A t \in MonthStarts : t > d => n <= t

-----------------------------------------------------------------------------
(* The calendar.                                                            *)

\* MonthOf and NextMonth are what their definitions ask for.
LEMMA Months ==
  ASSUME EndlessCalendar, NEW d \in Int
  PROVE  /\ MonthOf(d) \in MonthStarts /\ MonthOf(d) \in Int /\ MonthOf(d) <= d
         /\ \A t \in MonthStarts : t <= d => t <= MonthOf(d)
         /\ NextMonth(d) \in MonthStarts /\ NextMonth(d) \in Int /\ NextMonth(d) > d
         /\ \A t \in MonthStarts : t > d => NextMonth(d) <= t
<1> USE CalendarAssumption DEF CalendarAssumption
<1>1. \E s \in MonthStarts : s <= d /\ \A t \in MonthStarts : t <= d => t <= s
  BY DEF EndlessCalendar
<1>2. \E n \in MonthStarts : n > d /\ \A t \in MonthStarts : t > d => n <= t
  BY DEF EndlessCalendar
<1>3. MonthOf(d) \in MonthStarts /\ MonthOf(d) <= d /\ \A t \in MonthStarts : t <= d => t <= MonthOf(d)
  BY <1>1 DEF MonthOf
<1>4. NextMonth(d) \in MonthStarts /\ NextMonth(d) > d /\ \A t \in MonthStarts : t > d => NextMonth(d) <= t
  BY <1>2 DEF NextMonth
<1> QED BY <1>3, <1>4

\* A week begins at most six days before each of its days.
LEMMA Weeks ==
  ASSUME NEW d \in Int, NEW e \in Int
  PROVE  LET s == d - ((d - Monday) % 7)
             t == e - ((e - Monday) % 7)
         IN  /\ s \in Int /\ s <= d /\ d <= s + 6
             /\ (s <= e /\ e <= s + 6 => t = s)
             /\ (e = s + 7 => t = e)
BY CalendarAssumption, SMTT(30) DEF CalendarAssumption

\* A day is in its period, a period is the period of all its days, and the next
\* one begins the day after its end.
LEMMA Blocks ==
  ASSUME EndlessCalendar, NEW p \in Periods, NEW d \in Int
  PROVE  /\ periodStart(p, d) \in Int /\ EndOf(p, d) \in Int
         /\ periodStart(p, d) <= d /\ d <= EndOf(p, d)
         /\ \A x \in Int : periodStart(p, d) <= x /\ x <= EndOf(p, d) => periodStart(p, x) = periodStart(p, d)
         /\ periodStart(p, EndOf(p, d) + 1) = EndOf(p, d) + 1
<1>1. CASE p = "day"
  BY <1>1 DEF periodStart, periodEnd, EndOf
<1>2. CASE p = "week"
  <2>1. \A x \in Int : periodStart(p, x) = x - ((x - Monday) % 7)
    BY <1>2 DEF periodStart
  <2>2. EndOf(p, d) = periodStart(p, d) + 6
    BY <1>2 DEF EndOf, periodEnd
  <2>3. periodStart(p, d) \in Int /\ periodStart(p, d) <= d /\ d <= periodStart(p, d) + 6
    BY <2>1, Weeks
  <2>4. \A x \in Int : periodStart(p, d) <= x /\ x <= periodStart(p, d) + 6 => periodStart(p, x) = periodStart(p, d)
    BY <2>1, Weeks
  <2>5. \A x \in Int : x = periodStart(p, d) + 7 => periodStart(p, x) = x
    BY <2>1, Weeks
  <2> QED BY <2>2, <2>3, <2>4, <2>5
<1>3. CASE p = "month"
  <2> DEFINE s == MonthOf(d)
             n == NextMonth(s)
  <2>1. \A x \in Int : periodStart(p, x) = MonthOf(x)
    BY <1>3 DEF periodStart
  <2>2. EndOf(p, d) = n - 1
    BY <1>3, <2>1 DEF EndOf, periodEnd
  <2>3. s \in MonthStarts /\ s \in Int /\ s <= d /\ \A t \in MonthStarts : t <= d => t <= s
    BY Months
  <2>4. n \in MonthStarts /\ n \in Int /\ n > s /\ \A t \in MonthStarts : t > s => n <= t
    BY <2>3, Months
  <2>5. d <= n - 1
    BY <2>3, <2>4
  <2>6. ASSUME NEW x \in Int, s <= x, x <= n - 1
        PROVE  MonthOf(x) = s
    <3>1. MonthOf(x) \in Int /\ MonthOf(x) \in MonthStarts /\ MonthOf(x) <= x /\ \A t \in MonthStarts : t <= x => t <= MonthOf(x)
      BY Months
    <3> QED BY <3>1, <2>3, <2>4, <2>6
  <2>7. MonthOf(n) = n
    <3>1. MonthOf(n) \in Int /\ MonthOf(n) <= n /\ \A t \in MonthStarts : t <= n => t <= MonthOf(n)
      BY <2>4, Months
    <3> QED BY <3>1, <2>4
  <2> HIDE DEF s, n
  <2>8. periodStart(p, d) = s
    BY <2>1 DEF s
  <2>9. n - 1 + 1 = n
    BY <2>4
  <2> QED BY <2>1, <2>2, <2>3, <2>4, <2>5, <2>6, <2>7, <2>8, <2>9
<1> QED BY <1>1, <1>2, <1>3 DEF Periods
-----------------------------------------------------------------------------
(* The periods around a change.                                             *)

\* The new frequency begins with the first day of one of its periods.
Aligned(c) == c \in Chat /\ (c.switched => periodStart(c.freq, c.eff) = c.eff)

Start(c, d) == SummaryPeriodStart(c, d).start
End(c, d)   == EndOf(SummaryPeriodFor(c, d), d)

\* The period of a day is one of the three, and SummaryPeriodStart and the end
\* computed from it are its bounds.
LEMMA PeriodOf ==
  ASSUME EndlessCalendar, NEW c \in Chat, NEW d \in Int
  PROVE  /\ SummaryPeriodFor(c, d) \in Periods
         /\ SummaryPeriodStart(c, d) \in Summary
         /\ Start(c, d) = periodStart(SummaryPeriodFor(c, d), d)
         /\ Start(c, d) \in Int /\ End(c, d) \in Int /\ Start(c, d) <= d /\ d <= End(c, d)
<1>1. SummaryPeriodFor(c, d) \in Periods
  BY DEF SummaryPeriodFor, Chat, Periods
<1>2. Start(c, d) = periodStart(SummaryPeriodFor(c, d), d)
  BY DEF Start, SummaryPeriodStart
<1>3. /\ periodStart(SummaryPeriodFor(c, d), d) \in Int /\ EndOf(SummaryPeriodFor(c, d), d) \in Int
      /\ periodStart(SummaryPeriodFor(c, d), d) <= d /\ d <= EndOf(SummaryPeriodFor(c, d), d)
  BY <1>1, Blocks
<1>4. SummaryPeriodStart(c, d) \in Summary
  BY <1>1, <1>3 DEF SummaryPeriodStart, Summary
<1> QED BY <1>1, <1>2, <1>3, <1>4 DEF End

\* Old and new periods neither overlap nor leave a gap: every day is in its
\* period, and all days of a period agree on it, on both sides of a change.
LEMMA SamePeriod ==
  ASSUME EndlessCalendar, NEW c, Aligned(c), NEW d \in Int, NEW e \in Int, Start(c, d) <= e, e <= End(c, d)
  PROVE  SummaryPeriodStart(c, e) = SummaryPeriodStart(c, d)
<1> DEFINE p == SummaryPeriodFor(c, d)
<1>0. c \in Chat /\ c.freq \in Periods /\ c.prev \in Periods /\ c.eff \in Int /\ "day" \in Periods
  BY DEF Aligned, Chat, Periods
<1>1. p \in Periods /\ Start(c, d) = periodStart(p, d) /\ Start(c, d) \in Int /\ End(c, d) \in Int /\ d <= End(c, d) /\ End(c, d) = EndOf(p, d) /\ Start(c, d) <= d
  BY <1>0, PeriodOf DEF End
<1>2. periodStart(p, e) = periodStart(p, d) /\ EndOf(p, e) = EndOf(p, d)
  BY <1>1, Blocks DEF EndOf
<1>3. SummaryPeriodFor(c, e) = p
  <2>1. CASE ~c.switched
    BY <2>1 DEF SummaryPeriodFor
  <2>2. CASE c.switched /\ d >= c.eff
    <3>1. p = c.freq /\ periodStart(c.freq, c.eff) = c.eff
      BY <2>2 DEF SummaryPeriodFor, Aligned
    <3>2. e >= c.eff
      <4> SUFFICES ASSUME e < c.eff PROVE FALSE
        BY <1>0
      <4>1. periodStart(c.freq, d) <= c.eff /\ c.eff <= EndOf(c.freq, d)
        BY <1>0, <1>1, <2>2, <3>1
      <4>2. \A x \in Int : periodStart(c.freq, d) <= x /\ x <= EndOf(c.freq, d) => periodStart(c.freq, x) = periodStart(c.freq, d)
        BY <1>0, Blocks
      <4>3. periodStart(c.freq, c.eff) = periodStart(c.freq, d)
        BY <4>1, <4>2, <1>0
      <4>4. Start(c, d) = c.eff
        BY <4>3, <3>1, <1>1
      <4> QED BY <4>4, <1>0, <1>1
    <3> QED BY <3>1, <3>2, <2>2 DEF SummaryPeriodFor
  <2>3. CASE c.switched /\ ~(d >= c.eff) /\ EndOf(c.prev, d) < c.eff
    <3>1. p = c.prev
      BY <2>3 DEF SummaryPeriodFor
    <3>2. ~(e >= c.eff) /\ EndOf(c.prev, e) < c.eff
      BY <3>1, <1>2, <1>1, <1>0, <2>3
    <3> QED BY <3>1, <3>2, <2>3 DEF SummaryPeriodFor
  <2>4. CASE c.switched /\ ~(d >= c.eff) /\ ~(EndOf(c.prev, d) < c.eff)
    <3>1. p = "day"
      BY <2>4 DEF SummaryPeriodFor
    <3>2. e = d
      BY <3>1, <1>1 DEF EndOf, periodEnd, periodStart
    <3> QED BY <3>2
  <2> QED BY <2>1, <2>2, <2>3, <2>4
<1> QED BY <1>2, <1>3 DEF SummaryPeriodStart

\* The new frequency begins after the current period, with one of its own.
LEMMA ChangeAligned ==
  ASSUME EndlessCalendar, NEW c \in Chat, NEW next \in Periods, NEW day \in Int
  PROVE  LET n == Changed(c, next, day)
         IN  /\ Aligned(n) /\ n.switched /\ n.eff \in Int /\ n.eff > End(c, day)
             /\ n.prev = SummaryPeriodFor(c, day)
<1> DEFINE n     == Changed(c, next, day)
           bound == End(c, day) + 1
           start == periodStart(next, bound)
<1>1. SummaryPeriodFor(c, day) \in Periods /\ End(c, day) \in Int /\ bound \in Int
  BY PeriodOf
<1>2. start \in Int /\ EndOf(next, bound) \in Int /\ start <= bound /\ bound <= EndOf(next, bound)
      /\ periodStart(next, EndOf(next, bound) + 1) = EndOf(next, bound) + 1
  BY <1>1, Blocks
<1>3. n = [freq |-> next, prev |-> SummaryPeriodFor(c, day), switched |-> TRUE,
           eff |-> IF start < bound THEN EndOf(next, bound) + 1 ELSE start]
  BY DEF Changed, End, EndOf
<1>4. n.eff \in Int /\ n.eff >= bound /\ periodStart(next, n.eff) = n.eff
  <2> HIDE DEF bound
  <2>1. CASE start < bound
    BY <1>1, <1>2, <1>3, <2>1
  <2>2. CASE ~(start < bound)
    <3>1. start = bound
      BY <1>1, <1>2, <2>2
    <3> QED BY <1>1, <1>3, <2>2, <3>1
  <2> QED BY <2>1, <2>2
<1>5. n \in Chat
  BY <1>1, <1>3, <1>4 DEF Chat
<1> QED BY <1>1, <1>3, <1>4, <1>5 DEF Aligned

\* A change keeps the period of every day of the current one.
LEMMA ChangeKeepsCurrent ==
  ASSUME EndlessCalendar, NEW c, Aligned(c), NEW next \in Periods, NEW day \in Int,
         NEW x \in Int, day <= x, x <= End(c, day)
  PROVE  SummaryPeriodStart(Changed(c, next, day), x) = SummaryPeriodStart(c, x)
<1> DEFINE n == Changed(c, next, day)
           p == SummaryPeriodFor(c, day)
<1>0. c \in Chat
  BY DEF Aligned
<1>1. n.switched /\ n.eff \in Int /\ n.eff > End(c, day) /\ n.prev = p
  BY <1>0, ChangeAligned
<1>2. p \in Periods /\ End(c, day) \in Int /\ End(c, day) = EndOf(p, day) /\ Start(c, day) = periodStart(p, day) /\ Start(c, day) \in Int /\ Start(c, day) <= day
  BY <1>0, PeriodOf DEF End
<1>3. periodStart(p, x) = periodStart(p, day) /\ EndOf(p, x) = EndOf(p, day)
  <2> HIDE DEF n, p
  <2>1. \A y \in Int : periodStart(p, day) <= y /\ y <= EndOf(p, day) => periodStart(p, y) = periodStart(p, day)
    BY <1>2, Blocks
  <2>2. periodStart(p, x) = periodStart(p, day)
    BY <1>2, <2>1
  <2> QED BY <2>2 DEF EndOf
<1>4. SummaryPeriodFor(n, x) = p
  <2> HIDE DEF n, p
  <2>1. ~(x >= n.eff) /\ EndOf(n.prev, x) < n.eff
    BY <1>1, <1>2, <1>3
  <2> QED BY <1>1, <2>1 DEF SummaryPeriodFor
<1>5. SummaryPeriodStart(c, x) = SummaryPeriodStart(c, day)
  BY <1>2, SamePeriod
<1> QED BY <1>3, <1>4, <1>5 DEF SummaryPeriodStart

\* The first change of a chat keeps the period of every day before it as well.
LEMMA FirstChangeKeepsPast ==
  ASSUME EndlessCalendar, NEW c \in Chat, ~c.switched, NEW next \in Periods, NEW day \in Int,
         NEW x \in Int, x <= day
  PROVE  SummaryPeriodStart(Changed(c, next, day), x) = SummaryPeriodStart(c, x)
<1> DEFINE n == Changed(c, next, day)
           p == c.freq
<1>0. p \in Periods /\ SummaryPeriodFor(c, day) = p /\ SummaryPeriodFor(c, x) = p
  BY DEF Chat, SummaryPeriodFor
<1>1. n.switched /\ n.eff \in Int /\ n.eff > EndOf(p, day) /\ n.prev = p
  BY <1>0, ChangeAligned DEF End
<1> DEFINE z == EndOf(p, day)
<1> HIDE DEF n, p
<1>2. /\ periodStart(p, day) \in Int /\ z \in Int /\ periodStart(p, day) <= day /\ day <= z
      /\ \A y \in Int : periodStart(p, day) <= y /\ y <= z => periodStart(p, y) = periodStart(p, day)
  BY <1>0, Blocks
<1>3. /\ periodStart(p, x) \in Int /\ EndOf(p, x) \in Int /\ periodStart(p, x) <= x /\ x <= EndOf(p, x)
      /\ \A y \in Int : periodStart(p, x) <= y /\ y <= EndOf(p, x) => periodStart(p, y) = periodStart(p, x)
  BY <1>0, Blocks
<1>4. EndOf(p, x) <= z
  <2> SUFFICES ASSUME EndOf(p, x) > z PROVE FALSE
    BY <1>2, <1>3
  <2> HIDE DEF z
  <2>1. periodStart(p, z) = periodStart(p, day)
    BY <1>2
  <2>2. periodStart(p, z) = periodStart(p, x)
    BY <1>2, <1>3
  <2>3. EndOf(p, x) = EndOf(p, day)
    BY <2>1, <2>2 DEF EndOf
  <2> QED BY <2>3, <1>2, <1>3 DEF z
<1>5. SummaryPeriodFor(n, x) = p
  <2> HIDE DEF z
  <2>1. ~(x >= n.eff) /\ EndOf(n.prev, x) < n.eff
    BY <1>1, <1>2, <1>3, <1>4 DEF z
  <2> QED BY <1>1, <2>1 DEF SummaryPeriodFor
<1> QED BY <1>0, <1>5 DEF SummaryPeriodStart, n

\* The latest ended period is the one of some earlier day.
LEMMA LatestIsPeriod ==
  ASSUME EndlessCalendar, NEW c \in Chat, NEW last \in Int
  PROVE  \E k \in Int : k <= last /\ LatestEndedPeriod(c, last) = SummaryPeriodStart(c, k)
<1> DEFINE now == SummaryPeriodStart(c, last)
<1>1. now.start \in Int /\ now.start <= last
  BY PeriodOf DEF Start
<1>2. CASE periodEnd(now.period, now.start) > last
  <2>1. LatestEndedPeriod(c, last) = SummaryPeriodStart(c, now.start - 1)
    BY <1>2 DEF LatestEndedPeriod
  <2> HIDE DEF now
  <2>2. now.start - 1 \in Int /\ now.start - 1 <= last
    BY <1>1
  <2> QED BY <2>1, <2>2
<1>3. CASE ~(periodEnd(now.period, now.start) > last)
  BY <1>3 DEF LatestEndedPeriod
<1> QED BY <1>2, <1>3
-----------------------------------------------------------------------------
(* The invariant: the frequency is aligned, and as long as there has been at *)
(* most one change every summary is the period of its first day.             *)

RowType ==
  /\ rows \subseteq Summary
  /\ \A r \in rows : r.start = periodStart(r.period, r.start)
  /\ \A r, s \in rows : r.start = s.start => r = s

RowsOwned == \A r \in rows : r.start <= today /\ SummaryPeriodStart(chat, r.start) = r

CalendarInv ==
  /\ TypeOK /\ Aligned(chat)
  /\ used.changes = 0 => ~chat.switched
  /\ used.changes <= 1 => RowsOwned

\* A period is stored under its own first day.
LEMMA StartOfPeriod ==
  ASSUME EndlessCalendar, NEW c, Aligned(c), NEW d \in Int
  PROVE  LET r == SummaryPeriodStart(c, d)
         IN  /\ r \in Summary /\ r.start <= d /\ r.start = periodStart(r.period, r.start)
             /\ SummaryPeriodStart(c, r.start) = r
<1> DEFINE r == SummaryPeriodStart(c, d)
<1>1. c \in Chat
  BY DEF Aligned
<1>2. r \in Summary /\ r.start = Start(c, d) /\ r.start \in Int /\ r.start <= d /\ Start(c, d) <= r.start /\ r.start <= End(c, d)
  BY <1>1, PeriodOf DEF Start
<1>3. SummaryPeriodStart(c, r.start) = r
  BY <1>2, SamePeriod
<1>4. r.start = periodStart(r.period, r.start)
  <2>1. SummaryPeriodStart(c, r.start).start = periodStart(SummaryPeriodFor(c, r.start), r.start)
        /\ SummaryPeriodStart(c, r.start).period = SummaryPeriodFor(c, r.start)
    BY DEF SummaryPeriodStart
  <2> HIDE DEF r
  <2> QED BY <2>1, <1>3
<1> QED BY <1>2, <1>3, <1>4

\* A new summary whose first day is free, or an existing one, keeps the table in order.
LEMMA AddRow ==
  ASSUME EndlessCalendar, TypeOK, Aligned(chat), NEW d \in Int, d <= today,
         NEW r, r \in rows \/ (r = SummaryPeriodStart(chat, d) /\ ~\E s \in rows : s.start = r.start),
         rows' = rows \cup {r}, chat' = chat, today' = today
  PROVE  RowType' /\ (RowsOwned => RowsOwned')
<1>1. CASE r \in rows
  <2>1. rows' = rows
    BY <1>1
  <2> QED BY <2>1 DEF TypeOK, RowType, RowsOwned
<1>2. CASE r = SummaryPeriodStart(chat, d) /\ ~\E s \in rows : s.start = r.start
  <2>1. r \in Summary /\ r.start <= d /\ r.start = periodStart(r.period, r.start) /\ SummaryPeriodStart(chat, r.start) = r
    BY <1>2, StartOfPeriod
  <2>2. r.start <= today
    BY <2>1 DEF Summary, TypeOK
  <2>3. RowType'
    BY <1>2, <2>1 DEF TypeOK, RowType
  <2>4. RowsOwned => RowsOwned'
    BY <2>1, <2>2 DEF RowsOwned
  <2> QED BY <2>3, <2>4
<1> QED BY <1>1, <1>2

LEMMA InitCalendar == ASSUME Init PROVE CalendarInv
<1>1. chat \in Chat
  BY DEF Init, Chat, Periods
<1>2. chat.switched = FALSE
  BY DEF Init
<1>3. TypeOK
  <2>1. used \in [changes : Nat, requests : Nat, missed : Nat]
    BY DEF Init
  <2>2. today \in 0..MaxDay
    BY CalendarAssumption DEF Init, CalendarAssumption
  <2> QED BY <1>1, <2>1, <2>2 DEF Init, TypeOK
<1>4. Aligned(chat) /\ ~chat.switched
  BY <1>1, <1>2 DEF Aligned
<1> QED BY <1>3, <1>4 DEF CalendarInv, RowsOwned, Init

LEMMA StepCalendar == ASSUME EndlessCalendar, CalendarInv, [Next]_vars PROVE CalendarInv'
<1> USE CalendarAssumption DEF CalendarAssumption
<1>0. TypeOK /\ Aligned(chat) /\ chat \in Chat /\ today \in 0..MaxDay /\ today \in Int /\ RowType /\ used.changes \in Nat
  BY DEF CalendarInv, TypeOK, RowType
<1>1. ASSUME NEW next \in Periods, ChangeSummaryFrequency(next)
      PROVE  CalendarInv'
  <2>1. chat' = Changed(chat, next, today) /\ UNCHANGED <<today, rows, ran>>
        /\ used' = [used EXCEPT !.changes = @ + 1] /\ used \in [changes : Nat, requests : Nat, missed : Nat]
    BY <1>0, <1>1 DEF ChangeSummaryFrequency, TypeOK
  <2>2. used'.changes = used.changes + 1 /\ used' \in [changes : Nat, requests : Nat, missed : Nat]
    BY <2>1
  <2>3. Aligned(chat')
    BY <1>0, <2>1, ChangeAligned
  <2>4. TypeOK'
    BY <1>0, <2>1, <2>2, <2>3 DEF TypeOK, Aligned
  <2>5. ASSUME used'.changes <= 1 PROVE RowsOwned'
    <3>1. used.changes = 0
      BY <1>0, <2>2, <2>5
    <3>2. ~chat.switched /\ RowsOwned
      BY <3>1 DEF CalendarInv
    <3> SUFFICES ASSUME NEW r \in rows PROVE r.start <= today /\ SummaryPeriodStart(chat', r.start) = r
      BY <2>1 DEF RowsOwned
    <3>3. r.start \in Int /\ r.start <= today /\ SummaryPeriodStart(chat, r.start) = r
      BY <1>0, <3>2 DEF RowsOwned, TypeOK, Summary
    <3> QED BY <1>0, <2>1, <3>2, <3>3, FirstChangeKeepsPast
  <2>6. used'.changes # 0
    BY <1>0, <2>2
  <2> QED BY <2>3, <2>4, <2>5, <2>6 DEF CalendarInv
<1>2. CASE RunOnce
  <2> DEFINE due == LatestEndedPeriod(chat, today - 1)
  <2>1. PICK k \in Int : k <= today - 1 /\ due = SummaryPeriodStart(chat, k)
    BY <1>0, LatestIsPeriod
  <2>2. k <= today
    BY <1>0, <2>1
  <2>3. chat' = chat /\ today' = today /\ used' = used /\ ran' = TRUE
        /\ rows' = IF \E r \in rows : r.start = due.start THEN rows ELSE rows \cup {due}
    BY <1>2 DEF RunOnce
  <2>4. RowType' /\ (RowsOwned => RowsOwned')
    <3>1. CASE \E r \in rows : r.start = due.start
      BY <1>0, <2>3, <3>1 DEF RowType, RowsOwned
    <3>2. CASE ~\E r \in rows : r.start = due.start
      <4>1. rows' = rows \cup {due}
        BY <2>3, <3>2
      <4> HIDE DEF due
      <4> QED BY <1>0, <2>1, <2>2, <2>3, <3>2, <4>1, AddRow
    <3> QED BY <3>1, <3>2
  <2>5. TypeOK'
    BY <1>0, <2>3, <2>4 DEF TypeOK, RowType
  <2> QED BY <1>0, <2>3, <2>4, <2>5 DEF CalendarInv
<1>3. ASSUME NEW d \in 0..MaxDay, RunNow(d)
      PROVE  CalendarInv'
  <2> DEFINE r == summaryTarget(d)
  <2>1. chat' = chat /\ today' = today /\ ran' = ran /\ d <= today /\ rows' = rows \cup {r} /\ d \in Int
        /\ used' = [used EXCEPT !.requests = @ + 1]
    BY <1>3 DEF RunNow
  <2>2. used' \in [changes : Nat, requests : Nat, missed : Nat] /\ used'.changes = used.changes
    BY <1>0, <2>1 DEF TypeOK
  <2>3. r \in rows \/ (r = SummaryPeriodStart(chat, d) /\ ~\E s \in rows : s.start = r.start)
    <3> DEFINE own == SummaryPeriodStart(chat, d)
               at  == IF \E s \in rows : s.start = d THEN d ELSE own.start
    <3>1. r = IF \E s \in rows : s.start = at THEN CHOOSE s \in rows : s.start = at ELSE own
      BY DEF summaryTarget
    <3>2. CASE \E s \in rows : s.start = at
      BY <3>1, <3>2
    <3>3. CASE ~\E s \in rows : s.start = at
      <4>1. r = own /\ at = own.start
        BY <3>1, <3>3
      <4> QED BY <3>3, <4>1
    <3> QED BY <3>2, <3>3
  <2>4. RowType' /\ (RowsOwned => RowsOwned')
    <3> HIDE DEF r
    <3> QED BY <1>0, <2>1, <2>3, AddRow
  <2>5. TypeOK'
    BY <1>0, <2>1, <2>2, <2>4 DEF TypeOK, RowType
  <2> QED BY <1>0, <2>1, <2>2, <2>4, <2>5 DEF CalendarInv
<1>4. CASE Midnight
  <2>1. chat' = chat /\ rows' = rows /\ today' = today + 1 /\ today < MaxDay /\ ran' = FALSE
        /\ used' \in [changes : Nat, requests : Nat, missed : Nat] /\ used'.changes = used.changes
    BY <1>0, <1>4 DEF Midnight, TypeOK
  <2>2. TypeOK'
    <3>1. today' \in 0..MaxDay
      BY <1>0, <2>1
    <3> QED BY <1>0, <2>1, <3>1 DEF TypeOK
  <2>3. RowsOwned => RowsOwned'
    BY <1>0, <2>1 DEF RowsOwned, TypeOK, Summary
  <2> QED BY <1>0, <2>1, <2>2, <2>3 DEF CalendarInv
<1>5. CASE UNCHANGED vars
  BY <1>5 DEF vars, CalendarInv, TypeOK, RowsOwned
<1> QED BY <1>1, <1>2, <1>3, <1>4, <1>5 DEF Next
-----------------------------------------------------------------------------
(* The theorems.                                                            *)

\* Type correctness, and one row per period under its first day, for every
\* calendar without end.
THEOREM Types == ASSUME EndlessCalendar PROVE Spec => []TypeOK
<1>1. Init => CalendarInv
  BY InitCalendar
<1>2. CalendarInv /\ [Next]_vars => CalendarInv'
  BY StepCalendar
<1>3. CalendarInv => TypeOK
  BY DEF CalendarInv
<1> QED BY <1>1, <1>2, <1>3, PTL DEF Spec

\* A change completes the current period at the old frequency, however often and
\* whenever the frequency is changed.
THEOREM CurrentPeriodKept == ASSUME EndlessCalendar PROVE Spec => CurrentKept
<1>1. Init => CalendarInv
  BY InitCalendar
<1>2. CalendarInv /\ [Next]_vars => CalendarInv'
  BY StepCalendar
<1> DEFINE Kept == \A d \in today..EndOf(SummaryPeriodFor(chat, today), today) :
                     chat' # chat => SummaryPeriodStart(chat', d) = SummaryPeriodStart(chat, d)
<1>3. CalendarInv /\ [Next]_vars => [Kept]_vars
  <2> SUFFICES ASSUME CalendarInv, [Next]_vars, chat' # chat, NEW d \in today..End(chat, today)
               PROVE  SummaryPeriodStart(chat', d) = SummaryPeriodStart(chat, d)
    BY DEF End
  <2>1. PICK next \in Periods : ChangeSummaryFrequency(next)
    BY DEF Next, RunOnce, RunNow, Midnight, vars
  <2>2. chat' = Changed(chat, next, today)
    BY <2>1 DEF ChangeSummaryFrequency
  <2>3. today \in Int /\ Aligned(chat) /\ chat \in Chat
    BY CalendarAssumption DEF CalendarInv, TypeOK, CalendarAssumption
  <2>4. End(chat, today) \in Int
    BY <2>3, PeriodOf
  <2> QED BY <2>2, <2>3, <2>4, ChangeKeepsCurrent
<1> QED BY <1>1, <1>2, <1>3, PTL DEF Spec, CurrentKept

\* As long as the frequency is changed at most once, no day is summarised twice,
\* whatever the scheduler misses and the user asks for.
THEOREM PeriodsDisjoint == ASSUME EndlessCalendar, MaxChanges <= 1 PROVE Spec => []Disjoint
<1> USE CalendarAssumption DEF CalendarAssumption
<1> DEFINE Bounded == CalendarInv /\ used.changes <= MaxChanges
<1>1. Init => Bounded
  <2>1. Init => used.changes = 0
    BY DEF Init
  <2> QED BY <2>1, InitCalendar
<1>2. Bounded /\ [Next]_vars => Bounded'
  <2> SUFFICES ASSUME Bounded, [Next]_vars PROVE used'.changes <= MaxChanges
    BY StepCalendar
  <2>1. used \in [changes : Nat, requests : Nat, missed : Nat]
    BY DEF CalendarInv, TypeOK
  <2> QED BY <2>1 DEF Next, ChangeSummaryFrequency, RunOnce, RunNow, Midnight, vars
<1>3. Bounded => Disjoint
  <2> SUFFICES ASSUME Bounded, NEW r \in rows, NEW s \in rows,
                      NEW x \in Int, x \in Days(r), x \in Days(s)
               PROVE  r = s
    <3>1. \A r \in rows : Days(r) \subseteq Int
      BY DEF Days
    <3> QED BY <3>1 DEF Disjoint
  <2>1. RowsOwned /\ rows \subseteq Summary /\ Aligned(chat) /\ chat \in Chat
    <3>1. used.changes <= 1
      BY DEF CalendarInv, TypeOK
    <3> QED BY <3>1 DEF CalendarInv, TypeOK
  <2>2. ASSUME NEW t \in rows, x \in Days(t)
        PROVE  SummaryPeriodStart(chat, x) = t
    <3>1. t.start \in Int /\ SummaryPeriodStart(chat, t.start) = t
      BY <2>1 DEF RowsOwned, Summary
    <3>2. t.start = Start(chat, t.start) /\ End(chat, t.start) = periodEnd(t.period, t.start)
      BY <3>1 DEF Start, End, EndOf, SummaryPeriodStart
    <3>3. End(chat, t.start) \in Int
      BY <2>1, <3>1, PeriodOf
    <3>4. Start(chat, t.start) <= x /\ x <= End(chat, t.start)
      BY <2>2, <3>1, <3>2, <3>3 DEF Days
    <3> QED BY <2>1, <3>1, <3>4, SamePeriod
  <2> QED BY <2>2
<1> QED BY <1>1, <1>2, <1>3, PTL DEF Spec
-----------------------------------------------------------------------------
(* No gap: the scheduler, run every day, goes from a period to the next one. *)

\* Neighbouring periods touch: the day before a period ends the one before it,
\* the day after a period begins the one after it.
LEMMA PeriodsTouch ==
  ASSUME EndlessCalendar, NEW c, Aligned(c), NEW d \in Int
  PROVE  End(c, Start(c, d) - 1) = Start(c, d) - 1 /\ Start(c, End(c, d) + 1) = End(c, d) + 1
<1>0. c \in Chat
  BY DEF Aligned
<1>1. Start(c, d) \in Int /\ End(c, d) \in Int /\ Start(c, d) <= d /\ d <= End(c, d)
  BY <1>0, PeriodOf
<1>2. \A x, y \in Int : Start(c, x) <= y /\ y <= End(c, x) => Start(c, y) = Start(c, x) /\ End(c, y) = End(c, x)
  <2> SUFFICES ASSUME NEW x \in Int, NEW y \in Int, Start(c, x) <= y, y <= End(c, x)
               PROVE  Start(c, y) = Start(c, x) /\ End(c, y) = End(c, x)
    OBVIOUS
  <2>1. SummaryPeriodStart(c, y) = SummaryPeriodStart(c, x)
    BY SamePeriod
  <2>2. \A z : End(c, z) = periodEnd(SummaryPeriodStart(c, z).period, SummaryPeriodStart(c, z).start)
    BY DEF End, EndOf, SummaryPeriodStart
  <2> QED BY <2>1, <2>2 DEF Start
<1>3. End(c, Start(c, d) - 1) = Start(c, d) - 1
  <2> DEFINE x == Start(c, d) - 1
  <2>1. x \in Int /\ Start(c, x) \in Int /\ End(c, x) \in Int /\ Start(c, x) <= x /\ x <= End(c, x)
    BY <1>0, <1>1, PeriodOf
  <2>2. Start(c, Start(c, d)) = Start(c, d)
    BY <1>1, <1>2
  <2>3. ~(x + 1 <= End(c, x))
    <3> SUFFICES ASSUME x + 1 <= End(c, x) PROVE FALSE
      OBVIOUS
    <3>1. x + 1 = Start(c, d)
      BY <1>1
    <3>2. Start(c, Start(c, d)) = Start(c, x)
      <4> HIDE DEF x
      <4> QED BY <1>1, <1>2, <2>1, <3>1
    <3> QED BY <1>1, <2>1, <2>2, <3>2
  <2> HIDE DEF x
  <2>4. End(c, x) = x
    BY <2>1, <2>3
  <2> QED BY <2>4 DEF x
<1>4. Start(c, End(c, d) + 1) = End(c, d) + 1
  <2> DEFINE x == End(c, d) + 1
  <2>1. x \in Int /\ Start(c, x) \in Int /\ End(c, x) \in Int /\ Start(c, x) <= x /\ x <= End(c, x)
    BY <1>0, <1>1, PeriodOf
  <2>2. End(c, End(c, d)) = End(c, d)
    BY <1>1, <1>2
  <2>3. ~(Start(c, x) <= x - 1)
    <3> SUFFICES ASSUME Start(c, x) <= x - 1 PROVE FALSE
      OBVIOUS
    <3>1. x - 1 = End(c, d)
      BY <1>1
    <3>2. End(c, End(c, d)) = End(c, x)
      <4> HIDE DEF x
      <4> QED BY <1>1, <1>2, <2>1, <3>1
    <3> QED BY <1>1, <2>1, <2>2, <3>2
  <2> HIDE DEF x
  <2>4. Start(c, x) = x
    BY <2>1, <2>3
  <2> QED BY <2>4 DEF x
<1> QED BY <1>3, <1>4

\* The last day of the latest period that has ended on the day last.
EndOfLatest(c, last) ==
  LET due == LatestEndedPeriod(c, last) IN periodEnd(due.period, due.start)

\* The latest ended period is the one of the day it ends on.
LEMMA LatestEnds ==
  ASSUME EndlessCalendar, NEW c, Aligned(c), NEW last \in Int
  PROVE  LET k == IF End(c, last) > last THEN Start(c, last) - 1 ELSE last
         IN  /\ k \in Int /\ k <= last /\ End(c, k) = k
             /\ LatestEndedPeriod(c, last) = SummaryPeriodStart(c, k) /\ EndOfLatest(c, last) = k
<1> DEFINE k == IF End(c, last) > last THEN Start(c, last) - 1 ELSE last
<1>0. c \in Chat
  BY DEF Aligned
<1>1. Start(c, last) \in Int /\ End(c, last) \in Int /\ Start(c, last) <= last /\ last <= End(c, last)
  BY <1>0, PeriodOf
<1>2. \A z : End(c, z) = periodEnd(SummaryPeriodStart(c, z).period, SummaryPeriodStart(c, z).start)
  BY DEF End, EndOf, SummaryPeriodStart
<1>3. LatestEndedPeriod(c, last) = SummaryPeriodStart(c, k)
  BY <1>2 DEF LatestEndedPeriod, Start
<1>4. k \in Int /\ k <= last /\ End(c, k) = k
  <2>1. CASE End(c, last) > last
    BY <1>1, <2>1, PeriodsTouch
  <2>2. CASE ~(End(c, last) > last)
    <3>1. k = last /\ End(c, last) = last
      BY <1>1, <2>2
    <3> QED BY <3>1
  <2> QED BY <2>1, <2>2
<1> HIDE DEF k
<1>5. EndOfLatest(c, last) = k
  BY <1>2, <1>3, <1>4 DEF EndOfLatest
<1>6. k \in Int /\ k <= last /\ End(c, k) = k /\ LatestEndedPeriod(c, last) = SummaryPeriodStart(c, k)
      /\ EndOfLatest(c, last) = k
  BY <1>3, <1>4, <1>5
<1> QED BY <1>6 DEF k

\* From one day to the next the latest ended period is the same or the next one.
LEMMA LatestGoesOn ==
  ASSUME EndlessCalendar, NEW c, Aligned(c), NEW last \in Int
  PROVE  \/ LatestEndedPeriod(c, last + 1) = LatestEndedPeriod(c, last)
         \/ LatestEndedPeriod(c, last + 1).start = EndOfLatest(c, last) + 1
<1> DEFINE next == last + 1
           k == IF End(c, last) > last THEN Start(c, last) - 1 ELSE last
           l == IF End(c, next) > next THEN Start(c, next) - 1 ELSE next
<1>0. c \in Chat /\ next \in Int
  BY DEF Aligned
<1>1. /\ Start(c, last) \in Int /\ End(c, last) \in Int /\ Start(c, last) <= last /\ last <= End(c, last)
      /\ Start(c, next) \in Int /\ End(c, next) \in Int /\ Start(c, next) <= next /\ next <= End(c, next)
  BY <1>0, PeriodOf
<1>2. /\ LatestEndedPeriod(c, last) = SummaryPeriodStart(c, k) /\ EndOfLatest(c, last) = k
      /\ LatestEndedPeriod(c, next) = SummaryPeriodStart(c, l) /\ l \in Int
  BY <1>0, LatestEnds
<1>3. CASE End(c, last) > last
  <2>1. Start(c, last) <= next /\ next <= End(c, last)
    BY <1>1, <1>3
  <2>2. SummaryPeriodStart(c, next) = SummaryPeriodStart(c, last)
    BY <1>0, <2>1, SamePeriod
  <2>3. Start(c, next) = Start(c, last)
    BY <2>2 DEF Start
  <2>4. k = Start(c, last) - 1
    BY <1>3
  <2>5. CASE End(c, next) > next
    BY <1>2, <2>3, <2>4, <2>5
  <2>6. CASE ~(End(c, next) > next)
    <3>1. LatestEndedPeriod(c, next) = SummaryPeriodStart(c, last)
      BY <1>2, <2>2, <2>6
    <3>2. LatestEndedPeriod(c, next).start = Start(c, last)
      BY <3>1 DEF Start
    <3>3. EndOfLatest(c, last) = Start(c, last) - 1
      BY <1>2, <2>4
    <3> QED BY <1>1, <3>2, <3>3
  <2> QED BY <2>5, <2>6
<1>4. CASE ~(End(c, last) > last)
  <2>1. End(c, last) = last /\ k = last
    BY <1>1, <1>4
  <2>2. Start(c, next) = next
    BY <2>1, PeriodsTouch
  <2>3. CASE End(c, next) > next
    <3>1. l = last
      BY <2>2, <2>3
    <3> QED BY <1>2, <2>1, <3>1
  <2>4. CASE ~(End(c, next) > next)
    <3>1. LatestEndedPeriod(c, next) = SummaryPeriodStart(c, next)
      BY <1>2, <2>4
    <3>2. LatestEndedPeriod(c, next).start = next
      BY <2>2, <3>1 DEF Start
    <3> QED BY <1>2, <2>1, <3>2
  <2> QED BY <2>3, <2>4
<1> QED BY <1>3, <1>4

\* The first change keeps what is the latest ended period.
LEMMA FirstChangeKeepsLatest ==
  ASSUME EndlessCalendar, NEW c, Aligned(c), ~c.switched, NEW next \in Periods, NEW day \in Int,
         NEW last \in Int, last <= day
  PROVE  LatestEndedPeriod(Changed(c, next, day), last) = LatestEndedPeriod(c, last)
<1> DEFINE n == Changed(c, next, day)
<1>1. c \in Chat
  BY DEF Aligned
<1>2. \A x \in Int : x <= day => SummaryPeriodStart(n, x) = SummaryPeriodStart(c, x)
  BY <1>1, FirstChangeKeepsPast
<1>3. Start(c, last) \in Int /\ Start(c, last) <= last
  BY <1>1, PeriodOf
<1> HIDE DEF n
<1>4. /\ SummaryPeriodStart(n, last) = SummaryPeriodStart(c, last)
      /\ SummaryPeriodStart(n, Start(c, last) - 1) = SummaryPeriodStart(c, Start(c, last) - 1)
  BY <1>2, <1>3
<1>5. LatestEndedPeriod(n, last) = LatestEndedPeriod(c, last)
  BY <1>4 DEF LatestEndedPeriod, Start
<1> QED BY <1>5 DEF n

Covered(e) == \A d \in 0..e : \E r \in rows : d \in Days(r)

\* The day up to which the scheduler has looked: yesterday, once it has run.
Looked == IF ran THEN today - 1 ELSE today - 2

\* The inductive invariant: while the scheduler has missed no day, the days are
\* covered up to the end of the period it has generated last.
NoGapInv ==
  /\ CalendarInv
  /\ used.changes <= 1 /\ used.missed = 0 => Covered(EndOfLatest(chat, Looked))

LEMMA InitNoGap == ASSUME EndlessCalendar, Init PROVE NoGapInv
<1>1. CalendarInv
  BY InitCalendar
<1>2. Looked = -2 /\ Aligned(chat)
  BY <1>1 DEF Init, Looked, CalendarInv
<1>3. EndOfLatest(chat, -2) \in Int /\ EndOfLatest(chat, -2) <= -2
  <2>1. -2 \in Int
    OBVIOUS
  <2> QED BY <1>2, <2>1, LatestEnds
<1>4. 0..EndOfLatest(chat, Looked) = {}
  BY <1>2, <1>3
<1> QED BY <1>1, <1>4 DEF NoGapInv, Covered

LEMMA StepNoGap == ASSUME EndlessCalendar, NoGapInv, [Next]_vars PROVE NoGapInv'
<1>0. /\ CalendarInv /\ CalendarInv' /\ Aligned(chat) /\ chat \in Chat /\ today \in Int /\ rows \subseteq Summary
      /\ ran \in BOOLEAN /\ used \in [changes : Nat, requests : Nat, missed : Nat]
  BY StepCalendar, CalendarAssumption DEF NoGapInv, CalendarInv, TypeOK
<1> SUFFICES ASSUME used'.changes <= 1, used'.missed = 0 PROVE Covered(EndOfLatest(chat, Looked))'
  BY <1>0 DEF NoGapInv
<1>1. Looked \in Int /\ Looked <= today
  BY <1>0 DEF Looked
<1>2. ASSUME rows \subseteq rows', EndOfLatest(chat', Looked') = EndOfLatest(chat, Looked),
             used.changes <= 1, used.missed = 0
      PROVE  Covered(EndOfLatest(chat, Looked))'
  BY <1>2 DEF NoGapInv, Covered
<1>3. ASSUME NEW next \in Periods, ChangeSummaryFrequency(next) PROVE Covered(EndOfLatest(chat, Looked))'
  <2>1. /\ used'.changes = used.changes + 1 /\ used'.missed = used.missed /\ UNCHANGED <<today, rows, ran>>
        /\ chat' = Changed(chat, next, today)
    BY <1>0, <1>3 DEF ChangeSummaryFrequency
  <2>2. used.changes = 0 /\ used.missed = 0 /\ ~chat.switched
    BY <1>0, <2>1 DEF CalendarInv
  <2>3. Looked' = Looked
    BY <2>1 DEF Looked
  <2>4. LatestEndedPeriod(chat', Looked) = LatestEndedPeriod(chat, Looked)
    BY <1>0, <1>1, <2>1, <2>2, FirstChangeKeepsLatest
  <2> QED BY <1>2, <2>1, <2>2, <2>3, <2>4 DEF EndOfLatest
<1>4. CASE RunOnce
  <2> DEFINE due == LatestEndedPeriod(chat, today - 1)
             e   == EndOfLatest(chat, Looked)
  <2>1. /\ ran' = TRUE /\ UNCHANGED <<chat, today, used>>
        /\ rows' = IF \E r \in rows : r.start = due.start THEN rows ELSE rows \cup {due}
    BY <1>4 DEF RunOnce
  <2>2. Looked' = today - 1 /\ used.changes <= 1 /\ used.missed = 0 /\ rows \subseteq rows'
    BY <2>1 DEF Looked
  <2>3. due \in rows'
    <3>1. CASE \E r \in rows : r.start = due.start
      <4>1. PICK r \in rows : r.start = due.start
        BY <3>1
      <4>2. SummaryPeriodStart(chat, r.start) = r
        BY <2>2, <4>1 DEF CalendarInv, NoGapInv, RowsOwned
      <4>3. PICK k \in Int : due = SummaryPeriodStart(chat, k)
        BY <1>0, LatestIsPeriod
      <4>4. SummaryPeriodStart(chat, due.start) = due
        <5> HIDE DEF due
        <5> QED BY <1>0, <4>3, StartOfPeriod
      <4>5. r = due
        BY <4>1, <4>2, <4>4
      <4> QED BY <2>2, <4>1, <4>5
    <3>2. CASE ~\E r \in rows : r.start = due.start
      BY <2>1, <3>2
    <3> QED BY <3>1, <3>2
  <2>4. CASE ran
    <3>1. Looked' = Looked
      BY <2>2, <2>4 DEF Looked
    <3> QED BY <1>2, <2>1, <2>2, <3>1
  <2>5. CASE ~ran
    <3>1. Looked = today - 2 /\ Looked + 1 = today - 1
      BY <1>0, <2>5 DEF Looked
    <3>2. due = LatestEndedPeriod(chat, Looked) \/ due.start = e + 1
      BY <1>0, <1>1, <3>1, LatestGoesOn
    <3>3. e \in Int /\ Covered(e)
      BY <1>0, <1>1, <2>2, LatestEnds DEF NoGapInv
    <3>4. EndOfLatest(chat', Looked') = periodEnd(due.period, due.start)
      BY <2>1, <2>2 DEF EndOfLatest
    <3>5. CASE due = LatestEndedPeriod(chat, Looked)
      <4>1. EndOfLatest(chat', Looked') = e
        BY <3>4, <3>5 DEF EndOfLatest
      <4> QED BY <1>2, <2>2, <4>1
    <3>6. CASE due.start = e + 1
      <4> HIDE DEF due, e
      <4>1. ASSUME NEW d \in 0..periodEnd(due.period, due.start) PROVE \E r \in rows' : d \in Days(r)
        <5>1. periodEnd(due.period, due.start) \in Int
          <6>1. EndOfLatest(chat, today - 1) \in Int
            BY <1>0, LatestEnds
          <6> QED BY <6>1 DEF EndOfLatest, due
        <5>2. d \in Int /\ 0 <= d /\ d <= periodEnd(due.period, due.start)
          BY <5>1
        <5>3. CASE d <= e
          <6>1. d \in 0..e
            BY <3>3, <5>2, <5>3
          <6> QED BY <2>2, <3>3, <6>1 DEF Covered
        <5>4. CASE ~(d <= e)
          <6>1. d \in due.start..periodEnd(due.period, due.start)
            BY <3>3, <3>6, <5>1, <5>2, <5>4
          <6> QED BY <2>3, <6>1 DEF Days
        <5> QED BY <5>3, <5>4
      <4> QED BY <3>4, <4>1 DEF Covered
    <3> QED BY <3>2, <3>5, <3>6
  <2> QED BY <2>4, <2>5
<1>5. ASSUME NEW d \in 0..MaxDay, RunNow(d) PROVE Covered(EndOfLatest(chat, Looked))'
  <2>1. UNCHANGED <<chat, today, ran>> /\ rows \subseteq rows' /\ used' = [used EXCEPT !.requests = @ + 1]
    BY <1>5 DEF RunNow
  <2>2. used.changes <= 1 /\ used.missed = 0
    BY <1>0, <2>1
  <2> QED BY <1>2, <2>1, <2>2 DEF Looked
<1>6. CASE Midnight
  <2>1. chat' = chat /\ rows' = rows /\ today' = today + 1 /\ ran' = FALSE
    BY <1>6 DEF Midnight
  <2>2. ran /\ used' = used
    <3> SUFFICES ASSUME ~ran PROVE FALSE
      BY <1>6 DEF Midnight
    <3>1. used' = [used EXCEPT !.missed = @ + 1]
      BY <1>6 DEF Midnight
    <3>2. used'.missed = used.missed + 1 /\ used.missed \in Nat
      BY <1>0, <3>1
    <3> QED BY <3>2
  <2>3. Looked' = Looked
    BY <1>0, <2>1, <2>2 DEF Looked
  <2> QED BY <1>2, <2>1, <2>2, <2>3
<1>7. CASE UNCHANGED vars
  BY <1>2, <1>7 DEF vars, Looked
<1> QED BY <1>3, <1>4, <1>5, <1>6, <1>7 DEF Next

\* As long as the frequency is changed at most once and the scheduler misses no
\* day, no day falls between two summaries: once runOnce has handled the chat,
\* every day is summarised up to the end of the latest period that has ended.
THEOREM PeriodsComplete == ASSUME EndlessCalendar, MaxChanges <= 1 PROVE Spec => []NoGap
<1> USE CalendarAssumption DEF CalendarAssumption
<1> DEFINE Bounded == NoGapInv /\ used.changes <= MaxChanges
<1>1. Init => Bounded
  <2>1. Init => used.changes = 0
    BY DEF Init
  <2> QED BY <2>1, InitNoGap
<1>2. Bounded /\ [Next]_vars => Bounded'
  <2> SUFFICES ASSUME Bounded, [Next]_vars PROVE used'.changes <= MaxChanges
    BY StepNoGap
  <2>1. used \in [changes : Nat, requests : Nat, missed : Nat]
    BY DEF NoGapInv, CalendarInv, TypeOK
  <2> QED BY <2>1 DEF Next, ChangeSummaryFrequency, RunOnce, RunNow, Midnight, vars
<1>3. Bounded => NoGap
  <2> SUFFICES ASSUME Bounded, ran, used.missed = 0 PROVE Covered(EndOfLatest(chat, today - 1))
    BY DEF NoGap, Covered, EndOfLatest
  <2>1. used.changes <= 1
    BY DEF NoGapInv, CalendarInv, TypeOK
  <2> QED BY <2>1 DEF NoGapInv, Looked
<1> QED BY <1>1, <1>2, <1>3, PTL DEF Spec
=============================================================================
