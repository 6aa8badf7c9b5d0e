------------------------- MODULE MC_SummaryPeriods --------------------------
(* The autumn of 2026 from Wednesday, 30 September (day 0): Mondays are the  *)
(* days 5, 12, ..., the first of October is day 1, of November day 32.       *)
EXTENDS SummaryPeriods, TLC

Months2026 == {-60, -29, 1, 32, 62, 93, 124}
=============================================================================
