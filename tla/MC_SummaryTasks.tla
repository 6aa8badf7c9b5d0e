-------------------------- MODULE MC_SummaryTasks --------------------------
(* Instances of SummaryTasks for TLC.  day1 and day2 are the daily summaries *)
(* of two chats for day 0, week1 a period of the days 0 and 1.               *)
EXTENDS SummaryTasks, TLC

CONSTANTS day1, day2, week1

MCFirstDay == [k \in Keys |-> 0]
MCLastDay  == [k \in Keys |-> IF k = week1 THEN 1 ELSE 0]
=============================================================================
