SPECIFICATION Spec
CONSTANTS
  Monday = 5
  MonthStarts <- Months2026
  MaxDay = 41
  MaxChanges = 2
  MaxRequests = 0
  MaxMissed = 0
INVARIANTS
  NoGap
CHECK_DEADLOCK FALSE
