SPECIFICATION Spec
CONSTANTS
  Monday = 5
  MonthStarts <- Months2026
  MaxDay = 41
  MaxChanges = 1
  MaxRequests = 1
  MaxMissed = 1
INVARIANTS
  TypeOK
  Disjoint
  NoGap
PROPERTIES
  CurrentKept
CHECK_DEADLOCK FALSE
