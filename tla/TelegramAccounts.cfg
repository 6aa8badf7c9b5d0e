SPECIFICATION FairSpec
CONSTANTS
  MaxId = 2
  MaxKey = 11
  Requests = {1, 2}
  MaxRequests = 4
  MaxTogether = 3
  MaxEvents = 2
INVARIANTS TypeOK ListenersExact RowsSound
PROPERTIES LoginKept DeadSessionCleared
CHECK_DEADLOCK FALSE
