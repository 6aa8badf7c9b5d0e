SPECIFICATION FairSpec
CONSTANTS
  MaxId = 1
  MaxKey = 6
  Requests = {1}
  MaxRequests = 3
  MaxTogether = 0
  MaxEvents = 2
PROPERTIES DeadSessionEnds
CHECK_DEADLOCK FALSE
