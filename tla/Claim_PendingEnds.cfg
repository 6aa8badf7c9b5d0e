SPECIFICATION FairSpec
CONSTANTS
  Dates = {0}
  Users = {u1}
  Limit = 1
  MaxDay = 2
  MaxRequests = 1
  MaxFaults = 0
  MaxRestarts = 0
PROPERTY PendingEnds
CHECK_DEADLOCK FALSE
