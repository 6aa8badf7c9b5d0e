SPECIFICATION FairSpec
CONSTANTS
  Dates = {0}
  Users = {u1}
  Limit = 1
  MaxDay = 2
  MaxRequests = 1
  MaxFaults = 1
  MaxRestarts = 1
INVARIANTS
  TypeOK
  KeysExact
  RetryOvershoot
CHECK_DEADLOCK FALSE
PROPERTIES
  RunningEnds
  PendingTakenUp
  RetryHappens
