SPECIFICATION FairSpec
CONSTANTS
  Assets = {1, 2}
  Avatars = {2}
  Accounts = {acc1, acc2}
  Users = {u1}
  Limit = 2
  MaxEvents = 1
INVARIANTS
  TypeOK
  ForcedNotParked
  PolicySettled
  RetriesBounded
  OneDownload
PROPERTIES
  PendingTakenUp
