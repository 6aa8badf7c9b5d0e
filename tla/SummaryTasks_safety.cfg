SPECIFICATION Spec
CONSTANTS
  day1 = day1
  day2 = day2
  week1 = week1
  Keys = {day1}
  FirstDay <- MCFirstDay
  LastDay <- MCLastDay
  BotKeys = {day1}
  DigestKeys = {}
  Users = {u1}
  Limit = 1
  MaxDay = 2
  MaxRequests = 2
  MaxFaults = 1
  MaxRestarts = 0
INVARIANTS
  TypeOK
  TaskLock
  RunningOwned
  DeliveryOvershoot
PROPERTIES
  ImplementsLife
