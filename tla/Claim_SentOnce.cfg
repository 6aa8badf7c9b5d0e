SPECIFICATION Spec
CONSTANTS
  day1 = day1
  day2 = day2
  week1 = week1
  Keys = {week1}
  FirstDay <- MCFirstDay
  LastDay <- MCLastDay
  BotKeys = {week1}
  DigestKeys = {}
  Users = {}
  Limit = 1
  MaxDay = 2
  MaxRequests = 0
  MaxFaults = 0
  MaxRestarts = 0
INVARIANTS
  SentOnce
