SPECIFICATION Services
CONSTANTS
  CatchUps = {1}
  Chats = {"a", "b"}
  Sources = {"a2", "b1"}
  Chat <- ChatOf
  First <- FirstOf
  Last <- LastOf
  Today = 3
  RangeDays = 1
  Clients = {1}
  MaxVersion = 2
  MaxRetries = 1
  MaxCatchUpFaults = 2
  Browsers = {1, 2}
  MaxFailedLogins = 2
  MaxPasswords = 2
  MaxRequestFaults = 1
  AlertChats = {"a"}
  Keywords = {1, 2}
  Handlers = {1, 2}
  Cooldown = 2
  MaxMessageAge = 1
  MaxTime = 4
  MaxAlerts = 3
  MaxBotFaults = 1
  LastMessage = 5
  FirstUnseen = 5
  Day <- DayOf
  Days = {1, 2}
  ServiceMessages = {3}
  Ignored = {4}
  MaxFloodWait = 1
  MaxGenerations = 1
  MaxImportFaults = 1
  Items = {1, 2}
  summaryBatchParallelism = 1
  RetryLimit = 1
  MaxBatches = 1
  MaxOthers = 1
  MaxUpsets = 1
  Parts = {1, 2}
  MaxAttempts = 2
  MaxReruns = 2
  MaxNoticeFaults = 2
  ProtocolOverhead = 0
  MinimumMargin = 1
  AnswerSizes = {1, 3}
  MessageSizes <- TokensOfMessages
  GapBefore = {4}
  BlankTokens = 1
  Windows = {8, 9, 16}
  ModelLimits = {4, 6, 12}
  StageCost = 1
  FinalCost = 2
  MinimumChunk = 3
  Parallelism = 2
  MaximumMergeDepth = 2
  MaxModelFaults = 1
  SourceSizes <- TokensOfSources
  HeaderSize = 1
  ContextSizes = {0, 3}
  NoticeSize = 1
  RollupWindows = {8, 14}
  RollupLimits = {4, 6, 20}
  StageTokens = 1
  FinalTokens = 2
  MinimumInput = 3
  MinimumBody = 2
  MinimumContext = 2
  StageParallelism = 2
  MaximumDepth = 2
  MaxRollupFaults = 1
  Posts = {1, 2, 3, 4, 5}
  SentAt <- SecondOf
  LocalDay <- LocalDayOf
  Filtered = {3}
  CurrentDay = 2
  PageLimit = 2
  Around = 1
INVARIANTS
  ServicesTypeOK
  ArchiveWhole
  NoRepeats
  NoOverwrite
  NothingLost
PROPERTIES
  SessionOfPassword
  GeneratedStays
  TasksEnd
CHECK_DEADLOCK FALSE
