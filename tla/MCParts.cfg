CONSTANTS
  MaxRetry = 3
  MaxFail = 4
  MaxIntr = 3
  MaxLocal = 3
  Backlog = 3
  Buffer = 2
  SocketThreads = {t1, t2, t3}
  FirstID = 1
  LastID = 3
  MaxOver = 4
  NHandler = 2
  SeqLimit = 3
  MonthTime = 2
  MaxTime = 2
  MaxKeys = 4
  MaxRestart = 1
  DaySeconds = 13
  MonthDays = {2, 3}
  Period = 3
  Width <- MCWidth
  Excess = 4
  Leading = {0, 1, 2}
  LogThreads = {t1, t2}
  NoThread = NoThread
  DaysInMonth = 3
  MonthsInYear = 2
  LogLimit = 0
  MaxDate = 6
  MaxLines = 3
  MaxBoot = 1
SPECIFICATION PartsSpec
CHECK_DEADLOCK FALSE
INVARIANTS TypeOK TakeoverNeedsOutage FailuresInARow OverrunSeen CallKeysUnique SilenceBounded PacketRight LineInPlace
PROPERTIES DeadActiveReplaced SignalEnds
