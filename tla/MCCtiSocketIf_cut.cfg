CONSTANTS
  MaxBody = 1
  MaxIdle = 2
  SplitHeaders = FALSE
  MaxMsg = 1
  MaxFail = 1
  MaxCut = 1
  MaxStall = 0
SPECIFICATION FairSpec
CHECK_DEADLOCK FALSE
PROPERTIES Reconnects
