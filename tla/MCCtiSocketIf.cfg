CONSTANTS
  MaxBody = 2
  MaxIdle = 2
  SplitHeaders = TRUE
  MaxMsg = 2
  MaxFail = 1
  MaxCut = 1
  MaxStall = 1
SPECIFICATION FairSpec
CHECK_DEADLOCK FALSE
INVARIANTS FramingKept
PROPERTIES ReconnectsUndisturbed
