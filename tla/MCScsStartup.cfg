CONSTANTS
  A = A
  B = B
  C = C
  x = x
  None = None
  NoValue = NoValue
  NoColon = NoColon
  MAX_IP_01 = 2
  MAX_VAS_SERVER_COUNT = 3
  Prefixes = {A, B, C}
  Suffixes = {x}
  BadPrefix = BadPrefix
  BadSuffix = BadSuffix
  Configs <- MCConfigs
  MaxReload = 2
SPECIFICATION StartSpec
CHECK_DEADLOCK FALSE
INVARIANTS TableMatchesFiles NoMisroute NoMissingHandler ExitNeedsReason
