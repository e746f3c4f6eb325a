CONSTANTS
  c1 = c1
  c2 = c2
  Callers = {c1, c2}
  NVas = 2
  MaxTries = 3
  MaxCalls = 3
SPECIFICATION FairSpec
INVARIANTS ChangeNeedsFailure HealthyConnectionKept
PROPERTIES DeadPfsAnnounced CallsReturn
