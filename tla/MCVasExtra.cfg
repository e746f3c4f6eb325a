CONSTANTS
  m1 = m1
  m2 = m2
  p1 = p1
  p2 = p2
  f1 = f1
  f2 = f2
  Messages = {m1, m2}
  Producers = {p1, p2}
  Pfs = {f1, f2}
  NoChange = NoChange
  MAX_VAS_EXTRA_QUEUE_SIZE = 1
  MaxFail = 2
  MaxChange = 2
SPECIFICATION FairSpec
CHECK_DEADLOCK FALSE
INVARIANTS TokensCoverWork LossNeedsFailure
PROPERTIES EventsLeave
