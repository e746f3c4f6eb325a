CONSTANTS
  m1 = m1
  m2 = m2
  m3 = m3
  p1 = p1
  p2 = p2
  f1 = f1
  f2 = f2
  Messages = {m1}
  Producers = {p1}
  Pfs = {f1, f2}
  NoChange = NoChange
  MAX_VAS_QUEUE_SIZE = 2
  MaxTries = 3
  MaxFail = 0
  MaxChange = 2
  MaxSwitch = 0
SPECIFICATION FairSpec
CHECK_DEADLOCK FALSE
PROPERTIES NewestChangeAnnounced
