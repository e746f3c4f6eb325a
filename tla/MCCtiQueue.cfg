CONSTANTS
  p1 = p1
  p2 = p2
  m1 = m1
  m2 = m2
  Producers = {p1, p2}
  Messages = {m1, m2}
  Zero = Zero
  NoThread = NoThread
  Consumer = Consumer
  MAX_CTI_QUEUE_SIZE = 3
SPECIFICATION FairSpec
INVARIANTS TypeOK NoEmptyDequeue TokenBalance RingConsistent
PROPERTIES ImplementsFifo DrainsWhenQuiet
