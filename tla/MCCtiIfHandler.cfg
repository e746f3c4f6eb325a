CONSTANTS
  agent1 = agent1
  agent2 = agent2
  outside = outside
  c1 = c1
  CallIds = {c1}
  Ips <- MCIps
  Tables <- MCTables
  NoIp = NoIp
  NoRecord = NoRecord
  NoMsg = NoMsg
  MaxCalls = 2
  MaxRtp = 4
  MaxLost = 2
SPECIFICATION Spec
CHECK_DEADLOCK FALSE
INVARIANTS TypeOK RecordIsCurrent AgentAnnounced EndClosesLastStart NoStartBeforeAnswer StartWhileTalking EndNamesStoppedAgent
