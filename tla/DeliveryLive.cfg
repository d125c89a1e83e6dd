\* Liveness: two connections, one message sent up to twice, one break.
SPECIFICATION DFairSpec
CONSTANTS
  Users = {"alice", "bob"}
  MaxConn = 2
  MaxId = 6
  MaxFrames = 0
  ClientFrames = {}
  MAX_OFFLINE = 2
  SYNC_BATCH = 1
  CHANNEL = 1
  IdMayFail = FALSE
  NoUser = NoUser
  NoConn = NoConn
  Sends <- AliceToBob
  MaxSends = 1
  MaxFaults = 1
  DEDUP_CAPACITY = 2
  RETRY_MAX_ATTEMPTS = 2
PROPERTY OutboxDrains
PROPERTY DeadSessionsEnd
CHECK_DEADLOCK FALSE
