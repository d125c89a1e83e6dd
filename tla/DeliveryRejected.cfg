\* A reconnection races the end of the previous session.
SPECIFICATION DSpec
CONSTANTS
  Users = {"alice", "bob"}
  MaxConn = 2
  MaxId = 3
  MaxFrames = 0
  ClientFrames = {}
  MAX_OFFLINE = 4
  SYNC_BATCH = 1
  CHANNEL = 2
  IdMayFail = FALSE
  NoUser = NoUser
  NoConn = NoConn
  Sends <- AliceToBob
  MaxSends = 0
  MaxFaults = 1
  DEDUP_CAPACITY = 4
  RETRY_MAX_ATTEMPTS = 1
CHECK_DEADLOCK FALSE
INVARIANT RetryWouldFail
