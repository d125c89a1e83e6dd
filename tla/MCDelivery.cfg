\* One message and one fault: a break, a handshake timeout or a restart of a client.
SPECIFICATION DSpec
CONSTANTS
  Users = {"alice", "bob"}
  MaxConn = 3
  MaxId = 5
  MaxFrames = 0
  ClientFrames = {}
  MAX_OFFLINE = 2
  SYNC_BATCH = 1
  CHANNEL = 1
  IdMayFail = FALSE
  NoUser = NoUser
  NoConn = NoConn
  Sends <- AliceToBob
  MaxSends = 1
  MaxFaults = 1
  DEDUP_CAPACITY = 2
  RETRY_MAX_ATTEMPTS = 1
INVARIANT ShownOnce
INVARIANT KeptWhileConnected
CHECK_DEADLOCK FALSE
