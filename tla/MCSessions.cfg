\* Two connections, four frames: logins, a reconnection, messages that meet the
\* recipient online, dying and offline, and pulls.
SPECIFICATION Spec
CONSTANTS
  Users = {"alice", "bob"}
  MaxConn = 2
  MaxId = 4
  MaxFrames = 4
  ClientFrames <- MCFrames
  MAX_OFFLINE = 2
  SYNC_BATCH = 1
  CHANNEL = 2
  IdMayFail = TRUE
  NoUser = NoUser
  NoConn = NoConn
INVARIANT RouterMatchesSessions
INVARIANT AckAfterCustody
INVARIANT SenderOrder
INVARIANT SingleCustody
CHECK_DEADLOCK FALSE
