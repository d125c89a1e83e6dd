\* A new group: first messages, a member who joins, full inboxes, a failing database.
SPECIFICATION FairSpec
CONSTANTS
  Users = {1, 2, 3}
  Owner = 1
  Senders = {1, 2}
  MaxMsgs = 3
  MaxActors = 2
  INBOX = 1
  Wirings = {TRUE, FALSE}
  DbMayFail = TRUE
INVARIANT ServedUnlessStale
INVARIANT OneOrder
PROPERTY TakenIsCopied
CHECK_DEADLOCK FALSE
