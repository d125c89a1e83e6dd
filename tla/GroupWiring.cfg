\* The hub as AppState wires it; the database never fails.
SPECIFICATION Spec
CONSTANTS
  Users = {1, 2, 3}
  Owner = 1
  Senders = {1, 2}
  MaxMsgs = 2
  MaxActors = 2
  INBOX = 4
  Wirings = {TRUE}
  DbMayFail = FALSE
INVARIANT NewMemberServed
CHECK_DEADLOCK FALSE
