SPECIFICATION ClientSpec
CONSTANTS
  \* Two messages, connections that break, the end of the process at any point.
  MaxMsgs = 2
  MaxConnects = 3
  MaxCrashes = 2
  RETRY_MAX_ATTEMPTS = 2
  \* Writes, seals, compactions and crashes; no write between a compaction and
  \* the next open.
  Keys = {1, 2}
  Values = {1, 2}
  None = None
  Nil = Nil
  SEAL_THRESHOLD = 2
  MaxOps = 3
  MaxCompacts = 2
  MaxEngineCrashes = 2
  WriteAfterCompact = FALSE
  RemoveMayFail = FALSE
  \* Chains that end, messages out of order, lost, repeated and too far ahead.
  MAX_SKIP = 1
  MaxSent = 6
  MaxRepeats = 1
  \* A cache of two listings over six directories, spelled in up to three ways; one
  \* name everywhere, so that callers meet the entries of the view.
  CacheCapacity = 2
  Contacts = {"n"}
  ChatDays <- TwoDays
  Paths <- CallerPaths
  MaxInodes = 6
INVARIANTS NeverReused KeptUntilSettled DeliveredIsStored OpenedOnce MountSound
PROPERTIES SettledNotResent OpensUnlessFar ImplementsKV
CHECK_DEADLOCK FALSE
