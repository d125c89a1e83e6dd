\* A compacted store that goes on being written.
SPECIFICATION EngineSpec
CONSTANTS
  Keys = {1, 2}
  Values = {1, 2}
  None = None
  Nil = Nil
  SEAL_THRESHOLD = 2
  MaxOps = 3
  MaxCompacts = 1
  MaxEngineCrashes = 0
  WriteAfterCompact = TRUE
  RemoveMayFail = FALSE
PROPERTY ImplementsKV
CHECK_DEADLOCK FALSE
