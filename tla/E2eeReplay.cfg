\* One repeated message; chains may jump by one.
SPECIFICATION E2eeSpec
CONSTANTS
  MAX_SKIP = 1
  MaxSent = 6
  MaxRepeats = 1
PROPERTY OpensDespiteReplay
CHECK_DEADLOCK FALSE
