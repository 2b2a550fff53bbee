CONSTANTS
  MaxClock = 2
  MaxSaves = 2
  Foreign <- MCForeign
SPECIFICATION MCSpec
INVARIANT NoSilentOverwrite
CHECK_DEADLOCK FALSE
