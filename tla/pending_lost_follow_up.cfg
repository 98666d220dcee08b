\* Another run is created before the follow-up is.
CONSTANTS
  a = a
  b = b
  Inputs = {a, b}
  MaxPending = 2
  MaxRuns = 3
  Overlaps = FALSE
  Creates = TRUE
  Fails = FALSE
  Crashes = FALSE
SPECIFICATION Spec
INVARIANT NothingConsumedIsLost
CHECK_DEADLOCK FALSE
