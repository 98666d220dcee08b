\* Requests land while a run works, and runs complete.
CONSTANTS
  a = a
  b = b
  c = c
  Inputs = {a, b, c}
  MaxPending = 2
  MaxRuns = 4
  Overlaps = FALSE
  Creates = FALSE
  Fails = FALSE
  Crashes = FALSE
SPECIFICATION FairSpec
INVARIANTS NothingConsumedIsLost IdleSessionHasNoSteer
PROPERTIES FifoDispatch QueueDrains
CHECK_DEADLOCK FALSE
