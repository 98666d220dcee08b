\* Requests, runs, failures and a crash in any order.
CONSTANTS
  a = a
  b = b
  Inputs = {a, b}
  MaxPending = 2
  MaxRuns = 2
  Overlaps = TRUE
  Creates = TRUE
  Fails = TRUE
  Crashes = TRUE
SPECIFICATION Spec
INVARIANT UsedOnce
SYMMETRY Symmetry
CHECK_DEADLOCK FALSE
