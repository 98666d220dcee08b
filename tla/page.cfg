CONSTANTS
  Known = {s1, s2}
  New = {s3}
  Limits <- MCLimits
SPECIFICATION WebSpec
INVARIANTS  RunningIsWatched
SYMMETRY Symmetry
CHECK_DEADLOCK FALSE
