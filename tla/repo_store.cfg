\* Two requests for one session, two processes, one of which may crash.
CONSTANTS
  s1 = s1
  NoInstance = NoInstance
  Runs = {r1, r2}
  SessionOf <- OneSession
  KeyOf <- OwnKeys
  Instances = {i1, i2}
  MaxItems = 2
  MaxSeq = 1
SPECIFICATION Spec
CHECK_DEADLOCK FALSE
SYMMETRY Symmetry
INVARIANTS OneActivePerSession HistoryIsCompletedRuns
PROPERTY ImplementsDurableRun
