CONSTANTS
  Batches <- MCBatches
  Mcp = {"mcp1", "mcp2"}
  Deferred = {"mcp1", "mcp2"}
  Guarded = {"bash", "mcp2"}
  Denied = {"denied"}
  ActivatedCap = 1
  MaxInvestigation = 1
  MaxDelivery = 1
  MaxRounds = 3
  MaxRetries = 1
  Files = {f1}
  Retries = {r1, r2}
  Jobs = {j1, j2}
  Ticks = {t1, t2}
  MaxWakes = 1
  MaxUserRuns = 2
  MaxTickErrors = 1
SPECIFICATION Spec
INVARIANTS TypeOK EveryCallIsAnswered PauseIsKept OnlyAdmittedCallsRun 
PROPERTIES CancelEndsTurn ParsingEnds 
CHECK_DEADLOCK FALSE
