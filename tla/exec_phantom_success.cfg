\* No trouble at all: a run, its flushes and one observer.
CONSTANTS
  Observers = {c1}
  MaxQueue = 2
  MaxUpdates = 1
  MaxAttempts = 2
  MaxTroubles = 0
  Possible = {}
SPECIFICATION Spec
INVARIANT CompletedIsDurable
