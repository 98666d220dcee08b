\* Any three kinds of trouble may strike, in every order.
CONSTANTS
  Observers = {c1}
  MaxQueue = 2
  MaxUpdates = 2
  MaxAttempts = 2
  MaxTroubles = 3
  Possible = {"cancel", "post", "latch", "dbError", "sweep", "followUp", "stop"}
SPECIFICATION Spec
INVARIANTS TypeOK TailContinuesDurable OpenStreamMissesNothing  TruthUndisturbed
PROPERTIES ClientNeverGoesBack
