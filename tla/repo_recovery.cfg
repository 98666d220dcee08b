\* The start scan and the sweep converge the run of a crashed process.
CONSTANTS
  s1 = s1
  NoInstance = NoInstance
  Runs = {r1}
  SessionOf <- OneSession
  KeyOf <- OwnKeys
  Instances = {i1, i2}
  MaxItems = 3
  MaxSeq = 3
SPECIFICATION FairSpec
CHECK_DEADLOCK FALSE
INVARIANTS DeliveryAgrees
PROPERTIES OrphansAreFailed DurableStateOnlyGrows
