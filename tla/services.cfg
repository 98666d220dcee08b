CONSTANTS
  Requests = {1, 2, 3}
  Keys = {k1, k2}
  NoArtifact = NoArtifact
  Servers = {s1, s2}
  Required = {s1}
  Endpoints = {1, 2}
  Actors = {a1, a2}
  MaxCalls = 1
  Writes = {w1, w2}
  OldRecord = m0
  ActiveCap = 2
  Urls = {1, 2}
  UserUrls = {1}
  Hashes = {h1, h2}
  MaxToolCalls = 2
  MaxResults = 3
  MaxWaiting = 1
  ProtectedRecent = 2
  RecentToolUnits = 1
  MaxLive = 7
  MaxVersion = 3
  LegacyCounts = {2, 4}
  MaxModelRounds = 2
  MaxAnswers = 2
  MaxPositions = 2
  MaxDeltas = 2
  MaxBehind = 2
  MaxSent = 7
  Outputs <- MCOutputs
  MaxRecoveries = 1
SPECIFICATION Spec
INVARIANTS TypeOK VersionsFormAChain  FactIsKept FoundByItsText ToolChainKept RecentUnitsStay SameBlocks WorkbenchesAgree RoundIsAsSaid
PROPERTIES CallsMatchTheirCatalog
CHECK_DEADLOCK FALSE
