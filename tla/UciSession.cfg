CONSTANTS
  Positions <- MCPositions
  JobCounts = {1, 2}
  DefaultJobs = 1
  HashSizes = {1, 2, 3}
  DefaultSize = 2
  NoPosition = NoPosition
  EpochMod = 256
  MaxSearches = 3
  MaxRequests = 2
  Nobody = Nobody
  Poller = Poller
SPECIFICATION FairSessionSpec
INVARIANTS
  NoCallIsRefused
  NoRequestIsForgotten
  EpochIdentifiesPosition
PROPERTIES
  ConfigIsFrozen
  ImplementsService
  StopIsAnswered
  QuitEnds
  GoReturnsWithoutDebug
CHECK_DEADLOCK FALSE
