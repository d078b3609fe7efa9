CONSTANTS
  Positions <- MCPositions
  JobCounts = {1, 2}
  DefaultJobs = 1
  HashSizes = {1}
  DefaultSize = 1
  NoPosition = NoPosition
  EpochMod = 256
  MaxSearches = 2
  MaxRequests = 1
  Nobody = Nobody
  Poller = Poller
SPECIFICATION SessionSpec
INVARIANT GoDoesNotBlock
CHECK_DEADLOCK FALSE
