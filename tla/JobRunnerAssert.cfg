CONSTANTS
  Positions <- MCPositions
  JobCounts = {1, 2}
  DefaultJobs = 1
  HashSizes = {1, 2, 3}
  DefaultSize = 2
  NoPosition = NoPosition
  EpochMod = 256
  MaxSearches = 1
  MaxRequests = 1
SPECIFICATION Spec
INVARIANT EvaluatorPerJob
CHECK_DEADLOCK FALSE
