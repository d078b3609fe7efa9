SPECIFICATION Spec
CONSTANTS
  Jobs = {j0}
  FirstJob = j0
  Positions <- GamePositions
  MovesAt <- GameMoves
  NullTo <- GameNull
  Checked = {"bm"}
  Insufficient = {"wd"}
  Eval <- GameEval
  Root = "w1"
  RootCounter = 3
  Repeated = {}
  OldEntries <- GameOldEntries
  NoMove = NoMove
  NoEntry = NoEntry
  NoScore = NoScore
  Inf = 30
  Checkmate = 20
  Threshold = 10
  NullMove <- GameNullMove
  Futility <- GameMargins
  Razoring <- GameMargins
  LateMove <- GameLateMove
  MaxDepth = 2
  MaxStack = 6
  CheckPeriod = 8
  DrawCounter = 7
  HitCounter = 6
INVARIANTS
  CaptureFlagIsTrue
