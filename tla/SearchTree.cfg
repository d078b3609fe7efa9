SPECIFICATION Spec
CONSTANTS
  Jobs = {j0}
  FirstJob = j0
  Positions <- GamePositions
  MovesAt <- GameMoves
  NullTo <- GameNull
  Checked = {"bm"}
  Insufficient = {"wd"}
  Eval <- GameEval
  Root = "w1"
  RootCounter = 3
  Repeated = {"w3"}
  OldEntries <- GameOldEntries
  NoMove = NoMove
  NoEntry = NoEntry
  NoScore = NoScore
  Inf = 30
  Checkmate = 20
  Threshold = 10
  NullMove <- GameNullMove
  Futility <- GameMargins
  Razoring <- GameMargins
  LateMove <- GameLateMove
  MaxDepth = 4
  MaxStack = 8
  CheckPeriod = 1
  DrawCounter = 7
  HitCounter = 6
INVARIANTS
  SearchLeavesNoTrace
  MateClaimsHold
