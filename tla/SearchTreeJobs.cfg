SPECIFICATION Spec
CONSTANTS
  Jobs = {j0, j1}
  FirstJob = j0
  Positions <- GamePositions
  MovesAt <- GameMoves
  NullTo <- GameNull
  Checked = {"bm"}
  Insufficient = {"wd"}
  Eval <- GameEval
  Root = "b1"
  RootCounter = 3
  Repeated = {}
  OldEntries <- GameOlderEntries
  NoMove = NoMove
  NoEntry = NoEntry
  NoScore = NoScore
  Inf = 30
  Checkmate = 20
  Threshold = 10
  NullMove <- GameNullMove
  Futility <- GameMargins
  Razoring <- GameMargins
  LateMove <- GameLateMove
  MaxDepth = 2
  MaxStack = 6
  CheckPeriod = 5
  DrawCounter = 5
  HitCounter = 4
INVARIANTS
  WinnersWereNotCut
  FalseEntriesAreFew
