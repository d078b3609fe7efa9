\* Two jobs, two depths, two searches in a row under a time limit: jobs, main
\* loop and client compete in stopping the round.
CONSTANTS
  Jobs = {j1, j2}
  Main = main
  Client = client
  Nobody = nobody
  NoLine = noLine
  MaxDepth = 2
  Limit = "time"
  MaxRounds = 2
SPECIFICATION FairSpec
INVARIANTS OneLinePerDepth LinesAreGenuine NoLostWakeup BestIsDeepest
PROPERTIES StopIsHonoured LimitIsHonoured
CHECK_DEADLOCK FALSE
