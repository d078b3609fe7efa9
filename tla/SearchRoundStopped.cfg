\* One round of depth 1 that the client may stop: Event::Stopped and late lines.
CONSTANTS
  Jobs = {j1, j2}
  Main = main
  Client = client
  Nobody = nobody
  NoLine = noLine
  MaxDepth = 1
  Limit = "none"
  MaxRounds = 1
SPECIFICATION Spec
INVARIANT StoppedIsFinal
CHECK_DEADLOCK FALSE
