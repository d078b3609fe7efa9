\* Three threads that push, pop and close one queue of two places at will.
CONSTANTS
  Threads = {t1, t2, t3}
  Queues = {q}
  Values = {v}
  Size = 2
  NoCall = NoCall
  NoValue = NoValue
SPECIFICATION FairQueueSpec
INVARIANTS
  NoLostPop
  NoLostPush
PROPERTIES
  CloseReleases
