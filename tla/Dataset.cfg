CONSTANTS
  Threads <- MCThreads
  Queues <- MCQueues
  Values <- MCValues
  Size = 1
  NoCall = NoCall
  NoValue = NoValue
  Main = main
  Printer = printer
  Workers = {w1, w2}
  BoardQueue = boardQueue
  StringQueue = stringQueue
  Header = header
  BatchSize = 2
  SampleSizes = {0, 1, noSampling}
  NoSampling = noSampling
  MaxBoards = 4
  NoBoard = noBoard
  SkipFirst = 1
  Files <- MCFiles
SPECIFICATION ProgramSpec
INVARIANTS
  EachRowIsInOnePlace
  FileIsComplete
  HeaderIsFirst
  ReaderFollowsFormat
PROPERTIES
  ProgramReturns
