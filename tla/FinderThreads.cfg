SPECIFICATION Spec
CONSTANTS
  NumHashBytes = 3
  HistorySize = 2
  MatchMaxLen = 3
  CutValue = 3
  HashNumBlocks = 2
  HashHeads = 1
  BtNumBlocks = 2
  BtLimit = 2
  LagKept = 6
  Reserve = 2
  MoveAlign = 1
  MaxVal = 14
  Inputs <- MCInputs
  FirstLen = 19
  LaterLen = 1
  ReadSlack = 1
  NumStreams = 2
  Panics = TRUE
  SpawnFaults = TRUE
INVARIANTS
  WindowFollowsThreads
  FindsLongest
  EndIsEnd
  RestartReady
PROPERTY
  FinderReturns
