SPECIFICATION Spec
CONSTANTS
  Kinds <- MCKinds
  HistorySize = 3
  MatchMaxLen = 5
  KeepAddBefore = 0
  KeepAddAfter = 0
  Reserve = 3
  MoveAlign = 2
  PosMod = 13
  CutValue = 4
  HcHeads = 2
  DirectMax = 7
  Streams <- MCStreams
  ShortLen = 7
  FixedLen = 10
  FreeLen = 7
INVARIANTS
  WindowHoldsHistory
  MatchesAreTrue
  LongestIsFound
  WindowSuffices
