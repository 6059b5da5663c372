SPECIFICATION FairSpec
CONSTANTS
  h1 = h1
  b1 = b1
  b2 = b2
  Helpers <- OneHelper
  Browsers <- OneBrowser
  WallLimit = 2
  SilenceLimit = 1
  SampleInterval = 1
  Grace = 1
  PipeCap = 2
  LoopMayLag = TRUE
INVARIANT VerdictIsTrue
INVARIANT OwnWordCounts
 
INVARIANT ForeignSpared
PROPERTY KeepsJobContract
 
CHECK_DEADLOCK FALSE
