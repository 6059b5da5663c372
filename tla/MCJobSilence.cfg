SPECIFICATION Spec
CONSTANTS
  h1 = h1
  b1 = b1
  b2 = b2
  Helpers <- OneHelper
  Browsers <- NoBrowsers
  WallLimit = 5
  SilenceLimit = 2
  SampleInterval = 1
  Grace = 1
  PipeCap = 1
  LoopMayLag = FALSE
INVARIANT SilenceIsCaught
CHECK_DEADLOCK FALSE
