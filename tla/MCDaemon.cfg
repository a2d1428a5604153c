SPECIFICATION Spec
CONSTANTS
  Writers = {w1, w2}
  Handlers = {h1, h2}
  MaxLines = 2
  MaxFiles = 2
  ReadAhead = 4
  PostSize = 1
  MaxPosts = 2
  BatchSize = 2
  MaxArrivals = 2
  MaxLives = 2
  Mode = "auto"
  MaxFaults = 1
INVARIANT TypeOK
INVARIANT ReaderExact
INVARIANT StopLeavesOnlyHandlers
INVARIANT EachTraceOnce
PROPERTY NothingWaits
PROPERTY Followed
CHECK_DEADLOCK FALSE
