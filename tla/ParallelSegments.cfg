SPECIFICATION SegmentSpec
CONSTANTS
  FrameKinds <- FramesAll
  SegmentTokens = 2
  SegmentPages = 2
  Threads = {t1, t2}
  QueueDepth = 2
  CommitLimit = 2
  FrameLimit = 3
  CrashLimit = 1
  MayFail = TRUE
INVARIANT SealedOnce
 
CHECK_DEADLOCK FALSE
