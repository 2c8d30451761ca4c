SPECIFICATION FairSpec
CONSTANTS
  HardLimit = 3
  ChunkBytes = 1
  BufferedChunks = 2
  FrameBytes = {2}
  Lengths = {2}
  Limits = {1, 3}
  MaxReads = 2
INVARIANTS
  NothingLost
  PublishedExactly
  DrainKept
PROPERTY
  ReaderReturns
CHECK_DEADLOCK FALSE
