SPECIFICATION Spec
CONSTANTS
  HardLimit = 3
  ChunkBytes = 1
  BufferedChunks = 1
  FrameBytes = {2}
  Lengths = {2}
  Limits = {1, 3}
  MaxReads = 2
INVARIANT
  StopWakesReader
CHECK_DEADLOCK FALSE
