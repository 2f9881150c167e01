SPECIFICATION RestartSpec
CONSTANTS
  PAGE_SIZE = 4096
  MaxPages = 6
  MaxKeys = 1
  IndexCols <- MCIndexCols
CHECK_DEADLOCK FALSE
INVARIANT
  AllocatesBehindTheFile
