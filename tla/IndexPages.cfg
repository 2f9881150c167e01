SPECIFICATION Spec
CONSTANTS
  PAGE_SIZE = 4096
  MaxPages = 7
  MaxKeys = 2
  IndexCols <- MCIndexCols
CHECK_DEADLOCK FALSE
INVARIANTS
  HeadersAreKept
  ScansAreComplete
PROPERTY
  NodesGetFreshPages
