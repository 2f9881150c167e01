SPECIFICATION ReuseSpec
CONSTANTS
  PoolSize = 2
  Fd = {f1}
  MaxPages = 3
  Data = {0, 1}
  Zero = 0
  Client = {c1}
  ReadFault = FALSE
  WriteFault = FALSE
  NoPage = NoPage
  NoFrame = NoFrame
  NoData = NoData
  Path = {a, b}
  SameFd = FALSE
  NoPath = NoPath
INVARIANT
  PagesBelongToTheirFile
