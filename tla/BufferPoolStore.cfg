SPECIFICATION Spec
CONSTANTS
  PoolSize = 2
  Fd = {3}
  MaxPages = 3
  Data = {0, 1}
  Zero = 0
  Client = {c1, c2}
  ReadFault = FALSE
  WriteFault = TRUE
  NoPage = NoPage
  NoFrame = NoFrame
  NoData = NoData
INVARIANT
  CleanFramesAreOnDisk
PROPERTY
  ImplementsPageStore
