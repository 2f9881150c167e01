SPECIFICATION FilesSpec
CONSTANTS
  PoolSize = 1
  Fd = {f1, f2}
  MaxPages = 3
  Data = {0, 1}
  Zero = 0
  Client = {c1}
  ReadFault = FALSE
  WriteFault = FALSE
  NoPage = NoPage
  NoFrame = NoFrame
  NoData = NoData
  Path = {a, b}
  SameFd = TRUE
  NoPath = NoPath
SYMMETRY FileSymmetry
INVARIANTS
  FilesKeepTheirPages
  ClosedFilesAreOnDisk
