SPECIFICATION OrderSpec
CONSTANTS
  PoolSize = 3
  Fd = {3}
  MaxPages = 4
  Data = {0}
  Zero = 0
  Client = {c1, c2}
  ReadFault = TRUE
  WriteFault = TRUE
  NoPage = NoPage
  NoFrame = NoFrame
  NoData = NoData
SYMMETRY ClientSymmetry
INVARIANTS
  TypeOK
  TableMatchesFrames
  PointersStayValid
  VictimsAreUnpinned
  NoFrameLost
  EvictsLeastRecentlyUnpinned
