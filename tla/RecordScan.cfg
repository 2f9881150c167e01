SPECIFICATION ScanSpec
CONSTANTS
  RecordsPerPage = 2
  MaxPages = 4
  Record = {1}
  Zero = 0
  NoRid = NoRid
INVARIANTS
  CountsMatchBitmaps
  FreeListIsExact
  SteadyRecordsAreVisited
PROPERTIES
  ImplementsTable
  VisitedInOrder
  ScansStopAtRecords
