SPECIFICATION RestoreSpec
CONSTANTS
  RecordsPerPage = 2
  MaxPages = 4
  Record = {0, 1}
  Zero = 0
  NoRid = NoRid
INVARIANT
  FirstFreeHasSpace
