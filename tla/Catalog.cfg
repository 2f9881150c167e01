SPECIFICATION Spec
CONSTANTS
  Thread <- MCThread
  Statement <- MCStatement
  Catalogue <- MCCatalogue
  MaxStarts = 2
  MaxFaults = 1
  MaxStatements = 3
  PAGE_SIZE = 4096
  BUFFER_LENGTH = 200
  HELP_LENGTH = 100
INVARIANTS
  TablesMatchTheirFiles
  TablesAreOpenOrOpening
  RecordsReadBack
  ReplyFits
  DatabaseIsMade
PROPERTY
  StatementsEnd
CHECK_DEADLOCK FALSE
