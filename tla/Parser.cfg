SPECIFICATION Spec
CONSTANTS
  Request <- MCRequest
  FollowUp <- MCFollowUp
  MaxRequests = 2
  YYINITDEPTH = 13
INVARIANTS
  TypeOK
  ReadsWhatWasWritten
  TreeIsWhatWasRead
  StatementsAreAccepted
PROPERTIES
  ErrorsSayWhatAndWhere
  ParserReturns
CHECK_DEADLOCK FALSE
