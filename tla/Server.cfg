SPECIFICATION Spec
CONSTANTS
  Conn = {c1, c2}
  MaxCommands = 2
  None = None
CHECK_DEADLOCK FALSE
INVARIANTS
  HandlersServeTheirOwn
  ParsesItsOwnText
  RepliesMatchCommands
PROPERTIES
  CommandsAreAnswered
  HandOverEnds
