SPECIFICATION Spec
CONSTANTS
  Thread <- MCThread
  Statement <- MCStatement
  Catalogue <- MCCatalogue
  MaxStarts = 1
  MaxFaults = 0
  MaxStatements = 1
  PAGE_SIZE = 4096
  BUFFER_LENGTH = 8192
  HELP_LENGTH = 1000
INVARIANTS
  WellFormedIsPlanned
  PlansAreTyped
  PlanAsksTheQuery
  
CHECK_DEADLOCK FALSE
