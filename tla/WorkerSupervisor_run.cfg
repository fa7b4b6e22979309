SPECIFICATION SupFairSpec
CONSTANTS
  MaxSups = 2
  MaxSupFaults = 1
INVARIANTS
  SupervisorOK
PROPERTIES
  EndsTogether
CHECK_DEADLOCK FALSE
