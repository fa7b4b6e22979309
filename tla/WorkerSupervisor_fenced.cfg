SPECIFICATION SupFairSpec
CONSTANTS
  MaxSups = 1
  MaxSupFaults = 1
PROPERTIES
  FencedWorkerStops
CHECK_DEADLOCK FALSE
