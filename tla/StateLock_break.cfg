SPECIFICATION LockFairSpec
CONSTANTS
  p1 = p1
  p2 = p2
  p3 = p3
  Procs = {p1, p2, p3}
  Kinds = {"loop", "goal"}
  MaxTurns = 2
  MaxFaults = 1
INVARIANTS
  LocksOK
PROPERTIES
  NeverForGood
CHECK_DEADLOCK FALSE
