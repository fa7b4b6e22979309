SPECIFICATION FairSpec
CONSTANTS
  MaxTasks = 3
  MaxPolls = 2
  MaxAsks = 1
  MaxTurns = 2
  MaxFaults = 1
INVARIANT AgentOK
PROPERTY HeldIsAnswered
PROPERTY KeepsPolling
CHECK_DEADLOCK FALSE
