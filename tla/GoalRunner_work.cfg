SPECIFICATION FairSpec
CONSTANTS
  a = a
  b = b
  n = n
  p1 = p1
  p2 = p2
  Criteria = {a, b, n}
  Core = {a, b}
  Manual = {b}
  DependsOn <- Depends
  MaxTask = 4
  NoTask = NoTask
  Procs = {p1, p2}
  Commands <- BothWork
  MaxSteps = 2
  MaxRuns <- Runs
  MaxCrashes = 1
  Acceptances <- Lists
  Claims <- Shows
INVARIANT Consistent
INVARIANT SentOnce
INVARIANT CrashConsistent
PROPERTY DoneByRight
PROPERTY WorkEnds
CHECK_DEADLOCK FALSE
