SPECIFICATION FairSpec
CONSTANTS
  t1 = t1
  t2 = t2
  Tasks = {t1}
  MaxRecords = 3
  MaxEpoch = 2
  MaxCrashes = 2
  MaxFaults = 1
  Broken = Broken
INVARIANT Durable
INVARIANT CheckpointBehindJournal
PROPERTY EveryTaskEnds
