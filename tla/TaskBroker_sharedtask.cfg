SPECIFICATION Spec
CONSTANTS
  m1 = m1
  m2 = m2
  t1 = t1
  t2 = t2
  w1 = w1
  w2 = w2
  lead = lead
  k1 = k1
  k2 = k2
  Workers = {w1, w2}
  Lead = lead
  Msgs = {m1, m2}
  Tasks = {t1}
  Leases = {k1, k2}
  To <- ToBoth
  TaskOf <- SameTask
  AgentOf <- OnePerWorker
  MaxEpoch = 2
  RequirePeerSessions = FALSE
INVARIANT TypeOK
INVARIANT ResultsReachWaiters
INVARIANT WorkAccounted
PROPERTY LeaseDiscipline
PROPERTY NothingComesBack
