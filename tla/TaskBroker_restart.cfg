SPECIFICATION FairSpec
CONSTANTS
  m1 = m1
  m2 = m2
  t1 = t1
  t2 = t2
  w1 = w1
  w2 = w2
  lead = lead
  k1 = k1
  k2 = k2
  Workers = {w1, w2}
  Lead = lead
  Msgs = {m1, m2}
  Tasks = {t1, t2}
  Leases = {k1, k2}
  To <- ToFirst
  TaskOf <- OwnTask
  AgentOf <- Restart
  MaxEpoch = 1
  RequirePeerSessions = TRUE
INVARIANT OneTaskPerWorker
INVARIANT DeliveredAtMostOnce
INVARIANT NobodyLeftBehind
PROPERTY ImplementsSlots
PROPERTY SendersAnswered
