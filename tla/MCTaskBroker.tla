---------------------------- MODULE MCTaskBroker ----------------------------
EXTENDS TaskBroker, TLC

CONSTANTS m1, m2, t1, t2, w1, w2, lead, k1, k2

\* Routes: to a worker each, or both to the first.
ToBoth == m1 :> w1 @@ m2 :> w2
ToFirst == m1 :> w1 @@ m2 :> w1

\* Task ids: one per message, or one reused.
OwnTask == m1 :> t1 @@ m2 :> t2
SameTask == m1 :> t1 @@ m2 :> t1

\* Processes: one per worker; or two of the first worker, a restart.
OnePerWorker == k1 :> w1 @@ k2 :> w2
Restart == k1 :> w1 @@ k2 :> w1
=============================================================================
