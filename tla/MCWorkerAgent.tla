---------------------------- MODULE MCWorkerAgent ----------------------------
EXTENDS WorkerAgent
=============================================================================
