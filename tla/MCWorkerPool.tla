---------------------------- MODULE MCWorkerPool ----------------------------
EXTENDS WorkerPool, TLC

=============================================================================
