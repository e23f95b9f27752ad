-------------------------- MODULE MCWorkerProcess --------------------------
EXTENDS WorkerProcess
=============================================================================
