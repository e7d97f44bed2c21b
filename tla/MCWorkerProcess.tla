--------------------------- MODULE MCWorkerProcess ---------------------------
EXTENDS WorkerProcess
==============================================================================
