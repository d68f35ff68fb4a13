---------------------------- MODULE MCWorkerPool ----------------------------
(* Instances of JobQueue, and so of WorkerPool, for TLC.  The workers      *)
(* are not declared symmetric, since the run checks liveness too.           *)
EXTENDS JobQueue
=============================================================================
