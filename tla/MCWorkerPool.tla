---------------------------- MODULE MCWorkerPool ----------------------------
(* A small instance of WorkerPool, given by its cfg: three Submits and two    *)
(* Stops against two workers and a queue of one, so that the queue fills up,  *)
(* both workers hold a job and the second Stop meets the first in closeOnce.  *)
EXTENDS WorkerPool
=============================================================================
