------------------------- MODULE MCWorkerWatchdog ---------------------------
(* Instances of WorkerWatchdog for TLC: one tick stands for ten seconds. *)
EXTENDS WorkerWatchdog

=============================================================================
