---------------------------- MODULE MCWorkerJobs ----------------------------
(***************************************************************************)
(* Instances of WorkerJobs for TLC; the configurations give the constants. *)
(***************************************************************************)
EXTENDS WorkerJobs

=============================================================================
