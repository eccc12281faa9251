---------------------------- MODULE MCJobScheduler ----------------------------
(* JobScheduler for model checking; the configurations give the constants. *)
EXTENDS JobScheduler

=============================================================================
