---------------------------- MODULE MCEventPublisher ----------------------------
(* Constants for model checking EventPublisher. *)
EXTENDS EventPublisher

CONSTANTS found, resolved, ticket, changed, urgent

\* Two subjects; urgent is published at once.
MCSubjectOf == [e \in Events |-> IF e = ticket THEN "scan" ELSE "asset"]

=============================================================================
