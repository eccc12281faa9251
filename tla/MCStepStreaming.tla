---------------------------- MODULE MCStepStreaming ----------------------------
(* Constants for model checking StepStreaming. *)
EXTENDS StepStreaming

CONSTANTS crawl, scan, page, host, vuln

\* crawl has two outputs, scan has one.
MCTaskOf == [o \in Outputs |-> IF o = host THEN scan ELSE crawl]

=============================================================================
