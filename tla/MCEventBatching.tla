--------------------------- MODULE MCEventBatching ---------------------------
(***************************************************************************)
(* Instances of EventBatching for TLC: what the messages carry and which   *)
(* handlers accept them.  In every instance handler 1 batches and handler  *)
(* 2 acts at once.                                                         *)
(***************************************************************************)
EXTENDS EventBatching

CONSTANTS solo,    \* an event both handlers accept
          pair,    \* a batch message of two events both handlers accept
          empty,   \* a batch message without events
          direct   \* an event only handler 2 accepts

MCSize == [m \in Msgs |-> IF m = pair THEN 2 ELSE IF m = empty THEN 0 ELSE 1]

MCMatches == [m \in Msgs |-> IF m = direct THEN {2} ELSE Handlers]

=============================================================================
