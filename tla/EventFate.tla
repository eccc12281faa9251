------------------------------ MODULE EventFate ------------------------------
(***************************************************************************)
(* What the event-handler owes the events its handlers accept, whatever    *)
(* carries them in between: an accepted slip is pending until it is        *)
(* executed or given up; both are final, and nothing is executed that was  *)
(* not accepted in an earlier step.                                        *)
(***************************************************************************)
VARIABLES pending, done, lost

vars == <<pending, done, lost>>

Known == pending \cup done \cup lost

Init == pending = {} /\ done = {} /\ lost = {}

\* Some slips are accepted, some pending ones executed, some given up.
Step ==
  /\ Known \subseteq Known'
  /\ done \subseteq done' /\ lost \subseteq lost'
  /\ done' \ done \subseteq pending
  /\ pending' \cap (done' \cup lost') = {}
  /\ done' \cap lost' = {}

Next == Step

Spec == Init /\ [][Next]_vars

=============================================================================
