--------------------------- MODULE JobSchedulerProofs ---------------------------
(***************************************************************************)
(* Proofs about JobScheduler, for every number of jobs, looks, faults and  *)
(* changes.                                                                *)
(***************************************************************************)
EXTENDS JobScheduler, FiniteSetTheorems, TLAPS

Statuses == {"scheduled", "running", "failed"}
RowStates == {"none", "running", "completed", "failed", "cancelled"}
Records == {"none", "running", "stopping", "stopped", "completed", "failed"}

\* TypeOK but for the counters.
RangeOK ==
  /\ kind \in Kinds /\ width \in 1..MaxJobs
  /\ sched \in [exists : BOOLEAN, column : BOOLEAN, enabled : BOOLEAN, status : Statuses]
  /\ counts \in [total : Nat, good : Nat, bad : Nat]
  /\ timer \in {"none", "active", "paused"}
  /\ call \in [Calls -> {"idle", "gather", "over"}] /\ timed \in {0} \cup Calls
  /\ row \in [Runs -> RowStates]
  /\ watch \in SUBSET Runs /\ polls \in [Runs -> 0..MaxPolls]
  /\ object \in [Runs -> {"none", "active", "succeeded", "failed", "gone"}]
  /\ work \in [Runs -> {"no", "going", "done", "broke", "stopped"}]
  /\ record \in [Runs -> Records]
  /\ cleanup \in [Runs -> {"no", "delete", "find", "both", "row", "mark"}]
  /\ faults \in 0..MaxFaults /\ changes \in 0..MaxChanges
  /\ restarted \in BOOLEAN /\ reopened \in BOOLEAN
  /\ unrecorded \in SUBSET Runs /\ stopped \in SUBSET Runs /\ undone \in SUBSET Runs

\* The timer of a schedule that was disabled, and not touched since, is not active.
TimerInv == timer = "active" => sched.enabled \/ reopened

\* What was not started has no row and nobody stopped it; what is watched has a
\* row that its monitor has not concluded; and a batch job is alone.
RunInv ==
  /\ kind = "batch" => width = 1
  /\ \A r \in Runs : call[r[1]] = "idle" => row[r] = "none" /\ r \notin stopped
  /\ \A r \in watch : row[r] \in {"running", "cancelled"} /\ r[2] \in 1..width
  /\ kind = "workflow" => \A r \in watch : call[r[1]] = "gather"

\* A stop that was not overwritten is on record until the monitor sees it, and a
\* tear-down belongs to a stop.
StopInv ==
  /\ \A r \in stopped \ undone : Halted(r) /\ row[r] \in {"running", "cancelled"}
  /\ \A r \in Runs : cleanup[r] # "no" => r \in stopped

\* The jobs of the executions that were started.
Begun == {r \in Runs : call[r[1]] # "idle" /\ r[2] <= width}

\* At most the jobs that were started are counted, and of those at most what is
\* not watched any more is counted as good or bad.
BoundInv ==
  /\ counts.total <= Cardinality(Begun)
  /\ counts.good + counts.bad <= counts.total
  /\ sched.exists => counts.good + counts.bad + Cardinality(watch) <= counts.total

-----------------------------------------------------------------------------
(* What an execution does *)

\* The rows that are written for the jobs of the first n programs, and those
\* that are watched.
Kept(c, n, lost) == {c} \X ((1..n) \ lost)
Seen(c, n, lost) == IF kind = "workflow" /\ n < width THEN {} ELSE Kept(c, n, lost)

\* An execution of n jobs; the next one is refused when n < width.
Executed(c, n, lost) ==
  /\ n \in 0..width /\ lost \in SUBSET (1..n)
  /\ faults' \in 0..MaxFaults
  /\ \A r \in Runs : row'[r] = IF r \in Kept(c, n, lost) THEN "running"
                               ELSE IF n < width /\ r = <<c, n + 1>> THEN "failed"
                               ELSE row[r]
  /\ row' = [r \in Runs |-> row'[r]]
  /\ counts' = Count(n + Flag(n < width), 0, Flag(n < width), 0)
  /\ watch' = watch \cup Seen(c, n, lost)
  /\ call' = [call EXCEPT ![c] = IF kind = "workflow" /\ Seen(c, n, lost) # {}
                                   THEN "gather" ELSE "over"]
  /\ record' = record \/ record' = [record EXCEPT ![<<c, 1>>] = "running"]
  /\ \E st \in Statuses :
       /\ SetStatus(st)
       /\ st = "running" => n = width /\ (kind = "workflow" => Seen(c, n, lost) # {})
  /\ unrecorded' = unrecorded \cup ({c} \X lost)
  /\ UNCHANGED <<aside, timer, polls, cleanup, restarted, stopped, undone, reopened>>

\* What an execution adds: jobs, the rows of those that were recorded, and monitors.
LEMMA ExecuteEffect ==
  ASSUME RangeOK, NEW c \in Calls, Execute(c)
  PROVE  /\ \E n \in Nat, lost \in SUBSET Nat : Executed(c, n, lost)
         /\ \A r \in Runs : object'[r] = object[r] \/ object'[r] = "active"
         /\ \A r \in Runs : work'[r] = work[r] \/ work'[r] = "going"
         /\ object' = [r \in Runs |-> object'[r]] /\ work' = [r \in Runs |-> work'[r]]
<1> DEFINE Body(n, lost) ==
        LET refused == n < width
            kept    == {c} \X ((1..n) \ lost)
            seen    == IF kind = "workflow" /\ refused THEN {} ELSE kept
        IN  /\ IF refused \/ lost # {} THEN Fault ELSE UNCHANGED faults
            /\ row' = [r \in Runs |-> CASE r \in kept -> "running"
                                        [] refused /\ r = <<c, n + 1>> -> "failed"
                                        [] OTHER -> row[r]]
            /\ object' = [r \in Runs |-> IF r \in {c} \X (1..n) THEN "active" ELSE object[r]]
            /\ work' = [r \in Runs |-> IF r \in {c} \X (1..n) THEN "going" ELSE work[r]]
            /\ record' = IF kind = "batch" THEN [record EXCEPT ![<<c, 1>>] = "running"]
                         ELSE record
            /\ counts' = Count(n + Flag(refused), 0, Flag(refused), 0)
            /\ watch' = watch \cup seen
            /\ call' = [call EXCEPT ![c] =
                          IF kind = "workflow" /\ seen # {} THEN "gather" ELSE "over"]
            /\ SetStatus(CASE refused -> "failed"
                           [] ~refused /\ kind = "workflow" /\ seen = {} -> "scheduled"
                           [] OTHER -> "running")
            /\ unrecorded' = unrecorded \cup ({c} \X lost)
<1>1. PICK n \in 0..width : \E lost \in SUBSET (1..n) : Body(n, lost)
  BY ZenonT(60) DEF Execute
<1>2. PICK lost \in SUBSET (1..n) : Body(n, lost)
  BY <1>1
<1>3. n \in Nat /\ width \in Nat /\ n <= width
  BY SchedulerAssumption DEF RangeOK
<1>4. \A r \in Runs : row'[r] = IF r \in Kept(c, n, lost) THEN "running"
                                ELSE IF n < width /\ r = <<c, n + 1>> THEN "failed"
                                ELSE row[r]
  <2> TAKE r \in Runs
  <2>1. r \in Kept(c, n, lost) => r # <<c, n + 1>>
    BY <1>3 DEF Kept
  <2>2. CASE r \in Kept(c, n, lost)
    BY <1>2, <2>1, <2>2 DEF Kept
  <2>3. CASE r \notin Kept(c, n, lost)
    BY <1>2, <2>1, <2>3 DEF Kept
  <2>4. QED
    BY <2>2, <2>3
<1>5. faults' \in 0..MaxFaults
  BY <1>2, SchedulerAssumption DEF Fault, RangeOK
<1>6. \E st \in Statuses :
        /\ SetStatus(st)
        /\ st = "running" => n = width /\ (kind = "workflow" => Seen(c, n, lost) # {})
  <2> DEFINE st == CASE n < width -> "failed"
                     [] ~(n < width) /\ kind = "workflow" /\ Seen(c, n, lost) = {} -> "scheduled"
                     [] OTHER -> "running"
  <2>1. SetStatus(st)
    BY <1>2 DEF Seen, Kept
  <2>2. st \in Statuses
    BY DEF Statuses
  <2>3. st = "running" => n = width /\ (kind = "workflow" => Seen(c, n, lost) # {})
    BY <1>3
  <2>4. QED
    BY <2>1, <2>2, <2>3
<1>7. /\ row' = [r \in Runs |-> row'[r]] /\ object' = [r \in Runs |-> object'[r]]
      /\ work' = [r \in Runs |-> work'[r]]
  BY <1>2
<1>8. /\ counts' = Count(n + Flag(n < width), 0, Flag(n < width), 0)
      /\ watch' = watch \cup Seen(c, n, lost)
      /\ call' = [call EXCEPT ![c] = IF kind = "workflow" /\ Seen(c, n, lost) # {}
                                       THEN "gather" ELSE "over"]
      /\ record' = record \/ record' = [record EXCEPT ![<<c, 1>>] = "running"]
      /\ unrecorded' = unrecorded \cup ({c} \X lost)
  BY <1>2 DEF Seen, Kept
<1>9. UNCHANGED <<aside, timer, polls, cleanup, restarted, stopped, undone, reopened>>
  BY DEF Execute
<1>10. Executed(c, n, lost)
  BY <1>2, <1>4, <1>5, <1>6, <1>7, <1>8, <1>9 DEF Executed
<1>11. QED
  BY <1>2, <1>3, <1>7, <1>10

\* What is written for an execution is about its own jobs.
LEMMA OwnRuns ==
  ASSUME RangeOK, NEW c \in Calls, NEW n \in 0..width, NEW lost \in SUBSET (1..n)
  PROVE  /\ Kept(c, n, lost) \subseteq Runs /\ Seen(c, n, lost) \subseteq Kept(c, n, lost)
         /\ {c} \X lost \subseteq Runs
         /\ \A r \in Kept(c, n, lost) : r[1] = c
         /\ n < width => <<c, n + 1>> \in Runs /\ <<c, n + 1>> \notin Kept(c, n, lost)
         /\ <<c, 1>> \in Runs
<1>1. /\ width \in 1..MaxJobs /\ MaxJobs \in Nat /\ n \in Nat /\ n <= width /\ MaxJobs >= 1
  BY SchedulerAssumption DEF RangeOK
<1>2. 1..n \subseteq 1..MaxJobs /\ 1 \in 1..MaxJobs
  BY <1>1
<1>3. n < width => n + 1 \in 1..MaxJobs /\ n + 1 \notin 1..n
  BY <1>1
<1>4. Kept(c, n, lost) \subseteq Runs /\ {c} \X lost \subseteq Runs
  BY <1>2 DEF Kept, Runs
<1>5. \A r \in Kept(c, n, lost) : r[1] = c
  BY DEF Kept
<1>6. n < width => <<c, n + 1>> \in Runs /\ <<c, n + 1>> \notin Kept(c, n, lost)
  BY <1>3 DEF Kept, Runs
<1>7. <<c, 1>> \in Runs
  BY <1>2 DEF Runs
<1>8. QED
  BY <1>4, <1>5, <1>6, <1>7 DEF Seen

-----------------------------------------------------------------------------
(* The ranges *)

\* Writing the status changes nothing else of a schedule, and nothing of a removed one.
LEMMA StatusType ==
  ASSUME RangeOK, NEW st \in Statuses, SetStatus(st)
  PROVE  /\ sched' \in [exists : BOOLEAN, column : BOOLEAN, enabled : BOOLEAN,
                        status : Statuses]
         /\ sched'.exists = sched.exists /\ sched'.enabled = sched.enabled
         /\ sched.exists => sched'.status = st
         /\ ~sched.exists => sched' = sched
BY DEF SetStatus, RangeOK, Statuses

\* The counters of a schedule that exists grow; of a removed one they stay.
LEMMA CountType ==
  ASSUME RangeOK, NEW t \in Nat, NEW g \in Nat, NEW b \in Nat, NEW x
  PROVE  /\ Count(t, g, b, x) \in [total : Nat, good : Nat, bad : Nat]
         /\ sched.exists => /\ Count(t, g, b, x).total = counts.total + t
                            /\ Count(t, g, b, x).good = counts.good + g
                            /\ Count(t, g, b, x).bad = counts.bad + b
         /\ ~sched.exists => Count(t, g, b, x) = counts
BY DEF Count, RangeOK

\* A condition counts as one or as nothing.
LEMMA FlagType == \A b \in BOOLEAN : Flag(b) = IF b THEN 1 ELSE 0
BY DEF Flag

\* An execution keeps every variable in its range.
LEMMA ExecuteType ==
  ASSUME RangeOK, NEW c \in Calls, Execute(c), timed' \in {timed, c}
  PROVE  RangeOK'
<1>1. PICK n \in Nat, lost \in SUBSET Nat : Executed(c, n, lost)
  BY ExecuteEffect
<1>2. n \in 0..width /\ lost \in SUBSET (1..n) /\ n + 1 \in Nat
  BY <1>1 DEF Executed
<1>3. row' \in [Runs -> RowStates]
  <2>1. \A r \in Runs : row'[r] \in RowStates
    BY <1>1 DEF Executed, RowStates, RangeOK
  <2>2. QED
    BY <1>1, <2>1 DEF Executed
<1>4. counts' \in [total : Nat, good : Nat, bad : Nat]
  <2>1. Flag(n < width) \in Nat /\ n + Flag(n < width) \in Nat
    BY <1>2 DEF Flag
  <2>2. QED
    BY <1>1, <2>1, CountType DEF Executed
<1>5. watch' \in SUBSET Runs /\ unrecorded' \in SUBSET Runs
  BY ZenonT(60), <1>1, <1>2, OwnRuns DEF Executed, RangeOK
<1>6. call' \in [Calls -> {"idle", "gather", "over"}] /\ timed' \in {0} \cup Calls
  BY <1>1 DEF Executed, RangeOK
<1>7. record' \in [Runs -> Records]
  BY <1>1 DEF Executed, RangeOK, Records
<1>8. sched' \in [exists : BOOLEAN, column : BOOLEAN, enabled : BOOLEAN, status : Statuses]
  BY <1>1, StatusType DEF Executed
<1>9. object' \in [Runs -> {"none", "active", "succeeded", "failed", "gone"}]
      /\ work' \in [Runs -> {"no", "going", "done", "broke", "stopped"}]
  <2>1. \A r \in Runs : object'[r] \in {"none", "active", "succeeded", "failed", "gone"}
                        /\ work'[r] \in {"no", "going", "done", "broke", "stopped"}
    BY ExecuteEffect DEF RangeOK
  <2>2. QED
    BY <2>1, ExecuteEffect
<1>10. /\ UNCHANGED <<kind, width, timer, polls, cleanup, changes, restarted, stopped,
                      undone, reopened>>
       /\ faults' \in 0..MaxFaults
  BY <1>1 DEF Executed, aside
<1>11. QED
  BY <1>3, <1>4, <1>5, <1>6, <1>7, <1>8, <1>9, <1>10 DEF RangeOK

\* A monitor concludes, or looks again.
LooksAgain(r) ==
  polls' = [polls EXCEPT ![r] = @ + 1] /\ UNCHANGED <<row, watch, counts, sched>>

\* A look of a monitor ends it with a final status, or it looks again later.
LEMMA LookEffect ==
  ASSUME RangeOK, NEW r \in Runs, Look(r) \/ LookFails(r)
  PROVE  /\ r \in watch /\ faults' \in 0..MaxFaults
         /\ UNCHANGED <<aside, timer, call, timed, podVars, record, cleanup, history>>
         /\ \/ polls[r] # MaxPolls /\ LooksAgain(r)
            \/ \E st \in {"completed", "failed", "cancelled"} :
                 Conclude(r, st) /\ (Halted(r) => st = "cancelled")
<1>1. r \in watch /\ faults' \in 0..MaxFaults
      /\ UNCHANGED <<aside, timer, call, timed, podVars, record, cleanup, history>>
  BY SchedulerAssumption DEF Look, LookFails, Watching, Fault, RangeOK
<1>2. CASE Look(r) /\ Halted(r)
  BY <1>1, <1>2 DEF Look
<1>3. CASE Look(r) /\ ~Halted(r)
  <2>1. \/ Conclude(r, "completed") \/ Conclude(r, "failed") \/ LookAgain(r)
    BY <1>3 DEF Look
  <2>2. QED
    BY <1>1, <1>3, <2>1 DEF LookAgain, LooksAgain
<1>4. CASE LookFails(r)
  BY <1>1, <1>4 DEF LookFails, LookAgain, LooksAgain
<1>5. QED
  BY <1>2, <1>3, <1>4

\* A look keeps every variable in its range.
LEMMA LookType ==
  ASSUME RangeOK, NEW r \in Runs, Look(r) \/ LookFails(r)
  PROVE  RangeOK'
<1>1. CASE polls[r] # MaxPolls /\ LooksAgain(r)
  <2>1. polls' \in [Runs -> 0..MaxPolls]
    BY <1>1, SchedulerAssumption DEF LooksAgain, RangeOK
  <2>2. QED
    BY ZenonT(60), <1>1, <2>1, LookEffect DEF LooksAgain, RangeOK, aside, podVars, history
<1>2. ASSUME NEW st \in {"completed", "failed", "cancelled"}, Conclude(r, st)
      PROVE  RangeOK'
  <2>1. row' \in [Runs -> RowStates] /\ watch' \in SUBSET Runs
        /\ polls' \in [Runs -> 0..MaxPolls]
    BY <1>2, SchedulerAssumption DEF Conclude, RangeOK, RowStates
  <2>2. counts' \in [total : Nat, good : Nat, bad : Nat]
    BY <1>2, CountType DEF Conclude, Flag
  <2>3. sched' \in [exists : BOOLEAN, column : BOOLEAN, enabled : BOOLEAN, status : Statuses]
    BY <1>2, StatusType DEF Conclude, Statuses, RangeOK
  <2>4. QED
    BY <2>1, <2>2, <2>3, LookEffect DEF RangeOK, aside, podVars, history
<1>3. QED
  BY <1>1, <1>2, LookEffect

\* Faults are counted up to their bound.
LEMMA FaultType == RangeOK /\ Fault => faults' \in 0..MaxFaults
BY SchedulerAssumption DEF Fault, RangeOK

\* The steps of a tear-down keep every variable in its range.
LEMMA CleanupType ==
  ASSUME RangeOK, NEW r \in Runs, Cleanup(r)
  PROVE  RangeOK'
<1> USE DEF aside
<1>1. ASSUME NEW from, NEW to \in {"no", "delete", "find", "both", "row", "mark"},
             CleanupStep(r, from, to)
      PROVE  /\ cleanup' \in [Runs -> {"no", "delete", "find", "both", "row", "mark"}]
             /\ UNCHANGED <<kind, width, changes, counts, timer, call, timed, watch, polls, work,
                            restarted, unrecorded, reopened>>
  BY <1>1 DEF CleanupStep, RangeOK
<1>2. \A x \in Records : [record EXCEPT ![r] = x] \in [Runs -> Records]
  BY DEF RangeOK
<1>3. CASE Stop(r)
  <2>1. record' \in [Runs -> Records]
    BY <1>2, <1>3 DEF Stop, Records
  <2>2. stopped' \in SUBSET Runs
    BY <1>3 DEF Stop, RangeOK
  <2>3. QED
    BY <1>1, <1>3, <2>1, <2>2 DEF Stop, RangeOK
<1>4. CASE Delete(r)
  <2>1. object' \in [Runs -> {"none", "active", "succeeded", "failed", "gone"}]
    BY <1>4 DEF Delete, RangeOK
  <2>2. record' \in [Runs -> Records] /\ undone' \in SUBSET Runs /\ faults' \in 0..MaxFaults
    BY <1>2, <1>4, FaultType DEF Delete, RangeOK, Records
  <2>3. QED
    BY <1>1, <1>4, <2>1, <2>2 DEF Delete, RangeOK
<1>5. CASE Find(r)
  <2>1. \E to \in {"mark", "both", "row"} : CleanupStep(r, "find", to)
    BY <1>5 DEF Find
  <2>2. QED
    BY <1>1, <1>5, <2>1 DEF Find, RangeOK
<1>6. CASE Finalize(r)
  <2>1. row' \in [Runs -> RowStates]
    BY <1>6 DEF Finalize, RangeOK, RowStates
  <2>2. sched' \in [exists : BOOLEAN, column : BOOLEAN, enabled : BOOLEAN, status : Statuses]
    BY <1>6, StatusType DEF Finalize, Statuses, RangeOK
  <2>3. QED
    BY <1>1, <1>6, <2>1, <2>2 DEF Finalize, RangeOK
<1>7. CASE Mark(r)
  <2>1. record' \in [Runs -> Records]
    BY <1>2, <1>7 DEF Mark, Records
  <2>2. QED
    BY <1>1, <1>7, <2>1 DEF Mark, RangeOK
<1>8. QED
  BY <1>3, <1>4, <1>5, <1>6, <1>7 DEF Cleanup

\* A pod's step: what it reports may overwrite a stop.
LEMMA PodEffect ==
  ASSUME RangeOK, NEW r \in Runs, Pod(r)
  PROVE  /\ UNCHANGED <<aside, sched, counts, timer, runVars, cleanup, faults,
                        restarted, unrecorded, stopped, reopened>>
         /\ object' \in [Runs -> {"none", "active", "succeeded", "failed", "gone"}]
         /\ work' \in [Runs -> {"no", "going", "done", "broke", "stopped"}]
         /\ \/ UNCHANGED <<record, undone>>
            \/ \E st \in {"running", "completed", "failed", "stopped"} : Reports(r, st)
<1> USE DEF podVars
<1>1. ASSUME NEW how \in {"done", "broke", "stopped"}, NEW as \in {"succeeded", "failed", "gone"},
             PodEnds(r, how, as)
      PROVE  /\ UNCHANGED <<aside, sched, counts, timer, runVars, cleanup, faults,
                            restarted, unrecorded, stopped, reopened>>
             /\ object' \in [Runs -> {"none", "active", "succeeded", "failed", "gone"}]
             /\ work' \in [Runs -> {"no", "going", "done", "broke", "stopped"}]
  BY <1>1 DEF PodEnds, RangeOK
<1>2. CASE Progress(r)
  BY <1>2 DEF Progress, RangeOK
<1>3. CASE EndsWell(r) \/ BreaksDown(r) \/ Dies(r) \/ HearsStop(r)
  <2>1. \E how \in {"done", "broke", "stopped"}, as \in {"succeeded", "failed", "gone"} :
          PodEnds(r, how, as)
    BY <1>3 DEF EndsWell, BreaksDown, Dies, HearsStop
  <2>2. \/ UNCHANGED <<record, undone>>
        \/ \E st \in {"running", "completed", "failed", "stopped"} : Reports(r, st)
    BY <1>3 DEF EndsWell, BreaksDown, Dies, HearsStop
  <2>3. QED
    BY <1>1, <2>1, <2>2
<1>4. QED
  BY <1>2, <1>3 DEF Pod

\* The steps of a pod keep every variable in its range.
LEMMA PodType ==
  ASSUME RangeOK, NEW r \in Runs, Pod(r)
  PROVE  RangeOK'
<1>1. record' \in [Runs -> Records] /\ undone' \in SUBSET Runs
  BY PodEffect DEF Reports, RangeOK, Records
<1>2. QED
  BY <1>1, PodEffect DEF RangeOK, aside, runVars

\* A change of the schedule.
Changes == Disable \/ Enable \/ Update \/ Remove

\* What editing, pausing, resuming and removing a schedule leaves alone.
LEMMA ChangeEffect ==
  ASSUME RangeOK, Changes
  PROVE  /\ UNCHANGED <<kind, width, counts, runVars, podVars, record, cleanup,
                        restarted, unrecorded, stopped, undone>>
         /\ faults' \in 0..MaxFaults /\ changes' \in 0..MaxChanges
         /\ sched.exists /\ sched'.status = sched.status
         /\ sched' \in [exists : BOOLEAN, column : BOOLEAN, enabled : BOOLEAN, status : Statuses]
         /\ timer' \in {"none", "active", "paused"} /\ reopened' \in BOOLEAN
         /\ TimerInv => TimerInv'
<1> DEFINE Rows == [exists : BOOLEAN, column : BOOLEAN, enabled : BOOLEAN, status : Statuses]
<1>1. sched \in Rows
  BY DEF RangeOK
<1>2. Request /\ sched.exists
  BY DEF Changes, Disable, Enable, Update, Remove, Retime, Request
<1>3. faults' \in 0..MaxFaults /\ changes' \in 0..MaxChanges
  <2>1. (Retime /\ UNCHANGED faults) \/ (Fault /\ UNCHANGED changes)
    <3>1. Disable \/ Enable \/ Update => Retime
      BY DEF Disable, Enable, Update
    <3>2. Remove => Fault /\ UNCHANGED changes
      BY DEF Remove
    <3>3. QED
      BY <3>1, <3>2 DEF Changes, Retime
  <2>2. CASE Retime /\ UNCHANGED faults
    BY <2>2, SchedulerAssumption DEF Retime, RangeOK
  <2>3. CASE Fault /\ UNCHANGED changes
    BY <2>3, FaultType DEF RangeOK
  <2>4. QED
    BY <2>1, <2>2, <2>3
<1>4. CASE Disable
  <2>1. sched' \in Rows /\ sched'.status = sched.status
    BY <1>1, <1>4 DEF Disable
  <2>2. timer' \in {"none", "paused"} /\ reopened' = FALSE
    BY <1>4 DEF Disable, Paused
  <2>3. QED
    BY <1>2, <1>3, <2>1, <2>2 DEF Request, TimerInv
<1>5. CASE Enable
  <2>1. sched' \in Rows /\ sched'.status = sched.status /\ sched'.enabled
    BY <1>1, <1>5 DEF Enable
  <2>2. timer' \in {"none", "active"} /\ reopened' = reopened
    BY <1>5 DEF Enable
  <2>3. reopened' \in BOOLEAN
    BY <2>2 DEF RangeOK
  <2>4. QED
    BY <1>2, <1>3, <2>1, <2>2, <2>3 DEF Request, TimerInv
<1>6. CASE Update
  <2>1. PICK column \in BOOLEAN, enabled \in BOOLEAN, again \in BOOLEAN :
          /\ again \/ enabled = sched.enabled
          /\ sched' = [sched EXCEPT !.column = column, !.enabled = enabled]
          /\ timer' = IF again /\ sched.column THEN "active" ELSE timer
          /\ reopened' = (again \/ reopened)
    BY <1>6 DEF Update
  <2>2. sched' \in Rows /\ sched'.status = sched.status /\ sched'.enabled = enabled
    BY <1>1, <2>1
  <2>3. timer' \in {"none", "active", "paused"}
    BY <2>1 DEF RangeOK
  <2>4. reopened' \in BOOLEAN
    BY <2>1
  <2>5. CASE again
    <3>1. reopened' = TRUE
      BY <2>1, <2>5
    <3>2. QED
      BY <1>2, <1>3, <2>2, <2>3, <2>4, <3>1 DEF Request, TimerInv
  <2>6. CASE ~again
    <3>1. timer' = timer /\ sched'.enabled = sched.enabled /\ reopened' = reopened
      BY <2>1, <2>2, <2>6 DEF RangeOK
    <3>2. QED
      BY <1>2, <1>3, <2>2, <2>3, <2>4, <3>1 DEF Request, TimerInv
  <2>7. QED
    BY <2>5, <2>6
<1>7. CASE Remove
  <2>1. sched' \in Rows /\ sched'.status = sched.status
    BY <1>1, <1>7 DEF Remove
  <2>2. timer' = "none" /\ reopened' = reopened
    BY <1>7 DEF Remove
  <2>3. QED
    BY <1>2, <1>3, <2>1, <2>2 DEF Request, TimerInv, RangeOK
<1>8. QED
  BY <1>4, <1>5, <1>6, <1>7 DEF Changes

\* The changes of a schedule keep every variable in its range.
LEMMA ChangeType ==
  ASSUME RangeOK, Changes
  PROVE  RangeOK'
BY ChangeEffect DEF RangeOK, runVars, podVars

\* A restart of the API keeps every variable in its range.
LEMMA RestartType ==
  ASSUME RangeOK, Restart
  PROVE  RangeOK'
<1>1. call' \in [Calls -> {"idle", "gather", "over"}]
  BY DEF Restart
<1>2. polls' \in [Runs -> 0..MaxPolls]
  BY SchedulerAssumption DEF Restart
<1>3. cleanup' \in [Runs -> {"no", "delete", "find", "both", "row", "mark"}]
  BY DEF Restart
<1>4. timer' \in {"none", "active", "paused"} /\ restarted' = TRUE /\ reopened' = TRUE
      /\ watch' = {} /\ faults' \in 0..MaxFaults
  BY FaultType DEF Restart
<1>5. UNCHANGED <<aside, sched, counts, timed, row, podVars, record, unrecorded, stopped, undone>>
  BY DEF Restart
<1>6. QED
  BY <1>1, <1>2, <1>3, <1>4, <1>5 DEF RangeOK, aside, podVars

\* Every step keeps the ranges.
LEMMA StepRange == RangeOK /\ [Next]_vars => RangeOK'
<1> SUFFICES ASSUME RangeOK, [Next]_vars PROVE RangeOK'
  OBVIOUS
<1>1. ASSUME NEW c \in Calls, Gathered(c) PROVE RangeOK'
  <2>1. call' \in [Calls -> {"idle", "gather", "over"}]
    BY <1>1 DEF Gathered, RangeOK
  <2>2. \E st \in Statuses : SetStatus(st)
    BY <1>1 DEF Gathered, EndStatus, Statuses
  <2>3. sched' \in [exists : BOOLEAN, column : BOOLEAN, enabled : BOOLEAN, status : Statuses]
    BY <2>2, StatusType
  <2>4. QED
    BY <1>1, <2>1, <2>3 DEF Gathered, RangeOK, aside, podVars, history
<1>2. ASSUME NEW c \in Calls, Fire(c) \/ RunNow(c) PROVE RangeOK'
  BY <1>2, ExecuteType DEF Fire, RunNow
<1>3. ASSUME NEW r \in Runs, StopWorkflow(r) PROVE RangeOK'
  <2>1. object' \in [Runs -> {"none", "active", "succeeded", "failed", "gone"}]
    BY <1>3 DEF StopWorkflow, RangeOK
  <2>2. QED
    BY <1>3, <2>1 DEF StopWorkflow, RangeOK, aside, runVars, history
<1>4. CASE UNCHANGED vars
  BY <1>4 DEF vars, aside, runVars, podVars, history, RangeOK
<1>5. QED
  BY <1>1, <1>2, <1>3, <1>4, LookType, CleanupType, PodType, ChangeType, RestartType
     DEF Next, Monitors, Changes

-----------------------------------------------------------------------------
(* Rows, watches and stops *)

\* A run is the execution of a call and the number of its job.
LEMMA RunPairs == \A r \in Runs : r[1] \in Calls /\ r[2] \in 1..MaxJobs /\ r = <<r[1], r[2]>>
BY DEF Runs

\* What changes the rows, the watches and the executions, and how.
Still ==
  /\ UNCHANGED <<kind, width, row, watch, call, counts, unrecorded, restarted>>
  /\ sched'.status = sched.status /\ sched'.exists \in {sched.exists, FALSE}
  /\ undone \subseteq undone'

\* Every step leaves rows and counters alone, or begins an execution, concludes
\* a run, counts a workflow, or writes the end of a tear-down.
LEMMA StillSteps ==
  ASSUME RangeOK, [Next]_vars
  PROVE  \/ Still
         \/ \E c \in Calls : (Fire(c) \/ RunNow(c)) /\ Upcoming(c) /\ Execute(c)
         \/ \E r \in Runs : (Look(r) \/ LookFails(r))
                            /\ \E st \in {"completed", "failed", "cancelled"} :
                                 Conclude(r, st) /\ (Halted(r) => st = "cancelled")
         \/ \E c \in Calls : Gathered(c)
         \/ \E r \in Runs : Finalize(r)
         \/ Restart
<1> USE DEF Still, aside, runVars, history
<1>1. ASSUME NEW r \in Runs, Look(r) \/ LookFails(r)
      PROVE  Still \/ \E st \in {"completed", "failed", "cancelled"} :
                        Conclude(r, st) /\ (Halted(r) => st = "cancelled")
  BY <1>1, LookEffect DEF LooksAgain
<1>2. ASSUME NEW r \in Runs, Cleanup(r) PROVE Still \/ Finalize(r)
  BY <1>2 DEF Cleanup, Stop, Delete, Find, Mark, CleanupStep
<1>3. ASSUME NEW r \in Runs, Pod(r) \/ StopWorkflow(r) PROVE Still
  <2>1. CASE Pod(r)
    <3>1. undone \subseteq undone'
      BY <2>1, PodEffect DEF Reports
    <3>2. QED
      BY <2>1, <3>1, PodEffect
  <2>2. CASE StopWorkflow(r)
    BY <2>2 DEF StopWorkflow
  <2>3. QED
    BY <1>3, <2>1, <2>2
<1>4. ASSUME Changes PROVE Still
  <2>1. sched.exists = TRUE /\ sched'.exists \in BOOLEAN
    BY <1>4, ChangeEffect DEF RangeOK
  <2>2. QED
    BY <1>4, <2>1, ChangeEffect
<1>5. UNCHANGED vars => Still
  BY DEF vars
<1>6. ASSUME NEW c \in Calls, Fire(c) \/ RunNow(c) PROVE Upcoming(c) /\ Execute(c)
  BY <1>6 DEF Fire, RunNow
<1>7. QED
  BY <1>1, <1>2, <1>3, <1>4, <1>5, <1>6 DEF Next, Monitors, Changes

\* A run of an execution that begins is not one of those that were started.
LEMMA ExecuteRows ==
  ASSUME RangeOK, RunInv, NEW c \in Calls, call[c] = "idle",
         NEW n \in Nat, NEW lost \in SUBSET Nat, Executed(c, n, lost)
  PROVE  /\ \A r \in Runs : call[r[1]] # "idle" =>
              r[1] # c /\ call'[r[1]] = call[r[1]] /\ row'[r] = row[r]
         /\ \A r \in Runs : r \in Kept(c, n, lost) => row'[r] = "running"
         /\ \A d \in Calls : d # c => call'[d] = call[d]
         /\ call'[c] # "idle"
         /\ \A r \in Runs : r[1] # c => row'[r] = row[r] /\ record'[r] = record[r]
         /\ Kept(c, n, lost) \in SUBSET Runs /\ Seen(c, n, lost) \subseteq Kept(c, n, lost)
         /\ \A r \in Kept(c, n, lost) : r[1] = c /\ r[2] \in 1..width
<1>1. n \in 0..width /\ lost \in SUBSET (1..n)
  BY DEF Executed
<1>2. \A d \in Calls : d # c => call'[d] = call[d]
  BY DEF Executed, RangeOK
<1>3. call'[c] # "idle"
  BY DEF Executed, RangeOK
<1>4. \A r \in Runs : r[1] # c => row'[r] = row[r]
  <2> SUFFICES ASSUME NEW r \in Runs, r[1] # c PROVE row'[r] = row[r]
    OBVIOUS
  <2>1. r \notin Kept(c, n, lost) /\ r # <<c, n + 1>>
    BY DEF Kept
  <2>2. QED
    BY <2>1 DEF Executed
<1>5. \A r \in Runs : r[1] # c => record'[r] = record[r]
  BY DEF Executed, RangeOK
<1>6. \A r \in Runs : r \in Kept(c, n, lost) => row'[r] = "running"
  BY DEF Executed
<1>7. \A r \in Kept(c, n, lost) : r[1] = c /\ r[2] \in 1..width
  <2>1. width \in Nat
    BY SchedulerAssumption DEF RangeOK
  <2>2. 1..n \subseteq 1..width
    BY <1>1, <2>1
  <2>3. QED
    BY <2>2 DEF Kept
<1>8. \A r \in Runs : call[r[1]] # "idle" => r[1] # c
  OBVIOUS
<1>9. QED
  BY <1>1, <1>2, <1>3, <1>4, <1>5, <1>6, <1>7, <1>8, RunPairs, OwnRuns

\* Every step keeps what relates a run, its row and its monitor.
LEMMA StepRun ==
  ASSUME RangeOK, RunInv, StopInv, [Next]_vars
  PROVE  RunInv'
<1>1. CASE Still
  <2>1. ASSUME NEW r \in Runs, r \in stopped', r \notin stopped PROVE row[r] = "running"
    <3>1. Cleanup(r) => row[r] = "running"
      BY <2>1 DEF Cleanup, Stop, Delete, Find, Finalize, Mark, CleanupStep
    <3>2. stopped' # stopped => \E q \in Runs : Stop(q)
      <4>1. ASSUME NEW q \in Runs, Cleanup(q) PROVE stopped' = stopped \/ Stop(q)
        BY <4>1 DEF Cleanup, Delete, Find, Finalize, Mark
      <4>2. ASSUME NEW q \in Runs, Look(q) \/ LookFails(q) \/ Pod(q) \/ StopWorkflow(q)
            PROVE  stopped' = stopped
        BY <4>2, LookEffect, PodEffect DEF StopWorkflow, history
      <4>3. ASSUME NEW c \in Calls, Fire(c) \/ RunNow(c) \/ Gathered(c)
            PROVE  stopped' = stopped
        BY <4>3 DEF Fire, RunNow, Gathered, Execute, history
      <4>4. Changes \/ Restart \/ UNCHANGED vars => stopped' = stopped
        BY ChangeEffect DEF Restart, vars, history
      <4>5. QED
        BY <4>1, <4>2, <4>3, <4>4 DEF Next, Monitors, Changes
    <3>3. QED
      BY <2>1, <3>2 DEF Stop
  <2>2. QED
    BY <1>1, <2>1 DEF RunInv, Still
<1>2. ASSUME NEW c \in Calls, Upcoming(c), Execute(c) PROVE RunInv'
  <2>1. PICK n \in Nat, lost \in SUBSET Nat : Executed(c, n, lost)
    BY <1>2, ExecuteEffect
  <2>2. call[c] = "idle" /\ UNCHANGED <<kind, width, stopped>>
        /\ watch' = watch \cup Seen(c, n, lost)
    BY <1>2, <2>1 DEF Upcoming, Executed, aside
  <2>3. \A r \in watch : call[r[1]] # "idle" /\ r \in Runs
    BY DEF RunInv, RangeOK
  <2>4. \A r \in Runs : call'[r[1]] = "idle" => row'[r] = "none" /\ r \notin stopped
    BY <2>1, <2>2, ExecuteRows, RunPairs DEF RunInv
  <2>5. \A r \in watch' : row'[r] \in {"running", "cancelled"} /\ r[2] \in 1..width
    BY <2>1, <2>2, <2>3, ExecuteRows DEF RunInv
  <2>6. kind = "workflow" => \A r \in watch' : call'[r[1]] = "gather"
    <3>1. \A r \in watch : r[1] # c /\ call'[r[1]] = call[r[1]]
      BY <2>1, <2>2, <2>3, ExecuteRows
    <3>2. kind = "workflow" /\ Seen(c, n, lost) # {} => call'[c] = "gather"
      BY <2>1 DEF Executed, RangeOK
    <3>3. \A r \in Seen(c, n, lost) : r[1] = c
      <4>1. /\ Seen(c, n, lost) \subseteq Kept(c, n, lost)
            /\ \A r \in Kept(c, n, lost) : r[1] = c /\ r[2] \in 1..width
        BY <2>1, <2>2, ExecuteRows
      <4>2. QED
        BY <4>1
    <3>4. QED
      BY <2>2, <3>1, <3>2, <3>3 DEF RunInv
  <2>7. QED
    BY <2>2, <2>4, <2>5, <2>6 DEF RunInv
<1>3. ASSUME NEW r \in Runs, Look(r) \/ LookFails(r),
             NEW st \in {"completed", "failed", "cancelled"}, Conclude(r, st)
      PROVE  RunInv'
  <2>1. /\ r \in watch /\ UNCHANGED <<kind, width, call, stopped>>
        /\ row' = [row EXCEPT ![r] = st] /\ watch' = watch \ {r}
    BY <1>3, LookEffect DEF Conclude, aside, history
  <2>2. call[r[1]] # "idle"
    BY <2>1 DEF RunInv
  <2>3. row \in [Runs -> RowStates] /\ watch \in SUBSET Runs
    BY DEF RangeOK
  <2>4. QED
    BY <2>1, <2>2, <2>3 DEF RunInv
<1>4. ASSUME NEW c \in Calls, Gathered(c) PROVE RunInv'
  <2>1. /\ call[c] = "gather" /\ watch \cap ({c} \X (1..width)) = {}
        /\ call' = [call EXCEPT ![c] = "over"] /\ UNCHANGED <<kind, width, row, watch, stopped>>
    BY <1>4 DEF Gathered, aside, history
  <2>2. \A r \in watch : r \in Runs /\ r[1] # c
    BY <2>1, RunPairs DEF RunInv, RangeOK
  <2>3. \A r \in Runs : call'[r[1]] = call[r[1]] \/ (call[r[1]] = "gather" /\ call'[r[1]] = "over")
    BY <2>1, RunPairs DEF RangeOK
  <2>4. \A r \in watch : call'[r[1]] = call[r[1]]
    BY <2>1, <2>2, RunPairs DEF RangeOK
  <2>5. QED
    BY <2>1, <2>3, <2>4 DEF RunInv
<1>5. ASSUME NEW r \in Runs, Finalize(r) PROVE RunInv'
  <2>1. /\ cleanup[r] # "no" /\ row' = [row EXCEPT ![r] = "cancelled"]
        /\ UNCHANGED <<kind, width, call, watch, stopped>>
    BY <1>5 DEF Finalize, CleanupStep, aside
  <2>2. row \in [Runs -> RowStates] /\ watch \in SUBSET Runs
    BY DEF RangeOK
  <2>3. call[r[1]] # "idle"
    BY <2>1 DEF StopInv, RunInv
  <2>4. QED
    BY <2>1, <2>2, <2>3 DEF RunInv
<1>6. CASE Restart
  <2>1. /\ watch' = {} /\ UNCHANGED <<kind, width, row, stopped>>
        /\ \A c \in Calls : call'[c] = "idle" => call[c] = "idle"
    BY <1>6 DEF Restart, aside
  <2>2. QED
    BY <2>1, RunPairs DEF RunInv
<1>7. QED
  BY <1>1, <1>2, <1>3, <1>4, <1>5, <1>6, StillSteps

\* Every step keeps what is on record of a stopped run.
LEMMA StepStop ==
  ASSUME RangeOK, RunInv, StopInv, [Next]_vars
  PROVE  StopInv'
<1> USE DEF aside, runVars, podVars, history
<1>1. record \in [Runs -> Records] /\ row \in [Runs -> RowStates] /\ undone \subseteq Runs
      /\ cleanup \in [Runs -> {"no", "delete", "find", "both", "row", "mark"}]
      /\ stopped \subseteq Runs
  BY DEF RangeOK
<1>2. UNCHANGED <<stopped, undone, record, row, cleanup>> => StopInv'
  BY DEF StopInv, Halted
<1>3. ASSUME NEW c \in Calls, Upcoming(c), Execute(c) PROVE StopInv'
  <2>1. PICK n \in Nat, lost \in SUBSET Nat : Executed(c, n, lost)
    BY <1>3, ExecuteEffect
  <2>2. call[c] = "idle" /\ UNCHANGED <<stopped, undone, cleanup>>
    BY <1>3, <2>1 DEF Upcoming, Executed
  <2>3. \A r \in stopped : r[1] # c
    BY <2>2, RunPairs DEF RunInv, RangeOK
  <2>4. \A r \in stopped : row'[r] = row[r] /\ record'[r] = record[r]
    BY <1>1, <2>1, <2>2, <2>3, ExecuteRows
  <2>5. QED
    BY <2>2, <2>4 DEF StopInv, Halted
<1>4. ASSUME NEW r \in Runs, Look(r) \/ LookFails(r) PROVE StopInv'
  <2>1. UNCHANGED <<stopped, undone, record, cleanup>>
    BY <1>4, LookEffect
  <2>2. CASE row' = row
    BY <1>2, <2>1, <2>2
  <2>3. CASE row' # row
    <3>1. PICK st \in {"completed", "failed", "cancelled"} :
            Conclude(r, st) /\ (Halted(r) => st = "cancelled")
      BY <1>4, <2>3, LookEffect DEF LooksAgain
    <3>2. row' = [row EXCEPT ![r] = st]
      BY <3>1 DEF Conclude
    <3>3. QED
      BY <1>1, <2>1, <3>1, <3>2 DEF StopInv, Halted
  <2>4. QED
    BY <2>2, <2>3
<1>5. CASE \E c \in Calls : Gathered(c)
  BY <1>2, <1>5 DEF Gathered
<1>6. ASSUME NEW r \in Runs, Cleanup(r) PROVE StopInv'
  <2>1. CASE Stop(r)
    <3>1. /\ cleanup' = [cleanup EXCEPT ![r] = "delete"] /\ row[r] = "running"
          /\ record' = [record EXCEPT ![r] = "stopping"] /\ stopped' = stopped \cup {r}
          /\ UNCHANGED <<row, undone>>
      BY <2>1 DEF Stop, CleanupStep
    <3>2. QED
      BY <1>1, <3>1 DEF StopInv, Halted
  <2>2. CASE ~Stop(r)
    <3>1. /\ r \in stopped /\ stopped' = stopped /\ undone \subseteq undone'
          /\ \A q \in Runs : q # r => /\ cleanup'[q] = cleanup[q] /\ record'[q] = record[q]
                                      /\ row'[q] = row[q]
      BY <1>1, <1>6, <2>2
         DEF Cleanup, Delete, Find, Finalize, Mark, CleanupStep, StopInv
    <3>2. r \in undone' \/ (row'[r] \in {row[r], "cancelled"} /\ record'[r] \in {record[r], "stopped"})
      BY <1>1, <1>6, <2>2 DEF Cleanup, Delete, Find, Finalize, Mark
    <3>3. QED
      BY <1>1, <3>1, <3>2 DEF StopInv, Halted
  <2>3. QED
    BY <2>1, <2>2
<1>7. ASSUME NEW r \in Runs, Pod(r) PROVE StopInv'
  <2>1. UNCHANGED <<stopped, row, cleanup>>
    BY <1>7, PodEffect
  <2>2. CASE UNCHANGED <<record, undone>>
    BY <1>2, <2>1, <2>2
  <2>3. ASSUME NEW st \in {"running", "completed", "failed", "stopped"}, Reports(r, st)
        PROVE  StopInv'
    <3>1. /\ \A q \in Runs : q # r => record'[q] = record[q]
          /\ undone \subseteq undone'
          /\ record'[r] \in {record[r], st}
          /\ record[r] \in {"stopping", "stopped"} /\ st # "stopped" => r \in undone'
      BY <1>1, <2>3 DEF Reports
    <3>2. QED
      BY <1>1, <2>1, <3>1 DEF StopInv, Halted
  <2>4. QED
    BY <1>7, <2>2, <2>3, PodEffect
<1>8. CASE Restart
  BY <1>1, <1>8 DEF Restart, StopInv, Halted
<1>9. CASE Changes \/ (\E r \in Runs : StopWorkflow(r)) \/ UNCHANGED vars
  BY <1>2, <1>9, ChangeEffect DEF StopWorkflow, vars
<1>10. QED
  BY <1>3, <1>4, <1>5, <1>6, <1>7, <1>8, <1>9 DEF Next, Monitors, Changes, Fire, RunNow

\* Every step keeps the timer in line with the schedule.
LEMMA StepTimer ==
  ASSUME RangeOK, TimerInv, [Next]_vars
  PROVE  TimerInv'
<1> USE DEF aside, runVars, podVars, history
<1>1. UNCHANGED <<timer, reopened>> /\ sched'.enabled = sched.enabled => TimerInv'
  BY DEF TimerInv
<1>2. ASSUME NEW c \in Calls, Fire(c) \/ RunNow(c) PROVE TimerInv'
  <2>1. PICK n \in Nat, lost \in SUBSET Nat : Executed(c, n, lost)
    BY <1>2, ExecuteEffect DEF Fire, RunNow
  <2>2. QED
    BY <1>1, <2>1, StatusType DEF Executed
<1>3. ASSUME NEW r \in Runs, Look(r) \/ LookFails(r) PROVE TimerInv'
  <2>1. UNCHANGED <<timer, reopened>>
    BY <1>3, LookEffect
  <2>2. sched' = sched \/ \E st \in Statuses : SetStatus(st)
    BY <1>3, LookEffect DEF LooksAgain, Conclude, Statuses
  <2>3. QED
    BY <1>1, <2>1, <2>2, StatusType
<1>4. ASSUME NEW c \in Calls, Gathered(c) PROVE TimerInv'
  <2>1. UNCHANGED <<timer, reopened>> /\ \E st \in Statuses : SetStatus(st)
    BY <1>4 DEF Gathered, EndStatus, Statuses
  <2>2. QED
    BY <1>1, <2>1, StatusType
<1>5. ASSUME NEW r \in Runs, Cleanup(r) PROVE TimerInv'
  <2>1. UNCHANGED <<timer, reopened>>
    BY <1>5 DEF Cleanup, Stop, Delete, Find, Finalize, Mark, CleanupStep
  <2>2. sched' = sched \/ \E st \in Statuses : SetStatus(st)
    BY <1>5 DEF Cleanup, Stop, Delete, Find, Finalize, Mark, Statuses
  <2>3. QED
    BY <1>1, <2>1, <2>2, StatusType
<1>6. ASSUME NEW r \in Runs, Pod(r) PROVE TimerInv'
  BY <1>1, <1>6, PodEffect
<1>7. CASE Restart
  BY <1>7 DEF Restart, TimerInv
<1>8. CASE (\E r \in Runs : StopWorkflow(r)) \/ UNCHANGED vars
  BY <1>1, <1>8 DEF StopWorkflow, vars
<1>9. CASE Changes
  BY <1>9, ChangeEffect
<1>10. QED
  BY <1>2, <1>3, <1>4, <1>5, <1>6, <1>7, <1>8, <1>9 DEF Next, Monitors, Changes

-----------------------------------------------------------------------------
(* A schedule that says it is running *)

\* Every step keeps running rows watched.
LEMMA StepWatched ==
  ASSUME RangeOK, RunInv, RunningIsWatched, [Next]_vars
  PROVE  RunningIsWatched'
<1> USE DEF aside, runVars, podVars, history
<1>1. SUFFICES ASSUME sched'.exists, sched'.status = "running", unrecorded' = {}, ~restarted'
               PROVE  watch' # {} \/ \E c \in Calls : call'[c] = "gather"
  BY DEF RunningIsWatched
<1>2. CASE Still
  BY <1>1, <1>2 DEF Still, RunningIsWatched
<1>3. ASSUME NEW c \in Calls, Execute(c)
      PROVE  watch' # {} \/ \E d \in Calls : call'[d] = "gather"
  <2>1. PICK n \in Nat, lost \in SUBSET Nat : Executed(c, n, lost)
    BY <1>3, ExecuteEffect
  <2>2. PICK st \in Statuses :
          /\ SetStatus(st)
          /\ st = "running" => n = width /\ (kind = "workflow" => Seen(c, n, lost) # {})
    BY <2>1 DEF Executed
  <2>3. st = "running"
    BY <1>1, <2>2, StatusType
  <2>4. lost = {}
    <3>1. {c} \X lost = {}
      BY <1>1, <2>1 DEF Executed
    <3>2. \A x \in lost : <<c, x>> \in {c} \X lost
      OBVIOUS
    <3>3. QED
      BY <3>1, <3>2
  <2>5. CASE kind = "workflow"
    BY <2>1, <2>2, <2>3, <2>5 DEF Executed, RangeOK
  <2>6. CASE kind # "workflow"
    <3>1. 1 \in 1..n
      BY <2>2, <2>3, SchedulerAssumption DEF RangeOK
    <3>2. <<c, 1>> \in Seen(c, n, lost)
      BY <2>4, <2>6, <3>1 DEF Seen, Kept
    <3>3. QED
      BY <2>1, <3>2 DEF Executed
  <2>7. QED
    BY <2>5, <2>6
<1>4. ASSUME NEW r \in Runs, Look(r) \/ LookFails(r),
             NEW st \in {"completed", "failed", "cancelled"}, Conclude(r, st)
      PROVE  watch' # {} \/ \E c \in Calls : call'[c] = "gather"
  <2>1. kind # "batch"
    BY <1>1, <1>4, StatusType DEF Conclude, Statuses
  <2>2. r \in watch /\ call' = call /\ kind = "workflow"
    BY <1>4, <2>1, LookEffect, SchedulerAssumption DEF RangeOK
  <2>3. QED
    BY <2>2, RunPairs DEF RunInv
<1>5. ASSUME NEW c \in Calls, Gathered(c) PROVE FALSE
  <2>1. PICK st \in {"scheduled", "failed"} : SetStatus(st)
    BY <1>5 DEF Gathered, EndStatus
  <2>2. QED
    BY <1>1, <2>1, StatusType DEF Statuses
<1>6. ASSUME NEW r \in Runs, Finalize(r)
      PROVE  watch' # {} \/ \E c \in Calls : call'[c] = "gather"
  <2>1. UNCHANGED <<call, watch, unrecorded, restarted>>
        /\ (SetStatus("scheduled") \/ UNCHANGED sched)
    BY <1>6 DEF Finalize, CleanupStep
  <2>2. UNCHANGED sched
    BY <1>1, <2>1, StatusType DEF Statuses
  <2>3. QED
    BY <1>1, <2>1, <2>2 DEF RunningIsWatched
<1>7. ASSUME Restart PROVE FALSE
  BY <1>1, <1>7 DEF Restart
<1>8. QED
  BY <1>2, <1>3, <1>4, <1>5, <1>6, <1>7, StillSteps

-----------------------------------------------------------------------------
(* The counters *)

\* There are finitely many runs.
LEMMA RunsFinite == IsFiniteSet(Runs) /\ Cardinality(Runs) \in Nat
<1>1. IsFiniteSet(1..MaxJobs)
  BY FS_Interval, SchedulerAssumption
<1>2. IsFiniteSet(Runs)
  BY <1>1, FS_Product DEF Runs, Calls
<1>3. QED
  BY <1>2, FS_CardinalityType

\* Any set of runs can be counted.
LEMMA RunSet ==
  ASSUME NEW S \in SUBSET Runs
  PROVE  IsFiniteSet(S) /\ Cardinality(S) \in Nat /\ Cardinality(S) <= Cardinality(Runs)
BY RunsFinite, FS_Subset, FS_CardinalityType

\* Two sets of runs apart count as their sum.
LEMMA CountApart ==
  ASSUME NEW S \in SUBSET Runs, NEW T \in SUBSET Runs, S \cap T = {}
  PROVE  Cardinality(S \cup T) = Cardinality(S) + Cardinality(T)
<1>1. /\ IsFiniteSet(S) /\ IsFiniteSet(T)
      /\ Cardinality(S) \in Nat /\ Cardinality(T) \in Nat
  BY RunSet
<1>2. Cardinality(S \cup T) = Cardinality(S) + Cardinality(T) - Cardinality(S \cap T)
  BY <1>1, FS_Union
<1>3. Cardinality(S \cap T) = 0
  BY FS_EmptySet
<1>4. QED
  BY <1>1, <1>2, <1>3

\* An execution of n programs has n jobs.
LEMMA JobCount ==
  ASSUME NEW c, NEW n \in Nat
  PROVE  IsFiniteSet({c} \X (1..n)) /\ Cardinality({c} \X (1..n)) = n
<1>1. IsFiniteSet({c}) /\ Cardinality({c}) = 1
  BY FS_Singleton
<1>2. IsFiniteSet(1..n) /\ Cardinality(1..n) = n
  BY FS_Interval
<1>3. /\ IsFiniteSet({c} \X (1..n))
      /\ Cardinality({c} \X (1..n)) = Cardinality({c}) * Cardinality(1..n)
  BY <1>1, <1>2, FS_Product
<1>4. QED
  BY <1>1, <1>2, <1>3

\* What an execution and a monitor's verdict count.
LEMMA ExecuteCounts ==
  ASSUME RangeOK, NEW c \in Calls, NEW n \in Nat, NEW lost \in SUBSET Nat,
         Executed(c, n, lost)
  PROVE  /\ n \in 0..width /\ lost \in SUBSET (1..n) /\ sched'.exists = sched.exists
         /\ counts' \in [total : Nat, good : Nat, bad : Nat]
         /\ sched.exists =>
              /\ counts'.total = counts.total + n + (IF n < width THEN 1 ELSE 0)
              /\ counts'.good = counts.good
              /\ counts'.bad = counts.bad + (IF n < width THEN 1 ELSE 0)
         /\ ~sched.exists => counts' = counts
<1>1. n \in 0..width /\ lost \in SUBSET (1..n)
  BY DEF Executed
<1>2. sched'.exists = sched.exists
  BY StatusType DEF Executed
<1>3. DEFINE f == Flag(n < width)
<1>4. f = (IF n < width THEN 1 ELSE 0) /\ f \in Nat /\ n + f \in Nat
  BY DEF Flag
<1>5. counts' = Count(n + f, 0, f, 0)
  BY DEF Executed
<1>6. counts \in [total : Nat, good : Nat, bad : Nat]
  BY DEF RangeOK
<1> HIDE DEF f
<1>7. /\ Count(n + f, 0, f, 0) \in [total : Nat, good : Nat, bad : Nat]
      /\ sched.exists => /\ Count(n + f, 0, f, 0).total = counts.total + (n + f)
                         /\ Count(n + f, 0, f, 0).good = counts.good + 0
                         /\ Count(n + f, 0, f, 0).bad = counts.bad + f
      /\ ~sched.exists => Count(n + f, 0, f, 0) = counts
  BY <1>4, CountType
<1>8. QED
  BY <1>1, <1>2, <1>4, <1>5, <1>6, <1>7

\* The end of a run counts what its row says.
LEMMA ConcludeCounts ==
  ASSUME RangeOK, NEW r \in Runs, Look(r) \/ LookFails(r),
         NEW st \in {"completed", "failed", "cancelled"}, Conclude(r, st)
  PROVE  /\ r \in watch /\ row' = [row EXCEPT ![r] = st] /\ watch' = watch \ {r}
         /\ sched'.exists = sched.exists
         /\ UNCHANGED <<kind, width, call, unrecorded, undone>>
         /\ counts' \in [total : Nat, good : Nat, bad : Nat]
         /\ sched.exists =>
              /\ counts'.total = counts.total
              /\ counts'.good = counts.good + (IF st = "completed" THEN 1 ELSE 0)
              /\ counts'.bad = counts.bad + (IF st = "failed" THEN 1 ELSE 0)
         /\ ~sched.exists => counts' = counts
<1>1. /\ r \in watch /\ row' = [row EXCEPT ![r] = st] /\ watch' = watch \ {r}
      /\ UNCHANGED <<kind, width, call, unrecorded, undone>>
  BY LookEffect DEF Conclude, aside, history
<1>2. sched'.exists = sched.exists
  BY StatusType DEF Conclude, Statuses
<1> DEFINE g == Flag(st = "completed")
           b == Flag(st = "failed")
<1>3. /\ g = (IF st = "completed" THEN 1 ELSE 0) /\ g \in Nat
      /\ b = (IF st = "failed" THEN 1 ELSE 0) /\ b \in Nat
  BY DEF Flag
<1>4. counts' = Count(0, g, b, Flag(st = "cancelled"))
  BY DEF Conclude
<1>5. counts \in [total : Nat, good : Nat, bad : Nat]
  BY DEF RangeOK
<1> HIDE DEF g, b
<1>6. /\ counts' \in [total : Nat, good : Nat, bad : Nat]
      /\ sched.exists => /\ counts'.total = counts.total + 0
                         /\ counts'.good = counts.good + g
                         /\ counts'.bad = counts.bad + b
      /\ ~sched.exists => counts' = counts
  BY <1>3, <1>4, CountType
<1>7. QED
  BY <1>1, <1>2, <1>3, <1>5, <1>6

\* The counters stay within the jobs that were started.
LEMMA StepBound ==
  ASSUME RangeOK, RunInv, BoundInv, [Next]_vars
  PROVE  BoundInv'
<1> USE DEF aside, runVars, podVars, history
<1>1. counts \in [total : Nat, good : Nat, bad : Nat] /\ watch \in SUBSET Runs
      /\ Begun \in SUBSET Runs /\ width \in Nat
  BY SchedulerAssumption DEF RangeOK, Begun
<1>2. IsFiniteSet(watch) /\ Cardinality(watch) \in Nat /\ Cardinality(Begun) \in Nat
  BY <1>1, RunSet
<1>3. CASE Still
  <2>1. Begun' = Begun
    BY <1>3 DEF Still, Begun
  <2>2. sched'.exists => sched.exists
    BY <1>3 DEF Still
  <2>3. QED
    BY <1>3, <2>1, <2>2 DEF Still, BoundInv
<1>4. ASSUME NEW c \in Calls, Upcoming(c), Execute(c) PROVE BoundInv'
  <2>1. PICK n \in Nat, lost \in SUBSET Nat : Executed(c, n, lost)
    BY <1>4, ExecuteEffect
  <2>2. call[c] = "idle" /\ UNCHANGED <<kind, width>> /\ watch' = watch \cup Seen(c, n, lost)
    BY <1>4, <2>1 DEF Upcoming, Executed
  <2>3. n \in 0..width /\ lost \in SUBSET (1..n)
    BY <2>1, ExecuteCounts
  <2> DEFINE J == {c} \X (1..width)
  <2>4. J \in SUBSET Runs /\ J \cap Begun = {} /\ Begun \cup J \in SUBSET Begun'
    <3>1. 1..width \subseteq 1..MaxJobs
      BY SchedulerAssumption DEF RangeOK
    <3>2. J \in SUBSET Runs
      BY <3>1 DEF Runs
    <3>3. \A r \in J : r[1] = c /\ r[2] <= width
      OBVIOUS
    <3>4. \A d \in Calls : (call[d] # "idle" \/ d = c) => call'[d] # "idle"
      BY <2>1, <2>2, ExecuteRows
    <3>5. QED
      BY <2>2, <3>2, <3>3, <3>4, RunPairs DEF Begun
  <2>5. Cardinality(J) = width
    BY <1>1, JobCount
  <2>6. Cardinality(Begun \cup J) = Cardinality(Begun) + width
    BY <1>1, <2>4, <2>5, CountApart
  <2>7. Begun' \in SUBSET Runs
    BY DEF Begun
  <2>8. Cardinality(Begun') \in Nat /\ Cardinality(Begun \cup J) <= Cardinality(Begun')
    BY <2>4, <2>7, RunSet, FS_Subset
  <2>9. Cardinality(watch') <= Cardinality(watch) + n /\ Cardinality(watch') \in Nat
    <3>1. IsFiniteSet({c} \X (1..n)) /\ Cardinality({c} \X (1..n)) = n
      BY JobCount
    <3>2. Seen(c, n, lost) \subseteq {c} \X (1..n)
      BY DEF Seen, Kept
    <3>3. /\ IsFiniteSet(Seen(c, n, lost)) /\ Cardinality(Seen(c, n, lost)) <= n
          /\ Cardinality(Seen(c, n, lost)) \in Nat
      BY <3>1, <3>2, FS_Subset, FS_CardinalityType
    <3>4. IsFiniteSet(watch \cap Seen(c, n, lost))
      BY <1>2, FS_Subset
    <3>5. Cardinality(watch \cap Seen(c, n, lost)) \in Nat
      BY <3>4, FS_CardinalityType
    <3>6. IsFiniteSet(watch')
      BY <1>2, <2>2, <3>3, FS_Union
    <3>7. Cardinality(watch') = Cardinality(watch) + Cardinality(Seen(c, n, lost))
                                - Cardinality(watch \cap Seen(c, n, lost))
      BY <1>2, <2>2, <3>3, FS_Union
    <3>8. Cardinality(watch') \in Nat
      BY <3>6, FS_CardinalityType
    <3>9. QED
      BY <1>2, <3>3, <3>5, <3>7, <3>8
  <2>10. /\ sched'.exists = sched.exists
         /\ counts' \in [total : Nat, good : Nat, bad : Nat]
         /\ sched.exists =>
              /\ counts'.total = counts.total + n + (IF n < width THEN 1 ELSE 0)
              /\ counts'.good = counts.good
              /\ counts'.bad = counts.bad + (IF n < width THEN 1 ELSE 0)
         /\ ~sched.exists => counts' = counts
    BY <2>1, ExecuteCounts
  <2>11. CASE sched.exists
    <3>1. counts'.total <= Cardinality(Begun')
      BY <1>1, <1>2, <2>3, <2>6, <2>8, <2>10, <2>11 DEF BoundInv
    <3>2. counts'.good + counts'.bad + Cardinality(watch') <= counts'.total
      BY <1>1, <1>2, <2>3, <2>9, <2>10, <2>11 DEF BoundInv
    <3>3. counts'.good + counts'.bad <= counts'.total
      BY <2>9, <2>10, <3>2
    <3>4. QED
      BY <3>1, <3>2, <3>3 DEF BoundInv
  <2>12. CASE ~sched.exists
    BY <1>1, <1>2, <2>6, <2>8, <2>10, <2>12 DEF BoundInv
  <2>13. QED
    BY <2>11, <2>12
<1>5. ASSUME NEW r \in Runs, Look(r) \/ LookFails(r),
             NEW st \in {"completed", "failed", "cancelled"}, Conclude(r, st)
      PROVE  BoundInv'
  <2>1. r \in watch /\ watch' = watch \ {r} /\ Begun' = Begun
    BY <1>5, ConcludeCounts DEF Begun
  <2>2. Cardinality(watch') = Cardinality(watch) - 1
    BY <1>2, <2>1, FS_RemoveElement
  <2>3. CASE sched.exists
    <3>1. /\ sched'.exists /\ counts' \in [total : Nat, good : Nat, bad : Nat]
          /\ counts'.total = counts.total
          /\ counts'.good = counts.good + (IF st = "completed" THEN 1 ELSE 0)
          /\ counts'.bad = counts.bad + (IF st = "failed" THEN 1 ELSE 0)
      BY <1>5, <2>3, ConcludeCounts
    <3>2. Cardinality(watch) >= 1
      BY <1>2, <2>1, FS_EmptySet
    <3>3. counts'.good + counts'.bad <= counts.good + counts.bad + 1
      BY <1>1, <3>1
    <3>4. QED
      BY <1>1, <1>2, <2>1, <2>2, <2>3, <3>1, <3>2, <3>3 DEF BoundInv
  <2>4. CASE ~sched.exists
    BY <1>5, <2>1, <2>4, ConcludeCounts DEF BoundInv
  <2>5. QED
    BY <2>3, <2>4
<1>6. ASSUME NEW c \in Calls, Gathered(c) PROVE BoundInv'
  <2>1. /\ call[c] = "gather" /\ call' = [call EXCEPT ![c] = "over"]
        /\ UNCHANGED <<counts, watch, width>>
    BY <1>6 DEF Gathered
  <2>2. \A d \in Calls : call'[d] = "idle" <=> call[d] = "idle"
    BY <2>1 DEF RangeOK
  <2>3. Begun' = Begun
    BY <2>1, <2>2, RunPairs DEF Begun
  <2>4. sched'.exists = sched.exists
    BY <1>6, StatusType DEF Gathered, EndStatus, Statuses
  <2>5. QED
    BY <2>1, <2>3, <2>4 DEF BoundInv
<1>7. ASSUME NEW r \in Runs, Finalize(r) PROVE BoundInv'
  <2>1. UNCHANGED <<counts, watch, width, call>> /\ sched'.exists = sched.exists
    BY <1>7, StatusType DEF Finalize, CleanupStep, Statuses
  <2>2. QED
    BY <2>1 DEF BoundInv, Begun
<1>8. CASE Restart
  <2>1. /\ watch' = {} /\ UNCHANGED <<counts, sched, width>>
        /\ \A d \in Calls : call'[d] = "idle" <=> call[d] = "idle"
    BY <1>8 DEF Restart
  <2>2. Begun' = Begun
    BY <2>1, RunPairs DEF Begun
  <2>3. Cardinality(watch') = 0
    BY <2>1, FS_EmptySet
  <2>4. QED
    BY <1>1, <2>1, <2>2, <2>3 DEF BoundInv
<1>9. QED
  BY <1>3, <1>4, <1>5, <1>6, <1>7, <1>8, StillSteps

\* The counters are what the rows say.  What an execution writes is new, and a
\* monitor's verdict concerns one row that was neither a success nor a failure.
RowsOf(st) == {r \in Runs : row[r] = st}
Written == {r \in Runs : row[r] # "none"}

\* The counters in terms of the rows.
LEMMA CountsByRows ==
  CountsMatchRows <=>
    (sched.exists /\ unrecorded = {} /\ undone = {} =>
       /\ counts.total = Cardinality(Written)
       /\ counts.good = Cardinality(RowsOf("completed"))
       /\ counts.bad = Cardinality(RowsOf("failed")))
BY DEF CountsMatchRows, RowsThatAre, RowsOf, Written

\* Every step keeps the counters in line with the rows.
LEMMA StepCounts ==
  ASSUME RangeOK, RunInv, StopInv, CountsMatchRows, [Next]_vars
  PROVE  CountsMatchRows'
<1>1. SUFFICES ASSUME sched'.exists, unrecorded' = {}, undone' = {}
               PROVE  /\ counts'.total = Cardinality(Written')
                      /\ counts'.good = Cardinality(RowsOf("completed")')
                      /\ counts'.bad = Cardinality(RowsOf("failed")')
  BY CountsByRows DEF CountsMatchRows, RowsThatAre, RowsOf, Written
<1> DEFINE Match == /\ counts.total = Cardinality(Written)
                    /\ counts.good = Cardinality(RowsOf("completed"))
                    /\ counts.bad = Cardinality(RowsOf("failed"))
<1>2. sched.exists /\ unrecorded = {} /\ undone = {} => Match
  BY CountsByRows
<1>3. /\ row \in [Runs -> RowStates] /\ width \in Nat
      /\ counts \in [total : Nat, good : Nat, bad : Nat]
      /\ Written \in SUBSET Runs /\ RowsOf("completed") \in SUBSET Runs
      /\ RowsOf("failed") \in SUBSET Runs
  BY SchedulerAssumption DEF RangeOK, Written, RowsOf
<1>4. ASSUME row' = row, counts' = counts, sched.exists, unrecorded \subseteq unrecorded',
             undone \subseteq undone'
      PROVE  Match'
  BY <1>1, <1>2, <1>4 DEF Written, RowsOf
<1>5. CASE Still
  BY <1>1, <1>4, <1>5 DEF Still
<1>6. ASSUME NEW c \in Calls, Upcoming(c), Execute(c) PROVE Match'
  <2>1. PICK n \in Nat, lost \in SUBSET Nat : Executed(c, n, lost)
    BY <1>6, ExecuteEffect
  <2>2. call[c] = "idle" /\ undone' = undone /\ unrecorded' = unrecorded \cup ({c} \X lost)
    BY <1>6, <2>1 DEF Upcoming, Executed
  <2>3. /\ n \in 0..width /\ lost \in SUBSET (1..n) /\ sched'.exists = sched.exists
        /\ sched.exists =>
             /\ counts'.total = counts.total + n + (IF n < width THEN 1 ELSE 0)
             /\ counts'.good = counts.good
             /\ counts'.bad = counts.bad + (IF n < width THEN 1 ELSE 0)
    BY <2>1, ExecuteCounts
  <2>4. lost = {} /\ Match
    <3>1. {c} \X lost = {} /\ unrecorded = {}
      BY <1>1, <2>2
    <3>2. \A x \in lost : <<c, x>> \in {c} \X lost
      OBVIOUS
    <3>3. QED
      BY <1>1, <1>2, <2>2, <2>3, <3>1, <3>2
  <2> DEFINE K == Kept(c, n, lost)
             F == IF n < width THEN {<<c, n + 1>>} ELSE {}
  <2>5. /\ K \in SUBSET Runs /\ F \in SUBSET Runs /\ K \cap F = {}
        /\ \A r \in K : r[1] = c
        /\ \A r \in F : r[1] = c
    <3>1. K \subseteq Runs
      BY <2>3, OwnRuns
    <3>2. K \in SUBSET Runs /\ \A r \in K : r[1] = c
      BY <3>1 DEF Kept
    <3>3. n < width => <<c, n + 1>> \in Runs /\ <<c, n + 1>> \notin K
      BY <2>3, OwnRuns
    <3>4. QED
      BY <3>2, <3>3
  <2>6. Cardinality(K) = n
    <3>1. K = {c} \X (1..n)
      BY <2>4 DEF Kept
    <3>2. QED
      BY <3>1, JobCount
  <2>7. Cardinality(F) = IF n < width THEN 1 ELSE 0
    BY FS_Singleton, FS_EmptySet
  <2>8. \A r \in Runs : row'[r] = IF r \in K THEN "running"
                                  ELSE IF r \in F THEN "failed" ELSE row[r]
    BY <2>1 DEF Executed
  <2>9. \A r \in Runs : r[1] = c => row[r] = "none"
    BY <2>2 DEF RunInv
  <2> HIDE DEF K, F
  <2>10. /\ Written' = Written \cup (K \cup F) /\ Written \cap (K \cup F) = {}
    BY <2>5, <2>8, <2>9 DEF Written
  <2>11. RowsOf("completed")' = RowsOf("completed")
    BY <2>5, <2>8, <2>9 DEF RowsOf
  <2>12. RowsOf("failed")' = RowsOf("failed") \cup F /\ RowsOf("failed") \cap F = {}
    BY <2>5, <2>8, <2>9 DEF RowsOf
  <2>13. K \cup F \in SUBSET Runs /\ Cardinality(K \cup F) = n + Cardinality(F)
    BY <2>5, <2>6, CountApart
  <2>14. Cardinality(Written') = Cardinality(Written) + (n + Cardinality(F))
    BY <1>3, <2>10, <2>13, CountApart
  <2>15. Cardinality(RowsOf("failed")') = Cardinality(RowsOf("failed")) + Cardinality(F)
    BY <1>3, <2>5, <2>12, CountApart
  <2>16. QED
    BY <1>1, <1>3, <2>3, <2>4, <2>7, <2>11, <2>14, <2>15
<1>7. ASSUME NEW r \in Runs, Look(r) \/ LookFails(r),
             NEW st \in {"completed", "failed", "cancelled"}, Conclude(r, st)
      PROVE  Match'
  <2>1. /\ r \in watch /\ row' = [row EXCEPT ![r] = st]
        /\ UNCHANGED <<unrecorded, undone>> /\ sched.exists
        /\ counts'.total = counts.total
        /\ counts'.good = counts.good + (IF st = "completed" THEN 1 ELSE 0)
        /\ counts'.bad = counts.bad + (IF st = "failed" THEN 1 ELSE 0)
    BY <1>1, <1>7, ConcludeCounts
  <2>2. row[r] \in {"running", "cancelled"} /\ Match
    BY <1>1, <1>2, <2>1 DEF RunInv
  <2>3. Written' = Written
    BY <1>3, <2>1, <2>2 DEF Written
  <2>4. \A x \in {"completed", "failed"} :
          RowsOf(x)' = RowsOf(x) \cup (IF st = x THEN {r} ELSE {})
          /\ r \notin RowsOf(x)
    BY <1>3, <2>1, <2>2 DEF RowsOf
  <2>5. \A x \in {"completed", "failed"} :
          Cardinality(RowsOf(x)') = Cardinality(RowsOf(x)) + (IF st = x THEN 1 ELSE 0)
    <3>1. TAKE x \in {"completed", "failed"}
    <3>2. IsFiniteSet(RowsOf(x)) /\ Cardinality(RowsOf(x)) \in Nat
      <4>1. RowsOf(x) \in SUBSET Runs
        BY DEF RowsOf
      <4>2. QED
        BY <4>1, RunSet
    <3>3. CASE st = x
      <4>1. RowsOf(x)' = RowsOf(x) \cup {r} /\ r \notin RowsOf(x)
        BY <2>4, <3>3
      <4>2. QED
        BY <3>2, <3>3, <4>1, FS_AddElement
    <3>4. CASE st # x
      <4>1. RowsOf(x)' = RowsOf(x)
        BY <2>4, <3>4
      <4>2. QED
        BY <3>2, <3>4, <4>1
    <3>5. QED
      BY <3>3, <3>4
  <2>6. QED
    BY <2>1, <2>2, <2>3, <2>5
<1>8. ASSUME NEW c \in Calls, Gathered(c) PROVE Match'
  <2>1. UNCHANGED <<row, counts, unrecorded, undone>>
    BY <1>8 DEF Gathered, history
  <2>2. sched'.exists = sched.exists
    BY <1>8, StatusType DEF Gathered, EndStatus, Statuses
  <2>3. QED
    BY <1>1, <1>4, <2>1, <2>2
<1>9. ASSUME NEW r \in Runs, Finalize(r) PROVE Match'
  <2>1. /\ cleanup[r] # "no" /\ row' = [row EXCEPT ![r] = "cancelled"]
        /\ UNCHANGED <<counts, unrecorded, undone>> /\ sched'.exists = sched.exists
    BY <1>9, StatusType DEF Finalize, CleanupStep, Statuses
  <2>2. row[r] \in {"running", "cancelled"}
    BY <1>1, <2>1 DEF StopInv
  <2>3. Written' = Written /\ RowsOf("completed")' = RowsOf("completed")
        /\ RowsOf("failed")' = RowsOf("failed")
    BY <1>3, <2>1, <2>2 DEF Written, RowsOf
  <2>4. QED
    BY <1>1, <1>2, <2>1, <2>3
<1>10. CASE Restart
  BY <1>1, <1>4, <1>10 DEF Restart
<1>11. QED
  BY <1>5, <1>6, <1>7, <1>8, <1>9, <1>10, StillSteps

-----------------------------------------------------------------------------
(* The theorems *)

SInv == RangeOK /\ TimerInv /\ RunInv /\ StopInv /\ BoundInv /\ CountsMatchRows
        /\ RunningIsWatched

\* Initially.
LEMMA StartInv == Init => SInv
<1> SUFFICES ASSUME Init PROVE SInv
  OBVIOUS
<1>1. RangeOK
  <2>1. MaxJobs \in Nat /\ MaxPolls \in Nat /\ MaxFaults \in Nat /\ MaxChanges \in Nat
        /\ MaxJobs # 0
    BY SchedulerAssumption
  <2>2. kind \in Kinds /\ width \in 1..MaxJobs
    BY <2>1 DEF Init
  <2>3. sched \in [exists : BOOLEAN, column : BOOLEAN, enabled : BOOLEAN, status : Statuses]
    BY DEF Init, Statuses
  <2>4. counts \in [total : Nat, good : Nat, bad : Nat]
    BY DEF Init
  <2>5. /\ call \in [Calls -> {"idle", "gather", "over"}] /\ row \in [Runs -> RowStates]
        /\ object \in [Runs -> {"none", "active", "succeeded", "failed", "gone"}]
        /\ work \in [Runs -> {"no", "going", "done", "broke", "stopped"}]
        /\ record \in [Runs -> Records]
        /\ cleanup \in [Runs -> {"no", "delete", "find", "both", "row", "mark"}]
    BY DEF Init, RowStates, Records
  <2>6. polls \in [Runs -> 0..MaxPolls] /\ faults \in 0..MaxFaults /\ changes \in 0..MaxChanges
    BY <2>1 DEF Init
  <2>7. QED
    BY <2>2, <2>3, <2>4, <2>5, <2>6 DEF Init, RangeOK
<1>2. TimerInv
  BY DEF Init, TimerInv
<1>3. RunInv
  BY RunPairs DEF Init, RunInv
<1>4. StopInv
  BY DEF Init, StopInv
<1>5. BoundInv
  <2>1. Begun \in SUBSET Runs
    BY DEF Begun
  <2>2. Cardinality(Begun) \in Nat /\ Cardinality({}) = 0
    BY <2>1, RunSet, FS_EmptySet
  <2>3. counts.total = 0 /\ counts.good = 0 /\ counts.bad = 0 /\ watch = {}
    BY DEF Init
  <2>4. QED
    BY <2>2, <2>3 DEF BoundInv
<1>6. CountsMatchRows
  <2>1. Written = {} /\ RowsOf("completed") = {} /\ RowsOf("failed") = {}
    BY DEF Init, Written, RowsOf
  <2>2. counts.total = 0 /\ counts.good = 0 /\ counts.bad = 0
    BY DEF Init
  <2>3. QED
    BY <2>1, <2>2, FS_EmptySet, CountsByRows
<1>7. RunningIsWatched
  BY DEF Init, RunningIsWatched
<1>8. QED
  BY <1>1, <1>2, <1>3, <1>4, <1>5, <1>6, <1>7 DEF SInv

\* The inductive invariant: besides the properties below it says that a row is
\* written only for an execution that was started, that a watched row was not
\* concluded, that a stop stays on record until its monitor sees it, and that
\* what is counted and what is still watched are jobs that were started.
THEOREM SchedulerInvariant == Spec => []SInv
<1>1. SInv /\ [Next]_vars => SInv'
  <2> SUFFICES ASSUME SInv, [Next]_vars PROVE SInv'
    OBVIOUS
  <2>1. RangeOK' /\ TimerInv'
    BY StepRange, StepTimer DEF SInv
  <2>2. RunInv' /\ StopInv'
    BY StepRun, StepStop DEF SInv
  <2>3. BoundInv'
    BY StepBound DEF SInv
  <2>4. CountsMatchRows' /\ RunningIsWatched'
    BY StepCounts, StepWatched DEF SInv
  <2>5. QED
    BY <2>1, <2>2, <2>3, <2>4 DEF SInv
<1>2. QED
  BY <1>1, StartInv, PTL DEF Spec

\* Every variable stays in its range; in particular no counter of a schedule
\* exceeds the number of jobs that can be started, whichever monitors,
\* tear-downs and restarts count them.
THEOREM SchedulerTypeCorrect == Spec => []TypeOK
<1>1. SInv => TypeOK
  <2> SUFFICES ASSUME SInv PROVE TypeOK
    OBVIOUS
  <2>1. RangeOK /\ BoundInv
    BY DEF SInv
  <2>2. Begun \in SUBSET Runs
    BY DEF Begun
  <2>3. /\ Cardinality(Runs) \in Nat /\ Cardinality(Begun) \in Nat
        /\ Cardinality(Begun) <= Cardinality(Runs)
    BY <2>2, RunSet, RunsFinite
  <2>4. counts \in [total : Nat, good : Nat, bad : Nat]
    BY <2>1 DEF RangeOK
  <2>5. /\ counts.total \in 0..Cardinality(Runs) /\ counts.good \in 0..Cardinality(Runs)
        /\ counts.bad \in 0..Cardinality(Runs)
    BY <2>1, <2>3, <2>4 DEF BoundInv
  <2>6. counts \in [total : 0..Cardinality(Runs), good : 0..Cardinality(Runs),
                    bad : 0..Cardinality(Runs)]
    BY <2>4, <2>5
  <2>7. QED
    BY <2>1, <2>6 DEF RangeOK, TypeOK, Statuses, RowStates, Records
<1>2. QED
  BY <1>1, SchedulerInvariant, PTL

\* The counters of a schedule are what its rows say (increment_stats and
\* update_execution), whichever of monitor, tear-down and pod comes first.
THEOREM CountersRight == Spec => []CountsMatchRows
<1>1. SInv => CountsMatchRows
  BY DEF SInv
<1>2. QED
  BY <1>1, SchedulerInvariant, PTL

\* A job that was stopped while it ran is neither a success nor a failure,
\* whatever its monitor sees of the tear-down.
THEOREM StopsStay == Spec => []StoppedIsCancelled
<1>1. SInv => StoppedIsCancelled
  BY DEF SInv, StopInv, StoppedIsCancelled
<1>2. QED
  BY <1>1, SchedulerInvariant, PTL

\* A schedule whose status is running has an execution that is watched.
THEOREM RunningWatched == Spec => []RunningIsWatched
<1>1. SInv => RunningIsWatched
  BY DEF SInv
<1>2. QED
  BY <1>1, SchedulerInvariant, PTL

\* While it is disabled a schedule is not fired by its timer, unless the API was
\* restarted or the schedule edited.
THEOREM DisabledQuiet == Spec => DisabledIsQuiet
<1>1. SInv /\ [Next]_vars => [timed' # timed => sched.enabled \/ reopened]_vars
  <2> SUFFICES ASSUME SInv, [Next]_vars, timed' # timed PROVE sched.enabled \/ reopened
    OBVIOUS
  <2> USE DEF aside, runVars, podVars, history
  <2>1. ASSUME NEW c \in Calls, Fire(c) PROVE sched.enabled \/ reopened
    BY <2>1 DEF Fire, SInv, TimerInv
  <2>2. ASSUME NEW c \in Calls, RunNow(c) \/ Gathered(c) PROVE FALSE
    BY <2>2 DEF RunNow, Gathered
  <2>3. RangeOK
    BY DEF SInv
  <2>4. ASSUME NEW r \in Runs, Look(r) \/ LookFails(r) \/ Pod(r) \/ StopWorkflow(r)
        PROVE  FALSE
    BY <2>3, <2>4, LookEffect, PodEffect DEF StopWorkflow
  <2>5. ASSUME NEW r \in Runs, Cleanup(r) PROVE FALSE
    BY <2>5 DEF Cleanup, Stop, Delete, Find, Finalize, Mark, CleanupStep
  <2>6. ~Changes /\ ~Restart /\ ~(UNCHANGED vars)
    BY <2>3, ChangeEffect DEF Restart, vars
  <2>7. QED
    BY <2>1, <2>2, <2>4, <2>5, <2>6 DEF Next, Monitors, Changes
<1>2. QED
  BY <1>1, SchedulerInvariant, PTL DEF Spec, DisabledIsQuiet

=============================================================================
