---------------------------- MODULE JobScheduler ----------------------------
(***************************************************************************)
(* One schedule of the API, the executions it starts and the coroutines    *)
(* that watch them, next to the users who disable, edit, delete and run    *)
(* it, the thread that tears a stopped job down, and the pods, which       *)
(* report on themselves (src/src/api/app/services/job_scheduler.py,        *)
(* routes/jobs.py, repository/scheduled_job_repo.py; src/src/runner/app/   *)
(* run-job.py, batch_jobs/).                                               *)
(*                                                                         *)
(* The repository's coroutines never suspend: what runs on the event loop  *)
(* between two sleeps is one step.  The tear-down runs in a thread with a  *)
(* loop of its own.  The schedule recurs; one-time schedules, which the    *)
(* same code starts, and their disposal are left out.                      *)
(***************************************************************************)
EXTENDS Naturals, FiniteSets

CONSTANTS
  Kinds,     \* the job types tried: "batch", "workflow"
  MaxJobs,   \* bound on the jobs of all executions
  MaxPolls,  \* looks at a job before the monitor times out
  MaxFaults, \* bound on faults, a removal of the schedule counted as one
  MaxChanges \* bound on other changes of the schedule

Calls == 1..MaxJobs
Runs == Calls \X (1..MaxJobs)

ASSUME SchedulerAssumption ==
  /\ Kinds \subseteq {"batch", "workflow"} /\ MaxJobs \in Nat \ {0}
  /\ MaxPolls \in Nat
  /\ MaxFaults \in Nat /\ MaxChanges \in Nat

VARIABLES
  kind,       \* job_type
  width,      \* jobs of an execution: one, or one for each program of a workflow
  sched,      \* the schedule's row: exists, column and enabled, status
  counts,     \* its counters
  timer,      \* the APScheduler job: none, active or paused
  call,       \* an execution: idle, gather or over
  timed,      \* the last execution the timer started, or 0
  row,        \* job_execution_history: the status of a job's row
  watch,      \* the jobs _monitor_job_completion looks at
  polls,      \* how often it did
  object,     \* the Kubernetes job
  work,       \* what the pod does: no, going, done, broke or stopped
  record,     \* job_status: the job as its pod and the stop route report it;
              \* pending, which it is before the pod's first word, is running here
  cleanup,    \* the tear-down thread of a job
  faults,     \* history: faults so far
  changes,    \* history: changes so far
  restarted,  \* history: the API was restarted
  unrecorded, \* history: jobs whose row could not be written
  stopped,    \* history: jobs stopped while their row was running
  undone,     \* history: stops overwritten by a report or an error
  reopened    \* history: edited or restarted since it was disabled

aside == <<kind, width, changes>>
runVars == <<call, timed, row, watch, polls>>
podVars == <<object, work>>
history == <<restarted, unrecorded, stopped, undone, reopened>>
vars == <<aside, sched, counts, timer, runVars, podVars, record, cleanup,
          faults, history>>

Init ==
  /\ kind \in Kinds /\ width \in IF kind = "batch" THEN {1} ELSE 1..MaxJobs
  /\ sched = [exists |-> TRUE, column |-> TRUE, enabled |-> TRUE, status |-> "scheduled"]
  /\ counts = [total |-> 0, good |-> 0, bad |-> 0] /\ timer = "active"
  /\ call = [c \in Calls |-> "idle"] /\ timed = 0
  /\ row = [r \in Runs |-> "none"] /\ watch = {} /\ polls = [r \in Runs |-> 0]
  /\ object = [r \in Runs |-> "none"] /\ work = [r \in Runs |-> "no"]
  /\ record = [r \in Runs |-> "none"] /\ cleanup = [r \in Runs |-> "no"]
  /\ faults = 0 /\ changes = 0 /\ restarted = FALSE /\ unrecorded = {}
  /\ stopped = {} /\ undone = {} /\ reopened = FALSE

Fault == faults < MaxFaults /\ faults' = faults + 1

\* An update of a row that was deleted does nothing.
SetStatus(st) == sched' = IF sched.exists THEN [sched EXCEPT !.status = st] ELSE sched

\* Mutation: a cancelled execution counts as failed.
CountCancelled(total, good, bad, cancelled) ==
  IF sched.exists
    THEN [total |-> counts.total + total, good |-> counts.good + good,
          bad |-> counts.bad + bad + cancelled]
    ELSE counts

Count(total, good, bad, cancelled) ==
  IF sched.exists
    THEN [total |-> counts.total + total, good |-> counts.good + good,
          bad |-> counts.bad + bad]
    ELSE counts

Flag(b) == IF b THEN 1 ELSE 0

-----------------------------------------------------------------------------
(* execute_scheduled_job and _execute_multi_program_workflow *)

\* The jobs of programs 1..n are created, and the rows of those not in lost;
\* when n < width the next one is refused and the execution has failed.
Execute(c) ==
  \E n \in 0..width : \E lost \in SUBSET (1..n) :
    LET refused == n < width
        kept    == {c} \X ((1..n) \ lost)
        seen    == IF kind = "workflow" /\ refused THEN {} ELSE kept
    IN  /\ IF refused \/ lost # {} THEN Fault ELSE UNCHANGED faults
        /\ row' = [r \in Runs |-> CASE r \in kept -> "running"
                                    [] refused /\ r = <<c, n + 1>> -> "failed"
                                    [] OTHER -> row[r]]
        /\ object' = [r \in Runs |-> IF r \in {c} \X (1..n) THEN "active" ELSE object[r]]
        /\ work' = [r \in Runs |-> IF r \in {c} \X (1..n) THEN "going" ELSE work[r]]
        /\ record' = IF kind = "batch" THEN [record EXCEPT ![<<c, 1>>] = "running"]
                     ELSE record
        /\ counts' = Count(n + Flag(refused), 0, Flag(refused), 0)
        /\ watch' = watch \cup seen
        /\ call' = [call EXCEPT ![c] =
                      IF kind = "workflow" /\ seen # {} THEN "gather" ELSE "over"]
        /\ SetStatus(CASE refused -> "failed"
                       [] ~refused /\ kind = "workflow" /\ seen = {} -> "scheduled"
                       [] OTHER -> "running")
        /\ unrecorded' = unrecorded \cup ({c} \X lost)
  /\ UNCHANGED <<aside, timer, polls, cleanup, restarted, stopped, undone, reopened>>

\* Executions are numbered as they come.  After a change there is only one.
Upcoming(c) ==
  /\ call[c] = "idle" /\ c * width <= MaxJobs /\ (changes = 0 \/ c = 1)
  /\ \A d \in 1..(c - 1) : call[d] # "idle"

\* The time has come; max_instances is 1.
Fire(c) ==
  /\ Upcoming(c) /\ timer = "active"
  /\ timed # 0 => call[timed] # "gather"
  /\ timed' = c /\ Execute(c)

RunNow(c) ==
  /\ Upcoming(c) /\ sched.exists
  /\ UNCHANGED timed /\ Execute(c)

\* Mutation: the schedule's status is left as it is.
StatusStays(st) == UNCHANGED sched

EndStatus(st) == SetStatus(st)

\* All monitors of a workflow execution have returned.
Gathered(c) ==
  /\ call[c] = "gather" /\ watch \cap ({c} \X (1..width)) = {}
  /\ call' = [call EXCEPT ![c] = "over"]
  /\ EndStatus(IF \A p \in 1..width : row[<<c, p>>] \in {"none", "completed"}
                 THEN "scheduled" ELSE "failed")
  /\ UNCHANGED <<aside, counts, timer, timed, row, watch, polls, podVars, record,
                 cleanup, faults, history>>

-----------------------------------------------------------------------------
(* _monitor_job_completion *)

\* Mutation: a stop in progress is not noticed.
HaltedForGood(r) == record[r] = "stopped"

Halted(r) == record[r] \in {"stopping", "stopped"}

\* The row is overwritten, whatever it is by now.
Conclude(r, st) ==
  /\ row' = [row EXCEPT ![r] = st] /\ watch' = watch \ {r}
  /\ polls' = [polls EXCEPT ![r] = 0]
  /\ counts' = Count(0, Flag(st = "completed"), Flag(st = "failed"), Flag(st = "cancelled"))
  /\ IF kind = "batch" THEN SetStatus("scheduled") ELSE UNCHANGED sched

\* Mutation: the monitor never gives up.
LookForever(r) == UNCHANGED <<row, watch, counts, sched, polls>>

\* Mutation: one look too many.
LookLonger(r) ==
  IF polls[r] > MaxPolls
    THEN Conclude(r, "failed")
    ELSE polls' = [polls EXCEPT ![r] = @ + 1] /\ UNCHANGED <<row, watch, counts, sched>>

LookAgain(r) ==
  IF polls[r] = MaxPolls
    THEN Conclude(r, "failed")
    ELSE polls' = [polls EXCEPT ![r] = @ + 1] /\ UNCHANGED <<row, watch, counts, sched>>

Watching(r) ==
  /\ r \in watch
  /\ UNCHANGED <<aside, timer, call, timed, podVars, record, cleanup, history>>

Look(r) ==
  /\ Watching(r) /\ UNCHANGED faults
  /\ CASE Halted(r)                        -> Conclude(r, "cancelled")
       [] ~Halted(r) /\ object[r] = "succeeded" -> Conclude(r, "completed")
       [] ~Halted(r) /\ object[r] \in {"failed", "gone"} -> Conclude(r, "failed")
       [] OTHER                            -> LookAgain(r)

\* Kubernetes does not answer: a batch job is looked at again, a workflow
\* counts as not found.
LookFails(r) ==
  /\ Watching(r) /\ Fault /\ ~Halted(r)
  /\ IF kind = "batch" THEN LookAgain(r) ELSE Conclude(r, "failed")

-----------------------------------------------------------------------------
(* stop_job and _run_job_stop_cleanup; the stop of a workflow *)

CleanupStep(r, from, to) ==
  /\ cleanup[r] = from /\ cleanup' = [cleanup EXCEPT ![r] = to]
  /\ UNCHANGED <<aside, counts, timer, call, timed, watch, polls, work,
                 restarted, unrecorded, reopened>>

\* Tried once for a job, while its row is running: then there is something to
\* finalize.
Stop(r) ==
  /\ row[r] = "running" /\ r \notin stopped /\ record[r] = "running" /\ CleanupStep(r, "no", "delete")
  /\ record' = [record EXCEPT ![r] = "stopping"]
  /\ stopped' = stopped \cup {r}
  /\ UNCHANGED <<sched, row, object, faults, undone>>

\* When Kubernetes refuses to delete the job or its ConfigMap, the stop turns the
\* job into a failed one.
Delete(r) ==
  \/ /\ CleanupStep(r, "delete", "find")
     /\ object' = [object EXCEPT ![r] = IF @ = "none" THEN @ ELSE "gone"]
     /\ UNCHANGED <<sched, row, record, faults, stopped, undone>>
  \/ /\ CleanupStep(r, "delete", "no") /\ Fault
     /\ record' = [record EXCEPT ![r] = "failed"] /\ undone' = undone \cup {r}
     /\ object' \in {object, [object EXCEPT ![r] = IF @ = "none" THEN @ ELSE "gone"]}
     /\ UNCHANGED <<sched, row, stopped>>

\* finalize_running_execution_for_job reads the job's row and the schedule ...
Find(r) ==
  /\ CleanupStep(r, "find", CASE row[r] # "running" -> "mark"
                              [] row[r] = "running" /\ sched.status = "running" -> "both"
                              [] OTHER -> "row")
  /\ UNCHANGED <<sched, row, object, record, faults, stopped, undone>>

\* ... and writes what it read.
Finalize(r) ==
  /\ \/ CleanupStep(r, "both", "mark") /\ SetStatus("scheduled")
     \/ CleanupStep(r, "row", "mark") /\ UNCHANGED sched
  /\ row' = [row EXCEPT ![r] = "cancelled"]
  /\ UNCHANGED <<object, record, faults, stopped, undone>>

Mark(r) ==
  /\ CleanupStep(r, "mark", "no")
  /\ record' = [record EXCEPT ![r] = "stopped"]
  /\ UNCHANGED <<sched, row, object, faults, stopped, undone>>

\* A workflow is stopped by another route, which knows nothing of schedules.
StopWorkflow(r) ==
  /\ kind = "workflow" /\ object[r] = "active"
  /\ object' = [object EXCEPT ![r] = "gone"]
  /\ UNCHANGED <<aside, sched, counts, timer, runVars, work, record, cleanup,
                 faults, history>>

-----------------------------------------------------------------------------
(* The pod: run-job.py and the batch jobs *)

\* Reports are written as they come, over a stop too.
Reports(r, st) ==
  /\ record' = IF kind = "batch" THEN [record EXCEPT ![r] = st] ELSE record
  /\ undone' = IF record[r] \in {"stopping", "stopped"} /\ st # "stopped"
                 THEN undone \cup {r} ELSE undone

PodEnds(r, how, as) ==
  /\ work[r] = "going" /\ work' = [work EXCEPT ![r] = how]
  /\ object' = [object EXCEPT ![r] = IF @ = "active" THEN as ELSE @]
  /\ UNCHANGED <<aside, sched, counts, timer, runVars, cleanup, faults,
                 restarted, unrecorded, stopped, reopened>>

Progress(r) ==
  /\ kind = "batch" /\ work[r] = "going" /\ Reports(r, "running")
  /\ UNCHANGED <<aside, sched, counts, timer, runVars, podVars, cleanup, faults, restarted, unrecorded, stopped, reopened>>

EndsWell(r) == PodEnds(r, "done", "succeeded") /\ Reports(r, "completed")

\* An exception is reported, not passed on: the exit code is 0.
BreaksDown(r) ==
  /\ kind = "batch"
  /\ PodEnds(r, "broke", "succeeded") /\ Reports(r, "failed")

\* Killed, or without a word about its failure.
Dies(r) ==
  object[r] = "active" /\ PodEnds(r, "broke", "failed") /\ UNCHANGED <<record, undone>>

\* Terminated with its deleted job, it stops at the next item.
HearsStop(r) ==
  object[r] = "gone" /\ PodEnds(r, "stopped", "gone") /\ Reports(r, "stopped")

-----------------------------------------------------------------------------
(* Requests about the schedule, and a restart of the API *)

Request ==
  /\ sched.exists
  /\ UNCHANGED <<kind, width, counts, runVars, podVars, record, cleanup,
                 restarted, unrecorded, stopped, undone>>

\* Tried before the first execution: those that run do not depend on it.
Retime ==
  /\ Request /\ Upcoming(1)
  /\ changes < MaxChanges /\ changes' = changes + 1 /\ UNCHANGED faults

\* Mutation: the timer goes on.
NotPaused == timer

Paused == IF timer = "none" THEN "none" ELSE "paused"

Disable ==
  /\ Retime /\ sched' = [sched EXCEPT !.enabled = FALSE]
  /\ timer' = Paused /\ reopened' = FALSE

Enable ==
  /\ Retime /\ sched' = [sched EXCEPT !.enabled = TRUE]
  /\ timer' = (IF timer = "none" THEN "none" ELSE "active") /\ UNCHANGED reopened

\* The column enabled, the schedule with its own enabled, or both; the timer is
\* set anew when the column was TRUE.
Update ==
  /\ Retime
  /\ \E column, enabled, again \in BOOLEAN :
       /\ again \/ enabled = sched.enabled
       /\ sched' = [sched EXCEPT !.column = column, !.enabled = enabled]
       /\ timer' = IF again /\ sched.column THEN "active" ELSE timer
       /\ reopened' = (again \/ reopened)

Remove ==
  /\ Request /\ Fault /\ UNCHANGED changes /\ sched' = [sched EXCEPT !.exists = FALSE]
  /\ timer' = "none" /\ UNCHANGED reopened

\* Timers, monitors and tear-downs are lost; enabled schedules are loaded.
Restart ==
  /\ Fault
  /\ call' = [c \in Calls |-> IF call[c] = "idle" THEN "idle" ELSE "over"]
  /\ watch' = {} /\ polls' = [r \in Runs |-> 0] /\ cleanup' = [r \in Runs |-> "no"]
  /\ timer' = (IF sched.exists /\ sched.column THEN "active" ELSE "none")
  /\ restarted' = TRUE /\ reopened' = TRUE
  /\ UNCHANGED <<aside, sched, counts, timed, row, podVars, record,
                 unrecorded, stopped, undone>>

-----------------------------------------------------------------------------

Monitors ==
  \/ \E c \in Calls : Gathered(c)
  \/ \E r \in Runs : Look(r)

Cleanup(r) == Stop(r) \/ Delete(r) \/ Find(r) \/ Finalize(r) \/ Mark(r)
Pod(r) == Progress(r) \/ EndsWell(r) \/ BreaksDown(r) \/ Dies(r) \/ HearsStop(r)

Next ==
  \/ Monitors
  \/ \E c \in Calls : Fire(c) \/ RunNow(c)
  \/ \E r \in Runs : LookFails(r) \/ StopWorkflow(r) \/ Cleanup(r) \/ Pod(r)
  \/ Disable \/ Enable \/ Update \/ Remove \/ Restart

Spec == Init /\ [][Next]_vars

\* The event loop runs on; timers, users, threads and pods need not.
FairSpec == Spec /\ WF_vars(Monitors)

-----------------------------------------------------------------------------
(* Properties *)

\* Every variable stays in its range.
TypeOK ==
  /\ kind \in Kinds /\ width \in 1..MaxJobs
  /\ sched \in [exists : BOOLEAN, column : BOOLEAN, enabled : BOOLEAN,
                status : {"scheduled", "running", "failed"}]
  /\ counts \in [total : 0..Cardinality(Runs), good : 0..Cardinality(Runs),
                 bad : 0..Cardinality(Runs)]
  /\ timer \in {"none", "active", "paused"}
  /\ call \in [Calls -> {"idle", "gather", "over"}] /\ timed \in {0} \cup Calls
  /\ row \in [Runs -> {"none", "running", "completed", "failed", "cancelled"}]
  /\ watch \subseteq Runs /\ polls \in [Runs -> 0..MaxPolls]
  /\ object \in [Runs -> {"none", "active", "succeeded", "failed", "gone"}]
  /\ work \in [Runs -> {"no", "going", "done", "broke", "stopped"}]
  /\ record \in [Runs -> {"none", "running", "stopping", "stopped",
                          "completed", "failed"}]
  /\ cleanup \in [Runs -> {"no", "delete", "find", "both", "row", "mark"}]
  /\ faults \in 0..MaxFaults /\ changes \in 0..MaxChanges
  /\ restarted \in BOOLEAN /\ reopened \in BOOLEAN
  /\ unrecorded \subseteq Runs /\ stopped \subseteq Runs /\ undone \subseteq Runs

RowsThatAre(st) == Cardinality({r \in Runs : row[r] = st})

\* The counters of a schedule are what its rows say, whichever of the monitor,
\* the tear-down thread and the pod comes first.  Rows that could not be
\* written, and stops that were overwritten, break it (job_scheduler.py:766,
\* scheduled_job_repo.py:404).
CountsMatchRows ==
  sched.exists /\ unrecorded = {} /\ undone = {} =>
    /\ counts.total = Cardinality({r \in Runs : row[r] # "none"})
    /\ counts.good = RowsThatAre("completed") /\ counts.bad = RowsThatAre("failed")

\* An execution that was stopped while it ran is neither a success nor a
\* failure, whatever its monitor sees of the tear-down.
StoppedIsCancelled ==
  \A r \in stopped \ undone : row[r] \in {"running", "cancelled"}

\* A schedule that says it is running has an execution that is watched, so its
\* status will change, with executions that overlap and stops in between.
RunningIsWatched ==
  sched.exists /\ sched.status = "running" /\ unrecorded = {} /\ ~restarted =>
    watch # {} \/ \E c \in Calls : call[c] = "gather"

\* While it is disabled a schedule is not fired, unless the API was restarted or
\* the schedule edited.
DisabledIsQuiet == [][timed' # timed => sched.enabled \/ reopened]_vars

\* Every monitor ends, whatever its job does: no row stays running that the API
\* watches.
MonitorsEnd == <>[](watch = {})

\* "True if the job completed successfully" (job_scheduler.py:807): a row says
\* completed only of a job that did its work.
CompletedIsDone == \A r \in Runs : row[r] = "completed" => work[r] = "done"

=============================================================================
