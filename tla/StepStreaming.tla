---------------------------- MODULE StepStreaming ----------------------------
(***************************************************************************)
(* One step of a workflow: its tasks run side by side, what each job of a  *)
(* task printed is posted to the API as soon as it is parsed, the API      *)
(* ingests every post as a job of its own, and the step ends when the      *)
(* ingest jobs it knows of have ended (src/src/runner/app/                 *)
(* task_executor.py, task_components.py, run-workflow.py; src/src/api/app/ *)
(* services/unified_asset_processor.py, unified_findings_processor.py).    *)
(*                                                                         *)
(* How the jobs are run is WorkerJobs; here an output comes before its     *)
(* task's wait is over or is missed.  A request and its answer are one     *)
(* step.  Findings stands for nuclei findings; typosquat, WPScan, broken   *)
(* links and screenshots, which have endpoints of their own, are left out, *)
(* and so is the proxy path.                                               *)
(***************************************************************************)
EXTENDS Naturals, FiniteSets

CONSTANTS
  Tasks,     \* the tasks of the step
  Outputs,   \* the outputs of their jobs
  TaskOf,    \* the task of an output
  Assets,    \* the outputs that hold assets
  Findings,  \* the outputs that hold nuclei findings
  MaxPolls,  \* status requests before the wait for one ingest job times out
  MaxFaults  \* bound on faults

ASSUME StreamingAssumption ==
  /\ TaskOf \in [Outputs -> Tasks] /\ Tasks # {}
  /\ Assets \subseteq Outputs /\ Findings \subseteq Outputs
  /\ MaxPolls \in Nat \ {0} /\ MaxFaults \in Nat

Kinds == {"assets", "findings"}

\* What is posted: the assets or the findings of an output, or all assets of a
\* task at its end.  Each post the API takes becomes an ingest job.
Posts == (Outputs \X Kinds) \cup (Tasks \X {"batch"})

VARIABLES
  pc,       \* a task: run, gather, check or over
  stage,    \* an output: coming, missed, the post under way, or over
  raised,   \* the posts that raised an exception or were refused
  broken,   \* the tasks whose jobs could not be created
  tracked,  \* step_jobs of the step
  job,      \* active_jobs at the API; none before the post, gone after
  step,     \* run, wait, done or failed
  waiting,  \* the ingest jobs the step still waits for
  polls,    \* status requests for each
  faults,   \* history: faults so far
  stored    \* history: the posts whose data is in the database

taskVars == <<pc, broken>>
stepVars == <<step, waiting, polls>>
vars == <<taskVars, stage, raised, tracked, job, stepVars, faults, stored>>

Init ==
  /\ pc = [t \in Tasks |-> "run"] /\ stage = [o \in Outputs |-> "coming"]
  /\ raised = {} /\ broken = {} /\ tracked = {}
  /\ job = [p \in Posts |-> "none"]
  /\ step = "run" /\ waiting = {} /\ polls = [p \in Posts |-> 0]
  /\ faults = 0 /\ stored = {}

Fault == faults < MaxFaults /\ faults' = faults + 1

OutputsOf(t) == {o \in Outputs : TaskOf[o] = t}

\* What an output holds, as posts.
PostsOf(o) == {p \in {o} \X Kinds : o \in IF p[2] = "assets" THEN Assets ELSE Findings}

-----------------------------------------------------------------------------
(* _execute_task_unified and _send_batch_assets_progressively *)

\* An output comes to its handler, which starts a coroutine for it.  Handlers
\* of a task whose jobs could not all be created stay.
Arrive(o) ==
  /\ stage[o] = "coming" /\ (pc[TaskOf[o]] = "run" \/ TaskOf[o] \in broken)
  /\ stage' = [stage EXCEPT ![o] = CASE o \in Assets -> "assets"
                                     [] o \in Findings \ Assets -> "findings"
                                     [] OTHER          -> "over"]
  /\ UNCHANGED <<taskVars, raised, tracked, job, stepVars, faults, stored>>

\* Mutation: only findings are registered.
TrackFindings(o, failed) ==
  tracked' = tracked \cup ({p \in PostsOf(o) : p[2] = "findings"} \ failed)

\* Findings are registered when they were taken, assets only when every post of
\* the output was.
Track(o, failed) ==
  tracked' = tracked \cup
    (IF PostsOf(o) \cap failed = {} THEN PostsOf(o)
     ELSE {p \in PostsOf(o) : p[2] = "findings"} \ failed)

AfterPost(o, failed) ==
  /\ raised' = failed
  /\ IF stage[o] = "assets" /\ o \in Findings
       THEN stage' = [stage EXCEPT ![o] = "findings"] /\ UNCHANGED tracked
       ELSE stage' = [stage EXCEPT ![o] = "over"] /\ Track(o, failed)

Taken(p) == job' = [job EXCEPT ![p] = "taken"]

\* A post is taken; or it raises, whether the API took it or not.
Post(o) ==
  /\ stage[o] \in Kinds
  /\ LET p == <<o, stage[o]>>
     IN  \/ Taken(p) /\ AfterPost(o, raised) /\ UNCHANGED faults
         \/ Fault /\ (Taken(p) \/ UNCHANGED job) /\ AfterPost(o, raised \cup {p})
  /\ UNCHANGED <<taskVars, stepVars, stored>>

\* wait_for_batch returns and the handlers are removed.
BatchOver(t) ==
  /\ pc[t] = "run"
  /\ pc' = [pc EXCEPT ![t] = "gather"]
  /\ stage' = [o \in Outputs |->
       IF TaskOf[o] = t /\ stage[o] = "coming" THEN "missed" ELSE stage[o]]
  /\ UNCHANGED <<broken, raised, tracked, job, stepVars, faults, stored>>

\* Mutation: the coroutines are not gathered.
NoGather(t) == TRUE

AllSent(t) == \A o \in OutputsOf(t) : stage[o] \in {"missed", "over"}

Gathered(t) ==
  /\ pc[t] = "gather" /\ AllSent(t)
  /\ pc' = [pc EXCEPT ![t] = "check"]
  /\ UNCHANGED <<broken, stage, raised, tracked, job, stepVars, faults, stored>>

\* spawn_batch raises: the task has no result, its coroutines are on their own.
Breaks(t) ==
  /\ pc[t] = "run" /\ Fault
  /\ pc' = [pc EXCEPT ![t] = "check"] /\ broken' = broken \cup {t}
  /\ UNCHANGED <<stage, raised, tracked, job, stepVars, stored>>

-----------------------------------------------------------------------------
(* execute_task, after the jobs *)

\* The result of the task: what its outputs held.
Result(t) == IF t \in broken THEN {} ELSE {o \in OutputsOf(t) : stage[o] = "over"}

\* Mutation: only jobs the step knows of count.
NothingSent(t) == FALSE

\* progressive_assets_sent_count is positive.
SentSome(t) == \E o \in Result(t) \cap Assets : <<o, "assets">> \notin raised

\* Some job of the step, of this task or another, is registered.
Coordinated == tracked # {}

\* All assets once more, with the synchronous client.  It has no method for
\* nuclei findings, which are not sent; the ingest job is not registered.
SendBatch(t) ==
  LET p == <<t, "batch">>
  IN  \/ Taken(p) /\ UNCHANGED <<raised, faults>>
      \/ Fault /\ (Taken(p) \/ UNCHANGED job) /\ raised' = raised \cup {p}

Check(t) ==
  /\ pc[t] = "check"
  /\ pc' = [pc EXCEPT ![t] = "over"]
  /\ IF Coordinated \/ SentSome(t) \/ Result(t) \cap Assets = {}
       THEN UNCHANGED <<raised, faults, job>>
       ELSE SendBatch(t)
  /\ UNCHANGED <<broken, stage, tracked, stepVars, stored>>

-----------------------------------------------------------------------------
(* run_step and wait_for_step_completion *)

\* Mutation: it waits for findings only.
FindingsTracked == {p \in tracked : p[2] = "findings"}

StepJobs == tracked

TasksOver ==
  /\ step = "run" /\ \A t \in Tasks : pc[t] = "over"
  /\ waiting' = StepJobs /\ step' = IF StepJobs = {} THEN "done" ELSE "wait"
  /\ UNCHANGED <<polls, taskVars, stage, raised, tracked, job, faults, stored>>

JobOver(p) ==
  /\ waiting' = waiting \ {p} /\ UNCHANGED polls
  /\ step' = IF waiting' = {} THEN "done" ELSE "wait"

StepFails == step' = "failed" /\ UNCHANGED <<waiting, polls>>

\* Mutation: a job that is at work is asked about for ever.
PollForever(p) == UNCHANGED stepVars

\* Mutation: the last status request does not count.
PollLonger(p) ==
  IF polls[p] > MaxPolls THEN StepFails
  ELSE polls' = [polls EXCEPT ![p] = @ + 1] /\ UNCHANGED <<step, waiting>>

\* A job at work is asked about again until the time is up.
PollAgain(p) ==
  IF polls[p] = MaxPolls THEN StepFails
  ELSE polls' = [polls EXCEPT ![p] = @ + 1] /\ UNCHANGED <<step, waiting>>

\* A job the API does not know counts as completed.
Poll(p) ==
  /\ step = "wait" /\ p \in waiting
  /\ \/ /\ \/ job[p] \in {"completed", "gone"} /\ JobOver(p)
           \/ job[p] = "failed" /\ StepFails
           \/ job[p] \in {"none", "taken"} /\ PollAgain(p)
        /\ UNCHANGED faults
     \/ Fault /\ StepFails
  /\ UNCHANGED <<taskVars, stage, raised, tracked, job, stored>>

-----------------------------------------------------------------------------
(* The API: process_assets_unified, process_findings_unified *)

Becomes(p, from, to) ==
  /\ job[p] \in from /\ job' = [job EXCEPT ![p] = to]
  /\ UNCHANGED <<taskVars, stage, raised, tracked, stepVars>>

\* Type by type the data is stored, then the job is marked completed; nobody
\* looks in between.
Ingest(p) ==
  /\ Becomes(p, {"taken"}, "completed")
  /\ stored' = stored \cup {p} /\ UNCHANGED faults

\* The program is not found; or a type fails, which the job does not show.
IngestFails(p) ==
  /\ Fault /\ UNCHANGED stored
  /\ Becomes(p, {"taken"}, "failed") \/ Becomes(p, {"taken"}, "completed")

\* An hour after its end the job is forgotten.
Forget(p) == Becomes(p, {"completed", "failed"}, "gone") /\ UNCHANGED <<stored, faults>>

\* A restart forgets all jobs, those at work too.
Restart ==
  /\ Fault /\ \E p \in Posts : job[p] \notin {"none", "gone"}
  /\ job' = [p \in Posts |-> IF job[p] = "none" THEN "none" ELSE "gone"]
  /\ UNCHANGED <<taskVars, stage, raised, tracked, stepVars, stored>>

-----------------------------------------------------------------------------

TaskStep(t) == BatchOver(t) \/ Gathered(t) \/ Check(t)

RunnerStep ==
  \/ TasksOver
  \/ \E o \in Outputs : Post(o)
  \/ \E t \in Tasks : TaskStep(t)
  \/ \E p \in Posts : Poll(p)

ApiStep == Restart \/ \E p \in Posts : Ingest(p) \/ IngestFails(p) \/ Forget(p)

Next ==
  \/ RunnerStep \/ ApiStep
  \/ \E o \in Outputs : Arrive(o)
  \/ \E t \in Tasks : Breaks(t)

Spec == Init /\ [][Next]_vars

\* The runner's coroutines run on; the jobs and the API need not.
FairSpec == Spec /\ WF_vars(RunnerStep)

-----------------------------------------------------------------------------
(* Properties *)

\* Every variable stays in its range.
TypeOK ==
  /\ pc \in [Tasks -> {"run", "gather", "check", "over"}]
  /\ stage \in [Outputs -> Kinds \cup {"coming", "missed", "over"}]
  /\ raised \subseteq Posts /\ tracked \subseteq Outputs \X Kinds
  /\ broken \subseteq Tasks
  /\ job \in [Posts -> {"none", "taken", "completed", "failed", "gone"}]
  /\ step \in {"run", "wait", "done", "failed"}
  /\ waiting \subseteq tracked /\ polls \in [Posts -> 0..MaxPolls]
  /\ faults \in 0..MaxFaults /\ stored \subseteq Posts

\* When a step has ended well, no output whose posts were all answered is still
\* being ingested: the next step reads the database (task_components.py:296).
\* A task whose jobs could not be created is excepted: its coroutines may post
\* after the step has looked which jobs there are.
StepWaitsForIngest ==
  step = "done" =>
    \A o \in Outputs :
      stage[o] = "over" /\ TaskOf[o] \notin broken /\ PostsOf(o) \cap raised = {}
        => \A p \in PostsOf(o) : job[p] \in {"completed", "gone"}

\* Without faults all that a step's outputs held is in the database when the
\* step ends, whichever way it was sent.
StoredWithoutFaults ==
  step = "done" /\ faults = 0 =>
    \A o \in Outputs : stage[o] = "over" => PostsOf(o) \subseteq stored

\* Assets are sent again at the end of a task only when no post of them was
\* answered: a partial success, or one of another task, is never sent twice.
ResentAfterFailureOnly ==
  \A t \in Tasks : job[<<t, "batch">>] # "none" =>
    \A o \in OutputsOf(t) \cap Assets : stage[o] = "over" => <<o, "assets">> \in raised

\* A step ends, whatever the jobs and the API do.
StepEnds == <>(step \in {"done", "failed"})

=============================================================================
