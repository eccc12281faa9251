------------------------------ MODULE WorkerJobs ------------------------------
(***************************************************************************)
(* The runner's side of one task: WorkerJobManager creates the task's      *)
(* Kubernetes jobs batch by batch, registers an output handler for each,   *)
(* polls Kubernetes until every job is settled or the time is up, and the  *)
(* task executor uses what the jobs printed                                *)
(* (src/src/runner/app/worker_job_manager.py, task_executor.py,            *)
(* services/kubernetes.py).                                                *)
(*                                                                         *)
(* The way of an output from the worker to the handler is TaskOutput; here *)
(* it is one message that arrives at some time or is lost.  spawn_batch is *)
(* called as every caller does, without sequential_batches.                *)
(***************************************************************************)
EXTENDS Naturals, FiniteSets

CONSTANTS
  NumJobs,      \* commands of the task, one job each
  BatchSize,    \* jobs created at a time
  Rounds,       \* polling rounds before wait_for_batch times out
  PerJob,       \* input targets in one command
  Modes,        \* how outputs may be processed: progressively or at the end
  Env           \* what may go wrong, see EnvKinds

Jobs == 1..NumJobs
Targets == 1..(NumJobs * PerJob)

EnvKinds == {"spawn", "exit", "deadline", "lost", "vanish", "api"}

ASSUME JobsAssumption ==
  /\ NumJobs \in Nat \ {0} /\ BatchSize \in Nat \ {0} /\ Rounds \in Nat \ {0}
  /\ PerJob \in Nat \ {0} /\ Modes \subseteq BOOLEAN /\ Env \subseteq EnvKinds

VARIABLES
  progressive, \* outputs are processed as they arrive
  pc,       \* the task: create, yield, head, poll, done or failed
  next,     \* the first job of the current batch
  todo,     \* jobs the polling round has not looked at
  ask,      \* the job asked about, or 0, and the answer
  rounds,   \* polling rounds so far
  status,   \* JobResult.status, none before the job is tracked
  output,   \* JobResult.output is set
  handler,  \* an output handler is registered for the job
  k8s,      \* the Kubernetes job
  ran,      \* how the command ended
  sent,     \* its output: no, wire, seen or lost
  verdict,  \* what wait_for_batch returned: none, all or some
  used,     \* jobs whose output was processed
  stamped,  \* targets whose last-execution timestamp was written
  missed,   \* history: outputs that found no handler
  late      \* history: outputs processed after the task was over

taskVars   == <<pc, next, todo, ask, rounds>>
resultVars == <<status, output, handler>>
workerVars == <<k8s, ran, sent>>
usageVars  == <<progressive, verdict, used, stamped>>
vars == <<taskVars, resultVars, workerVars, usageVars, missed, late>>

Nothing == [job |-> 0, answer |-> "none"]

Init ==
  /\ pc = "create" /\ next = 1 /\ todo = {} /\ ask = Nothing /\ rounds = 0
  /\ status = [j \in Jobs |-> "none"] /\ output = [j \in Jobs |-> FALSE]
  /\ handler = [j \in Jobs |-> FALSE]
  /\ k8s = [j \in Jobs |-> "none"] /\ ran = [j \in Jobs |-> "no"]
  /\ sent = [j \in Jobs |-> "no"]
  /\ progressive \in Modes
  /\ verdict = "none" /\ used = {} /\ stamped = {} /\ missed = {} /\ late = {}

\* Mutation: the thread that creates the jobs is awaited.
AlwaysLoopFree == TRUE

\* spawn_batch blocks the event loop while the jobs of a batch are created.
LoopFree == pc # "create"

Batch == {j \in Jobs : next <= j /\ j < next + BatchSize}

Completed(j) == status[j] \in {"completed", "failed", "timeout"}
AllCompleted == \A j \in Jobs : Completed(j)

-----------------------------------------------------------------------------
(* spawn_batch *)

\* All jobs of the batch are created in parallel; when one fails, the others
\* still are.
Create(j) ==
  /\ pc \in {"create", "failed"} /\ j \in Batch /\ k8s[j] = "none"
  /\ k8s' = [k8s EXCEPT ![j] = "pending"]
  /\ UNCHANGED <<ran, sent, taskVars, resultVars, usageVars, missed, late>>

\* A creation is refused, or takes over a minute: the task ends with an
\* exception, the handlers of earlier batches stay.
SpawnFails ==
  /\ "spawn" \in Env /\ pc = "create"
  /\ \E j \in Batch :
       /\ k8s[j] = "none"
       /\ k8s' = [k8s EXCEPT ![j] = "gone"] \/ UNCHANGED k8s
  /\ pc' = "failed"
  /\ UNCHANGED <<next, todo, ask, rounds, ran, sent, resultVars, usageVars, missed, late>>

\* The jobs of the batch are tracked and their handlers registered.
Register ==
  /\ pc = "create" /\ \A j \in Batch : k8s[j] # "none"
  /\ status' = [j \in Jobs |-> IF j \in Batch THEN "running" ELSE status[j]]
  /\ handler' = [j \in Jobs |-> j \in Batch \/ handler[j]]
  /\ next' = next + BatchSize
  /\ pc' = IF next' <= NumJobs THEN "yield" ELSE "head"
  /\ UNCHANGED <<todo, ask, rounds, output, workerVars, usageVars, missed, late>>

\* The pause between two batches.
Resume ==
  /\ pc = "yield" /\ pc' = "create"
  /\ UNCHANGED <<next, todo, ask, rounds, resultVars, workerVars, usageVars, missed, late>>

-----------------------------------------------------------------------------
(* wait_for_batch and what the executor does after it *)

\* Mutation: the output of a completed job is not looked at.
SuccessfulByStatus(st) == {j \in Jobs : st[j] = "completed"}

Successful(st) == {j \in Jobs : st[j] = "completed" /\ output[j]}

\* All targets when every job succeeded, else the target at a successful job's
\* position.
Stamps(ok) == IF ok = Jobs THEN Targets ELSE {t \in Targets : t \in ok}

\* Mutation: the handlers stay.
KeepHandlers == UNCHANGED handler

CleanupBatch == handler' = [j \in Jobs |-> FALSE]

Return(st) ==
  LET ok == Successful(st)
  IN  /\ status' = st
      /\ verdict' = IF ok = Jobs THEN "all" ELSE "some"
      /\ used' = IF progressive THEN used ELSE ok
      /\ stamped' = Stamps(ok)
      /\ CleanupBatch
      /\ pc' = "done"
      /\ UNCHANGED <<next, todo, ask, rounds, output, progressive, workerVars, missed, late>>

WaitEnds == pc = "head" /\ AllCompleted /\ Return(status)

\* Mutation: the wait has no limit.
NeverUp == FALSE

TimeUp == rounds = Rounds

TimesOut ==
  /\ pc = "head" /\ ~AllCompleted /\ TimeUp
  /\ Return([j \in Jobs |-> IF Completed(j) THEN status[j] ELSE "timeout"])

StartPoll ==
  /\ pc = "head" /\ ~AllCompleted /\ rounds < Rounds
  /\ pc' = "poll" /\ todo' = Jobs /\ rounds' = rounds + 1
  /\ UNCHANGED <<next, ask, resultVars, workerVars, usageVars, missed, late>>

-----------------------------------------------------------------------------
(* _check_kubernetes_job_statuses: ask in a thread, apply the answer later *)

\* The jobs are looked at in order, the completed ones are skipped.
Ask(j) ==
  /\ pc = "poll" /\ ask = Nothing /\ j \in todo /\ \A i \in todo : j <= i
  /\ IF Completed(j)
       THEN todo' = todo \ {j} /\ UNCHANGED ask
       ELSE ask' = [job |-> j, answer |-> "asked"] /\ UNCHANGED todo
  /\ UNCHANGED <<pc, next, rounds, resultVars, workerVars, usageVars, missed, late>>

\* get_job_status: a job that is not there counts as completed.
JobStatus(s) ==
  CASE s = "active"   -> "Running"
    [] s = "failed"   -> "Failed"
    [] s = "deadline" -> "TimedOut"
    [] s \in {"succeeded", "gone"} -> "Completed"
    [] OTHER -> "Pending"

Answer ==
  /\ ask.answer = "asked"
  /\ \/ ask' = [ask EXCEPT !.answer = JobStatus(k8s[ask.job])]
     \/ "api" \in Env /\ ask' = [ask EXCEPT !.answer = "error"]
  /\ UNCHANGED <<pc, next, todo, rounds, resultVars, workerVars, usageVars, missed, late>>

\* Mutation: the answer is taken over as it is.
StatusVerbatim(answer) == answer

StatusAfter(answer) ==
  [Completed |-> "completed", Failed |-> "failed", TimedOut |-> "timeout",
   Running |-> "running"][answer]

\* The answer is applied to whatever the job has become.
Apply ==
  /\ ask.answer \notin {"none", "asked"}
  /\ status' = IF ask.answer \in {"Pending", "error"} THEN status
               ELSE [status EXCEPT ![ask.job] = StatusAfter(ask.answer)]
  /\ todo' = todo \ {ask.job} /\ ask' = Nothing
  /\ UNCHANGED <<pc, next, rounds, output, handler, workerVars, usageVars, missed, late>>

PollEnds ==
  /\ pc = "poll" /\ todo = {} /\ ask = Nothing
  /\ pc' = "head"
  /\ UNCHANGED <<next, todo, ask, rounds, resultVars, workerVars, usageVars, missed, late>>

-----------------------------------------------------------------------------
(* Outputs *)

\* The output of a job reaches the client: its handler completes the job.
Deliver(j) ==
  /\ LoopFree /\ sent[j] = "wire"
  /\ sent' = [sent EXCEPT ![j] = "seen"]
  /\ IF handler[j]
       THEN /\ status' = [status EXCEPT ![j] = "completed"]
            /\ output' = [output EXCEPT ![j] = TRUE]
            /\ handler' = [handler EXCEPT ![j] = FALSE]
            /\ used' = IF progressive THEN used \cup {j} ELSE used
            /\ late' = IF pc \in {"done", "failed"} THEN late \cup {j} ELSE late
            /\ UNCHANGED missed
       ELSE missed' = missed \cup {j} /\ UNCHANGED <<resultVars, used, late>>
  /\ UNCHANGED <<taskVars, k8s, ran, progressive, verdict, stamped>>

-----------------------------------------------------------------------------
(* Kubernetes and the worker *)

Moves(j, from, to) ==
  /\ k8s[j] \in from /\ k8s' = [k8s EXCEPT ![j] = to]
  /\ UNCHANGED <<ran, sent, taskVars, resultVars, usageVars, missed, late>>

\* Kueue admits the job.
Admit(j) == Moves(j, {"pending"}, "active")

\* The wrapper publishes the output, whatever the command's exit code.
CommandEnds(j) ==
  /\ k8s[j] = "active" /\ ran[j] = "no"
  /\ \E code \in {"ok"} \cup (IF "exit" \in Env THEN {"bad"} ELSE {}) :
       ran' = [ran EXCEPT ![j] = code]
  /\ \E way \in {"wire"} \cup (IF "lost" \in Env THEN {"lost"} ELSE {}) :
       sent' = [sent EXCEPT ![j] = way]
  /\ UNCHANGED <<k8s, taskVars, resultVars, usageVars, missed, late>>

\* It exits with the command's exit code.
Exits(j) ==
  \/ ran[j] = "ok" /\ Moves(j, {"active"}, "succeeded")
  \/ ran[j] = "bad" /\ Moves(j, {"active"}, "failed")

\* activeDeadlineSeconds, ttlSecondsAfterFinished or a deletion.
Ends(j) ==
  \/ "deadline" \in Env /\ Moves(j, {"active"}, "deadline")
  \/ "vanish" \in Env
     /\ Moves(j, {"pending", "active", "succeeded", "failed", "deadline"}, "gone")

-----------------------------------------------------------------------------

TaskStep ==
  \/ Register \/ Resume \/ WaitEnds \/ TimesOut \/ StartPoll \/ Answer \/ Apply
  \/ PollEnds \/ \E j \in Jobs : Create(j) \/ Ask(j)

JobStep(j) == Admit(j) \/ CommandEnds(j) \/ Exits(j) \/ Ends(j) \/ Deliver(j)

Next == TaskStep \/ SpawnFails \/ \E j \in Jobs : JobStep(j)

Spec == Init /\ [][Next]_vars

\* The coroutine runs on and Kubernetes answers; the jobs need not run.
FairSpec == Spec /\ WF_vars(TaskStep)

-----------------------------------------------------------------------------
(* Properties *)

\* Every variable stays in its range.
TypeOK ==
  /\ pc \in {"create", "yield", "head", "poll", "done", "failed"}
  /\ next \in Nat /\ todo \subseteq Jobs /\ rounds \in 0..Rounds
  /\ ask.job \in Jobs \cup {0}
  /\ status \in [Jobs -> {"none", "running", "completed", "failed", "timeout"}]
  /\ output \in [Jobs -> BOOLEAN] /\ handler \in [Jobs -> BOOLEAN]
  /\ k8s \in [Jobs -> {"none", "pending", "active", "succeeded", "failed",
                       "deadline", "gone"}]
  /\ ran \in [Jobs -> {"no", "ok", "bad"}]
  /\ sent \in [Jobs -> {"no", "wire", "seen", "lost"}]
  /\ verdict \in {"none", "all", "some"}
  /\ progressive \in Modes /\ used \subseteq Jobs /\ stamped \subseteq Targets
  /\ missed \subseteq Jobs /\ late \subseteq Jobs

\* However fast a job is, its output finds the handler as long as the task
\* runs: handlers are registered after the jobs are created, but no output is
\* taken in between.
NoOutputMissed == missed # {} => pc \in {"done", "failed"}

\* A wait that reports complete success comes after the output of every job
\* arrived, and every one is processed, whatever Kubernetes said and when.
SuccessHasOutputs ==
  verdict = "all" => used = Jobs /\ \A j \in Jobs : sent[j] = "seen"

\* A task that could create its jobs processes no output after it is over: only
\* a failed creation leaves handlers behind.
NoLateProcessing == late # {} => pc = "failed"

\* The task ends, whatever the jobs do.
WaitReturns == <>(pc \in {"done", "failed"})

\* "When some jobs fail, updates timestamps only for targets whose job
\* succeeded" (task_executor.py:3645): a target is marked as done, and left out
\* of the next runs, only if what its job printed was processed.  Every job
\* carries PerJob targets; the code is right for PerJob = 1 only.
StampsAreEarned ==
  \A t \in stamped : ((t - 1) \div PerJob) + 1 \in used

=============================================================================
