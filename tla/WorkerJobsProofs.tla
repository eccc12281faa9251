--------------------------- MODULE WorkerJobsProofs ---------------------------
(***************************************************************************)
(* Proofs about WorkerJobs, for every number of jobs, every batch size and *)
(* polling limit and everything that may go wrong.                         *)
(***************************************************************************)
EXTENDS WorkerJobs, TLAPS

Answers == {"none", "asked", "error", "Pending", "Running", "Completed",
            "Failed", "TimedOut"}

\* The question to Kubernetes keeps its range, and an answer is about a job.
AskOK ==
  /\ ask \in [job : Jobs \cup {0}, answer : Answers]
  /\ ask.answer # "none" => ask.job \in Jobs

Typed == TypeOK /\ AskOK

\* What Kubernetes says of a job is one of the answers.
LEMMA JobStatusType ==
  ASSUME NEW s
  PROVE  JobStatus(s) \in Answers \ {"none", "asked", "error"}
BY DEF JobStatus, Answers

\* An answer becomes a status of JobResult.
LEMMA StatusAfterType ==
  ASSUME NEW a \in {"Completed", "Failed", "TimedOut", "Running"}
  PROVE  StatusAfter(a) \in {"running", "completed", "failed", "timeout"}
BY DEF StatusAfter

\* The targets that are stamped are targets of the task.
LEMMA StampsType ==
  ASSUME NEW ok PROVE Stamps(ok) \subseteq Targets
BY DEF Stamps

\* The return of wait_for_batch keeps every variable in its range.
LEMMA ReturnType ==
  ASSUME Typed,
         NEW st \in [Jobs -> {"none", "running", "completed", "failed", "timeout"}],
         Return(st)
  PROVE  Typed'
<1>1. Successful(st) \subseteq Jobs
  BY DEF Successful
<1>2. stamped' \subseteq Targets /\ used' \subseteq Jobs
  BY <1>1, StampsType DEF Return, Typed, TypeOK
<1>3. handler' \in [Jobs -> BOOLEAN]
  BY DEF Return, CleanupBatch
<1>4. verdict' \in {"none", "all", "some"}
  BY DEF Return
<1>5. QED
  BY <1>2, <1>3, <1>4 DEF Return, workerVars, Typed, TypeOK, AskOK

\* A job's own steps keep every variable in its range.
LEMMA JobStepType ==
  ASSUME Typed, NEW j \in Jobs, JobStep(j)
  PROVE  Typed'
<1> USE DEF taskVars, resultVars, workerVars, usageVars
<1>1. CASE Admit(j)
  BY <1>1 DEF Admit, Moves, Typed, TypeOK, AskOK
<1>2. CASE CommandEnds(j)
  BY <1>2 DEF CommandEnds, Typed, TypeOK, AskOK
<1>3. CASE Exits(j)
  BY <1>3 DEF Exits, Moves, Typed, TypeOK, AskOK
<1>4. CASE Ends(j)
  BY <1>4 DEF Ends, Moves, Typed, TypeOK, AskOK
<1>5. CASE Deliver(j)
  <2>1. sent' \in [Jobs -> {"no", "wire", "seen", "lost"}]
    BY <1>5 DEF Deliver, Typed, TypeOK
  <2>2. /\ status' \in [Jobs -> {"none", "running", "completed", "failed", "timeout"}]
        /\ output' \in [Jobs -> BOOLEAN] /\ handler' \in [Jobs -> BOOLEAN]
    BY <1>5 DEF Deliver, Typed, TypeOK
  <2>3. used' \subseteq Jobs /\ late' \subseteq Jobs /\ missed' \subseteq Jobs
    BY <1>5 DEF Deliver, Typed, TypeOK
  <2>4. QED
    BY <1>5, <2>1, <2>2, <2>3 DEF Deliver, Typed, TypeOK, AskOK
<1>6. QED
  BY <1>1, <1>2, <1>3, <1>4, <1>5 DEF JobStep

\* The task's steps do.
LEMMA TaskStepType ==
  ASSUME Typed, TaskStep \/ SpawnFails
  PROVE  Typed'
<1> USE JobsAssumption DEF taskVars, resultVars, workerVars, usageVars
<1>1. CASE Register
  <2>1. /\ next' \in Nat /\ pc' \in {"yield", "head"}
        /\ handler' \in [Jobs -> BOOLEAN]
    BY <1>1 DEF Register, Typed, TypeOK
  <2>2. status' \in [Jobs -> {"none", "running", "completed", "failed", "timeout"}]
    BY <1>1 DEF Register, Typed, TypeOK
  <2>3. QED
    BY <1>1, <2>1, <2>2 DEF Register, Typed, TypeOK, AskOK
<1>2. CASE Resume
  BY <1>2 DEF Resume, Typed, TypeOK, AskOK
<1>3. CASE WaitEnds
  BY <1>3, ReturnType DEF WaitEnds, Typed, TypeOK
<1>4. CASE TimesOut
  <2> DEFINE st == [j \in Jobs |-> IF Completed(j) THEN status[j] ELSE "timeout"]
  <2>1. st \in [Jobs -> {"none", "running", "completed", "failed", "timeout"}]
    BY DEF Completed
  <2>2. Return(st)
    BY <1>4 DEF TimesOut
  <2>3. QED
    BY <2>1, <2>2, ReturnType
<1>5. CASE StartPoll
  BY <1>5 DEF StartPoll, Typed, TypeOK, AskOK
<1>6. CASE Answer
  <2>1. PICK a \in Answers \ {"none", "asked"} : ask' = [ask EXCEPT !.answer = a]
    BY <1>6, JobStatusType DEF Answer, Answers
  <2>2. ask.job \in Jobs
    BY <1>6 DEF Answer, Typed, AskOK
  <2>3. AskOK' /\ ask'.job \in Jobs
    BY <2>1, <2>2 DEF Typed, AskOK
  <2>4. QED
    BY <1>6, <2>3 DEF Answer, Typed, TypeOK
<1>7. CASE Apply
  <2>1. ask.job \in Jobs /\ ask.answer \in Answers \ {"none", "asked"}
    BY <1>7 DEF Apply, Typed, AskOK, Answers
  <2>2. ask.answer \notin {"Pending", "error"} =>
          StatusAfter(ask.answer) \in {"running", "completed", "failed", "timeout"}
    BY <2>1, StatusAfterType DEF Answers
  <2>3. status' \in [Jobs -> {"none", "running", "completed", "failed", "timeout"}]
    BY <1>7, <2>1, <2>2 DEF Apply, Typed, TypeOK
  <2>4. AskOK' /\ ask'.job \in Jobs \cup {0}
    BY <1>7 DEF Apply, Nothing, AskOK, Answers
  <2>5. QED
    BY <1>7, <2>3, <2>4 DEF Apply, Typed, TypeOK
<1>8. CASE PollEnds
  BY <1>8 DEF PollEnds, Typed, TypeOK, AskOK
<1>9. ASSUME NEW j \in Jobs, Create(j) PROVE Typed'
  BY <1>9 DEF Create, Typed, TypeOK, AskOK
<1>10. ASSUME NEW j \in Jobs, Ask(j) PROVE Typed'
  <2>1. ask' = ask \/ ask' = [job |-> j, answer |-> "asked"]
    BY <1>10 DEF Ask
  <2>2. AskOK' /\ ask'.job \in Jobs \cup {0}
    BY <1>10, <2>1 DEF Typed, TypeOK, AskOK, Answers
  <2>3. QED
    BY <1>10, <2>2 DEF Ask, Typed, TypeOK
<1>11. CASE SpawnFails
  BY <1>11 DEF SpawnFails, Typed, TypeOK, AskOK
<1>12. QED
  BY <1>1, <1>2, <1>3, <1>4, <1>5, <1>6, <1>7, <1>8, <1>9, <1>10, <1>11 DEF TaskStep

\* Every step keeps the ranges.
LEMMA StepTyped == Typed /\ [Next]_vars => Typed'
<1>1. Typed /\ UNCHANGED vars => Typed'
  BY DEF vars, taskVars, resultVars, workerVars, usageVars, Typed, TypeOK, AskOK
<1>2. QED
  BY <1>1, JobStepType, TaskStepType DEF Next

-----------------------------------------------------------------------------
\* Every job of the batches before the current one is in Kubernetes, nothing
\* is created ahead of the current batch, and outside the creation of a batch
\* there is no job but those that are tracked.
CreatedInOrder ==
  /\ \A j \in Jobs : j < next => k8s[j] # "none"
  /\ pc # "failed" => \A j \in Jobs : k8s[j] # "none" => j < next + BatchSize
  /\ pc \in {"yield", "head", "poll"} =>
       \A j \in Jobs : k8s[j] # "none" => j < next

\* An output comes from a command that ran, in a job that was created.
OutputsComeFromRuns ==
  \A j \in Jobs :
    /\ ran[j] # "no" => k8s[j] # "none"
    /\ sent[j] # "no" => ran[j] # "no"

\* As long as the task runs, a tracked job whose output has not come has its
\* handler; a task that returned has none.
HandlersWait ==
  /\ pc \notin {"done", "failed"} =>
       \A j \in Jobs : j < next => handler[j] \/ sent[j] = "seen"
  /\ pc = "done" => \A j \in Jobs : ~handler[j]

\* An output that was taken was seen, and processed if that is done at once.
OutputsTaken ==
  \A j \in Jobs : output[j] => sent[j] = "seen" /\ (progressive => j \in used)

\* Verdict and timestamps are given at the end.
EndsOnce ==
  pc # "done" => verdict = "none" /\ stamped = {}

Tracked ==
  /\ CreatedInOrder /\ OutputsComeFromRuns /\ HandlersWait
  /\ NoOutputMissed /\ NoLateProcessing

Results == OutputsTaken /\ EndsOnce /\ SuccessHasOutputs

\* Timestamps are earned if every job carries one target, and with any number
\* of them if the task was a complete success.
EarnedStamps == PerJob = 1 \/ verdict = "all" => StampsAreEarned

\* The inductive invariant.
IInv == Typed /\ Tracked /\ Results /\ EarnedStamps

\* The jobs of a batch are between next and next + BatchSize.
LEMMA RegisterTracks ==
  ASSUME Typed, Tracked, Register
  PROVE  Tracked'
<1> USE JobsAssumption DEF workerVars, usageVars
<1>1. /\ pc' \in {"yield", "head"} /\ next' = next + BatchSize
      /\ k8s' = k8s /\ ran' = ran /\ sent' = sent /\ next \in Nat
      /\ missed' = missed /\ late' = late /\ pc = "create"
  BY DEF Register, Typed, TypeOK
<1>2. \A j \in Jobs : j < next' => j < next \/ j \in Batch
  BY <1>1 DEF Batch, Jobs
<1>3. \A j \in Jobs : j < next' => k8s[j] # "none"
  BY <1>1, <1>2 DEF Register, Tracked, CreatedInOrder
<1>4. CreatedInOrder'
  BY <1>1, <1>3 DEF Tracked, CreatedInOrder, Jobs
<1>5. HandlersWait'
  BY <1>1, <1>2 DEF Register, Tracked, HandlersWait
<1>6. QED
  BY <1>1, <1>4, <1>5
     DEF Tracked, OutputsComeFromRuns, NoOutputMissed, NoLateProcessing

\* The return of wait_for_batch takes the handlers away.
LEMMA ReturnTracks ==
  ASSUME Typed, Tracked, pc = "head", NEW st, Return(st)
  PROVE  Tracked'
<1>1. /\ pc' = "done" /\ next' = next /\ missed' = missed /\ late' = late
      /\ k8s' = k8s /\ ran' = ran /\ sent' = sent
      /\ handler' = [j \in Jobs |-> FALSE]
  BY DEF Return, CleanupBatch, workerVars
<1>2. CreatedInOrder' /\ OutputsComeFromRuns' /\ HandlersWait'
  BY <1>1 DEF Tracked, CreatedInOrder, OutputsComeFromRuns, HandlersWait
<1>3. QED
  BY <1>1, <1>2 DEF Tracked, NoOutputMissed, NoLateProcessing

\* A polling round changes neither jobs nor handlers.
LEMMA PollTracks ==
  ASSUME Typed, Tracked,
         UNCHANGED <<next, k8s, ran, sent, handler, missed, late>>,
         \/ pc' = pc
         \/ pc = "yield" /\ pc' = "create"
         \/ pc = "head" /\ pc' = "poll"
         \/ pc = "poll" /\ pc' = "head"
  PROVE  Tracked'
BY DEF Tracked, CreatedInOrder, OutputsComeFromRuns, HandlersWait,
       NoOutputMissed, NoLateProcessing

\* A job that is created while its batch is not yet tracked.
LEMMA CreateTracks ==
  ASSUME Typed, Tracked, pc \in {"create", "failed"},
         NEW j \in Jobs, j \in Batch,
         NEW s \in {"pending", "gone"}, k8s' = [k8s EXCEPT ![j] = s],
         pc' = pc \/ pc' = "failed",
         UNCHANGED <<next, ran, sent, handler, missed, late>>
  PROVE  Tracked'
<1>1. k8s \in [Jobs -> {"none", "pending", "active", "succeeded", "failed",
                        "deadline", "gone"}]
  BY DEF Typed, TypeOK
<1>2. CreatedInOrder'
  BY <1>1 DEF Tracked, CreatedInOrder, Batch
<1>3. OutputsComeFromRuns' /\ HandlersWait'
  BY <1>1 DEF Tracked, OutputsComeFromRuns, HandlersWait
<1>4. QED
  BY <1>2, <1>3 DEF Tracked, NoOutputMissed, NoLateProcessing

\* An output that arrives while the task runs meets its handler.
LEMMA DeliverTracks ==
  ASSUME Typed, Tracked, NEW j \in Jobs, Deliver(j)
  PROVE  Tracked'
<1> USE DEF taskVars, resultVars
<1>1. /\ pc' = pc /\ next' = next /\ k8s' = k8s /\ ran' = ran /\ pc # "create"
      /\ sent[j] = "wire" /\ sent' = [sent EXCEPT ![j] = "seen"]
  BY DEF Deliver, LoopFree
<1>2. sent \in [Jobs -> {"no", "wire", "seen", "lost"}] /\ handler \in [Jobs -> BOOLEAN]
  BY DEF Typed, TypeOK
<1>3. k8s[j] # "none"
  BY <1>1 DEF Tracked, OutputsComeFromRuns
<1>4. pc \notin {"done", "failed"} => handler[j]
  BY <1>1, <1>3 DEF Tracked, CreatedInOrder, HandlersWait, Typed, TypeOK
<1>5. CreatedInOrder' /\ OutputsComeFromRuns'
  BY <1>1, <1>2 DEF Tracked, CreatedInOrder, OutputsComeFromRuns
<1>6. HandlersWait'
  BY <1>1, <1>2 DEF Deliver, Tracked, HandlersWait
<1>7. NoOutputMissed'
  BY <1>1, <1>4 DEF Deliver, Tracked, NoOutputMissed
<1>8. NoLateProcessing'
  BY <1>1 DEF Deliver, Tracked, NoLateProcessing, HandlersWait
<1>9. QED
  BY <1>5, <1>6, <1>7, <1>8 DEF Tracked

\* What happens to a job in Kubernetes, or in its pod, touches no handler.
LEMMA JobTracks ==
  ASSUME Typed, Tracked, NEW j \in Jobs,
         Admit(j) \/ CommandEnds(j) \/ Exits(j) \/ Ends(j)
  PROVE  Tracked'
<1>1. /\ UNCHANGED <<pc, next, handler, missed, late>>
      /\ k8s[j] # "none"
      /\ \/ UNCHANGED <<ran, sent>>
            /\ \E to \in {"active", "succeeded", "failed", "deadline", "gone"} :
                 k8s' = [k8s EXCEPT ![j] = to]
         \/ UNCHANGED k8s /\ sent[j] # "seen"
            /\ \E code \in {"ok", "bad"} : ran' = [ran EXCEPT ![j] = code]
            /\ \E way \in {"wire", "lost"} : sent' = [sent EXCEPT ![j] = way]
  BY DEF Admit, CommandEnds, Exits, Ends, Moves, taskVars, resultVars, Tracked,
         OutputsComeFromRuns
<1>2. k8s \in [Jobs -> {"none", "pending", "active", "succeeded", "failed",
                        "deadline", "gone"}]
      /\ ran \in [Jobs -> {"no", "ok", "bad"}]
      /\ sent \in [Jobs -> {"no", "wire", "seen", "lost"}]
  BY DEF Typed, TypeOK
<1>3. CreatedInOrder'
  BY <1>1, <1>2 DEF Tracked, CreatedInOrder
<1>4. OutputsComeFromRuns' /\ HandlersWait'
  BY <1>1, <1>2 DEF Tracked, OutputsComeFromRuns, HandlersWait
<1>5. QED
  BY <1>1, <1>3, <1>4 DEF Tracked, NoOutputMissed, NoLateProcessing

\* Every step keeps the bookkeeping of jobs and handlers.
LEMMA StepTracks == Typed /\ Tracked /\ [Next]_vars => Tracked'
<1> SUFFICES ASSUME Typed, Tracked, [Next]_vars PROVE Tracked'
  OBVIOUS
<1> USE DEF taskVars, resultVars, workerVars, usageVars
<1>1. CASE Register
  BY <1>1, RegisterTracks
<1>2. CASE Resume \/ StartPoll \/ Answer \/ Apply \/ PollEnds \/ UNCHANGED vars
  BY <1>2, PollTracks DEF Resume, StartPoll, Answer, Apply, PollEnds, vars
<1>3. CASE WaitEnds \/ TimesOut
  BY <1>3, ReturnTracks DEF WaitEnds, TimesOut
<1>4. ASSUME NEW j \in Jobs, Create(j) PROVE Tracked'
  BY <1>4, CreateTracks DEF Create
<1>5. ASSUME NEW j \in Jobs, Ask(j) PROVE Tracked'
  BY <1>5, PollTracks DEF Ask
<1>6. CASE SpawnFails
  <2>1. PICK j \in Batch : k8s' = [k8s EXCEPT ![j] = "gone"] \/ UNCHANGED k8s
    BY <1>6 DEF SpawnFails
  <2>2. CASE UNCHANGED k8s
    BY <1>6, <2>2 DEF SpawnFails, Tracked, CreatedInOrder, OutputsComeFromRuns,
                      HandlersWait, NoOutputMissed, NoLateProcessing
  <2>3. CASE k8s' = [k8s EXCEPT ![j] = "gone"]
    BY <1>6, <2>1, <2>3, CreateTracks DEF SpawnFails, Batch
  <2>4. QED
    BY <2>1, <2>2, <2>3
<1>7. ASSUME NEW j \in Jobs, JobStep(j) PROVE Tracked'
  BY <1>7, DeliverTracks, JobTracks DEF JobStep
<1>8. QED
  BY <1>1, <1>2, <1>3, <1>4, <1>5, <1>6, <1>7 DEF Next, TaskStep

\* What wait_for_batch returns is what arrived: complete success means that
\* every output was seen and, at the latest now, processed.
LEMMA ReturnResults ==
  ASSUME Typed, Results, pc = "head", NEW st, Return(st)
  PROVE  Results'
<1>1. /\ sent' = sent /\ output' = output /\ progressive' = progressive
      /\ verdict' = (IF Successful(st) = Jobs THEN "all" ELSE "some")
      /\ used' = (IF progressive THEN used ELSE Successful(st))
      /\ used \subseteq Jobs
  BY DEF Return, workerVars, Typed, TypeOK
<1>2. OutputsTaken'
  BY <1>1 DEF Results, OutputsTaken
<1>3. SuccessHasOutputs'
  BY <1>1 DEF Results, OutputsTaken, SuccessHasOutputs, Successful
<1>4. EndsOnce'
  BY DEF Return, EndsOnce
<1>5. QED
  BY <1>2, <1>3, <1>4 DEF Results

\* Steps that take no output keep the results.
LEMMA ResultsStay ==
  ASSUME Results, pc # "done", pc' # "done",
         UNCHANGED <<output, sent, progressive, used, verdict, stamped>>
  PROVE  Results'
BY DEF Results, OutputsTaken, EndsOnce, SuccessHasOutputs

\* The steps of a job keep the results, before the task returns and after.
LEMMA JobResults ==
  ASSUME Typed, Tracked, Results, NEW j \in Jobs, JobStep(j)
  PROVE  Results'
<1> USE DEF taskVars, resultVars, workerVars, usageVars
<1>1. /\ sent \in [Jobs -> {"no", "wire", "seen", "lost"}]
      /\ output \in [Jobs -> BOOLEAN] /\ used \subseteq Jobs
  BY DEF Typed, TypeOK
<1>2. CASE Admit(j) \/ Exits(j) \/ Ends(j)
  BY <1>2 DEF Admit, Exits, Ends, Moves, Results, OutputsTaken, EndsOnce, SuccessHasOutputs
<1>3. CASE CommandEnds(j)
  <2>1. sent[j] # "seen"
    BY <1>3 DEF CommandEnds, Tracked, OutputsComeFromRuns
  <2>2. PICK way \in {"wire", "lost"} : sent' = [sent EXCEPT ![j] = way]
    BY <1>3 DEF CommandEnds
  <2>3. OutputsTaken' /\ SuccessHasOutputs'
    BY <1>1, <1>3, <2>1, <2>2
       DEF CommandEnds, Results, OutputsTaken, SuccessHasOutputs
  <2>4. QED
    BY <1>3, <2>3 DEF CommandEnds, Results, EndsOnce
<1>4. CASE Deliver(j)
  <2>1. /\ sent' = [sent EXCEPT ![j] = "seen"] /\ used \subseteq used'
        /\ UNCHANGED <<pc, progressive, verdict, stamped>> /\ used' \subseteq Jobs
    BY <1>1, <1>4 DEF Deliver
  <2>2. OutputsTaken'
    BY <1>1, <1>4, <2>1 DEF Deliver, Results, OutputsTaken
  <2>3. SuccessHasOutputs' /\ EndsOnce'
    BY <1>1, <2>1 DEF Results, SuccessHasOutputs, EndsOnce
  <2>4. QED
    BY <2>2, <2>3 DEF Results
<1>5. QED
  BY <1>2, <1>3, <1>4 DEF JobStep

\* Every step keeps them.
LEMMA StepResults == Typed /\ Tracked /\ Results /\ [Next]_vars => Results'
<1> SUFFICES ASSUME Typed, Tracked, Results, [Next]_vars PROVE Results'
  OBVIOUS
<1> USE DEF taskVars, resultVars, workerVars, usageVars
<1>1. CASE Register \/ Resume \/ StartPoll \/ PollEnds \/ SpawnFails
  BY <1>1, ResultsStay DEF Register, Resume, StartPoll, PollEnds, SpawnFails
<1>2. CASE WaitEnds \/ TimesOut
  BY <1>2, ReturnResults DEF WaitEnds, TimesOut
<1>3. CASE Answer \/ Apply \/ UNCHANGED vars \/ \E j \in Jobs : Create(j) \/ Ask(j)
  BY <1>3 DEF Answer, Apply, vars, Create, Ask, Results, OutputsTaken, EndsOnce,
              SuccessHasOutputs
<1>4. ASSUME NEW j \in Jobs, JobStep(j) PROVE Results'
  BY <1>4, JobResults
<1>5. QED
  BY <1>1, <1>2, <1>3, <1>4 DEF Next, TaskStep

\* A target belongs to a job of the task.
LEMMA JobOfTarget ==
  ASSUME NEW t \in Targets
  PROVE  ((t - 1) \div PerJob) + 1 \in Jobs /\ (PerJob = 1 => ((t - 1) \div PerJob) + 1 = t)
<1>1. PerJob \in Nat \ {0} /\ NumJobs \in Nat /\ t \in 1..(NumJobs * PerJob)
  BY JobsAssumption DEF Targets
<1>2. ((t - 1) \div PerJob) + 1 \in 1..NumJobs
  BY <1>1
<1>3. PerJob = 1 => ((t - 1) \div PerJob) + 1 = t
  BY <1>1
<1>4. QED
  BY <1>2, <1>3 DEF Jobs

\* Every step keeps the timestamps earned: only the return writes any.
LEMMA StepStamps == IInv /\ [Next]_vars => EarnedStamps'
<1> SUFFICES ASSUME IInv, [Next]_vars, PerJob = 1 \/ verdict' = "all", NEW t \in stamped'
             PROVE  ((t - 1) \div PerJob) + 1 \in used'
  BY DEF EarnedStamps, StampsAreEarned
<1> DEFINE job == ((t - 1) \div PerJob) + 1
<1> USE DEF taskVars, resultVars, workerVars, usageVars
<1>1. CASE UNCHANGED <<stamped, verdict>> /\ used \subseteq used'
  BY <1>1 DEF IInv, EarnedStamps, StampsAreEarned
<1>2. ASSUME pc = "head", NEW st, Return(st)
      PROVE  job \in used'
  <2>1. t \in Targets /\ job \in Jobs /\ (PerJob = 1 => job = t)
    BY <1>2, StampsType, JobOfTarget DEF Return
  <2>2. Successful(st) \subseteq used'
    BY <1>2 DEF Return, Successful, IInv, Results, OutputsTaken
  <2>3. CASE Successful(st) = Jobs
    BY <2>1, <2>2, <2>3
  <2>4. CASE Successful(st) # Jobs
    <3>1. PerJob = 1 /\ t \in Successful(st)
      BY <1>2, <2>4 DEF Return, Stamps
    <3>2. QED
      BY <2>1, <2>2, <3>1
  <2>5. QED
    BY <2>3, <2>4
<1>3. CASE WaitEnds \/ TimesOut
  BY <1>2, <1>3 DEF WaitEnds, TimesOut
<1>4. CASE \/ Register \/ Resume \/ StartPoll \/ Answer \/ Apply \/ PollEnds
           \/ SpawnFails \/ UNCHANGED vars \/ \E j \in Jobs : Create(j) \/ Ask(j)
  BY <1>1, <1>4 DEF Register, Resume, StartPoll, Answer, Apply, PollEnds, SpawnFails,
                    Create, Ask, vars
<1>5. ASSUME NEW j \in Jobs, JobStep(j) PROVE job \in used'
  BY <1>1, <1>5 DEF JobStep, Admit, CommandEnds, Exits, Ends, Moves, Deliver
<1>6. QED
  BY <1>3, <1>4, <1>5 DEF Next, TaskStep

-----------------------------------------------------------------------------
(* The invariants of the runs *)

\* The bookkeeping of jobs, handlers and outputs holds in every state: what the
\* other theorems are drawn from.
THEOREM WorkerInvariant == Spec => []IInv
<1>1. Init => IInv
  <2>1. Init => Tracked
    BY JobsAssumption
       DEF Init, Tracked, CreatedInOrder, OutputsComeFromRuns, HandlersWait,
           NoOutputMissed, NoLateProcessing, Jobs
  <2>2. Init => Results
    BY DEF Init, Results, OutputsTaken, EndsOnce, SuccessHasOutputs
  <2>3. Init => Typed
    BY JobsAssumption DEF Init, Nothing, Typed, TypeOK, AskOK, Answers
  <2>4. Init => EarnedStamps
    BY DEF Init, EarnedStamps, StampsAreEarned
  <2>5. QED
    BY <2>1, <2>2, <2>3, <2>4 DEF IInv
<1>2. IInv /\ [Next]_vars => IInv'
  BY StepTyped, StepTracks, StepResults, StepStamps DEF IInv
<1>3. QED
  BY <1>1, <1>2, PTL DEF Spec

\* Type correctness: whatever fails, no variable of the task or of its jobs
\* leaves its range.
THEOREM WorkerTypeCorrect == Spec => []TypeOK
<1>1. IInv => TypeOK
  BY DEF IInv, Typed
<1>2. QED
  BY <1>1, WorkerInvariant, PTL

\* No output of a running task misses its handler, however fast the job is and
\* however many batches there are: handlers are registered after the jobs are
\* created (spawn_batch), with the event loop blocked until then.
THEOREM HandlersInTime == Spec => []NoOutputMissed
<1>1. IInv => NoOutputMissed
  BY DEF IInv, Tracked
<1>2. QED
  BY <1>1, WorkerInvariant, PTL

\* Complete success is reported only when every job's output arrived and was
\* processed, whatever Kubernetes answered and when (wait_for_batch).
THEOREM SuccessIsComplete == Spec => []SuccessHasOutputs
<1>1. IInv => SuccessHasOutputs
  BY DEF IInv, Results
<1>2. QED
  BY <1>1, WorkerInvariant, PTL

\* A task that returned processes nothing more: cleanup_batch leaves no handler.
THEOREM NothingAfterReturn == Spec => []NoLateProcessing
<1>1. IInv => NoLateProcessing
  BY DEF IInv, Tracked
<1>2. QED
  BY <1>1, WorkerInvariant, PTL

\* A target is marked as done only if what its job printed was processed, in a
\* task with one target for each job, and in every task that succeeded as a
\* whole (update_last_execution_threshold): for other tasks it does not hold.
THEOREM StampsEarned ==
  Spec => [](PerJob = 1 \/ verdict = "all" => StampsAreEarned)
<1>1. IInv => (PerJob = 1 \/ verdict = "all" => StampsAreEarned)
  BY DEF IInv, EarnedStamps
<1>2. QED
  BY <1>1, WorkerInvariant, PTL

=============================================================================
