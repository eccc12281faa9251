------------------------- MODULE StepStreamingProofs -------------------------
(***************************************************************************)
(* Proofs about StepStreaming, for every set of tasks and outputs and any  *)
(* number of faults and status requests.                                   *)
(***************************************************************************)
EXTENDS StepStreaming, TLAPS

\* The posts of an output are pairs of the output and a kind.
LEMMA PostsOfType ==
  ASSUME NEW o \in Outputs
  PROVE  /\ PostsOf(o) \subseteq {o} \X Kinds
         /\ PostsOf(o) \subseteq Outputs \X Kinds /\ PostsOf(o) \subseteq Posts
BY DEF PostsOf, Posts

\* The batch of a task is a post of its own.
LEMMA BatchPostType ==
  ASSUME NEW t \in Tasks
  PROVE  /\ <<t, "batch">> \in Posts
         /\ \A o \in Outputs : \A k \in Kinds : <<o, k>> # <<t, "batch">>
BY DEF Posts, Kinds

\* What tracking adds are posts of the output.
LEMMA TrackType ==
  ASSUME NEW o \in Outputs, NEW failed, Track(o, failed)
  PROVE  /\ tracked \subseteq tracked' /\ tracked' \subseteq tracked \cup PostsOf(o)
         /\ PostsOf(o) \cap failed = {} => PostsOf(o) \subseteq tracked'
BY DEF Track

\* What the end of a post changes, in terms the proofs below use.
LEMMA AfterPostEffect ==
  ASSUME NEW o \in Outputs, NEW failed, AfterPost(o, failed),
         stage \in [Outputs -> Kinds \cup {"coming", "missed", "over"}]
  PROVE  /\ raised' = failed
         /\ stage' \in [Outputs -> Kinds \cup {"coming", "missed", "over"}]
         /\ \A q \in Outputs \ {o} : stage'[q] = stage[q]
         /\ tracked \subseteq tracked' /\ tracked' \subseteq tracked \cup PostsOf(o)
         /\ stage'[o] = "over" /\ PostsOf(o) \cap failed = {} => PostsOf(o) \subseteq tracked'
<1>1. CASE stage[o] = "assets" /\ o \in Findings
  BY <1>1 DEF AfterPost, Kinds
<1>2. CASE ~(stage[o] = "assets" /\ o \in Findings)
  BY <1>2, TrackType DEF AfterPost
<1>3. QED BY <1>1, <1>2

\* A post changes one output and, if the API takes it, one ingest job.
LEMMA PostEffect ==
  ASSUME TypeOK, NEW o \in Outputs, Post(o)
  PROVE  /\ <<o, stage[o]>> \in Posts
         /\ raised' \in {raised, raised \cup {<<o, stage[o]>>}}
         /\ job' \in {job, [job EXCEPT ![<<o, stage[o]>>] = "taken"]}
         /\ faults' \in 0..MaxFaults
         /\ stage' \in [Outputs -> Kinds \cup {"coming", "missed", "over"}]
         /\ \A q \in Outputs \ {o} : stage'[q] = stage[q]
         /\ tracked \subseteq tracked' /\ tracked' \subseteq tracked \cup PostsOf(o)
         /\ stage'[o] = "over" /\ PostsOf(o) \cap raised' = {} => PostsOf(o) \subseteq tracked'
<1> DEFINE p == <<o, stage[o]>>
<1>1. p \in Posts
  BY DEF Post, Posts
<1>2. stage \in [Outputs -> Kinds \cup {"coming", "missed", "over"}] /\ faults \in 0..MaxFaults
  BY DEF TypeOK
<1>3. CASE Taken(p) /\ AfterPost(o, raised) /\ UNCHANGED faults
  BY <1>1, <1>2, <1>3, AfterPostEffect DEF Taken
<1>4. CASE Fault /\ (Taken(p) \/ UNCHANGED job) /\ AfterPost(o, raised \cup {p})
  <2>1. faults' \in 0..MaxFaults
    BY <1>2, <1>4, StreamingAssumption DEF Fault
  <2>2. QED BY <1>1, <1>2, <1>4, <2>1, AfterPostEffect DEF Taken
<1>5. QED BY <1>3, <1>4 DEF Post

\* A faulty step stays within the bound on faults.
LEMMA FaultType ==
  ASSUME TypeOK, Fault
  PROVE  faults' \in 0..MaxFaults
BY StreamingAssumption DEF Fault, TypeOK

-----------------------------------------------------------------------------

\* Types survive the steps of the coroutines that post.
LEMMA PostingType ==
  ASSUME TypeOK,
         \/ \E o \in Outputs : Arrive(o) \/ Post(o)
         \/ \E t \in Tasks : BatchOver(t) \/ Gathered(t) \/ Breaks(t)
  PROVE  TypeOK'
<1>1. ASSUME NEW o \in Outputs, Arrive(o) PROVE TypeOK'
  BY <1>1 DEF TypeOK, Arrive, Kinds, taskVars, stepVars
<1>2. ASSUME NEW o \in Outputs, Post(o) PROVE TypeOK'
  <2>1. tracked' \subseteq Outputs \X Kinds /\ waiting' \subseteq tracked'
    BY <1>2, PostEffect, PostsOfType DEF TypeOK, Post, stepVars
  <2>2. raised' \subseteq Posts
    BY ZenonT(60), <1>2, PostEffect DEF TypeOK
  <2>3. job' \in [Posts -> {"none", "taken", "completed", "failed", "gone"}]
    BY <1>2, PostEffect DEF TypeOK
  <2>4. QED BY <1>2, <2>1, <2>2, <2>3, PostEffect DEF TypeOK, Post, taskVars, stepVars
<1>3. ASSUME NEW t \in Tasks, BatchOver(t) PROVE TypeOK'
  BY <1>3 DEF TypeOK, BatchOver, stepVars
<1>4. ASSUME NEW t \in Tasks, Gathered(t) PROVE TypeOK'
  BY <1>4 DEF TypeOK, Gathered, stepVars
<1>5. ASSUME NEW t \in Tasks, Breaks(t) PROVE TypeOK'
  BY <1>5, FaultType DEF TypeOK, Breaks, stepVars
<1>6. QED BY <1>1, <1>2, <1>3, <1>4, <1>5

\* Types survive the end of a task and of the step.
LEMMA EndingType ==
  ASSUME TypeOK,
         TasksOver \/ (\E t \in Tasks : Check(t)) \/ (\E p \in Posts : Poll(p))
  PROVE  TypeOK'
<1>1. CASE TasksOver
  BY <1>1 DEF TypeOK, TasksOver, StepJobs, taskVars
<1>2. ASSUME NEW t \in Tasks, Check(t) PROVE TypeOK'
  <2>1. <<t, "batch">> \in Posts
    BY DEF Posts
  <2>2. faults' \in 0..MaxFaults
    BY <1>2, FaultType DEF Check, SendBatch, TypeOK
  <2>3. /\ raised' \in {raised, raised \cup {<<t, "batch">>}}
        /\ job' \in {job, [job EXCEPT ![<<t, "batch">>] = "taken"]}
    BY <1>2 DEF Check, SendBatch, Taken
  <2>4. QED BY <1>2, <2>1, <2>2, <2>3 DEF TypeOK, Check, stepVars
<1>3. ASSUME NEW p \in Posts, Poll(p) PROVE TypeOK'
  <2>1. faults' \in 0..MaxFaults
    BY <1>3, FaultType DEF Poll, TypeOK
  <2>2. /\ waiting' \subseteq tracked /\ polls' \in [Posts -> 0..MaxPolls]
        /\ step' \in {"run", "wait", "done", "failed"}
    <3>1. CASE StepFails
      BY <3>1 DEF StepFails, TypeOK
    <3>2. CASE JobOver(p)
      BY <3>2 DEF JobOver, TypeOK
    <3>3. CASE PollAgain(p) /\ ~StepFails
      <4>1. polls[p] \in 0..MaxPolls /\ polls[p] # MaxPolls
        BY <3>3 DEF PollAgain, TypeOK
      <4>2. polls[p] + 1 \in 0..MaxPolls
        BY <4>1, StreamingAssumption
      <4>3. QED BY <3>3, <4>1, <4>2 DEF PollAgain, TypeOK
    <3>4. QED BY <1>3, <3>1, <3>2, <3>3 DEF Poll
  <2>3. QED BY <1>3, <2>1, <2>2 DEF TypeOK, Poll, taskVars
<1>4. QED BY <1>1, <1>2, <1>3

\* Types survive what the API does.
LEMMA ApiType ==
  ASSUME TypeOK, ApiStep
  PROVE  TypeOK'
<1>1. CASE Restart
  BY <1>1, FaultType DEF TypeOK, Restart, taskVars, stepVars
<1>2. ASSUME NEW p \in Posts, Ingest(p) PROVE TypeOK'
  BY <1>2 DEF TypeOK, Ingest, Becomes, taskVars, stepVars
<1>3. ASSUME NEW p \in Posts, IngestFails(p) PROVE TypeOK'
  BY <1>3, FaultType DEF TypeOK, IngestFails, Becomes, taskVars, stepVars
<1>4. ASSUME NEW p \in Posts, Forget(p) PROVE TypeOK'
  BY <1>4 DEF TypeOK, Forget, Becomes, taskVars, stepVars
<1>5. QED BY <1>1, <1>2, <1>3, <1>4 DEF ApiStep

\* Types survive every step.
LEMMA NextType ==
  ASSUME TypeOK, [Next]_vars
  PROVE  TypeOK'
<1>1. CASE UNCHANGED vars
  BY <1>1 DEF TypeOK, vars, taskVars, stepVars
<1>2. CASE Next
  BY <1>2, PostingType, EndingType, ApiType DEF Next, RunnerStep, TaskStep
<1>3. QED BY <1>1, <1>2

\* Type correctness: every variable stays in its range, for all constants.
THEOREM StreamingTypeCorrect == Spec => []TypeOK
<1>1. Init => TypeOK
  BY StreamingAssumption DEF Init, TypeOK
<1>2. TypeOK /\ [Next]_vars => TypeOK'
  BY NextType
<1>3. QED BY <1>1, <1>2, PTL DEF Spec

-----------------------------------------------------------------------------

\* Once the coroutines of a task were gathered, none of them posts again.
GatheredAllSent == \A t \in Tasks \ broken : pc[t] \in {"check", "over"} => AllSent(t)

\* All assets of a task are sent at its very end, and never for a task whose jobs
\* could not be created.
BatchAtEnd ==
  \A t \in Tasks : job[<<t, "batch">>] # "none" => pc[t] = "over" /\ t \notin broken

\* The ingest jobs of an output without failed posts are registered.
AnsweredTracked ==
  \A o \in Outputs :
    stage[o] = "over" /\ PostsOf(o) \cap raised = {} => PostsOf(o) \subseteq tracked

\* The step looks for ingest jobs after its tasks; what it no longer waits for
\* has been ingested, or the API does not know it.
WaitedFor ==
  /\ step # "run" => \A t \in Tasks : pc[t] = "over"
  /\ step = "done" => waiting = {}
  /\ step \in {"wait", "done"} =>
       \A o \in Outputs : TaskOf[o] \notin broken =>
         \A p \in (PostsOf(o) \cap tracked) \ waiting : job[p] \in {"completed", "gone"}

\* The inductive invariant.
StreamingInv ==
  /\ TypeOK /\ GatheredAllSent /\ BatchAtEnd /\ ResentAfterFailureOnly
  /\ AnsweredTracked /\ WaitedFor

USE DEF OutputsOf, AllSent

\* The invariant survives the posts.
LEMMA PostInv ==
  ASSUME StreamingInv, NEW o \in Outputs, Post(o)
  PROVE  StreamingInv'
<1> DEFINE p == <<o, stage[o]>>
<1>1. /\ TypeOK' /\ pc' = pc /\ broken' = broken /\ step' = step /\ waiting' = waiting
      /\ TaskOf[o] \in Tasks /\ stage[o] \in Kinds
  BY PostingType, StreamingAssumption DEF StreamingInv, Post, taskVars, stepVars
<1>2. \A t \in Tasks : job'[<<t, "batch">>] = job[<<t, "batch">>]
  <2>1. ASSUME NEW t \in Tasks PROVE <<t, "batch">> \in Posts /\ <<t, "batch">> # p
    BY <1>1, BatchPostType
  <2>2. job \in [Posts -> {"none", "taken", "completed", "failed", "gone"}]
    BY DEF StreamingInv, TypeOK
  <2>3. job' = job \/ job' = [job EXCEPT ![p] = "taken"]
    BY PostEffect DEF StreamingInv
  <2>4. QED BY <2>1, <2>2, <2>3
<1>3. \A t \in Tasks : AllSent(t) => AllSent(t)'
  BY <1>1, PostEffect DEF StreamingInv, Kinds
<1>4. \A q \in Outputs : stage'[q] = "over" /\ q # o => stage[q] = "over"
  BY PostEffect DEF StreamingInv
<1>5. GatheredAllSent'
  BY <1>1, <1>3 DEF StreamingInv, GatheredAllSent
<1>6. BatchAtEnd'
  BY <1>1, <1>2 DEF StreamingInv, BatchAtEnd
<1>7. TaskOf[o] \in broken \/ pc[TaskOf[o]] \in {"run", "gather"}
  BY <1>1 DEF StreamingInv, GatheredAllSent, TypeOK, Kinds
<1>8. ResentAfterFailureOnly'
  BY ZenonT(60), <1>1, <1>2, <1>4, <1>7, PostEffect DEF StreamingInv, BatchAtEnd, ResentAfterFailureOnly
<1>9. AnsweredTracked'
  BY <1>4, PostEffect DEF StreamingInv, AnsweredTracked
<1>10. WaitedFor'
  <2>1. step # "run" => TaskOf[o] \in broken
    BY <1>1, <1>7 DEF StreamingInv, WaitedFor
  <2>2. ASSUME NEW q \in Outputs, q # o
        PROVE  /\ PostsOf(q) \cap tracked' = PostsOf(q) \cap tracked
               /\ \A r \in PostsOf(q) : job'[r] = job[r]
    <3>1. /\ PostsOf(q) \subseteq Posts /\ PostsOf(q) \cap PostsOf(o) = {}
          /\ p \notin PostsOf(q)
      BY <2>2, <1>1, PostsOfType DEF PostsOf
    <3>2. PostsOf(q) \cap tracked' = PostsOf(q) \cap tracked
      BY <3>1, PostEffect DEF StreamingInv
    <3>3. job \in [Posts -> {"none", "taken", "completed", "failed", "gone"}]
      BY DEF StreamingInv, TypeOK
    <3>4. job' = job \/ job' = [job EXCEPT ![p] = "taken"]
      BY PostEffect DEF StreamingInv
    <3>5. QED BY <3>1, <3>2, <3>3, <3>4
  <2>3. QED BY <1>1, <2>1, <2>2 DEF StreamingInv, WaitedFor
<1>11. QED BY <1>1, <1>5, <1>6, <1>8, <1>9, <1>10 DEF StreamingInv

\* The invariant survives the steps of a task that send nothing.
LEMMA TaskInv ==
  ASSUME StreamingInv,
         \/ \E o \in Outputs : Arrive(o)
         \/ \E t \in Tasks : BatchOver(t) \/ Gathered(t) \/ Breaks(t)
  PROVE  StreamingInv'
<1>1. /\ TypeOK' /\ raised' = raised /\ tracked' = tracked /\ job' = job
      /\ step' = step /\ waiting' = waiting
  BY PostingType DEF StreamingInv, Arrive, BatchOver, Gathered, Breaks, stepVars
<1>2. ASSUME NEW o \in Outputs, Arrive(o) PROVE StreamingInv'
  <2>1. /\ pc' = pc /\ broken' = broken /\ TaskOf[o] \in Tasks
        /\ stage[o] = "coming" /\ (pc[TaskOf[o]] = "run" \/ TaskOf[o] \in broken)
        /\ \A q \in Outputs \ {o} : stage'[q] = stage[q]
    BY <1>2, StreamingAssumption DEF Arrive, taskVars, StreamingInv, TypeOK
  <2>2. stage'[o] = "over" => PostsOf(o) = {}
    <3>1. stage'[o] = "over" => o \notin Assets /\ o \notin Findings
      BY <1>2 DEF Arrive, StreamingInv, TypeOK
    <3>2. QED BY <3>1 DEF PostsOf
  <2>3. GatheredAllSent'
    BY <2>1 DEF StreamingInv, GatheredAllSent
  <2>4. BatchAtEnd' /\ WaitedFor'
    BY <1>1, <2>1 DEF StreamingInv, BatchAtEnd, WaitedFor
  <2>5. ResentAfterFailureOnly'
    BY <1>1, <2>1 DEF StreamingInv, BatchAtEnd, ResentAfterFailureOnly
  <2>6. AnsweredTracked'
    BY <1>1, <2>1, <2>2 DEF StreamingInv, AnsweredTracked
  <2>7. QED BY <1>1, <2>3, <2>4, <2>5, <2>6 DEF StreamingInv
<1>3. ASSUME NEW t \in Tasks, BatchOver(t) PROVE StreamingInv'
  <2>1. /\ broken' = broken /\ pc[t] = "run" /\ pc' = [pc EXCEPT ![t] = "gather"]
        /\ \A o \in Outputs : stage'[o] = "over" => stage[o] = "over"
        /\ \A o \in Outputs : stage[o] \in {"missed", "over"} => stage'[o] = stage[o]
    BY <1>3 DEF BatchOver
  <2>2. /\ GatheredAllSent' /\ BatchAtEnd' /\ AnsweredTracked' /\ ResentAfterFailureOnly'
    BY <1>1, <2>1 DEF StreamingInv, TypeOK, GatheredAllSent, BatchAtEnd,
                      AnsweredTracked, ResentAfterFailureOnly
  <2>3. WaitedFor'
    BY <1>1, <2>1 DEF StreamingInv, TypeOK, WaitedFor
  <2>4. QED BY <1>1, <2>2, <2>3 DEF StreamingInv
<1>4. ASSUME NEW t \in Tasks, Gathered(t) PROVE StreamingInv'
  <2>1. /\ broken' = broken /\ stage' = stage /\ pc[t] = "gather" /\ AllSent(t)
        /\ pc' = [pc EXCEPT ![t] = "check"]
    BY <1>4 DEF Gathered
  <2>2. GatheredAllSent' /\ BatchAtEnd' /\ AnsweredTracked' /\ ResentAfterFailureOnly'
    BY <1>1, <2>1 DEF StreamingInv, TypeOK, GatheredAllSent, BatchAtEnd,
                      AnsweredTracked, ResentAfterFailureOnly
  <2>3. WaitedFor'
    BY <1>1, <2>1 DEF StreamingInv, TypeOK, WaitedFor
  <2>4. QED BY <1>1, <2>2, <2>3 DEF StreamingInv
<1>5. ASSUME NEW t \in Tasks, Breaks(t) PROVE StreamingInv'
  <2>1. /\ broken' = broken \cup {t} /\ stage' = stage /\ pc[t] = "run"
        /\ pc' = [pc EXCEPT ![t] = "check"]
    BY <1>5 DEF Breaks
  <2>2. GatheredAllSent' /\ BatchAtEnd' /\ AnsweredTracked' /\ ResentAfterFailureOnly'
    BY <1>1, <2>1 DEF StreamingInv, TypeOK, GatheredAllSent, BatchAtEnd,
                      AnsweredTracked, ResentAfterFailureOnly
  <2>3. WaitedFor'
    BY <1>1, <2>1 DEF StreamingInv, TypeOK, WaitedFor
  <2>4. QED BY <1>1, <2>2, <2>3 DEF StreamingInv
<1>6. QED BY <1>2, <1>3, <1>4, <1>5

\* The invariant survives the end of a task, which may send its assets again.
LEMMA CheckInv ==
  ASSUME StreamingInv, NEW t \in Tasks, Check(t)
  PROVE  StreamingInv'
<1> DEFINE b == <<t, "batch">>
<1>1. /\ TypeOK' /\ broken' = broken /\ stage' = stage /\ tracked' = tracked
      /\ step' = step /\ waiting' = waiting /\ pc[t] = "check"
      /\ pc' = [pc EXCEPT ![t] = "over"]
  BY EndingType DEF StreamingInv, Check, stepVars
<1>2. \A o \in Outputs : b \notin PostsOf(o)
  BY DEF PostsOf, Kinds
<1>3. /\ raised \subseteq raised' /\ \A o \in Outputs : PostsOf(o) \cap raised' = PostsOf(o) \cap raised
      /\ job' \in {job, [job EXCEPT ![b] = "taken"]}
  BY <1>2 DEF Check, SendBatch, Taken
<1>4. job' # job =>
        t \notin broken /\ \A o \in OutputsOf(t) \cap Assets : stage[o] = "over" => <<o, "assets">> \in raised
  <2>1. SUFFICES ASSUME job' # job
                 PROVE  /\ t \notin broken
                        /\ \A o \in OutputsOf(t) \cap Assets :
                             stage[o] = "over" => <<o, "assets">> \in raised
    OBVIOUS
  <2>2. ~SentSome(t) /\ Result(t) \cap Assets # {}
    BY <2>1 DEF Check
  <2>3. t \notin broken /\ Result(t) = {o \in OutputsOf(t) : stage[o] = "over"}
    BY <2>2 DEF Result
  <2>4. QED BY <2>2, <2>3 DEF SentSome
<1>5. GatheredAllSent' /\ AnsweredTracked'
  BY <1>1, <1>3 DEF StreamingInv, TypeOK, GatheredAllSent, AnsweredTracked
<1>6. BatchAtEnd' /\ ResentAfterFailureOnly'
  <2>1. \A u \in Tasks \ {t} : job'[<<u, "batch">>] = job[<<u, "batch">>]
    <3>1. \A u \in Tasks \ {t} : <<u, "batch">> \in Posts /\ <<u, "batch">> # b
      BY BatchPostType
    <3>2. QED BY <1>3, <3>1 DEF StreamingInv, TypeOK
  <2>2. job[b] = "none"
    BY <1>1 DEF StreamingInv, BatchAtEnd
  <2>3. QED BY <1>1, <1>3, <1>4, <2>1, <2>2
            DEF StreamingInv, TypeOK, BatchAtEnd, ResentAfterFailureOnly
<1>7. WaitedFor'
  <2>1. step = "run"
    BY <1>1 DEF StreamingInv, WaitedFor, TypeOK
  <2>2. QED BY <1>1, <2>1 DEF WaitedFor
<1>8. QED BY <1>1, <1>5, <1>6, <1>7 DEF StreamingInv

\* The invariant survives the steps of the wait for ingest jobs.
LEMMA WaitInv ==
  ASSUME StreamingInv, TasksOver \/ \E p \in Posts : Poll(p)
  PROVE  StreamingInv'
<1>1. /\ TypeOK' /\ pc' = pc /\ broken' = broken /\ stage' = stage /\ tracked' = tracked
      /\ raised' = raised /\ job' = job
  BY EndingType DEF StreamingInv, TasksOver, Poll, taskVars
<1>2. GatheredAllSent' /\ BatchAtEnd' /\ ResentAfterFailureOnly' /\ AnsweredTracked'
  BY <1>1 DEF StreamingInv, GatheredAllSent, BatchAtEnd, ResentAfterFailureOnly, AnsweredTracked
<1>3. CASE TasksOver
  BY <1>1, <1>2, <1>3 DEF TasksOver, StepJobs, StreamingInv, WaitedFor
<1>4. ASSUME NEW p \in Posts, Poll(p) PROVE WaitedFor'
  <2>1. step = "wait"
    BY <1>4 DEF Poll
  <2>2. CASE StepFails
    BY <1>1, <2>1, <2>2 DEF StepFails, StreamingInv, WaitedFor
  <2>3. CASE job[p] \in {"completed", "gone"} /\ JobOver(p)
    BY <1>1, <2>1, <2>3 DEF JobOver, StreamingInv, WaitedFor
  <2>4. CASE PollAgain(p) /\ ~StepFails
    BY <1>1, <2>1, <2>4 DEF PollAgain, StreamingInv, WaitedFor
  <2>5. QED BY <1>4, <2>2, <2>3, <2>4 DEF Poll
<1>5. QED BY <1>1, <1>2, <1>3, <1>4 DEF StreamingInv

\* The invariant survives what the API does: a job never goes back.
LEMMA ApiInv ==
  ASSUME StreamingInv, ApiStep
  PROVE  StreamingInv'
<1>1. /\ TypeOK' /\ pc' = pc /\ broken' = broken /\ stage' = stage /\ tracked' = tracked
      /\ raised' = raised /\ step' = step /\ waiting' = waiting
  BY ApiType DEF StreamingInv, ApiStep, Restart, Ingest, IngestFails, Forget, Becomes,
                 taskVars, stepVars
<1>2. \A p \in Posts : /\ job'[p] # "none" => job[p] # "none"
                       /\ job[p] \in {"completed", "gone"} => job'[p] \in {"completed", "gone"}
  <2>1. CASE Restart
    BY <2>1 DEF Restart
  <2>2. ASSUME NEW q \in Posts, Ingest(q) \/ IngestFails(q) \/ Forget(q)
        PROVE  \A p \in Posts :
                 /\ job'[p] # "none" => job[p] # "none"
                 /\ job[p] \in {"completed", "gone"} => job'[p] \in {"completed", "gone"}
    BY <2>2 DEF Ingest, IngestFails, Forget, Becomes, StreamingInv, TypeOK
  <2>3. QED BY <2>1, <2>2 DEF ApiStep
<1>3. GatheredAllSent' /\ AnsweredTracked'
  BY <1>1 DEF StreamingInv, GatheredAllSent, AnsweredTracked
<1>4. BatchAtEnd' /\ ResentAfterFailureOnly'
  BY <1>1, <1>2 DEF StreamingInv, BatchAtEnd, ResentAfterFailureOnly, Posts
<1>5. WaitedFor'
  BY <1>1, <1>2, PostsOfType DEF StreamingInv, WaitedFor
<1>6. QED BY <1>1, <1>3, <1>4, <1>5 DEF StreamingInv

\* The invariant survives every step.
LEMMA NextInv ==
  ASSUME StreamingInv, [Next]_vars
  PROVE  StreamingInv'
<1>1. CASE UNCHANGED vars
  BY <1>1 DEF vars, taskVars, stepVars, StreamingInv, TypeOK, GatheredAllSent, BatchAtEnd,
              ResentAfterFailureOnly, AnsweredTracked, WaitedFor
<1>2. CASE Next
  BY <1>2, PostInv, TaskInv, CheckInv, WaitInv, ApiInv DEF Next, RunnerStep, TaskStep
<1>3. QED BY <1>1, <1>2

\* Type, gathering, tracking and waiting hold together, for all constants.
LEMMA StreamingInvCorrect == Spec => []StreamingInv
<1>1. Init => StreamingInv
  BY StreamingAssumption DEF Init, StreamingInv, TypeOK, GatheredAllSent, BatchAtEnd,
     ResentAfterFailureOnly, AnsweredTracked, WaitedFor, Posts
<1>2. StreamingInv /\ [Next]_vars => StreamingInv'
  BY NextInv
<1>3. QED BY <1>1, <1>2, PTL DEF Spec

\* However its tasks, posts and ingest jobs interleave, all assets of a task are
\* sent again only if every post of its assets raised.
THEOREM ResendsCorrect == Spec => []ResentAfterFailureOnly
<1>1. StreamingInv => ResentAfterFailureOnly
  BY DEF StreamingInv
<1>2. QED BY <1>1, StreamingInvCorrect, PTL

\* A step that ends well has waited for every post that was answered.
THEOREM WaitCorrect == Spec => []StepWaitsForIngest
<1>1. StreamingInv => StepWaitsForIngest
  BY DEF StreamingInv, AnsweredTracked, WaitedFor, StepWaitsForIngest
<1>2. QED BY <1>1, StreamingInvCorrect, PTL

-----------------------------------------------------------------------------

\* As long as nothing went wrong no post has raised, every task has its jobs, and
\* an ingest job is over only when its data is stored.
CleanInv ==
  faults = 0 =>
    /\ raised = {} /\ broken = {}
    /\ \A p \in Posts : job[p] # "failed" /\ (job[p] \in {"completed", "gone"} => p \in stored)

\* The first fault ends the hypothesis of the invariant.
LEMMA FaultEndsClean ==
  ASSUME TypeOK, Fault
  PROVE  CleanInv'
<1>1. faults' # 0
  BY DEF Fault, TypeOK
<1>2. QED BY <1>1 DEF CleanInv

\* A post leaves its ingest job taken, which claims nothing yet.
LEMMA PostClean ==
  ASSUME TypeOK, CleanInv, NEW p \in Posts, Taken(p) \/ UNCHANGED job,
         UNCHANGED <<raised, broken, stored, faults>>
  PROVE  CleanInv'
<1>1. \A q \in Posts : job'[q] = job[q] \/ job'[q] = "taken"
  BY DEF Taken, TypeOK
<1>2. QED BY <1>1 DEF CleanInv

\* What the runner does keeps the invariant: its faults apart it only posts.
LEMMA RunnerClean ==
  ASSUME TypeOK, CleanInv, RunnerStep
  PROVE  CleanInv'
<1>1. ASSUME NEW o \in Outputs, Post(o) PROVE CleanInv'
  <2> DEFINE p == <<o, stage[o]>>
  <2>1. p \in Posts /\ UNCHANGED <<broken, stored>>
    BY <1>1, PostEffect DEF Post, taskVars
  <2>2. CASE Fault
    BY <2>2, FaultEndsClean
  <2>3. CASE Taken(p) /\ AfterPost(o, raised) /\ UNCHANGED faults
    BY <2>1, <2>3, PostClean DEF AfterPost
  <2>4. QED BY <1>1, <2>2, <2>3 DEF Post
<1>2. ASSUME NEW t \in Tasks, Check(t) PROVE CleanInv'
  <2>1. <<t, "batch">> \in Posts /\ UNCHANGED <<broken, stored>>
    BY <1>2 DEF Check, Posts
  <2>2. CASE Fault
    BY <2>2, FaultEndsClean
  <2>3. CASE (Taken(<<t, "batch">>) \/ UNCHANGED job) /\ UNCHANGED <<raised, faults>>
    BY <2>1, <2>3, PostClean
  <2>4. QED BY <1>2, <2>2, <2>3 DEF Check, SendBatch
<1>3. ASSUME NEW p \in Posts, Poll(p) PROVE CleanInv'
  <2>1. CASE Fault
    BY <2>1, FaultEndsClean
  <2>2. CASE UNCHANGED faults
    BY <1>3, <2>2 DEF Poll, taskVars, CleanInv
  <2>3. QED BY <1>3, <2>1, <2>2 DEF Poll
<1>4. ASSUME NEW t \in Tasks, BatchOver(t) \/ Gathered(t) PROVE CleanInv'
  BY <1>4 DEF BatchOver, Gathered, CleanInv
<1>5. ASSUME TasksOver PROVE CleanInv'
  BY <1>5 DEF TasksOver, taskVars, CleanInv
<1>6. QED BY <1>1, <1>2, <1>3, <1>4, <1>5 DEF RunnerStep, TaskStep

\* What the API does keeps it: it stores before it marks a job completed, and
\* only a restart makes it forget one that is at work.
LEMMA ApiClean ==
  ASSUME TypeOK, CleanInv, ApiStep
  PROVE  CleanInv'
<1>1. job \in [Posts -> {"none", "taken", "completed", "failed", "gone"}]
  BY DEF TypeOK
<1>2. ASSUME NEW p \in Posts, Ingest(p) PROVE CleanInv'
  BY <1>1, <1>2 DEF Ingest, Becomes, taskVars, CleanInv
<1>3. ASSUME NEW p \in Posts, Forget(p) PROVE CleanInv'
  <2>1. /\ UNCHANGED <<faults, raised, broken, stored>> /\ job[p] \in {"completed", "failed"}
        /\ job' = [job EXCEPT ![p] = "gone"]
    BY <1>3 DEF Forget, Becomes, taskVars
  <2>2. ASSUME faults = 0 PROVE p \in stored
    BY <2>1, <2>2 DEF CleanInv
  <2>3. QED BY <1>1, <2>1, <2>2 DEF CleanInv
<1>4. CASE Fault
  BY <1>4, FaultEndsClean
<1>5. QED BY <1>2, <1>3, <1>4 DEF ApiStep, Restart, IngestFails

\* Without faults, data is stored before its job is over.
LEMMA CleanInvCorrect == Spec => []CleanInv
<1>1. Init => CleanInv
  BY DEF Init, CleanInv
<1>2. TypeOK /\ CleanInv /\ [Next]_vars => CleanInv'
  <2>1. SUFFICES ASSUME TypeOK, CleanInv, [Next]_vars PROVE CleanInv'
    OBVIOUS
  <2>2. CASE UNCHANGED vars
    BY <2>1, <2>2 DEF vars, taskVars, CleanInv
  <2>3. ASSUME NEW o \in Outputs, Arrive(o) PROVE CleanInv'
    BY <2>1, <2>3 DEF Arrive, taskVars, CleanInv
  <2>4. ASSUME NEW t \in Tasks, Breaks(t) PROVE CleanInv'
    BY <2>1, <2>4, FaultEndsClean DEF Breaks
  <2>5. QED BY <2>1, <2>2, <2>3, <2>4, RunnerClean, ApiClean DEF Next
<1>3. QED BY <1>1, <1>2, StreamingTypeCorrect, PTL DEF Spec

\* Without faults the database holds all that the outputs of the step held when
\* the step ends well, whichever way it was posted (task_components.py:296).
THEOREM StoredCorrect == Spec => []StoredWithoutFaults
<1>1. StepWaitsForIngest /\ CleanInv => StoredWithoutFaults
  BY PostsOfType DEF StepWaitsForIngest, CleanInv, StoredWithoutFaults
<1>2. QED BY <1>1, WaitCorrect, CleanInvCorrect, PTL

=============================================================================
