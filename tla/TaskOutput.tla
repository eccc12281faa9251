----------------------------- MODULE TaskOutput -----------------------------
(***************************************************************************)
(* The way of one task's output: the worker's command_wrapper publishes it *)
(* to a JetStream subject, in one message or in chunks, with retries; the  *)
(* runner's TaskQueueClient takes the messages, reassembles the chunks and *)
(* calls the output handler registered for the task.                       *)
(***************************************************************************)
EXTENDS OutputChunks, FiniteSets

CONSTANTS
  Printed,     \* the outputs a command may print, as sequences of lines
  Attempts,    \* publish attempts per message (3 in both loops)
  Env,         \* what may go wrong, see EnvKinds
  MaxFaults    \* bound on lost answers and failed publishes

EnvKinds == {"raise", "net", "connect", "ack", "delay", "kill", "shutdown"}

ASSUME TaskAssumption ==
  /\ Printed \subseteq Seq(Seq({Plain, Wide}))
  /\ Attempts \in Nat \ {0} /\ Env \subseteq EnvKinds /\ MaxFaults \in Nat

VARIABLES
  printed,   \* the lines the command prints
  ok,        \* it exits with 0
  w,         \* the worker: run, single, chunks, report or exit
  parts,     \* its chunks
  at,        \* the chunk it is at
  fails,     \* failed attempts at the current message
  msgs,      \* the messages of the stream, in order
  new,       \* those the runner's consumer has not delivered
  again,     \* those it will deliver again: the ack or the delivery was lost
  track,     \* task_chunks[task]: the chunks received and the total announced
  quiet,     \* no chunk arrived for 60 seconds
  handler,   \* the output handler is registered
  running,   \* the client is not shut down
  calls,     \* history: what the handler was called with
  faults     \* history: faults so far

workerVars == <<printed, ok, w, parts, at, fails>>
streamVars == <<msgs, new, again>>
clientVars == <<track, quiet, handler, running, calls>>
vars == <<workerVars, streamVars, clientVars, faults>>

NoTrack == [got |-> <<>>, total |-> 0]

Text == Join(Collect(printed))

Init ==
  /\ printed \in Printed /\ ok \in BOOLEAN
  /\ w = "run" /\ parts = <<>> /\ at = 1 /\ fails = 0
  /\ msgs = <<>> /\ new = {} /\ again = {}
  /\ track = NoTrack /\ quiet = FALSE
  /\ handler = TRUE /\ running = TRUE /\ calls = <<>> /\ faults = 0

Fault(kind) == kind \in Env /\ faults < MaxFaults /\ faults' = faults + 1

-----------------------------------------------------------------------------
(* The worker *)

\* A report of an error carries neither a chunk number nor a total.
Message(text, success, final, num, total) ==
  [text |-> text, ok |-> success, final |-> final, num |-> num, total |-> total]

SingleMessage == Message(Text, ok, TRUE, 1, 1)
ChunkMessage  == Message(parts[at], ok, at = Len(parts), at, Len(parts))
ErrorMessage  == Message(<<"error">>, FALSE, TRUE, 0, 0)

CommandEnds ==
  /\ w = "run"
  /\ IF Len(Text) <= Effective
       THEN w' = "single" /\ UNCHANGED parts
       ELSE w' = "chunks" /\ parts' = Chunks(Collect(printed))
  /\ UNCHANGED <<printed, ok, at, fails, streamVars, clientVars, faults>>

\* Running the command or reading its output (not UTF-8, say) raises.
CommandRaises ==
  /\ w = "run" /\ Fault("raise")
  /\ w' = "report"
  /\ UNCHANGED <<printed, ok, parts, at, fails, streamVars, clientVars>>

Store(m) ==
  /\ msgs' = Append(msgs, m) /\ new' = new \cup {Len(msgs) + 1}
  /\ UNCHANGED again

\* The stream acknowledges the message.
Published(m) == Store(m) /\ fails' = 0 /\ UNCHANGED faults

\* The attempt raises; the stream may have the message all the same.
PublishRaises(m) ==
  /\ Fault("net") /\ fails' = (fails + 1) % Attempts
  /\ Store(m) \/ UNCHANGED streamVars

\* publish_result: a message above the limit is not sent, an attempt that
\* raises is repeated.
PublishResult(m) ==
  /\ \/ ~TooBig(m.text) /\ Published(m) /\ w' = "exit"
     \/ ~TooBig(m.text) /\ PublishRaises(m) /\ w' = IF fails' = 0 THEN "exit" ELSE w
     \/ TooBig(m.text) /\ w' = "exit" /\ UNCHANGED <<streamVars, fails, faults>>
  /\ UNCHANGED <<printed, ok, parts, at, clientVars>>

SendSingle == w = "single" /\ PublishResult(SingleMessage)

SendError == w = "report" /\ PublishResult(ErrorMessage)

\* The connection for the chunks cannot be made.
ConnectFails ==
  /\ w = "chunks" /\ at = 1 /\ fails = 0 /\ msgs = <<>> /\ Fault("connect")
  /\ w' = "report"
  /\ UNCHANGED <<printed, ok, parts, at, fails, streamVars, clientVars>>

\* A chunk is sent, or given up after the last attempt.
SendChunk ==
  /\ w = "chunks" /\ at <= Len(parts) /\ ~TooBig(parts[at])
  /\ Published(ChunkMessage) \/ PublishRaises(ChunkMessage)
  /\ at' = IF fails' = 0 THEN at + 1 ELSE at
  /\ UNCHANGED <<printed, ok, w, parts, clientVars>>

\* A chunk that is too big after encoding is halved in place, and the loop
\* goes on with the second half.
HalveChunk ==
  /\ w = "chunks" /\ at <= Len(parts) /\ TooBig(parts[at])
  /\ parts' = Halve(parts, at) /\ at' = at + 1
  /\ UNCHANGED <<printed, ok, w, fails, streamVars, clientVars, faults>>

ChunksSent ==
  /\ w = "chunks" /\ at > Len(parts)
  /\ w' = "exit"
  /\ UNCHANGED <<printed, ok, parts, at, fails, streamVars, clientVars, faults>>

\* The pod dies: deadline, eviction.
Killed ==
  /\ w # "exit" /\ Fault("kill")
  /\ w' = "exit"
  /\ UNCHANGED <<printed, ok, parts, at, fails, streamVars, clientVars>>

-----------------------------------------------------------------------------
(* The runner *)

\* Mutation: the handler stays registered.
CallHandlerAgain(result) ==
  /\ IF handler THEN calls' = Append(calls, result) ELSE UNCHANGED calls
  /\ UNCHANGED handler

\* The registered handler is called and unregistered.
CallHandler(result) ==
  IF handler THEN calls' = Append(calls, result) /\ handler' = FALSE
  ELSE UNCHANGED <<calls, handler>>

Result(kind, text, success, partial) ==
  [kind |-> kind, text |-> text, ok |-> success, partial |-> partial]

\* Mutation: the final chunk waits for the missing ones.
CompleteAll(m, count) == count = m.total

Complete(m, count) == count = m.total \/ m.final

\* A chunk: its text is kept, and the last chunk or the one that completes the
\* set hands over what is there.
ProcessChunk(m) ==
  LET base == IF track = NoTrack THEN [got |-> <<>>, total |-> m.total] ELSE track
      got  == [i \in DOMAIN base.got \cup {m.num} |->
                 IF i = m.num THEN m.text ELSE base.got[i]]
      count == Cardinality(DOMAIN got)
  IN  /\ quiet' = FALSE
      /\ IF m.text = <<>>
           THEN track' = base /\ UNCHANGED <<calls, handler>>
         ELSE IF Complete(m, count)
           THEN /\ CallHandler(Result("output", Assemble(got, m.total), m.ok, count < m.total))
                /\ track' = NoTrack
         ELSE track' = [base EXCEPT !.got = got] /\ UNCHANGED <<calls, handler>>

\* A single message: output of a success, or else a substitute that says the
\* task succeeded.
ProcessSingle(m) ==
  /\ CallHandler(IF m.ok /\ m.text # <<>>
                   THEN Result("output", m.text, m.ok, FALSE)
                   ELSE Result("nothing", <<>>, TRUE, FALSE))
  /\ UNCHANGED <<track, quiet>>

\* Mutation: a single message counts as chunked.
ProcessOutputChunked(m) ==
  \/ m.total >= 1 /\ ProcessChunk(m)
  \/ m.total = 0 /\ UNCHANGED <<track, quiet, handler, calls>>

\* process_output; comparing the missing total of an error report raises, and
\* the report is dropped.
ProcessOutput(m) ==
  \/ m.total > 1 /\ ProcessChunk(m)
  \/ m.total = 1 /\ ProcessSingle(m)
  \/ m.total = 0 /\ UNCHANGED <<track, quiet, handler, calls>>

\* listen_for_outputs takes one message and acknowledges it in any case.
Receive(i) ==
  /\ running /\ (i \in again \/ \A j \in new : i <= j)
  /\ ProcessOutput(msgs[i])
  /\ new' = new \ {i}
  /\ \/ again' = again \ {i} /\ UNCHANGED faults
     \/ Fault("ack") /\ again' = again \cup {i}
  /\ UNCHANGED <<running, msgs, workerVars>>

\* A delivery is lost and repeated later: others overtake the message.
DeliveryLost ==
  /\ Fault("delay")
  /\ \E i \in new : new' = new \ {i} /\ again' = again \cup {i}
  /\ UNCHANGED <<msgs, workerVars, clientVars>>

\* 60 seconds pass without a chunk.
GoesQuiet ==
  /\ running /\ track # NoTrack /\ ~quiet
  /\ quiet' = TRUE
  /\ UNCHANGED <<track, handler, running, calls, workerVars, streamVars, faults>>

NearlyAll ==
  track # NoTrack /\ 10 * Cardinality(DOMAIN track.got) > 9 * track.total

\* check_stalled_chunks settles for more than nine tenths of the chunks.
CheckStalled ==
  /\ running /\ quiet /\ NearlyAll
  /\ CallHandler(Result("output", Assemble(track.got, track.total), ok, TRUE))
  /\ track' = NoTrack
  /\ UNCHANGED <<quiet, running, workerVars, streamVars, faults>>

\* shutdown: with chunks outstanding it raises before it looks at them.
Shutdown ==
  /\ running /\ Fault("shutdown")
  /\ running' = FALSE
  /\ IF track = NoTrack THEN handler' = FALSE ELSE UNCHANGED handler
  /\ UNCHANGED <<track, quiet, calls, workerVars, streamVars>>

-----------------------------------------------------------------------------

WorkerStep ==
  \/ CommandEnds \/ SendSingle \/ SendError \/ SendChunk \/ HalveChunk \/ ChunksSent

ReceiveStep == \E i \in new \cup again : Receive(i)

Next ==
  \/ WorkerStep \/ CommandRaises \/ ConnectFails \/ Killed
  \/ ReceiveStep \/ DeliveryLost \/ GoesQuiet \/ CheckStalled \/ Shutdown

Spec == Init /\ [][Next]_vars

\* The worker runs on until it is killed, the listener polls, and the listener's
\* loop looks for stalled tasks every five seconds.
FairSpec ==
  /\ Spec
  /\ WF_vars(WorkerStep) /\ WF_vars(ReceiveStep)
  /\ WF_vars(GoesQuiet) /\ WF_vars(CheckStalled)

-----------------------------------------------------------------------------
(* Properties *)

\* Every variable stays in its range.
TypeOK ==
  /\ printed \in Seq(Seq({Plain, Wide})) /\ ok \in BOOLEAN /\ running \in BOOLEAN
  /\ w \in {"run", "single", "chunks", "report", "exit"}
  /\ at \in 1..(Len(parts) + 1) /\ fails \in 0..(Attempts - 1)
  /\ new \subseteq 1..Len(msgs) /\ again \subseteq 1..Len(msgs)
  /\ track = NoTrack \/ track.total > 1
  /\ handler \in BOOLEAN /\ faults \in 0..MaxFaults
  /\ quiet \in BOOLEAN

\* Cutting yields no empty chunk (the runner ignores those, the last one
\* included) and none above the effective size, and loses no character of a
\* line: run_command's filter, the line loop and the later halving together.
ChunksSound ==
  parts # <<>> =>
    /\ \A i \in 1..Len(parts) : Len(parts[i]) \in 1..Effective
    /\ Letters(FlattenSeq(parts)) = Letters(Text)

\* The handler is called at most once, and what it is given as complete is all
\* the worker cut, whatever was resent, redelivered, reordered, given up,
\* halved or cut off; anything less is marked partial.
OneHonestAnswer ==
  /\ Len(calls) <= 1
  /\ \A c \in 1..Len(calls) : calls[c].kind = "output" /\ ~calls[c].partial =>
       calls[c].text = IF parts = <<>> THEN Text ELSE FlattenSeq(parts)

FinalStored == \E i \in 1..Len(msgs) : msgs[i].final /\ msgs[i].total > 0

\* Once the message that ends an output is in the stream, whatever happened to
\* the others, or more than nine tenths of the chunks have arrived, even if the
\* rest never comes, the handler is called, unless the client is shut down.
OutputAnswered == FinalStored \/ NearlyAll ~> calls # <<>> \/ ~running

=============================================================================
