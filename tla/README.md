# ReconHawx: a TLA+ model of its message and job machinery

ReconHawx runs reconnaissance workflows as Kubernetes jobs and reacts to what
they find. Its hard parts are those where work is handed from one process to
another: events to the event handler, command output to the runner and from there to the
API, schedules and jobs to Kubernetes, settings to the certificate monitor. This
directory models these parts from the code, checks them with
TLC and proves every safety property of the passing runs with TLAPS. Paths below are relative to
the repository root's parent, as in `PROJECT.json` (`src/src/...` is the
repository's `src/`).

## 1. Inventory

| Component | State | Operations | Hard behaviour |
|---|---|---|---|
| **Event handler** (`event-handler/app`) | JetStream consumer position, Redis batches (`items`, `meta`), cached handler sets, pause flag, recovery loop | fetch rounds, handle an event, batch it, flush a full batch, recover expired batches, admin flush / clear / pause | concurrency of up to N messages in one event loop, a clear in another thread, Redis expiry, redelivery, crash between Redis and the action |
| **Worker wrapper** (`worker/app/command_wrapper.py`) | lines of the command, chunks, attempt counter | run a command, cut its output, publish with retries, report an error | size limits in characters and in bytes, partial failure, lost acknowledgements |
| **Runner: task queue client** (`runner/app/task_queue_client.py`) | chunks per task, registered handlers | receive, reassemble, call a handler, settle stalled tasks, shut down | reordered, repeated and missing messages |
| **Runner: worker job manager** (`worker_job_manager.py`, `services/kubernetes.py`) | job results, batches, handlers | create jobs, register handlers, poll Kubernetes, time out, clean up | answers that are stale when applied, Kubernetes and NATS telling about one job in either order, blocking calls that protect a window |
| **Runner: task executor** (`task_executor.py`, `run-workflow.py`, `recon_tasks/`) | step results, last-execution timestamps | expand inputs, make commands, use outputs, stream assets | fire-and-forget sends, which targets count as done |
| **Runner: progressive streaming and API client** (`task_components.py`) | queued assets, poll state | batch, send, poll ingest jobs | retry, partial failure |
| **API: event publisher** (`api/app/services/event_publisher.py`) | current batch, wake-up queue, connection | publish, flush by size or age, reconnect, shut down | a lock held over the network, a timer every event restarts, ignored failures |
| **API: job scheduler** (`job_scheduler.py`, `job_submission.py`) | schedules in PostgreSQL and APScheduler, executions, monitors | create, edit, enable, run, monitor, delete | two stores, overlapping executions, restart, monitoring limits |
| **API: asset and findings processors** (`unified_*_processor.py`) | ingest jobs in memory | submit, process per type, publish, forget | restart, partial failure |
| **API: WAF auto-rerun, vendor clients, repositories, routes** | PostgreSQL | CRUD, one-shot schedules | mostly transactions |
| **CT monitor** (`ct-monitor/app`, `api/app/services/ct_monitor_client.py`) | run flag, matching snapshot, refresh flags, ingestion loop, stream, replicas asked for, submission buffers | start, stop, reload, open and close the stream, scale its server, match, submit, alert | requests coalesced on both sides, a stop that cancels anything, remembered against actual replicas, check-then-act on alerts |
| **Batch jobs** (`runner/app/run-job.py`, `batch_jobs/`) | the job's record at the API | fetch, process, report | failures that are reported but not returned |
| **Upgrader, migrations, quota sync, front end, manifests** | — | sequential scripts, presentation, configuration | — |

How they interact: API `publish` → NATS stream `EVENTS` (batch messages) → event
handler → HTTP actions (Discord, the API, workflows). API scheduler → Kubernetes
runner job → task executor → worker job manager → Kubernetes worker jobs →
command wrapper → NATS output stream → task queue client → output handler → job
result → task executor → API ingest → event publisher. A program saved in the API →
CT monitor client → CT monitor → certstream server, NATS and the API's assets.

What makes each part correct is listed as hazards in `PROJECT.json`, at the
line where each bites, with the properties that cover it.

## 2. Modules

| Module | Models | Code it stands for |
|---|---|---|
| `EventBatching` | the event handler | `main.py`, `nats_client.py`, the handler and batch classes of `event_handlers.py`, `api_config_provider.py` |
| `EventFate` | what the event handler promises about an event a handler accepted | abstract |
| `EventBatchingProofs` | theorems about `EventBatching`: types, places, the refinement | — |
| `EventDeliveryProofs` | further theorems about it: acknowledgement, batches, single execution | — |
| `OutputChunks` | cutting and assembling a text (pure operators; recursion is written as recursive functions, so that it can be proved about) | `command_wrapper.py:126-250`, `task_queue_client.py:367-374` |
| `TaskOutput` | the path of one output, worker → stream → runner; EXTENDS `OutputChunks` | `command_wrapper.py`, `task_queue_client.py` |
| `TaskOutputProofs` | theorems about both | — |
| `WorkerJobs` | one task's jobs, from creation to the use of their output | `worker_job_manager.py`, `services/kubernetes.py`, the batch part of `task_executor.py` |
| `WorkerJobsProofs` | theorems about `WorkerJobs` | — |
| `StepStreaming` | one step of a workflow: outputs posted to the API as they come, ingest jobs, the wait for them | `task_executor.py`, `task_components.py`, `run-workflow.py`, `unified_asset_processor.py`, `unified_findings_processor.py` |
| `StepStreamingProofs` | theorems about `StepStreaming` | — |
| `EventPublisher` | the API's publisher: batch, locks, connection | `event_publisher.py` |
| `EventPublisherProofs` | theorems about `EventPublisher` | — |
| `JobScheduler` | one schedule, its executions, their monitors, tear-downs and pods | `job_scheduler.py`, `scheduled_job_repo.py`, `routes/jobs.py`, `run-job.py`, `batch_jobs/` |
| `JobSchedulerProofs` | theorems about `JobScheduler` | — |
| `CTMonitor` | settings from a saved program to the monitor's stream and its server's replicas | `ct-monitor/app/main.py`, `certstream_consumer.py`, `certstream_k8s.py`, `ct_monitor_client.py` |
| `CTMonitorProofs` | theorems about `CTMonitor` | — |
| `MC*` | constants for TLC, where a `.cfg` cannot give them | — |

The modules meet where one hands work to the next: an output that is `seen` in
`WorkerJobs` is a call of the handler in `TaskOutput`, and an output that comes in
`StepStreaming`; a batch of `EventPublisher` is a wrapped message of
`EventBatching`. What one promises is what the next assumes.

### EventBatching

A *slip* is one event of one delivery of one message as seen by one handler; a
handler owes it an action from the moment its conditions accept the event.
Slips live in Redis (`queue`), in the hands of a running coroutine (`held`), or
are over (`done`, `lost` by reason). The steps of a message's task are cut at
the code's awaits: `Begin` (semaphore), `StartEvent` (handler set), `ActNow` /
`AddToBatch` (one per handler), `FinishActions`, `EndEvent`, `Reply`. Two things
carry most of the model's meaning:

* *Cooperative scheduling.* `add_to_batch` and the `get_and_clear_batch` after
  it run without an await. They are two steps, `AddToBatch` and `TakeBatch`,
  and `LoopFree` keeps every other coroutine out between them; the clear
  thread (`ClearCounts`, `ClearDeletes`) is not kept out, as in the code.
* *Failures.* `Env` says what may fail in a run. A Redis error may hit before or
  after the transaction took effect; an ack or nak may be lost; the
  configuration may be stale, empty or edited; the process may crash anywhere.

`age`, `ttl` and `nap` count ticks; a tick stands for the common unit of
`max_delay_seconds` and the loop's 15 s sleep. A tick is "long": a recovery loop
that is awake finishes before the next tick, unless `SlowActions`. The stream's
`ack_wait` never expires visibly: the loop fetches again only after the
answers of the whole round (`RoundOver`), so a message redelivered meanwhile
is fetched later like any other; the duplicate this makes is the one a lost ack
makes. One program, one event type, one replica (the manifest's number). A
handler's list of actions is one outcome, as `_handle_single_event` counts any
success. Two admin flushes at a time are not modelled.

### OutputChunks and TaskOutput

A text is a sequence of plain characters, wide ones (longer in JSON than in
Python) and line breaks; sizes are small constants with the code's relations
(`SizesAssumption`). `command_wrapper.py:327` refuses to halve a chunk of at
most 1000 characters; 1000 characters take at most 12 kB in JSON, so with the
1 MB limit the branch is unreachable and left out. JetStream is a sequence of
messages of which a delivery may be lost and repeated later (`delay`), or
repeated because its ack was lost (`ack`).
The runner acknowledges every message, whatever became of it. `quiet` stands
for the 60 s without a chunk; `GoesQuiet` may happen at any time a task has
chunks, so a slow worker is included.

### WorkerJobs

`pc` is the task's coroutine; `LoopFree` again says that `spawn_batch` blocks the
loop while a thread creates the jobs, so no output is taken then. Polling is cut
at its await: `Ask` looks at the local status, `Answer` is Kubernetes in the
executor thread, `Apply` uses the answer on whatever the job has become. An
output is one message that arrives at some time or is lost (what happens to it
before is `TaskOutput`). `Rounds` replaces the wall-clock timeout. Whether outputs
are processed as they arrive or after the wait is chosen in `Init` among `Modes`.
`sequential_batches` is left out: no caller passes it.

### StepStreaming

An output becomes a coroutine of its own (`stage`), which posts its assets and
then its findings; a request and its answer are one step. A post the API takes
is an ingest job (`job`); whether the step learns of it (`tracked`) depends on
which of the output's posts raised, as in `_send_batch_assets_progressively`. A
task gathers its coroutines (`gather`), decides from counters and from the
jobs of the *step* whether to send all assets again (`check`), and the step then
polls the jobs it knows (`waiting`). A task whose jobs cannot be created leaves
with its coroutines in flight (`Breaks`). The API may restart and forget its jobs.
Findings stands for nuclei findings; typosquat, WPScan, broken links and
screenshots have endpoints of their own and are left out, as are the proxy path
and `stream_chunk_assets`, which nothing calls.

### EventPublisher

A process is the coroutine that publishes one event, or the background task; `at`
is the await it stands at. `Acquire` and `Enter` are asyncio's lock with its
queue of waiters; the batch is published with the lock held, over dialing,
retries and pauses. What a process has yet to send of the batch it took is a set
(`out`): the order within it is the order of `accepted`, the first of a subject
goes out first (`TakenBefore`, `First`). The queue of wake-ups only restarts the background task's
wait and is modelled by that. `BatchSize > 1` is assumed: with 1 the code
publishes by two. `shutdown`, `flush_batches` and `start_batch_processor` have no
caller.

### JobScheduler

One recurring schedule. The repository's coroutines never suspend, so what the
event loop does between two sleeps is one step; the tear-down of a stopped job is
a thread with its own loop and its steps (`cleanup`) come between any others. An
execution has one job, or one per program of a workflow (`width`). A row of the
history (`row`), the job as its pod reports it (`record`) and the Kubernetes object
(`object`) are kept apart, because the code writes them at different times and
from different processes. A job is stopped at most once and only while its row
runs; "pending" is folded into "running"; edits that change the time come before
the first execution. One-time schedules, failures of the database and the job's
TTL are left out.

### CTMonitor

Coroutines of one event loop: calls of `start` (`starter`), `stop` (`stopper`), the
coalesced reload (`worker`), one `_ct_ingestion_loop` per start (`loop`), and in the
API the coalesced sync (`sync`). A loop is at its pause, at a request to Kubernetes
(`up`, `down`), at the wait for the server (`ready`), or awaits the end of a stream
(`awaits`); a cancellation (`hit`) meets it at any of them, and at the last one it is
swallowed, as `_stop_ct_ingestion` does. A version of the settings stands for one
saved program; `wanted` says whether monitoring is on in it. Saving and
scheduling the sync are one step. Without `"cross"` in `Env`, starts and stops do not
overlap; what the code does when they do is in section 4. The TLD filter, which is
off by default, matching, alerts and the contents of the submitters are left out.

## 3. Runs

Every passing run ends by exhausting its state space. `Env` decides the faults;
each run states one question.

| Run | Shows | Bounds |
|---|---|---|
| `BatchingFaults` | types; implements `EventFate`: an accepted event is executed or given up at most once | a batch message with two events and a single one, a batching and a direct handler, Redis errors, failing actions, redelivery, actions slower than a tick |
| `BatchingAdmin` | no empty or overfull batch, no second execution | flush and clear against two messages and the recovery loop |
| `BatchingCrash` | one place per event; ack only after an action | one message, one crash anywhere; failing actions; edited, stale, empty configuration; pause, flush |
| `BatchingLive` | every accepted event is executed; every message is answered or given up | lost acks, fair |
| `OutputFaults` | well-formed chunks, one honest answer, and an answer once the final message is stored or ten of eleven chunks arrived | outputs of up to two lines of any kinds of length, of three that are all alike or all different, and one of eleven chunks, two faults of any kind, fair |
| `JobsFaults` | no output without handler, success has all outputs, nothing processed late or stamped unearned, the wait ends | two jobs in two batches, three polls, every fault, both modes, fair |
| `StreamingFaults` | a step that ends well waited for what it posted; nothing sent twice without a failure; the step ends | two tasks, three outputs, two faults, one poll before the time is up, fair |
| `PublisherFaults` | no batch ages without bound or is published twice; nothing lost without a fault; order within a subject; everything settles | three batched events of two subjects, an urgent one, two attempts, one fault, fair |
| `SchedulerFaults` | counters are the rows; a stop is neither success nor failure; a running schedule is watched; a disabled one is quiet; monitors end | batch and workflow, two jobs, one fault, two changes, fair |
| `MonitorFaults` | when all is quiet the settings saved last are in use; one stream at most, none when stopped; the stream follows the settings | two saves, three starts, two stops, one fault, fair |

Runs that TLC must find violated, each a disagreement between the code and what
the repository says of it (quoted under `findings`): `SchedulerBroken` (a batch job
that broke down is recorded as completed) and `MonitorScale` (a stop that cancels
a scaling leaves the certstream server at 0 replicas although it is wanted; no
fault is needed). More of them are in section 4.

Why the bounds are enough. In `EventBatching` the races are between a handler,
a second handler or message, a sweeper and the clear thread at one batch: two
messages, one of them with two events, and a limit of two events per batch let
each of them meet the others with the batch empty, filling and full. `MaxDelay =
2` and `SweepPeriod = 1` separate "expired" from "dropped". In `TaskOutput` three
lines reach every branch of the cut (fits, opens a chunk, longer than a chunk,
too big after encoding); eleven chunks are the least of which nine tenths are not
all; two faults are what it takes to give up a message of two attempts.
`WorkerJobs` has its first and its last batch; a variant with three jobs, two in
the first batch, was run once as well. `BatchingCrash` has one message,
redelivered once: with two its state space is out of reach; what it says of
`OnePlace` is proved for any number. In `StepStreaming` a task with two outputs, one
of them of both kinds, next to a task with one lets the jobs of one task decide
about the other's assets. `EventPublisher` has a batch that fills, one that ages
and a message that goes past both; two subjects make a publication of two messages.
Two jobs are two executions that overlap, or one of two programs. In `CTMonitor` the
second save falls into every phase of the sync and reload for the first, and
three starts with two stops let each stop meet the loop at each of its awaits.
Bounds: `MaxDeliver`, `MaxCrashes`, `Attempts`, `MaxFaults`, `Rounds`, `MaxLines`,
`MaxPolls`, `MaxJobs`, `MaxChanges`, `MaxSaves`, `MaxStarts`, `MaxStops`.

Deadlock is checked in the `Batching*` runs and in `PublisherFaults`. In the others
a task, a step, the bounded number of executions or of starts ends, so it is not.

Fairness. `EventBatching!Fairness`: the event loop runs every ready coroutine and
the clear thread, actions end (every HTTP call has a timeout), time passes.
Nothing is assumed of administrators, configuration or faults. `TaskOutput`:
the worker runs on until killed, the listener polls and runs the stalled check.
`WorkerJobs`: only the task's own coroutine and Kubernetes' answers are fair; jobs
may hang. `StepStreaming`: only the runner's coroutines; ingest jobs may hang.
`EventPublisher`: the event loop runs, time passes, NATS answers or the attempt
times out; nobody has to publish. `JobScheduler`: only the monitors, which are
timers in a loop; pods, threads, users may do nothing. `CTMonitor`: the monitor's
own coroutines, and the end of a consumer that was told to end; the API, users
and saves need not happen.

The definitions marked `Mutation:` in the modules are plausible faults of the
code; putting one in place of the definition it follows makes TLC find the
corresponding property violated, which shows that the property looks at the code.

## 4. Where code and words differ

Two disagreements are runs. The first table has others that TLC showed when the
property in the last column was asked of the model (with the `Env` kind it names);
those properties are not kept, since the answer is known.

| Code | What is said | What the code does | Property that fails |
|---|---|---|---|
| `event-handler/app/main.py:249` | a pending batch is "waiting to be flushed when max_events or max_delay is reached" (`frontend/src/pages/admin/EventStats.js:607`) | paused, the recovery loop only sleeps, and the keys expire after `2*max_delay_seconds` | `lost["expired"] = {}` with `"pause"` |
| `event_handlers.py:1020` | "Just queued for batching" (`:241`) | a Redis error is swallowed, the event is in no batch, its message acknowledged | `lost["redis"] = {}` with `"redis"` |
| `task_queue_client.py:366` | "Wait for more chunks" (`.cursor/rules/runner-job-management.mdc:289-300`) | a final chunk that overtakes another hands over a partial output | no partial call while all chunks are in the stream, with `"delay"` |
| `command_wrapper.py:129` | outputs "are split to avoid exceeding NATS payload limits" (`.cursor/rules/worker-architecture.mdc:113`) | the split counts characters, the limit bytes: an output of wide characters in between is never sent | `w = "exit" /\ faults = 0 => msgs # <<>>` |
| `command_wrapper.py:404` | "Try to report error via simple publish if possible" (`:401`) | `total_chunks` is None, the runner's comparison raises, the report is lost | a received `ErrorMessage` leads to a call |
| `task_queue_client.py:437` | "Call handler with failure" (`:433`) | the payload says success | `calls[c].kind = "nothing" /\ ~ok => ~calls[c].ok` |
| `task_queue_client.py:129` | "Process any tasks with partial chunks before shutting down" (`:121`) | the loop runs over the tracking record and raises | `~running /\ track # NoTrack => calls # <<>>` |
| `worker_job_manager.py:678` | "Skip jobs that are already completed" (`:652`) | an answer asked for before the output arrived sets a completed job back to running | `[][status[j] = "completed" => status'[j] = "completed"]_vars` |
| `worker_job_manager.py:661` | "True if all jobs completed successfully, False otherwise" (`:604`) | Kubernetes' "Completed" may come before the output: the wait returns False, the output is dropped | all jobs succeeded `=> verdict # "some"` |
| `worker_job_manager.py:255` | the same | a failed command publishes too, and counts as success | `verdict = "all" => \A j \in Jobs : ran[j] = "ok"` with `"exit"` |
| `event-handler/app/main.py:168` | "Failed messages get NAK'd for redelivery" (`.cursor/rules/event-handler-architecture.mdc:195`) | a batch message counts as a success whatever became of its events, and the publisher sends nothing but batches | `AckedImmediateExecuted` for batch messages |
| `command_wrapper.py:166` | "Large outputs are sent in chunks and must be reassembled" (`.cursor/rules/runner-job-management.mdc:271`) | the line break at a cut is dropped: two lines become one | `calls[c].text = Text` for a complete output |
| `command_wrapper.py:344` | "Break out of retry loop, will try again with smaller chunk" | the loop over the chunks goes on, the first half is never sent | every half is sent |
| `task_executor.py:3646` | "updates timestamps only for targets whose job succeeded" (`:3645`) | positions of jobs are taken for positions of targets, though a job may carry several | `StampsAreEarned` with `PerJob = 2` |
| `ct-monitor/app/main.py:242` | the program configuration "reloads on ct-monitor startup and when CT-related program settings are saved" (`frontend/src/pages/admin/SystemSettings.js:1791`) | the load of a start may read before, and install after, a reload that was requested meanwhile: the older settings stay | `SettledIsCurrent` without `~overtaken` |

Read off the code while it was modelled; the exceptions in the properties, and
the boundaries of the models, come from these:

* *Publisher.* `max_age` (`event_publisher.py:20`, "Max age in seconds before
  forcing publish") is read by nobody: a batch of n events may age n times
  `batch_timeout`, which is what `AgeBounded` states. A group that fails is dropped
  (`:269`); the fallback by single events (`:273-281`) is never reached. `shutdown`
  has no caller: stopping the API loses the batch.
* *Streaming.* "asset coordination already handled assets for step"
  (`task_executor.py:803`) counts any ingest job of the step, so assets whose own
  post raised may never be sent. The synchronous client lacks
  `post_nuclei_findings_unified`, so findings are never sent again (`:904`). When
  the assets of an output are taken and its findings refused, the ingest job is
  not registered; nor are those of assets sent at the end of a task. A job the API
  no longer knows counts as completed (`task_components.py:359`), also after a
  restart. A type that fails to be stored leaves its job "completed"
  (`unified_asset_processor.py:335`). Jobs that cannot be created end a task with
  its coroutines still posting (`task_executor.py:4139`).
* *Schedules.* Disabling pauses the timer ("without deleting it",
  `routes/scheduled_jobs.py:515`) and sets `schedule_data.enabled`, but a restart
  reads the column (`job_scheduler.py:140`) and an edit adds the timer anew
  (`:633-641`): a disabled schedule fires. `DisabledIsQuiet` excepts both. A pod's
  report overwrites "stopping" (`routes/jobs.py:511`). A restart leaves the rows
  of running executions running for ever, and a job whose tear-down it cut in
  "stopping", which the route refuses to stop again (`:595`). A monitor gives up
  after its last look and records a failure while the job goes on (`:911`). An
  error of Kubernetes counts as "not found" and fails a workflow (`:850-880`). With
  overlapping executions the first to end sets the schedule to "scheduled". An
  unknown job type ends `run-job.py` with exit code 0 (`:334-337`).
* *CT monitor.* A program saved during a stop starts the service: `stop` then
  takes away the submitter of the new start and disconnects its publisher
  (`main.py:382-392`), and the old loop may forget the new stream or leave the old
  one running (`OneStream` fails with `"cross"`). A consumer whose task ends with
  an exception makes `_stop_ct_ingestion` raise (`:353`), which ends the ingestion
  loop for good. A program that cannot be read is silently left out of what is
  installed (`:519-523`). A batch of the asset submitter that is being posted when
  its task is cancelled is gone (`asset_submitter.py:158`; "failed batches are
  retried on later sightings", `:15`). Two matches of one domain at a time may both
  alert (`main.py:845`). Deleting a program triggers no sync.

## 5. Proofs

Every safety property that a passing run checks is also a theorem, for all values of the
constants that the `*Assumption`s of the modules allow: any number of messages,
handlers, jobs, outputs, events, saves, starts, faults, and texts of any length. Each
inductive invariant was checked by TLC on the constants of the run before it was proved.
The proofs have a lemma per action or per group of actions that do the same to the
invariant.

Hypotheses stand in front of theorems, where the code needs them and the property is
false without:

| Theorem | Holds under | Why not without |
|---|---|---|
| `BatchesBelowLimit` | `"redis"`, `"crash"` not in `Env` | one call fills the batch, the next takes it (`event_handlers.py:232-237`): an addition that took effect but raised, a take that raised, or a crash between the two leaves it full |
| `EventsExecutedOnce` | `"redis"`, `"ack"`, `"crash"` not in `Env` | a lost ack, or a crash between the action and the ack, brings the message again; so does the nak after a take that raised, while its event is still in the batch |
| `MonitorTypeCorrect`, `OneStreamOnly` | `"cross"` not in `Env` | a start that overlaps a stop can leave two streams (section 4) |
| `StampsEarned` | `PerJob = 1`, or all jobs succeeded | positions of jobs are taken for positions of targets (section 4) |

The runs that check these properties satisfy them. What remains allowed is every other
fault: flush and clear, pause, edited, stale or empty configurations, failing actions
and the redelivery they cause; and in `CTMonitor` all failures and cancellations.

### EventBatching

`EventBatchingProofs`: `TypeCorrect`, `PlacesCorrect`, `OnePlaceCorrect` and
`FateImplemented`, the refinement of `EventFate`. `OnePlace` is not inductive. A take
overwrites the slips a coroutine holds, so it needs that a coroutine holds none unless
it acts (`HandsEmpty`). An accepted slip must be new, or a second copy would appear in
Redis; it is, because a task never returns to a handler or event of a delivery
(`SlipsFresh`), which in turn needs that a message with a task is not fetched again
(`TaskOwnsMessage`). `PlacesInv` is the conjunction. There is one lemma per group of
actions that move slips the same way (accept, take, settle, lose), and `FateImplemented`
follows because each such move is a step of `EventFate` or a stutter.

`EventDeliveryProofs` adds what needs `PlacesInv` and more:

* `AckMeansExecuted`: `AckInv` follows a message of one event through its task. From the
  moment its result says success, an event of its *last* delivery has been executed or
  batched; while it acts the slip is in its hands or the message is good already.
* `EmptyBatchIsCleared`: `FlushInv` says what the missing await between `add_to_batch`
  and `get_and_clear_batch` gives: one task is between them at most, and until the clear
  thread has taken something the batch it takes is not empty.
* `BatchesBelowLimit`: `LimitInv`: a batch is below its limit or a task is about to take
  it.
* `EventsExecutedOnce`: `OnceInv`: whatever an earlier delivery of a message was offered
  to has been given up, so a redelivery cannot act on it twice; within a delivery
  nothing is done while there is no success to show.

### OutputChunks and TaskOutput

`ChunksAlwaysSound` and `HonestAnswer` rest on what recursive functions compute for
every text. The library's induction theorems take an operator as a parameter; here
induction is set-based instead. From `NatLessThanWellFounded` every non-empty set of
naturals has a least element (`LeastElement`), hence a set with 0 and all successors is
`Nat` (`CountUp`), and sequences are generated by `Append` (`GrowSeq`). For each fold
(`FlattenSeq`, `Without`, `Join`, `ByLines`) three lemmas show that its recursion has a
solution, that one step can be unfolded, and that it depends on what it has seen only;
from these come the equations by which it is used.

* `ChunksAlwaysSound`: the line loop keeps, for the lines it has seen, all their letters
  in the chunks and the chunk under construction, whose size it knows (`Built`, in
  `AddLineSound`). It follows that the pass for chunks that are still above the
  effective size (`command_wrapper.py:213-245`) never finds one (`CutNothing`). Halving
  keeps letters and sizes too (`HalveSound`).
* `HonestAnswer`: `TInv` says that a stored chunk is the worker's chunk of that number,
  and what the client holds is what was stored. The difficulty is the client's test
  `processed_count == total_chunks` against a total that was announced before later
  halvings. `Possible` is the set of numbers that are stored as non-final chunks or may
  still be; every non-final message announces more chunks than `Possible` has. Halving
  keeps this: it makes one chunk more, and one that is never sent, for the loop goes on
  after the halves (`HalvePossible`). So no set of non-final chunks is ever complete by
  count; only the final one, whose total is exact, completes it, and then no number is
  missing. `OneHonestAnswer` follows, since halving does not change the text of all
  chunks together.

### WorkerJobs

`IInv` is `Typed /\ Tracked /\ Results /\ EarnedStamps`. `HandlersInTime` needs to know
which jobs exist at each point of the task (`CreatedInOrder`): before the loop is
released every created job has its handler, and keeps it until its output is taken
(`HandlersWait`). `SuccessIsComplete` follows from `OutputsTaken`, `NothingAfterReturn`
because a task that returned has no handlers.

### StepStreaming

`StreamingInv` is inductive. The wait is right (`WaitCorrect`) because the step looks
for ingest jobs after every task has gathered its outputs (`GatheredAllSent`), because
an output whose posts were answered has registered each job (`AnsweredTracked`), and
because whatever the step no longer waits for has ended (`WaitedFor`). That a task sends
its assets again only when each of its posts raised (`ResendsCorrect`) needs that the
batch is sent after the last of them (`BatchAtEnd`). `StoredCorrect` needs `CleanInv`
besides: without a fault an ingest job ends only with its data stored.

### EventPublisher

`PInv` has one part per mechanism: `LockInv` (who has something to send holds the lock,
and who waits waits once), `AgeInv` (a wait of the background task that nothing
restarted ends with a batch that is due, hence `AgeStaysBounded`), `LinkInv` (without a
fault the connection is dialed once, under its own lock, and every attempt finds it),
`OrderInv` (the batch is the tail of what was accepted) and `LedgerInv`: what was
accepted before the current batch is settled, what is yet to send of it has as many
copies as attempts that raised falsely, and the events of a subject in it are settled
together. `OnlyFaultsCopy` is a part of it, `OrderKept` follows from it.

### JobScheduler

`CountersRight` is a statement about cardinalities: each step that counts is one that
changes the status of exactly one row, so that the sets of rows by status grow by one
element. `BoundInv` keeps the counters within the number of jobs started (for the
types), `RunInv` says that what is watched has a row that its monitor has not concluded,
and `StopInv` that a stop which no report overwrote is on record until then.
`RunningWatched` and `StopsStay` follow; `DisabledQuiet`, the action property, follows
from `TimerInv`: an active timer means an enabled schedule, or one that a restart or an
edit has reopened.

### CTMonitor

`SettingsCurrent` needs no hypothesis on `Env`, so it covers starts that overlap stops.
`LoadInv`: as long as the latest save is not installed, someone has yet to install it
(`Pending`): the API has not told the service, a reload was requested and has not read
it, or one that has read it has not ended; a start's load that overtook a reload is the
exception the property names. `OneStreamOnly` rests on `LoopInv` (one loop at a time,
gone before the next start) and `StreamInv` (the only stream is the one the loop's
`_ct_ingestion_task` refers to, and it is closed when the loop is gone).

### Only model-checked

Liveness (`EverySlipExecuted`, `EveryMessageSettles`, `OutputAnswered`, `WaitReturns`,
`StepEnds`, `AlwaysSettles`, `MonitorsEnd`, `IngestionFollows`): fairness and ENABLED
are out of the prover's reach. The properties of the two runs that find violations are
false.

## 6. Not modelled

Most of the repository's 116 000 lines are routes, SQL repositories, the command
lines and parsers of about thirty tools, clients of vendors, and the front end:
code whose behaviour is that of a transaction or of a sequential function, where
tests reach what a model would. They are listed under `components`. In the modelled
parts: handler conditions and templates, the bodies of actions, NATS connection
set-up, logging, statistics, JSON that does not parse, several programs or
replicas, matching of certificates, one-time schedules and their disposal
(`waf_auto_rerun.py` uses them), typosquat, WPScan and screenshot endpoints.

## 7. Plan

Done: `EventBatching` with `EventFate`; `OutputChunks` and `TaskOutput`; `WorkerJobs`;
`EventPublisher`; `StepStreaming`, which covers the ingest jobs; `JobScheduler`;
`CTMonitor`; the proofs of section 5, which state every safety property of the
passing runs.

Left, in this order:

1. An abstract specification of the publisher (an event is stored once, or more
   often, or given up for a named reason), and the refinement, which `LedgerInv` and
   `LinkInv` already imply in substance; likewise the answer a task's output gets.
2. One-time schedules; starts that overlap stops in `CTMonitor`, with the publisher
   and the submitters; alerts and the asset submitter's buffer.
