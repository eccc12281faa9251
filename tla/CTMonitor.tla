------------------------------- MODULE CTMonitor -------------------------------
(***************************************************************************)
(* How the certificate monitor follows the programs' settings: the API     *)
(* asks it to start and to reload after a program is saved, it fetches the *)
(* settings, scales the certstream server and opens or closes its stream   *)
(* (src/src/ct-monitor/app/main.py, certstream_consumer.py,                *)
(* certstream_k8s.py; src/src/api/app/services/ct_monitor_client.py).      *)
(*                                                                         *)
(* Coroutines of one event loop: starts, a stop, the worker that reloads   *)
(* the settings and one ingestion loop for each start; what each does      *)
(* between two awaits is one step.  A version of the settings stands for   *)
(* one program; the TLD filter, off by default, matching and the alerts    *)
(* are left out.                                                           *)
(***************************************************************************)
EXTENDS Naturals, FiniteSets

CONSTANTS
  MaxSaves,   \* bound on programs saved
  MaxStarts,  \* bound on starts of the service
  MaxStops,   \* bound on its stops
  MaxFaults,  \* bound on faults
  Env         \* what may happen

ASSUME MonitorAssumption ==
  /\ MaxSaves \in Nat /\ MaxStarts \in Nat \ {0}
  /\ MaxStops \in Nat /\ MaxFaults \in Nat
  /\ Env \subseteq {"http", "connect", "fetch", "scale", "lost", "cross"}

Versions == 0..(MaxSaves + 1)   \* 0: nothing is loaded
Starts   == 1..MaxStarts
Streams  == 1..MaxStarts + 1

VARIABLES
  ver,      \* the version of the settings the API holds
  wanted,   \* whether a version has CT monitoring enabled
  sync,     \* the API's worker: where it stands, rerun flag, answers 503
  running,  \* _running
  starter,  \* a call of start: where it stands, the version it has read
  stopper,  \* stop: where it stands, what it waits for, calls so far
  worker,   \* _config_refresh_worker: the same, and the request flag
  snap,     \* the version of _matching_snapshot and the flags beside it
  loop,     \* _ct_ingestion_loop of a start: where it stands, the stream it
            \* waits for, a cancellation on its way
  monitoring,  \* _monitoring_task, by its start, or 0
  stream,   \* the consumers: none, live, ending, over, or leaked
  ingest,   \* the consumer and the _ct_ingest_task the service knows of, or 0
  scale,    \* _certstream_replicas_desired (2: None), and the replicas there are
  faults,   \* history: faults so far
  overtaken \* history: an older version was installed over a newer one

serviceVars == <<running, starter, stopper>>
loadVars    == <<worker, snap, overtaken>>
ingestVars  == <<loop, monitoring, stream, ingest, scale>>
apiVars     == <<ver, wanted, sync>>
vars == <<serviceVars, loadVars, ingestVars, apiVars, faults>>

Init ==
  /\ ver = 1 /\ wanted \in {f \in [Versions -> BOOLEAN] : ~f[0]}
  /\ sync = [at |-> "idle", rerun |-> FALSE, tries |-> 0]
  /\ running = FALSE /\ starter = [i \in Starts |-> [at |-> "new", got |-> 0]]
  /\ stopper = [at |-> "idle", of |-> 0, calls |-> 0]
  /\ worker = [at |-> "idle", requested |-> FALSE, got |-> 0]
  /\ snap = 0 /\ overtaken = FALSE
  /\ loop = [i \in Starts |-> [at |-> "none", awaits |-> 0, hit |-> FALSE]]
  /\ monitoring = 0 /\ stream = [k \in Streams |-> "none"]
  /\ ingest = [task |-> 0, consumer |-> 0]
  /\ scale = [desired |-> 2, actual |-> 0]
  /\ faults = 0

Fault(kind) == kind \in Env /\ faults < MaxFaults /\ faults' = faults + 1

-----------------------------------------------------------------------------
(* start, with the first load of the settings *)

Starting == {i \in Starts : starter[i].at \notin {"new", "over"}}

\* Bound: without "cross", starts and stops do not overlap.
Apart == "cross" \in Env \/ (Starting = {} /\ stopper.at = "idle")

\* A start is numbered as it comes; a service that runs refuses it.
BeginStart(i) ==
  /\ ~running /\ Apart /\ starter[i].at = "new"
  /\ \A j \in 1..(i - 1) : starter[j].at # "new"
  /\ running' = TRUE /\ starter' = [starter EXCEPT ![i].at = "connect"]
  /\ UNCHANGED stopper

\* The pod starts the service, or an administrator does.
Start(i) ==
  BeginStart(i) /\ UNCHANGED <<loadVars, ingestVars, apiVars, faults>>

\* NATS is connected and the submitters are started, or that raises.
Connect(i) ==
  /\ starter[i].at = "connect" /\ UNCHANGED <<stopper, loadVars, ingestVars, apiVars>>
  /\ \/ starter' = [starter EXCEPT ![i].at = "fetch"] /\ UNCHANGED <<running, faults>>
     \/ /\ Fault("connect") /\ running' = FALSE
        /\ starter' = [starter EXCEPT ![i].at = "over"]

Install(v) == snap' = v /\ overtaken' = (overtaken \/ v < snap)

StartFetches(i) ==
  /\ starter[i].at = "fetch"
  /\ \/ starter' = [starter EXCEPT ![i] = [at |-> "build", got |-> ver]] /\ UNCHANGED faults
     \/ /\ Fault("fetch")
        /\ starter' \in {[starter EXCEPT ![i] = [at |-> "build", got |-> 0]],
                         [starter EXCEPT ![i].at = "fail"]}
  /\ UNCHANGED <<running, stopper, loadVars, ingestVars, apiVars>>

\* The settings are installed, unless the list of programs was not there, and
\* the ingestion loop is created.
StartEnds(i) ==
  /\ \/ starter[i].at = "build" /\ Install(starter[i].got)
     \/ starter[i].at = "fail" /\ UNCHANGED <<snap, overtaken>>
  /\ starter' = [starter EXCEPT ![i] = [at |-> "over", got |-> 0]]
  /\ loop' = [loop EXCEPT ![i].at = "pause"] /\ monitoring' = i
  /\ ingest' = [ingest EXCEPT !.consumer = 0]
  /\ UNCHANGED <<running, stopper, worker, stream, scale, apiVars, faults>>

-----------------------------------------------------------------------------
(* request_config_refresh and _config_refresh_worker *)

\* Mutation: a request during a reload is taken for served.
RequestIfIdle ==
  worker' = IF worker.at = "idle" THEN [worker EXCEPT !.at = "new", !.requested = TRUE]
            ELSE worker

Request ==
  worker' = [worker EXCEPT !.requested = TRUE,
                           !.at = IF @ = "idle" THEN "new" ELSE @]

Reload == worker' = [at |-> "fetch", requested |-> FALSE, got |-> 0]

WorkerBegins ==
  /\ worker.at = "new" /\ Reload
  /\ UNCHANGED <<snap, overtaken, serviceVars, ingestVars, apiVars, faults>>

\* After a reload: again if one was requested meanwhile.
Rerun ==
  IF worker.requested THEN Reload ELSE worker' = [worker EXCEPT !.at = "idle", !.got = 0]

\* A program that cannot be read is left out of what is installed; when the
\* list of programs cannot be read, nothing is.
WorkerFetches ==
  /\ worker.at = "fetch" /\ UNCHANGED <<snap, overtaken, serviceVars, ingestVars, apiVars>>
  /\ \/ worker' = [worker EXCEPT !.at = "build", !.got = ver] /\ UNCHANGED faults
     \/ /\ Fault("fetch")
        /\ worker' = [worker EXCEPT !.at = "build", !.got = 0] \/ Rerun

WorkerInstalls ==
  /\ worker.at = "build" /\ Install(worker.got) /\ Rerun
  /\ UNCHANGED <<serviceVars, ingestVars, apiVars, faults>>

-----------------------------------------------------------------------------
(* _ct_ingestion_loop, _reconcile_ct_ingestion, _stop_ct_ingestion *)

Over(k) == stream[k] \in {"over", "leaked"}

Goes(i, where) == loop' = [loop EXCEPT ![i] = [at |-> where, awaits |-> 0, hit |-> FALSE]]

\* Mutation: the stream is forgotten before it has ended.
CloseNow(i, where) ==
  /\ stream' = [k \in Streams |-> IF k = ingest.task /\ ~Over(k) THEN "ending" ELSE stream[k]]
  /\ Goes(i, where) /\ ingest' = [task |-> 0, consumer |-> 0]

\* Consumer and task are told to end, and the task is waited for.  A consumer
\* the service has lost sight of goes on in its thread.
Close(i, where) ==
  LET k == ingest.task
  IN  IF k = 0 \/ Over(k)
        THEN Goes(i, where) /\ ingest' = [task |-> 0, consumer |-> 0] /\ UNCHANGED stream
        ELSE /\ stream' = [stream EXCEPT ![k] =
                  IF ingest.consumer = k \/ @ = "ending" THEN "ending" ELSE "leaking"]
             /\ loop' = [loop EXCEPT ![i] = [at |-> where, awaits |-> k, hit |-> FALSE]]
             /\ UNCHANGED ingest

\* The loop goes on when the task it waits for has ended.
Closed(i) ==
  LET k == loop[i].awaits
  IN  /\ k # 0 /\ Over(k)
      /\ loop' = [loop EXCEPT ![i].awaits = 0, ![i].hit = FALSE]
      /\ ingest' = [task |-> 0, consumer |-> 0]
      /\ UNCHANGED <<monitoring, stream, scale, serviceVars, loadVars, apiVars, faults>>

\* A stream is opened unless one is there.
OpenStream ==
  IF ingest.task # 0 /\ ~Over(ingest.task)
    THEN UNCHANGED <<stream, ingest>>
    ELSE LET k == CHOOSE k \in Streams :
                    stream[k] \in {"none", "over"} /\ k # ingest.task
         IN  /\ stream' = [stream EXCEPT ![k] = "live"]
             /\ ingest' = [task |-> k, consumer |-> k]

Acts(i) ==
  /\ loop[i].awaits = 0 /\ ~loop[i].hit
  /\ UNCHANGED <<monitoring, serviceVars, loadVars, apiVars>>

\* The top of the loop: on a stop, or when nothing is wanted, the stream is
\* closed; else the server is scaled up first if that was not done yet.
Reconcile(i) ==
  /\ loop[i].at = "pause" /\ Acts(i) /\ UNCHANGED <<scale, faults>>
  /\ \/ ~running /\ Close(i, "ended")
     \/ running /\ ~wanted[snap] /\ Close(i, "idle")
     \/ running /\ wanted[snap] /\ scale.desired # 1 /\ Goes(i, "up") /\ UNCHANGED <<stream, ingest>>
     \/ running /\ wanted[snap] /\ scale.desired = 1 /\ Goes(i, "pause") /\ OpenStream

\* With its stream closed the server is scaled down.
Idle(i) ==
  /\ loop[i].at = "idle" /\ Acts(i)
  /\ Goes(i, IF scale.desired = 0 THEN "pause" ELSE "down")
  /\ UNCHANGED <<stream, ingest, scale, faults>>

Target(i) == IF loop[i].at = "up" THEN 1 ELSE 0

Scaled(i) ==
  /\ loop[i].at \in {"up", "down"} /\ Acts(i)
  /\ scale' = [desired |-> Target(i), actual |-> Target(i)]
  /\ Goes(i, IF loop[i].at = "up" THEN "ready" ELSE "pause")
  /\ UNCHANGED <<stream, ingest, faults>>

\* Mutation: an error ends the loop.
ScaleRaises(i) == Close(i, "ended")

\* Kubernetes refuses, or its answer is lost.  The stream is opened all the same.
GoOn(i) ==
  /\ Goes(i, "pause")
  /\ IF loop[i].at = "up" THEN OpenStream ELSE UNCHANGED <<stream, ingest>>

ScaleFails(i) ==
  /\ loop[i].at \in {"up", "down"} /\ Acts(i) /\ GoOn(i)
  /\ \/ Fault("scale") /\ UNCHANGED scale
     \/ Fault("lost") /\ scale' = [scale EXCEPT !.actual = Target(i)]

\* The server answers, or has not for too long.
Ready(i) ==
  /\ loop[i].at = "ready" /\ Acts(i) /\ Goes(i, "pause") /\ OpenStream
  /\ UNCHANGED <<scale, faults>>

\* The loop is cancelled at its await, and closes the stream; a request to
\* Kubernetes may have been heard.
Interrupted(i) ==
  /\ loop[i].hit /\ loop[i].awaits = 0 /\ loop[i].at # "ended"
  /\ Close(i, "ended")
  /\ \/ UNCHANGED scale
     \/ loop[i].at \in {"up", "down"} /\ scale' = [scale EXCEPT !.actual = Target(i)]
  /\ UNCHANGED <<monitoring, serviceVars, loadVars, apiVars, faults>>

\* A consumer's tasks have ended.
StreamEnds(k) ==
  /\ stream[k] \in {"ending", "leaking"}
  /\ stream' = [stream EXCEPT ![k] = IF @ = "ending" THEN "over" ELSE "leaked"]
  /\ UNCHANGED <<loop, monitoring, ingest, scale, serviceVars, loadVars, apiVars, faults>>

-----------------------------------------------------------------------------
(* stop *)

\* A cancellation that meets the loop while it waits for its stream to end is
\* swallowed.
Cancelled(i) ==
  loop' = [j \in Starts |->
    IF j = i /\ loop[j].awaits = 0 /\ loop[j].at \notin {"none", "ended"}
      THEN [loop[j] EXCEPT !.hit = TRUE] ELSE loop[j]]

Stop ==
  /\ running /\ Apart /\ stopper.calls < MaxStops /\ stopper.at = "idle"
  /\ running' = FALSE
  /\ stopper' = [at |-> "loop", of |-> monitoring, calls |-> stopper.calls + 1]
  /\ Cancelled(monitoring)
  /\ UNCHANGED <<starter, monitoring, stream, ingest, scale, loadVars, apiVars, faults>>

LoopGone(i) == \A j \in Starts : j = i => loop[j].at = "ended" /\ loop[j].awaits = 0

\* Its loop has ended: the submitters are stopped and the publisher drained.
StopLoop ==
  /\ stopper.at = "loop" /\ LoopGone(stopper.of)
  /\ stopper' = [stopper EXCEPT !.at = "parts"]
  /\ stream' = [k \in Streams |->
       IF k = ingest.consumer /\ stream[k] = "live" THEN "ending" ELSE stream[k]]
  /\ UNCHANGED <<running, starter, loop, monitoring, ingest, scale, loadVars, apiVars, faults>>

StopEnds ==
  /\ stopper.at = "parts"
  /\ stopper' = [stopper EXCEPT !.at = "idle", !.of = 0]
  /\ UNCHANGED <<running, starter, loadVars, ingestVars, apiVars, faults>>

-----------------------------------------------------------------------------
(* The API: schedule_ct_monitor_program_config_sync and its worker *)

\* A program is saved and a sync scheduled.
Save ==
  /\ ver <= MaxSaves /\ ver' = ver + 1
  /\ sync' = [sync EXCEPT !.rerun = TRUE, !.at = IF @ = "idle" THEN "new" ELSE @]
  /\ UNCHANGED <<wanted, serviceVars, loadVars, ingestVars, faults>>

SyncGoes(where) == sync' = [sync EXCEPT !.at = where, !.tries = 0]

\* POST /start.
SyncBegins ==
  /\ sync.at = "new" /\ UNCHANGED <<ver, wanted, loadVars, ingestVars>>
  /\ \E where \in {"start", "refresh"} :
       /\ sync' = [at |-> where, rerun |-> FALSE, tries |-> 0]
       /\ \/ where = "start" /\ UNCHANGED faults /\ \E i \in Starts : BeginStart(i)
          \/ where = "refresh" /\ running /\ UNCHANGED <<serviceVars, faults>>
          \/ where = "refresh" /\ Fault("http") /\ UNCHANGED serviceVars

\* The start answers, or does not in time.
SyncStarted ==
  /\ sync.at = "start" /\ SyncGoes("refresh")
  /\ UNCHANGED <<ver, wanted, serviceVars, loadVars, ingestVars, faults>>

SyncEnds == IF sync.rerun THEN SyncGoes("new") ELSE SyncGoes("idle")

\* Mutation: one attempt more.
GivesUpLate == sync.tries = 3

GivesUp == sync.tries = 2

\* POST /refresh-domains, three times while the service says it does not run.
SyncRefreshes ==
  /\ sync.at = "refresh"
  /\ \/ running /\ Request /\ SyncEnds /\ UNCHANGED faults
     \/ ~running /\ GivesUp /\ SyncEnds /\ UNCHANGED <<worker, faults>>
     \/ /\ ~running /\ ~GivesUp /\ UNCHANGED <<worker, faults>>
        /\ sync' = [sync EXCEPT !.tries = @ + 1]
     \/ Fault("http") /\ SyncEnds /\ UNCHANGED worker
  /\ UNCHANGED <<ver, wanted, serviceVars, snap, overtaken, ingestVars>>

-----------------------------------------------------------------------------

StartStep(i) == Connect(i) \/ StartFetches(i) \/ StartEnds(i)

LoopStep(i) ==
  \/ Reconcile(i) \/ Idle(i) \/ Scaled(i) \/ ScaleFails(i) \/ Ready(i)
  \/ Closed(i) \/ Interrupted(i)

WorkerStep == WorkerBegins \/ WorkerFetches \/ WorkerInstalls

StopStep == StopLoop \/ StopEnds

Next ==
  \/ \E i \in Starts : Start(i) \/ StartStep(i) \/ LoopStep(i)
  \/ \E k \in Streams : StreamEnds(k)
  \/ WorkerStep \/ Stop \/ StopStep
  \/ Save \/ SyncBegins \/ SyncStarted \/ SyncRefreshes

Spec == Init /\ [][Next]_vars

\* The event loop runs every ready coroutine, and requests are answered or time
\* out.  Nobody has to save, start or stop, and the API need not run.
FairSpec ==
  /\ Spec
  /\ WF_vars(WorkerStep) /\ WF_vars(StopStep)
  /\ \A i \in Starts : WF_vars(StartStep(i)) /\ WF_vars(LoopStep(i))
  /\ \A k \in Streams : WF_vars(StreamEnds(k))

-----------------------------------------------------------------------------
(* Properties *)

\* Every variable stays in its range.
TypeOK ==
  /\ ver \in Versions \ {0} /\ wanted \in [Versions -> BOOLEAN] /\ snap \in Versions
  /\ sync \in [at : {"idle", "new", "start", "refresh"}, rerun : BOOLEAN, tries : 0..2]
  /\ running \in BOOLEAN /\ overtaken \in BOOLEAN /\ faults \in 0..MaxFaults
  /\ starter \in [Starts -> [at : {"new", "connect", "fetch", "build", "fail", "over"},
                             got : Versions]]
  /\ stopper \in [at : {"idle", "loop", "parts"}, of : 0..MaxStarts,
                  calls : 0..MaxStops]
  /\ worker \in [at : {"idle", "new", "fetch", "build"}, requested : BOOLEAN, got : Versions]
  /\ loop \in [Starts -> [at : {"none", "pause", "idle", "up", "down", "ready", "ended"},
                          awaits : {0} \cup Streams, hit : BOOLEAN]]
  /\ monitoring \in 0..MaxStarts
  /\ stream \in [Streams -> {"none", "live", "ending", "over", "leaking", "leaked"}]
  /\ ingest \in [task : {0} \cup Streams, consumer : {0} \cup Streams]
  /\ scale \in [desired : 0..2, actual : 0..1]

Settled ==
  sync.at = "idle" /\ worker.at = "idle" /\ stopper.at = "idle" /\ Starting = {}

\* When all is quiet the service works with the settings saved last, however
\* saves, starts, stops and reloads overlapped: neither the API's coalescing
\* nor the service's own loses a request (ct_monitor_client.py:120, main.py:609).
\* A start whose load overtook a reload is excepted.
SettledIsCurrent ==
  Settled /\ running /\ faults = 0 /\ ~overtaken => snap = ver

Heard == {k \in Streams : stream[k] \notin {"none", "over"}}

\* The service never listens to two streams, or every certificate is matched
\* twice; and to none once it is stopped, whatever its loop was waiting for.
OneStream ==
  /\ Cardinality(Heard) <= 1
  /\ ~running /\ stopper.at = "idle" /\ Starting = {} => Heard = {}

\* In the end the stream is there exactly if the settings loaded ask for it.
IngestionFollows == <>[](running => (wanted[snap] <=> Heard # {}))

\* "ct-monitor scales to 1 when any program has ct_monitoring_enabled or
\* ct_asset_monitoring_enabled, back to 0 when none" (ct-monitor.mdc:30).
ReplicasFollow == <>[](running => (wanted[snap] <=> scale.actual = 1))

=============================================================================
