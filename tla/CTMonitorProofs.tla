---------------------------- MODULE CTMonitorProofs ----------------------------
(***************************************************************************)
(* Proofs about CTMonitor, for any number of saves, starts, stops and      *)
(* faults.                                                                 *)
(***************************************************************************)
EXTENDS CTMonitor, FiniteSetTheorems, TLAPS

-----------------------------------------------------------------------------
(* The settings *)

\* A version that was read is one that was saved.
LoadType ==
  /\ ver \in Versions \ {0} /\ snap \in 0..ver
  /\ running \in BOOLEAN /\ overtaken \in BOOLEAN /\ faults \in 0..MaxFaults
  /\ sync \in [at : {"idle", "new", "start", "refresh"}, rerun : BOOLEAN, tries : 0..2]
  /\ starter \in [Starts -> [at : {"new", "connect", "fetch", "build", "fail", "over"},
                             got : 0..ver]]
  /\ worker \in [at : {"idle", "new", "fetch", "build"}, requested : BOOLEAN, got : 0..ver]

\* Someone has yet to install the version saved last: the API has not told the
\* service, a reload that was asked for has not read it, or one that has read it
\* has not ended.
Pending ==
  \/ sync.at # "idle"
  \/ worker.requested \/ worker.at \in {"new", "fetch"}
  \/ worker.at = "build" /\ worker.got = ver
  \/ \E i \in Starts : \/ starter[i].at \in {"connect", "fetch"}
                       \/ starter[i].at = "build" /\ starter[i].got = ver

LoadInv ==
  /\ worker.requested => worker.at # "idle"
  /\ faults = 0 => \A i \in Starts : starter[i].at # "fail"
  /\ faults = 0 /\ running /\ ~overtaken /\ snap # ver => Pending

\* What a fault does to the count of them.
LEMMA FaultCounts ==
  ASSUME faults \in 0..MaxFaults, NEW kind, Fault(kind)
  PROVE  faults' \in 0..MaxFaults /\ faults' # 0
BY MonitorAssumption DEF Fault

\* A step of the loops, the streams or a stop installs nothing and asks for nothing.
LEMMA OthersKeepLoad ==
  ASSUME LoadType, LoadInv,
         \/ \E i \in Starts : LoopStep(i)
         \/ \E k \in Streams : StreamEnds(k)
         \/ Stop \/ StopStep \/ UNCHANGED vars
  PROVE  LoadType' /\ LoadInv'
<1> USE DEF vars, serviceVars, loadVars, apiVars, ingestVars
<1>1. /\ UNCHANGED <<ver, sync, starter, worker, snap, overtaken>>
      /\ running' = running \/ running' = FALSE
      /\ faults' = faults \/ (faults' \in 0..MaxFaults /\ faults' # 0)
  <2>1. ASSUME NEW i \in Starts, LoopStep(i)
        PROVE  /\ UNCHANGED <<ver, sync, running, starter, worker, snap, overtaken>>
               /\ faults' = faults \/ (faults' \in 0..MaxFaults /\ faults' # 0)
    <3>1. CASE Reconcile(i) \/ Idle(i) \/ Scaled(i) \/ Ready(i) \/ Closed(i) \/ Interrupted(i)
      BY <3>1 DEF Reconcile, Idle, Scaled, Ready, Closed, Interrupted, Acts
    <3>2. CASE ScaleFails(i)
      BY <3>2, FaultCounts DEF ScaleFails, Acts, LoadType
    <3>3. QED
      BY <2>1, <3>1, <3>2 DEF LoopStep
  <2>2. QED
    BY <2>1 DEF StreamEnds, Stop, StopStep, StopLoop, StopEnds
<1>2. LoadType'
  BY <1>1 DEF LoadType
<1>3. LoadInv'
  BY <1>1 DEF LoadInv, Pending
<1>4. QED
  BY <1>2, <1>3

\* A start: its load is on its way from the moment it begins.
LEMMA BeginKeepsLoad ==
  ASSUME LoadType, LoadInv, NEW i \in Starts, BeginStart(i),
         UNCHANGED <<ver, worker, snap, overtaken, faults>>,
         sync' \in [at : {"idle", "new", "start", "refresh"}, rerun : BOOLEAN, tries : 0..2]
  PROVE  LoadType' /\ LoadInv'
<1>1. /\ running' = TRUE /\ starter[i].at = "new"
      /\ starter' = [starter EXCEPT ![i] = [starter[i] EXCEPT !.at = "connect"]]
  BY DEF BeginStart
<1>2. [starter[i] EXCEPT !.at = "connect"] \in
        [at : {"new", "connect", "fetch", "build", "fail", "over"}, got : 0..ver]
  BY DEF LoadType
<1>3. LoadType'
  BY <1>1, <1>2 DEF LoadType
<1>4. starter'[i].at = "connect" /\ \A j \in Starts : j # i => starter'[j] = starter[j]
  BY <1>1, <1>2 DEF LoadType
<1>5. LoadInv'
  BY <1>4 DEF LoadInv, Pending
<1>6. QED
  BY <1>3, <1>5

\* The steps of a start that has begun.
LEMMA StartKeepsLoad ==
  ASSUME LoadType, LoadInv, NEW i \in Starts, StartStep(i)
  PROVE  LoadType' /\ LoadInv'
<1> DEFINE Ats == {"new", "connect", "fetch", "build", "fail", "over"}
<1> USE DEF serviceVars, loadVars, apiVars, ingestVars
<1>1. starter[i] \in [at : Ats, got : 0..ver] /\ ver \in Nat \ {0} /\ snap \in 0..ver
  BY MonitorAssumption DEF LoadType, Versions
<1>2. CASE Connect(i)
  <2>1. /\ starter[i].at = "connect" /\ UNCHANGED <<worker, snap, overtaken, ver, sync>>
        /\ \/ starter' = [starter EXCEPT ![i] = [starter[i] EXCEPT !.at = "fetch"]]
              /\ UNCHANGED <<running, faults>>
           \/ starter' = [starter EXCEPT ![i] = [starter[i] EXCEPT !.at = "over"]]
              /\ running' = FALSE /\ faults' \in 0..MaxFaults /\ faults' # 0
    BY <1>2, FaultCounts DEF Connect, LoadType
  <2>2. /\ [starter[i] EXCEPT !.at = "fetch"] \in [at : Ats, got : 0..ver]
        /\ [starter[i] EXCEPT !.at = "over"] \in [at : Ats, got : 0..ver]
        /\ [starter[i] EXCEPT !.at = "fetch"].at = "fetch"
    BY <1>1
  <2>3. LoadType'
    <3>1. UNCHANGED <<worker, snap, overtaken, ver, sync>>
      BY <2>1
    <3>2. starter' \in [Starts -> [at : Ats, got : 0..ver]]
      BY <2>1, <2>2 DEF LoadType
    <3>3. running' \in BOOLEAN /\ faults' \in 0..MaxFaults
      BY <2>1 DEF LoadType
    <3>4. QED
      BY <3>1, <3>2, <3>3 DEF LoadType
  <2>4. (\A j \in Starts : j # i => starter'[j] = starter[j])
        /\ UNCHANGED <<worker, snap, overtaken, ver, sync>>
    BY <2>1 DEF LoadType
  <2>5. CASE starter' = [starter EXCEPT ![i] = [starter[i] EXCEPT !.at = "fetch"]]
             /\ UNCHANGED <<running, faults>>
    <3>1. starter'[i].at = "fetch"
      BY <2>2, <2>5 DEF LoadType
    <3>2. \A j \in Starts : starter'[j].at # "fail" \/ starter'[j] = starter[j]
      BY <2>4, <3>1
    <3>3. Pending'
      BY <3>1 DEF Pending
    <3>4. QED
      BY <2>3, <2>4, <2>5, <3>2, <3>3 DEF LoadInv
  <2>6. CASE faults' # 0
    <3>1. worker.requested => worker.at # "idle"
      BY DEF LoadInv
    <3>2. QED
      BY <2>3, <2>4, <2>6, <3>1 DEF LoadInv
  <2>7. LoadInv'
    BY <2>1, <2>5, <2>6
  <2>8. QED
    BY <2>3, <2>7
<1>3. CASE StartFetches(i)
  <2>1. /\ UNCHANGED <<running, worker, snap, overtaken, ver, sync>>
        /\ \/ starter' = [starter EXCEPT ![i] = [at |-> "build", got |-> ver]]
              /\ UNCHANGED faults
           \/ /\ faults' \in 0..MaxFaults /\ faults' # 0
              /\ \/ starter' = [starter EXCEPT ![i] = [at |-> "build", got |-> 0]]
                 \/ starter' = [starter EXCEPT ![i] = [starter[i] EXCEPT !.at = "fail"]]
    BY <1>3, FaultCounts DEF StartFetches, LoadType
  <2>2. /\ [at |-> "build", got |-> ver] \in [at : Ats, got : 0..ver]
        /\ [at |-> "build", got |-> 0] \in [at : Ats, got : 0..ver]
        /\ [starter[i] EXCEPT !.at = "fail"] \in [at : Ats, got : 0..ver]
    BY <1>1
  <2>3. LoadType'
    BY <2>1, <2>2 DEF LoadType
  <2>4. LoadInv'
    BY <2>1 DEF LoadInv, Pending, LoadType
  <2>5. QED
    BY <2>3, <2>4
<1>4. CASE StartEnds(i)
  <2>1. /\ starter' = [starter EXCEPT ![i] = [at |-> "over", got |-> 0]]
        /\ UNCHANGED <<running, worker, ver, sync, faults>>
        /\ \/ starter[i].at = "build" /\ snap' = starter[i].got
              /\ overtaken' = (overtaken \/ starter[i].got < snap)
           \/ starter[i].at = "fail" /\ UNCHANGED <<snap, overtaken>>
    BY <1>4 DEF StartEnds, Install
  <2>2. [at |-> "over", got |-> 0] \in [at : Ats, got : 0..ver]
    BY <1>1
  <2>3. snap' \in 0..ver /\ overtaken' \in BOOLEAN
    BY <1>1, <2>1 DEF LoadType
  <2>4. LoadType'
    BY <2>1, <2>2, <2>3 DEF LoadType
  <2>5. \A j \in Starts : j # i => starter'[j] = starter[j]
    BY <2>1 DEF LoadType
  <2>6. starter'[i].at = "over"
    BY <2>1 DEF LoadType
  <2>7. ASSUME faults' = 0, running', ~overtaken', snap' # ver' PROVE Pending'
    <3>1. starter[i].at = "build" /\ snap' = starter[i].got /\ ~(starter[i].got < snap)
      BY <2>1, <2>7 DEF LoadInv
    <3>2. snap # ver /\ starter[i].got # ver
      BY <1>1, <2>1, <2>7, <3>1
    <3>3. Pending
      BY <2>1, <2>7, <3>2 DEF LoadInv
    <3>4. QED
      BY <2>1, <2>5, <3>1, <3>2, <3>3 DEF Pending
  <2>8. LoadInv'
    BY <2>1, <2>5, <2>6, <2>7 DEF LoadInv
  <2>9. QED
    BY <2>4, <2>8
<1>5. QED
  BY <1>2, <1>3, <1>4 DEF StartStep

\* The steps of the worker that reloads the settings.
LEMMA WorkerKeepsLoad ==
  ASSUME LoadType, LoadInv, WorkerStep
  PROVE  LoadType' /\ LoadInv'
<1> USE DEF serviceVars, loadVars, apiVars, ingestVars
<1> DEFINE Jobs == [at : {"idle", "new", "fetch", "build"}, requested : BOOLEAN, got : 0..ver]
<1>1. worker \in Jobs /\ ver \in Nat \ {0} /\ snap \in 0..ver
  BY MonitorAssumption DEF LoadType, Versions
<1>2. /\ UNCHANGED <<ver, sync, running, starter>>
      /\ faults' = faults \/ (faults' \in 0..MaxFaults /\ faults' # 0)
  BY FaultCounts DEF WorkerStep, WorkerBegins, WorkerFetches, WorkerInstalls, LoadType
<1>3. Rerun => worker' \in Jobs /\ ~worker'.requested
                 /\ (worker.requested => worker'.at = "fetch")
  <2>1. CASE worker.requested
    <3>1. [at |-> "fetch", requested |-> FALSE, got |-> 0] \in Jobs
      BY <1>1
    <3>2. Rerun => worker' = [at |-> "fetch", requested |-> FALSE, got |-> 0]
      BY <2>1 DEF Rerun, Reload
    <3>3. QED
      BY <3>1, <3>2
  <2>2. CASE ~worker.requested
    <3>1. worker.requested = FALSE
      BY <1>1, <2>2
    <3>2. Rerun => worker' = [at |-> "idle", requested |-> FALSE, got |-> 0]
      BY <1>1, <2>2, <3>1 DEF Rerun
    <3>3. [at |-> "idle", requested |-> FALSE, got |-> 0] \in Jobs
      BY <1>1
    <3>4. QED
      BY <2>2, <3>2, <3>3
  <2>3. QED
    BY <2>1, <2>2
<1>4. CASE WorkerBegins
  <2>1. worker' = [at |-> "fetch", requested |-> FALSE, got |-> 0]
        /\ UNCHANGED <<snap, overtaken, faults>>
    BY <1>4 DEF WorkerBegins, Reload
  <2>2. worker' \in Jobs /\ worker'.at = "fetch" /\ ~worker'.requested
    BY <1>1, <2>1
  <2>3. QED
    BY <1>2, <2>1, <2>2 DEF LoadType, LoadInv, Pending
<1>5. CASE WorkerFetches
  <2>1. /\ UNCHANGED <<snap, overtaken>>
        /\ \/ worker' = [worker EXCEPT !.at = "build", !.got = ver] /\ UNCHANGED faults
           \/ /\ faults' \in 0..MaxFaults /\ faults' # 0
              /\ worker' = [worker EXCEPT !.at = "build", !.got = 0] \/ Rerun
    BY <1>5, FaultCounts DEF WorkerFetches, LoadType
  <2>2. worker' \in Jobs /\ (worker'.requested => worker'.at # "idle")
    <3>1. ASSUME NEW v \in 0..ver, worker' = [worker EXCEPT !.at = "build", !.got = v]
          PROVE  worker' \in Jobs /\ worker'.at = "build"
      BY <1>1, <3>1
    <3>2. 0 \in 0..ver /\ ver \in 0..ver
      BY <1>1
    <3>3. Rerun => worker' \in Jobs /\ ~worker'.requested
      BY <1>3
    <3>4. Rerun \/ \E v \in 0..ver : worker' = [worker EXCEPT !.at = "build", !.got = v]
      BY <2>1, <3>2
    <3>5. CASE Rerun
      BY <3>3, <3>5
    <3>6. QED
      BY <3>1, <3>4, <3>5
  <2>3. faults' = 0 => UNCHANGED faults /\ worker'.at = "build" /\ worker'.got = ver
    <3>1. worker' = [worker EXCEPT !.at = "build", !.got = ver] =>
            worker'.at = "build" /\ worker'.got = ver
      BY <1>1
    <3>2. faults' = 0 => UNCHANGED faults /\ worker' = [worker EXCEPT !.at = "build", !.got = ver]
      BY <2>1
    <3>3. QED
      BY <3>1, <3>2
  <2>4. QED
    BY <1>2, <2>1, <2>2, <2>3 DEF LoadType, LoadInv, Pending
<1>6. CASE WorkerInstalls
  <2>1. /\ worker.at = "build" /\ snap' = worker.got /\ UNCHANGED faults
        /\ overtaken' = (overtaken \/ worker.got < snap) /\ Rerun
    BY <1>6 DEF WorkerInstalls, Install
  <2>2. LoadType'
    BY <1>1, <1>2, <1>3, <2>1 DEF LoadType
  <2>3. ASSUME faults' = 0, running', ~overtaken', snap' # ver' PROVE Pending'
    <3>1. snap # ver /\ worker.got # ver
      <4>1. snap' = worker.got /\ worker.got # ver
        BY <1>2, <2>1, <2>3
      <4>2. ~(worker.got < snap)
        BY <2>1, <2>3
      <4>3. worker.got \in 0..ver
        BY <1>1
      <4>4. QED
        BY <1>1, <4>1, <4>2, <4>3
    <3>2. ~overtaken /\ faults = 0 /\ running
      <4>1. overtaken' = (overtaken \/ worker.got < snap) /\ ~overtaken'
        BY <2>1, <2>3
      <4>2. ~overtaken
        BY <4>1, Zenon
      <4>3. QED
        BY <1>2, <2>1, <2>3, <4>2
    <3>3. Pending
      BY <3>1, <3>2 DEF LoadInv
    <3>4. QED
      BY <1>2, <1>3, <2>1, <3>1, <3>3 DEF Pending
  <2>4. QED
    BY <1>2, <1>3, <2>1, <2>2, <2>3 DEF LoadInv
<1>7. QED
  BY <1>4, <1>5, <1>6 DEF WorkerStep

\* The steps of the API.
LEMMA ApiKeepsLoad ==
  ASSUME LoadType, LoadInv, Save \/ SyncBegins \/ SyncStarted \/ SyncRefreshes
  PROVE  LoadType' /\ LoadInv'
<1> USE DEF serviceVars, loadVars, apiVars, ingestVars
<1> DEFINE Syncs == [at : {"idle", "new", "start", "refresh"}, rerun : BOOLEAN, tries : 0..2]
<1> DEFINE Jobs(v) == [at : {"idle", "new", "fetch", "build"}, requested : BOOLEAN, got : 0..v]
<1> DEFINE Calls(v) == [at : {"new", "connect", "fetch", "build", "fail", "over"}, got : 0..v]
<1>1. worker \in Jobs(ver) /\ sync \in Syncs /\ ver \in Nat \ {0} /\ snap \in 0..ver
      /\ starter \in [Starts -> Calls(ver)]
  BY MonitorAssumption DEF LoadType, Versions
<1>2. CASE Save
  <2>1. /\ ver' = ver + 1 /\ ver <= MaxSaves
        /\ UNCHANGED <<running, starter, worker, snap, overtaken, faults>>
        /\ sync' = [sync EXCEPT !.rerun = TRUE, !.at = IF @ = "idle" THEN "new" ELSE @]
    BY <1>2 DEF Save
  <2>2. sync' \in Syncs /\ sync'.at # "idle"
    BY <1>1, <2>1
  <2>3. ver' \in Versions \ {0} /\ 0..ver \subseteq 0..ver'
    BY <1>1, <2>1, MonitorAssumption DEF Versions
  <2>4. worker \in Jobs(ver') /\ snap \in 0..ver' /\ \A i \in Starts : starter[i] \in Calls(ver')
    BY <1>1, <2>3
  <2>5. starter \in [Starts -> Calls(ver')]
    BY <1>1, <2>4
  <2>6. LoadType'
    BY <2>1, <2>2, <2>3, <2>4, <2>5 DEF LoadType
  <2>7. LoadInv'
    BY <2>1, <2>2 DEF LoadInv, Pending
  <2>8. QED
    BY <2>6, <2>7
<1>3. CASE SyncBegins
  <2>1. PICK where \in {"start", "refresh"} :
          /\ sync' = [at |-> where, rerun |-> FALSE, tries |-> 0]
          /\ \/ UNCHANGED faults /\ \E i \in Starts : BeginStart(i)
             \/ running /\ UNCHANGED <<serviceVars, faults>>
             \/ Fault("http") /\ UNCHANGED serviceVars
    BY <1>3 DEF SyncBegins
  <2>2. sync' \in Syncs /\ sync'.at # "idle" /\ UNCHANGED <<ver, worker, snap, overtaken>>
    BY <1>3, <2>1 DEF SyncBegins
  <2>3. CASE UNCHANGED faults /\ \E i \in Starts : BeginStart(i)
    BY <2>2, <2>3, BeginKeepsLoad
  <2>4. CASE (running /\ UNCHANGED <<serviceVars, faults>>) \/ (Fault("http") /\ UNCHANGED serviceVars)
    <3>1. faults' = faults \/ (faults' \in 0..MaxFaults /\ faults' # 0)
      BY <2>4, FaultCounts DEF LoadType
    <3>2. UNCHANGED <<running, starter>>
      BY <2>4
    <3>3. QED
      BY <2>2, <3>1, <3>2 DEF LoadType, LoadInv, Pending
  <2>5. QED
    BY <2>1, <2>3, <2>4
<1>4. CASE SyncStarted
  <2>1. sync' = [sync EXCEPT !.at = "refresh", !.tries = 0]
        /\ UNCHANGED <<ver, running, starter, worker, snap, overtaken, faults>>
    BY <1>4 DEF SyncStarted, SyncGoes
  <2>2. sync' \in Syncs /\ sync'.at # "idle"
    <3>1. sync' = [at |-> "refresh", rerun |-> sync.rerun, tries |-> 0]
      BY <1>1, <2>1
    <3>2. QED
      BY <1>1, <3>1
  <2>3. QED
    BY <2>1, <2>2 DEF LoadType, LoadInv, Pending
<1>5. CASE SyncRefreshes
  <2>1. UNCHANGED <<ver, running, starter, snap, overtaken>>
    BY <1>5 DEF SyncRefreshes
  <2>2. SyncEnds => sync' \in Syncs
    <3>1. ASSUME NEW w \in {"new", "idle"} PROVE SyncGoes(w) => sync' \in Syncs
      <4>1. SyncGoes(w) => sync' = [at |-> w, rerun |-> sync.rerun, tries |-> 0]
        BY <1>1 DEF SyncGoes
      <4>2. QED
        BY <1>1, <4>1
    <3>2. QED
      BY <3>1 DEF SyncEnds
  <2>3. CASE running /\ Request /\ SyncEnds /\ UNCHANGED faults
    <3>1. worker' \in Jobs(ver) /\ worker'.requested /\ worker'.at # "idle"
      BY <1>1, <2>3 DEF Request
    <3>2. QED
      BY <2>1, <2>2, <2>3, <3>1 DEF LoadType, LoadInv, Pending
  <2>4. CASE ~running /\ UNCHANGED <<worker, faults>> /\ sync' \in Syncs
    BY <2>1, <2>4 DEF LoadType, LoadInv
  <2>5. CASE Fault("http") /\ SyncEnds /\ UNCHANGED worker
    BY <2>1, <2>2, <2>5, FaultCounts DEF LoadType, LoadInv
  <2>6. ~GivesUp /\ sync' = [sync EXCEPT !.tries = @ + 1] => sync' \in Syncs
    BY <1>1 DEF GivesUp
  <2>7. QED
    BY <1>5, <2>2, <2>3, <2>4, <2>5, <2>6 DEF SyncRefreshes
<1>6. QED
  BY <1>2, <1>3, <1>4, <1>5

\* Every step keeps what a load has read and installed.
LEMMA StepKeepsLoad == LoadType /\ LoadInv /\ [Next]_vars => LoadType' /\ LoadInv'
<1> SUFFICES ASSUME LoadType, LoadInv, [Next]_vars PROVE LoadType' /\ LoadInv'
  OBVIOUS
<1>1. ASSUME NEW i \in Starts, Start(i) PROVE LoadType' /\ LoadInv'
  <2>1. /\ BeginStart(i) /\ UNCHANGED <<ver, worker, snap, overtaken, faults, sync>>
    BY <1>1 DEF Start, loadVars, apiVars
  <2>2. sync' \in [at : {"idle", "new", "start", "refresh"}, rerun : BOOLEAN, tries : 0..2]
    BY <2>1 DEF LoadType
  <2>3. QED
    BY <2>1, <2>2, BeginKeepsLoad
<1>2. QED
  BY <1>1, OthersKeepLoad, StartKeepsLoad, WorkerKeepsLoad, ApiKeepsLoad DEF Next

\* Initially nothing is loaded.
LEMMA InitLoads == Init => LoadType /\ LoadInv
<1> SUFFICES ASSUME Init PROVE LoadType /\ LoadInv
  OBVIOUS
<1>1. ver = 1 /\ snap = 0 /\ faults = 0 /\ ~running /\ MaxSaves \in Nat /\ MaxFaults \in Nat
  BY MonitorAssumption DEF Init
<1>2. LoadType
  <2>1. /\ ver \in Versions \ {0} /\ snap \in 0..ver /\ faults \in 0..MaxFaults
        /\ running = FALSE /\ overtaken = FALSE
    BY <1>1 DEF Init, Versions
  <2>2. sync \in [at : {"idle", "new", "start", "refresh"}, rerun : BOOLEAN, tries : 0..2]
    BY DEF Init
  <2>3. worker \in [at : {"idle", "new", "fetch", "build"}, requested : BOOLEAN, got : 0..ver]
    BY <1>1 DEF Init
  <2>4. starter \in [Starts -> [at : {"new", "connect", "fetch", "build", "fail", "over"},
                                got : 0..ver]]
    BY <1>1 DEF Init
  <2>5. QED
    BY <2>1, <2>2, <2>3, <2>4 DEF LoadType
<1>3. LoadInv
  BY <1>1 DEF Init, LoadInv
<1>4. QED
  BY <1>2, <1>3

\* When nothing is under way the service works with the settings saved last,
\* however the API's syncs, the starts, the stops and the reloads overlapped,
\* for any number of saves.
THEOREM SettingsCurrent == Spec => []SettledIsCurrent
<1>1. LoadType /\ LoadInv => SettledIsCurrent
  BY DEF LoadType, LoadInv, Pending, SettledIsCurrent, Settled, Starting
<1>2. QED
  BY <1>1, InitLoads, StepKeepsLoad, PTL DEF Spec

-----------------------------------------------------------------------------
(* The stream, as long as starts and stops do not overlap *)

LoopStates == [at : {"none", "pause", "idle", "up", "down", "ready", "ended"},
               awaits : {0} \cup Streams, hit : BOOLEAN]

LoopType ==
  /\ wanted \in [Versions -> BOOLEAN]
  /\ stopper \in [at : {"idle", "loop", "parts"}, of : 0..MaxStarts, calls : 0..MaxStops]
  /\ loop \in [Starts -> LoopStates] /\ monitoring \in 0..MaxStarts
  /\ stream \in [Streams -> {"none", "live", "ending", "over", "leaking", "leaked"}]
  /\ ingest \in [task : {0} \cup Streams, consumer : {0} \cup Streams]
  /\ scale \in [desired : 0..2, actual : 0..1]

\* The ingestion loops that still do something.
Active == {i \in Starts : loop[i].at \notin {"none", "ended"} \/ loop[i].awaits # 0}

\* One loop is there at a time, and it has closed its stream when it is gone.
LoopInv ==
  /\ \A i, j \in Starting : i = j
  /\ Starting # {} => running /\ stopper.at = "idle" /\ Active = {}
  /\ stopper.at # "idle" => ~running
  /\ stopper.at = "loop" => stopper.of = monitoring
  /\ ~running /\ stopper.at # "loop" => Active = {}
  /\ Active \subseteq {monitoring}
  /\ \A i \in Starts : /\ loop[i].hit => loop[i].awaits = 0 /\ i \in Active
                       /\ starter[i].at # "over" => i \notin Active

StreamInv ==
  /\ ingest.consumer = ingest.task
  /\ \A k \in Streams : stream[k] \notin {"leaking", "leaked"}
  /\ \A k \in Streams : k # ingest.task => stream[k] \in {"none", "over"}
  /\ \A i \in Starts : loop[i].awaits # 0 => loop[i].awaits = ingest.task
  /\ Active = {} => ingest.task = 0

\* What a step of the loop of a start does to the loops.
LEMMA LoopKeepsLoops ==
  ASSUME LoopInv, NEW i \in Active, UNCHANGED <<running, starter, stopper, monitoring>>,
         \A j \in Starts : j # i => loop'[j] = loop[j], ~loop'[i].hit
  PROVE  LoopInv'
<1>1. i \in Starts /\ Active' \subseteq {monitoring'} /\ i = monitoring
  BY DEF Active, LoopInv
<1>2. Starting' = Starting /\ Starting = {} /\ (running \/ stopper.at = "loop")
  BY DEF Starting, LoopInv
<1>3. \A j \in Starts : /\ loop'[j].hit => loop'[j].awaits = 0 /\ j \in Active'
                        /\ starter'[j].at # "over" => j \notin Active'
  <2>1. CASE starter[i].at = "over"
    BY <1>1, <2>1 DEF LoopInv, Active
  <2>2. QED
    BY <1>1, <2>1 DEF LoopInv
<1>4. QED
  BY <1>1, <1>2, <1>3 DEF LoopInv

\* The loop goes on; a stream may be opened ...
LEMMA GoesKeepsStream ==
  ASSUME LoopType, LoopInv, StreamInv, NEW i \in Active,
         NEW where \in {"pause", "idle", "up", "down", "ready"}, Goes(i, where),
         UNCHANGED <<stream, ingest>> \/ OpenStream
  PROVE  /\ loop' \in [Starts -> LoopStates] /\ StreamInv'
         /\ stream' \in [Streams -> {"none", "live", "ending", "over", "leaking", "leaked"}]
         /\ ingest' \in [task : {0} \cup Streams, consumer : {0} \cup Streams]
         /\ \A j \in Starts : j # i => loop'[j] = loop[j]
         /\ ~loop'[i].hit
<1> DEFINE next == [at |-> where, awaits |-> 0, hit |-> FALSE]
<1>1. i \in Starts /\ next \in LoopStates
  BY DEF Active, LoopStates
<1>2. loop' = [loop EXCEPT ![i] = next]
  BY DEF Goes
<1>3. /\ loop' \in [Starts -> LoopStates] /\ loop'[i] = next
      /\ \A j \in Starts : j # i => loop'[j] = loop[j]
  BY <1>1, <1>2 DEF LoopType
<1>4. i \in Active' /\ ~loop'[i].hit /\ loop'[i].awaits = 0
  BY <1>1, <1>3 DEF Active
<1>5. \A j \in Starts : loop'[j].awaits = 0
  BY <1>1, <1>3, <1>4 DEF LoopInv, Active
<1>6. CASE UNCHANGED <<stream, ingest>>
  <2>1. StreamInv'
    BY <1>4, <1>5, <1>6 DEF StreamInv
  <2>2. QED
    BY <1>3, <1>4, <1>6, <2>1 DEF LoopType
<1>7. CASE OpenStream /\ ~UNCHANGED <<stream, ingest>>
  <2> DEFINE free(k) == stream[k] \in {"none", "over"} /\ k # ingest.task
  <2> DEFINE new == CHOOSE k \in Streams : free(k)
  <2>1. ingest.task = 0 \/ Over(ingest.task)
    BY <1>7 DEF OpenStream
  <2>2. 1 \in Streams /\ 2 \in Streams
    BY MonitorAssumption DEF Streams
  <2>3. \E k \in Streams : free(k)
    <3>1. 1 # ingest.task \/ 2 # ingest.task
      OBVIOUS
    <3>2. QED
      BY <2>2, <3>1 DEF StreamInv
  <2>4. new \in Streams /\ free(new)
    BY <2>3
  <2>5. /\ stream' = [stream EXCEPT ![new] = "live"]
        /\ ingest' = [task |-> new, consumer |-> new]
    BY <1>7, <2>1 DEF OpenStream
  <2>6. /\ stream' \in [Streams -> {"none", "live", "ending", "over", "leaking", "leaked"}]
        /\ stream'[new] = "live" /\ \A k \in Streams : k # new => stream'[k] = stream[k]
    BY <2>4, <2>5 DEF LoopType
  <2>7. /\ ingest' \in [task : {0} \cup Streams, consumer : {0} \cup Streams]
        /\ ingest'.task = new /\ ingest'.consumer = new
    BY <2>4, <2>5
  <2>8. \A k \in Streams : k # new => stream'[k] \in {"none", "over"}
    BY <2>1, <2>6, MonitorAssumption DEF StreamInv, Over, Streams
  <2>9. StreamInv'
    BY <1>4, <1>5, <2>6, <2>7, <2>8 DEF StreamInv
  <2>10. QED
    BY <1>3, <1>4, <2>6, <2>7, <2>9
<1>8. QED
  BY <1>6, <1>7

\* ... or closed, and its end is waited for.
LEMMA CloseKeepsStream ==
  ASSUME LoopType, LoopInv, StreamInv, NEW i \in Active,
         NEW where \in {"idle", "ended"}, Close(i, where)
  PROVE  /\ loop' \in [Starts -> LoopStates] /\ StreamInv'
         /\ stream' \in [Streams -> {"none", "live", "ending", "over", "leaking", "leaked"}]
         /\ ingest' \in [task : {0} \cup Streams, consumer : {0} \cup Streams]
         /\ \A j \in Starts : j # i => loop'[j] = loop[j]
         /\ ~loop'[i].hit
<1> DEFINE k == ingest.task
<1>1. i \in Starts /\ k \in {0} \cup Streams /\ 0 \in {0} \cup Streams
  BY DEF Active, LoopType
<1>2. \A j \in Starts : j # i => loop[j].awaits = 0
  BY <1>1 DEF LoopInv, Active
<1>3. CASE k = 0 \/ Over(k)
  <2> DEFINE next == [at |-> where, awaits |-> 0, hit |-> FALSE]
  <2>1. /\ loop' = [loop EXCEPT ![i] = next] /\ UNCHANGED stream
        /\ ingest' = [task |-> 0, consumer |-> 0]
    BY <1>3 DEF Close, Goes
  <2>2. next \in LoopStates
    BY DEF LoopStates
  <2>3. /\ loop' \in [Starts -> LoopStates] /\ loop'[i] = next
        /\ \A j \in Starts : j # i => loop'[j] = loop[j]
    BY <1>1, <2>1, <2>2 DEF LoopType
  <2>4. \A j \in Starts : loop'[j].awaits = 0
    BY <1>2, <2>3
  <2>5. \A m \in Streams : stream[m] \in {"none", "over"}
    BY <1>3, MonitorAssumption DEF StreamInv, Over, Streams
  <2>6. ingest' \in [task : {0} \cup Streams, consumer : {0} \cup Streams]
        /\ ingest'.task = 0 /\ ingest'.consumer = 0
    BY <2>1
  <2>7. StreamInv'
    BY <2>1, <2>4, <2>5, <2>6 DEF StreamInv
  <2>8. QED
    BY <2>1, <2>3, <2>6, <2>7 DEF LoopType
<1>4. CASE ~(k = 0 \/ Over(k))
  <2> DEFINE next == [at |-> where, awaits |-> k, hit |-> FALSE]
  <2>1. /\ loop' = [loop EXCEPT ![i] = next] /\ UNCHANGED ingest
        /\ stream' = [stream EXCEPT ![k] = "ending"]
    BY <1>4 DEF Close, StreamInv
  <2>2. next \in LoopStates /\ k \in Streams
    BY <1>1, <1>4 DEF LoopStates
  <2>3. /\ loop' \in [Starts -> LoopStates] /\ loop'[i] = next
        /\ \A j \in Starts : j # i => loop'[j] = loop[j]
    BY <1>1, <2>1, <2>2 DEF LoopType
  <2>4. /\ stream' \in [Streams -> {"none", "live", "ending", "over", "leaking", "leaked"}]
        /\ stream'[k] = "ending" /\ \A m \in Streams : m # k => stream'[m] = stream[m]
    BY <2>1, <2>2 DEF LoopType
  <2>5. i \in Active'
    BY <1>1, <1>4, <2>3 DEF Active
  <2>6. \A j \in Starts : loop'[j].awaits # 0 => loop'[j].awaits = ingest'.task
    BY <1>2, <2>1, <2>3
  <2>7. StreamInv'
    BY <2>1, <2>4, <2>5, <2>6 DEF StreamInv
  <2>8. QED
    BY <2>1, <2>3, <2>4, <2>7 DEF LoopType
<1>5. QED
  BY <1>3, <1>4

\* The stream's end is heard.
LEMMA ClosedKeepsStream ==
  ASSUME LoopType, LoopInv, StreamInv, NEW i \in Starts, Closed(i)
  PROVE  LoopType' /\ LoopInv' /\ StreamInv'
<1> DEFINE k == loop[i].awaits
<1>1. /\ k # 0 /\ Over(k) /\ UNCHANGED <<monitoring, stream, scale, wanted>>
      /\ UNCHANGED <<running, starter, stopper>>
      /\ loop' = [loop EXCEPT ![i] = [loop[i] EXCEPT !.awaits = 0, !.hit = FALSE]]
      /\ ingest' = [task |-> 0, consumer |-> 0]
  BY DEF Closed, serviceVars, apiVars
<1>2. i \in Active /\ k = ingest.task
  BY <1>1 DEF Active, StreamInv
<1>3. loop[i] \in LoopStates
  BY DEF LoopType
<1> DEFINE next == [loop[i] EXCEPT !.awaits = 0, !.hit = FALSE]
<1>4. next.awaits = 0 /\ next.hit = FALSE
  BY <1>3 DEF LoopStates
<1>5. next \in LoopStates
  BY <1>3 DEF LoopStates
<1>6. /\ loop' \in [Starts -> LoopStates] /\ loop'[i] = next
      /\ \A j \in Starts : j # i => loop'[j] = loop[j]
  BY <1>1, <1>5 DEF LoopType
<1>7. ingest' \in [task : {0} \cup Streams, consumer : {0} \cup Streams]
      /\ ingest'.task = 0 /\ ingest'.consumer = 0
  BY <1>1
<1>8. LoopInv'
  BY <1>1, <1>2, <1>4, <1>6, LoopKeepsLoops
<1>9. \A j \in Starts : loop'[j].awaits = 0
  <2>1. i = monitoring /\ loop'[i].awaits = 0
    BY <1>2, <1>4, <1>6 DEF LoopInv
  <2>2. \A j \in Starts : j # i => loop[j].awaits = 0
    BY <2>1 DEF LoopInv, Active
  <2>3. QED
    BY <1>6, <2>1, <2>2
<1>10. \A m \in Streams : stream[m] \in {"none", "over"}
  BY <1>1, <1>2 DEF StreamInv, Over
<1>11. StreamInv'
  BY <1>1, <1>7, <1>9, <1>10 DEF StreamInv
<1>12. QED
  BY <1>1, <1>6, <1>7, <1>8, <1>11 DEF LoopType

\* Every step of the loop.
LEMMA LoopStepKeepsStream ==
  ASSUME LoopType, LoopInv, StreamInv, NEW i \in Starts, LoopStep(i)
  PROVE  LoopType' /\ LoopInv' /\ StreamInv'
<1>1. CASE Closed(i)
  BY <1>1, ClosedKeepsStream
<1>2. ASSUME Reconcile(i) \/ Idle(i) \/ Scaled(i) \/ ScaleFails(i) \/ Ready(i) \/ Interrupted(i)
      PROVE  LoopType' /\ LoopInv' /\ StreamInv'
  <2>1. UNCHANGED <<running, starter, stopper, monitoring, wanted>>
    BY <1>2 DEF Reconcile, Idle, Scaled, ScaleFails, Ready, Interrupted, Acts, serviceVars, apiVars
  <2>2. i \in Active
    BY <1>2 DEF Reconcile, Idle, Scaled, ScaleFails, Ready, Interrupted, Active, LoopInv
  <2>3. scale' \in [desired : 0..2, actual : 0..1]
    <3>1. Target(i) \in 0..1
      BY DEF Target
    <3>2. CASE UNCHANGED scale
      BY <3>2 DEF LoopType
    <3>3. CASE scale' = [desired |-> Target(i), actual |-> Target(i)]
      BY <3>1, <3>3
    <3>4. CASE scale' = [scale EXCEPT !.actual = Target(i)]
      BY <3>1, <3>4 DEF LoopType
    <3>5. QED
      BY <1>2, <3>2, <3>3, <3>4
         DEF Reconcile, Idle, Scaled, ScaleFails, Ready, Interrupted
  <2>4. \/ \E where \in {"idle", "ended"} : Close(i, where)
        \/ \E where \in {"pause", "idle", "up", "down", "ready"} :
             Goes(i, where) /\ (UNCHANGED <<stream, ingest>> \/ OpenStream)
    <3>1. CASE Reconcile(i)
      BY <3>1 DEF Reconcile
    <3>2. CASE Idle(i) \/ Scaled(i) \/ Ready(i) \/ Interrupted(i)
      BY <3>2 DEF Idle, Scaled, Ready, Interrupted
    <3>3. CASE ScaleFails(i)
      BY <3>3 DEF ScaleFails, GoOn
    <3>4. QED
      BY <1>2, <3>1, <3>2, <3>3
  <2>5. /\ loop' \in [Starts -> LoopStates] /\ StreamInv'
        /\ stream' \in [Streams -> {"none", "live", "ending", "over", "leaking", "leaked"}]
        /\ ingest' \in [task : {0} \cup Streams, consumer : {0} \cup Streams]
        /\ \A j \in Starts : j # i => loop'[j] = loop[j]
        /\ ~loop'[i].hit
    BY <2>2, <2>4, GoesKeepsStream, CloseKeepsStream
  <2>6. LoopInv'
    BY <2>1, <2>2, <2>5, LoopKeepsLoops
  <2>7. QED
    BY <2>1, <2>3, <2>5, <2>6 DEF LoopType
<1>3. QED
  BY <1>1, <1>2 DEF LoopStep

\* A start begins when no other start and no stop is under way.
LEMMA BeginKeepsStream ==
  ASSUME "cross" \notin Env, LoopType, LoopInv, StreamInv,
         starter \in [Starts -> [at : {"new", "connect", "fetch", "build", "fail", "over"},
                                 got : 0..ver]],
         NEW i \in Starts, BeginStart(i), UNCHANGED <<ingestVars, wanted>>
  PROVE  LoopType' /\ LoopInv' /\ StreamInv'
<1> USE DEF ingestVars
<1>1. /\ ~running /\ Starting = {} /\ stopper.at = "idle" /\ running' = TRUE /\ stopper' = stopper
      /\ starter[i].at = "new" /\ starter' = [starter EXCEPT ![i].at = "connect"]
  BY DEF BeginStart, Apart
<1>2. Active = {} /\ Active' = Active
  BY <1>1 DEF LoopInv, Active
<1>3. Starting' = {i}
  BY <1>1 DEF Starting
<1>4. LoopInv'
  BY <1>1, <1>2, <1>3 DEF LoopInv
<1>5. StreamInv'
  BY <1>2 DEF StreamInv
<1>6. QED
  BY <1>1, <1>4, <1>5 DEF LoopType

\* Its loop is the only one when it is created.
LEMMA StartKeepsStream ==
  ASSUME LoopType, LoopInv, StreamInv,
         starter \in [Starts -> [at : {"new", "connect", "fetch", "build", "fail", "over"},
                                 got : 0..ver]],
         NEW i \in Starts, StartStep(i)
  PROVE  LoopType' /\ LoopInv' /\ StreamInv'
<1> USE DEF ingestVars, serviceVars, apiVars
<1>1. /\ i \in Starting /\ stopper' = stopper /\ wanted' = wanted
      /\ \A j \in Starts : j # i => starter'[j] = starter[j]
  BY DEF StartStep, Connect, StartFetches, StartEnds, Starting
<1>2. Starting = {i} /\ running /\ stopper.at = "idle" /\ Active = {} /\ ingest.task = 0
  BY <1>1 DEF LoopInv, StreamInv
<1>3. Starting' \subseteq {i}
  BY <1>1, <1>2 DEF Starting
<1>4. CASE UNCHANGED ingestVars
  <2>1. Active' = Active
    BY <1>4 DEF Active
  <2>2. running' = running \/ (running' = FALSE /\ Starting' = {})
    <3>1. Connect(i) => running' = running \/ (running' = FALSE /\ starter'[i].at = "over")
      BY DEF Connect
    <3>2. QED
      BY <1>3, <1>4, <3>1 DEF StartStep, StartFetches, StartEnds, Starting
  <2>3. StreamInv'
    BY <1>4, <2>1 DEF StreamInv
  <2>4. LoopInv'
    BY <1>1, <1>2, <1>3, <1>4, <2>1, <2>2 DEF LoopInv
  <2>5. QED
    BY <1>1, <1>4, <2>3, <2>4 DEF LoopType
<1>5. CASE StartEnds(i)
  <2>1. /\ starter'[i].at = "over" /\ running' = running /\ monitoring' = i
        /\ loop' = [loop EXCEPT ![i] = [loop[i] EXCEPT !.at = "pause"]]
        /\ ingest' = [ingest EXCEPT !.consumer = 0] /\ UNCHANGED <<stream, scale>>
    BY <1>5 DEF StartEnds
  <2>2. \A j \in Starts : loop[j].awaits = 0 /\ ~loop[j].hit
    <3>1. \A j \in Starts : j \notin Active
      BY <1>2
    <3>2. \A j \in Starts : ~loop[j].hit
      BY <3>1 DEF LoopInv
    <3>3. \A j \in Starts : loop[j].awaits = 0
      BY <3>1 DEF Active
    <3>4. QED
      BY <3>2, <3>3
  <2>3. /\ loop[i] \in LoopStates /\ loop[i].awaits = 0 /\ ~loop[i].hit
        /\ i \in 0..MaxStarts
    BY <2>2, MonitorAssumption DEF LoopType, Starts
  <2> DEFINE next == [loop[i] EXCEPT !.at = "pause"]
  <2>4. next \in LoopStates /\ next.at = "pause" /\ next.awaits = 0 /\ ~next.hit
    BY <2>3 DEF LoopStates
  <2>5. /\ loop' \in [Starts -> LoopStates] /\ loop'[i] = next
        /\ \A j \in Starts : j # i => loop'[j] = loop[j]
    BY <2>1, <2>4 DEF LoopType
  <2>6. Active' = {i}
    BY ZenonT(60), <1>2, <2>4, <2>5 DEF Active
  <2>7. Starting' = {}
    BY <1>3, <2>1 DEF Starting
  <2>8. \A j \in Starts : loop'[j].awaits = 0 /\ ~loop'[j].hit
    BY <2>2, <2>4, <2>5
  <2>9. LoopInv'
    BY <1>1, <1>2, <2>1, <2>6, <2>7, <2>8 DEF LoopInv
  <2>10. /\ ingest' \in [task : {0} \cup Streams, consumer : {0} \cup Streams]
        /\ ingest'.task = 0 /\ ingest'.consumer = 0
    BY <1>2, <2>1 DEF LoopType
  <2>11. StreamInv'
    BY <1>2, <2>1, <2>6, <2>8, <2>10 DEF StreamInv
  <2>12. QED
    BY <1>1, <2>1, <2>3, <2>5, <2>9, <2>10, <2>11 DEF LoopType
<1>6. QED
  BY <1>4, <1>5 DEF StartStep, Connect, StartFetches

\* A stop waits for the loop, whose stream is closed by then.
LEMMA StopKeepsStream ==
  ASSUME "cross" \notin Env, LoopType, LoopInv, StreamInv, Stop \/ StopStep
  PROVE  LoopType' /\ LoopInv' /\ StreamInv'
<1> USE DEF ingestVars, serviceVars, apiVars
<1>1. CASE Stop
  <2>1. /\ running /\ Starting = {} /\ stopper.at = "idle" /\ stopper.calls < MaxStops
        /\ running' = FALSE /\ Cancelled(monitoring)
        /\ stopper' = [at |-> "loop", of |-> monitoring, calls |-> stopper.calls + 1]
        /\ UNCHANGED <<wanted, starter, monitoring, stream, ingest, scale>>
    BY <1>1 DEF Stop, Apart
  <2>2. \A j \in Starts : loop'[j] = loop[j] \/ (loop'[j] = [loop[j] EXCEPT !.hit = TRUE]
                            /\ loop[j].awaits = 0 /\ loop[j].at \notin {"none", "ended"})
    BY <2>1 DEF Cancelled
  <2>3. \A j \in Starts : /\ loop'[j] \in LoopStates /\ loop'[j].at = loop[j].at
                          /\ loop'[j].awaits = loop[j].awaits
                          /\ loop'[j].hit => loop[j].hit \/ (loop[j].awaits = 0 /\ j \in Active)
    <3> TAKE j \in Starts
    <3>1. loop[j] \in LoopStates
      BY DEF LoopType
    <3>2. CASE loop'[j] = loop[j]
      BY <3>1, <3>2
    <3>3. CASE /\ loop'[j] = [loop[j] EXCEPT !.hit = TRUE]
               /\ loop[j].awaits = 0 /\ loop[j].at \notin {"none", "ended"}
      <4>1. /\ loop'[j] \in LoopStates /\ loop'[j].at = loop[j].at
            /\ loop'[j].awaits = loop[j].awaits
        BY <3>1, <3>3 DEF LoopStates
      <4>2. j \in Active
        BY <3>3 DEF Active
      <4>3. QED
        BY <3>3, <4>1, <4>2
    <3>4. QED
      BY <2>2, <3>2, <3>3
  <2>4. loop' \in [Starts -> LoopStates]
    BY <2>1, <2>3 DEF Cancelled
  <2>5. Active' = Active /\ Starting' = Starting
    BY <2>1, <2>3 DEF Active, Starting
  <2>6. stopper' \in [at : {"idle", "loop", "parts"}, of : 0..MaxStarts, calls : 0..MaxStops]
        /\ stopper'.at = "loop" /\ stopper'.of = monitoring
    BY <2>1, MonitorAssumption DEF LoopType
  <2>7. LoopInv'
    BY <2>1, <2>3, <2>5, <2>6 DEF LoopInv
  <2>8. StreamInv'
    BY <2>1, <2>3, <2>5 DEF StreamInv
  <2>9. QED
    BY <2>1, <2>4, <2>6, <2>7, <2>8 DEF LoopType
<1>2. CASE StopLoop
  <2>1. /\ stopper.at = "loop" /\ LoopGone(stopper.of)
        /\ stopper' = [stopper EXCEPT !.at = "parts"]
        /\ stream' = [k \in Streams |->
             IF k = ingest.consumer /\ stream[k] = "live" THEN "ending" ELSE stream[k]]
        /\ UNCHANGED <<wanted, running, starter, loop, monitoring, ingest, scale>>
    BY <1>2 DEF StopLoop
  <2>2. Active = {}
    BY <2>1 DEF LoopInv, Active, LoopGone
  <2>3. ingest.consumer = 0 /\ 0 \notin Streams
    BY <2>2 DEF StreamInv, Streams
  <2>4. \A k \in Streams : stream'[k] = stream[k]
    BY <2>1, <2>3
  <2>5. stream' \in [Streams -> {"none", "live", "ending", "over", "leaking", "leaked"}]
    BY <2>1 DEF LoopType
  <2>6. Active' = Active /\ Starting' = Starting
    BY <2>1 DEF Active, Starting
  <2>7. stopper' \in [at : {"idle", "loop", "parts"}, of : 0..MaxStarts, calls : 0..MaxStops]
        /\ stopper'.at = "parts"
    BY <2>1 DEF LoopType
  <2>8. LoopInv'
    BY <2>1, <2>2, <2>6, <2>7 DEF LoopInv
  <2>9. StreamInv'
    BY <2>1, <2>4, <2>6 DEF StreamInv
  <2>10. QED
    BY <2>1, <2>5, <2>7, <2>8, <2>9 DEF LoopType
<1>3. CASE StopEnds
  <2>1. /\ stopper.at = "parts" /\ stopper' = [stopper EXCEPT !.at = "idle", !.of = 0]
        /\ UNCHANGED <<wanted, running, starter, loop, monitoring, stream, ingest, scale>>
    BY <1>3 DEF StopEnds
  <2>2. stopper' \in [at : {"idle", "loop", "parts"}, of : 0..MaxStarts, calls : 0..MaxStops]
        /\ stopper'.at = "idle"
    <3>1. stopper' = [at |-> "idle", of |-> 0, calls |-> stopper.calls]
          /\ stopper.calls \in 0..MaxStops
      BY <2>1 DEF LoopType
    <3>2. 0 \in 0..MaxStarts
      BY MonitorAssumption
    <3>3. QED
      BY <3>1, <3>2
  <2>3. Active' = Active /\ Starting' = Starting
    BY <2>1 DEF Active, Starting
  <2>4. LoopInv' /\ StreamInv'
    BY <2>1, <2>2, <2>3 DEF LoopInv, StreamInv
  <2>5. QED
    BY <2>1, <2>2, <2>4 DEF LoopType
<1>4. QED
  BY <1>1, <1>2, <1>3 DEF StopStep

\* A stream ends.
LEMMA EndKeepsStream ==
  ASSUME LoopType, LoopInv, StreamInv, NEW k \in Streams, StreamEnds(k)
  PROVE  LoopType' /\ LoopInv' /\ StreamInv'
<1>1. /\ stream' = [stream EXCEPT ![k] = "over"]
      /\ UNCHANGED <<loop, monitoring, ingest, scale, running, starter, stopper, wanted>>
  BY DEF StreamEnds, StreamInv, serviceVars, apiVars
<1>2. /\ stream' \in [Streams -> {"none", "live", "ending", "over", "leaking", "leaked"}]
      /\ stream'[k] = "over" /\ \A m \in Streams : m # k => stream'[m] = stream[m]
  BY <1>1 DEF LoopType
<1>3. Active' = Active /\ Starting' = Starting
  BY <1>1 DEF Active, Starting
<1>4. LoopInv' /\ StreamInv'
  BY <1>1, <1>2, <1>3 DEF LoopInv, StreamInv
<1>5. QED
  BY <1>1, <1>2, <1>4 DEF LoopType

\* Every step, as long as starts and stops do not overlap.
LEMMA StepKeepsStream ==
  ASSUME "cross" \notin Env, LoadType, LoopType, LoopInv, StreamInv, [Next]_vars
  PROVE  LoopType' /\ LoopInv' /\ StreamInv'
<1> USE DEF ingestVars, serviceVars, apiVars, loadVars
<1>1. starter \in [Starts -> [at : {"new", "connect", "fetch", "build", "fail", "over"},
                              got : 0..ver]]
  BY DEF LoadType
<1>2. CASE UNCHANGED <<serviceVars, ingestVars, wanted>>
  <2>1. Active' = Active /\ Starting' = Starting
    BY <1>2 DEF Active, Starting
  <2>2. LoopInv' /\ StreamInv'
    BY <1>2, <2>1 DEF LoopInv, StreamInv
  <2>3. QED
    BY <1>2, <2>2 DEF LoopType
<1>3. WorkerStep \/ Save \/ SyncStarted \/ SyncRefreshes \/ UNCHANGED vars
        => UNCHANGED <<serviceVars, ingestVars, wanted>>
  BY DEF WorkerStep, WorkerBegins, WorkerFetches, WorkerInstalls, Save, SyncStarted,
         SyncRefreshes, vars
<1>4. SyncBegins => \/ UNCHANGED <<serviceVars, ingestVars, wanted>>
                    \/ UNCHANGED <<ingestVars, wanted>> /\ \E i \in Starts : BeginStart(i)
  BY DEF SyncBegins
<1>5. \A i \in Starts : Start(i) => BeginStart(i) /\ UNCHANGED <<ingestVars, wanted>>
  BY DEF Start
<1>6. QED
  BY <1>1, <1>2, <1>3, <1>4, <1>5, BeginKeepsStream, StartKeepsStream, LoopStepKeepsStream,
     StopKeepsStream, EndKeepsStream DEF Next

\* Initially there is no loop and no stream.
LEMMA InitStreams == Init => LoopType /\ LoopInv /\ StreamInv
<1> SUFFICES ASSUME Init PROVE LoopType /\ LoopInv /\ StreamInv
  OBVIOUS
<1>1. /\ wanted \in [Versions -> BOOLEAN] /\ ~running /\ monitoring = 0
      /\ stopper = [at |-> "idle", of |-> 0, calls |-> 0]
      /\ loop = [i \in Starts |-> [at |-> "none", awaits |-> 0, hit |-> FALSE]]
      /\ stream = [k \in Streams |-> "none"] /\ ingest = [task |-> 0, consumer |-> 0]
      /\ scale = [desired |-> 2, actual |-> 0]
      /\ starter = [i \in Starts |-> [at |-> "new", got |-> 0]]
  BY DEF Init
<1>2. stopper \in [at : {"idle", "loop", "parts"}, of : 0..MaxStarts, calls : 0..MaxStops]
      /\ monitoring \in 0..MaxStarts
  BY <1>1, MonitorAssumption
<1>3. loop \in [Starts -> LoopStates]
  BY <1>1 DEF LoopStates
<1>4. LoopType
  BY <1>1, <1>2, <1>3 DEF LoopType
<1>5. Active = {} /\ Starting = {}
  BY <1>1 DEF Active, Starting
<1>6. LoopInv
  BY <1>1, <1>5 DEF LoopInv
<1>7. StreamInv
  BY <1>1, <1>5 DEF StreamInv
<1>8. QED
  BY <1>4, <1>6, <1>7

-----------------------------------------------------------------------------
(* The theorems about the stream *)

\* While starts and stops do not overlap, one loop is there at a time, it has at
\* most one stream, and it has closed it when it is gone.
THEOREM MonitorInvariant ==
  ASSUME "cross" \notin Env
  PROVE  Spec => [](LoadType /\ LoopType /\ LoopInv /\ StreamInv)
<1> DEFINE Inv == LoadType /\ LoadInv /\ LoopType /\ LoopInv /\ StreamInv
<1>1. Init => Inv
  BY InitLoads, InitStreams
<1>2. Inv /\ [Next]_vars => Inv'
  BY StepKeepsLoad, StepKeepsStream
<1>3. Spec => []Inv
  BY <1>1, <1>2, PTL DEF Spec
<1>4. QED
  BY <1>3, PTL

\* Every variable of the monitor stays in its range: there is always a stream to
\* open, and the retries of a sync end.
THEOREM MonitorTypeCorrect ==
  ASSUME "cross" \notin Env
  PROVE  Spec => []TypeOK
<1>1. ASSUME LoadType, LoopType PROVE TypeOK
  <2>1. ver \in Nat /\ 0..ver \subseteq Versions
    BY <1>1, MonitorAssumption DEF LoadType, Versions
  <2>2. snap \in Versions
        /\ starter \in [Starts -> [at : {"new", "connect", "fetch", "build", "fail", "over"},
                                   got : Versions]]
        /\ worker \in [at : {"idle", "new", "fetch", "build"}, requested : BOOLEAN,
                       got : Versions]
    BY <1>1, <2>1 DEF LoadType
  <2>3. QED
    BY <1>1, <2>2 DEF LoadType, LoopType, LoopStates, TypeOK
<1>2. QED
  BY <1>1, MonitorInvariant, PTL

\* While starts and stops do not overlap, the service never listens to two
\* streams, and to none once it is stopped: _ct_ingestion_loop closes its stream
\* whichever await the stop met.
THEOREM OneStreamOnly ==
  ASSUME "cross" \notin Env
  PROVE  Spec => []OneStream
<1>1. ASSUME LoopType, LoopInv, StreamInv PROVE OneStream
  <2>1. Heard \subseteq {ingest.task}
    BY <1>1 DEF StreamInv, Heard
  <2>2. Cardinality(Heard) <= 1
    <3>1. Heard = {} \/ Heard = {ingest.task}
      BY <2>1
    <3>2. Cardinality({}) = 0 /\ Cardinality({ingest.task}) = 1
      BY FS_EmptySet, FS_Singleton
    <3>3. QED
      BY <3>1, <3>2
  <2>3. ASSUME ~running, stopper.at = "idle" PROVE Heard = {}
    <3>1. ingest.task = 0
      BY <1>1, <2>3 DEF LoopInv, StreamInv
    <3>2. 0 \notin Streams
      BY DEF Streams
    <3>3. QED
      BY <2>1, <3>1, <3>2 DEF Heard
  <2>4. QED
    BY <2>2, <2>3 DEF OneStream
<1>2. QED
  BY <1>1, MonitorInvariant, PTL

=============================================================================
