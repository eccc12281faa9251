---------------------------- MODULE EventBatching ----------------------------
(***************************************************************************)
(* The event-handler service (src/src/event-handler/app): a durable        *)
(* JetStream consumer hands messages to one asyncio process, which runs    *)
(* the handlers configured for a program.  A handler acts at once or       *)
(* appends the event to a batch in Redis; a batch leaves Redis when a      *)
(* handler finds it full or old enough, when the recovery loop finds it    *)
(* expired, when an administrator flushes or clears it, or when its Redis  *)
(* keys expire.                                                            *)
(*                                                                         *)
(* What is followed is the slip: one event of one delivery of one message, *)
(* as seen by one handler.  The handler owes the slip an action from the   *)
(* moment its conditions accept the event.                                 *)
(*                                                                         *)
(* One program, one event type, one replica (the deployment runs one).     *)
(***************************************************************************)
EXTENDS Integers, FiniteSets

CONSTANTS
  Msgs,          \* the messages of the stream
  Wrapped,       \* those whose payload is {"event": "batch", "events": [...]}
  Size,          \* [Msgs -> Nat], the events a message carries
  NumHandlers,   \* handlers are numbered in registration order
  Batching,      \* the handlers with a batching configuration
  Matches,       \* [Msgs -> SUBSET Handlers], whose conditions accept the events
  MaxEvents,     \* batching.max_events
  MaxDelay,      \* batching.max_delay_seconds, in ticks
  SweepPeriod,   \* the recovery loop's sleep, in ticks
  SlowActions,   \* TRUE: a sweeper's action may last longer than a tick
  MaxDeliver,    \* the consumer's max_deliver
  MaxConcurrent, \* the semaphore of concurrent messages (1: as sequential mode)
  Env,           \* what the environment may do, see EnvKinds
  MaxCrashes     \* bound on process crashes

Handlers == 1..NumHandlers

EnvKinds == {"redis", "action", "ack", "crash", "config", "stale", "edit",
             "pause", "flush", "clear"}

\* The coroutines that sweep Redis: the recovery loop and an admin flush.
Sweepers == {"recovery", "flush"}

ASSUME MsgsAssumption ==
  /\ Msgs \cap Sweepers = {}
  /\ Wrapped \subseteq Msgs
  /\ Size \in [Msgs -> Nat]
  /\ \A m \in Msgs \ Wrapped : Size[m] = 1

ASSUME HandlersAssumption ==
  /\ NumHandlers \in Nat
  /\ Batching \subseteq Handlers
  /\ Matches \in [Msgs -> SUBSET Handlers]

ASSUME LimitsAssumption ==
  /\ MaxEvents \in Nat \ {0} /\ MaxDelay \in Nat \ {0}
  /\ SweepPeriod \in Nat \ {0} /\ SlowActions \in BOOLEAN
  /\ MaxDeliver \in Nat \ {0} /\ MaxConcurrent \in Nat \ {0}
  /\ Env \subseteq EnvKinds /\ MaxCrashes \in Nat

VARIABLES
  sub,      \* the stream's view of a message: ready, out, acked or dead
  tries,    \* deliveries of a message so far
  paused,   \* _processing_paused
  polling,  \* a fetch is outstanding
  pc,       \* what the task of a message is doing
  ev,       \* index of the event the task is at
  chain,    \* handlers the task still has to run for that event
  cur,      \* handler whose full batch the task is about to take, or 0
  res,      \* the results of the event so far: none, fail or ok
  held,     \* slips taken out of Redis (or never in it) by a running coroutine
  queue,    \* slips in Redis batches
  age,      \* time since first_ts of a handler's batch, capped at MaxDelay
  ttl,      \* time until the Redis keys of a handler's batch expire
  sw,       \* what a sweeper is doing: idle, scan or act
  left,     \* the batches a sweeper listed and has not looked at
  nap,      \* what is left of the recovery loop's sleep
  clearing, \* the clear thread: batches listed, and the one between llen and delete
  api,      \* the handlers configured in the API
  cached,   \* the in-process handler set
  fresh,    \* the in-process handler set has not expired
  shared,   \* the configuration cached in Redis: one handler set, or nothing
  due,      \* history: slips some handler accepted
  done,     \* history: slips an action was executed for
  lost,     \* history: slips that were given up, by reason
  crashes   \* crashes so far

streamVars == <<sub, tries>>
taskVars   == <<pc, ev, chain, cur, res>>
redisVars  == <<queue, age, ttl>>
sweepVars  == <<sw, left, nap>>
configVars == <<api, cached, fresh, shared>>
ledgerVars == <<due, done, lost>>
ctlVars    == <<paused, polling, clearing, crashes>>
vars == <<streamVars, taskVars, redisVars, sweepVars, configVars, ledgerVars,
          ctlVars, held>>

-----------------------------------------------------------------------------
(* Slips and their places *)

Slip == [h : Handlers, m : Msgs, i : Nat, k : Nat]

Reasons == {"redis", "action", "expired", "orphan", "clear", "crash"}

Holders == Msgs \cup Sweepers

SlipOf(m, h) == [h |-> h, m |-> m, i |-> ev[m], k |-> tries[m]]

BatchOf(h) == {p \in queue : p.h = h}

AllHeld == UNION {held[x] : x \in Holders}
AllLost == UNION {lost[r] : r \in Reasons}

Lose(reason, S) == lost' = [lost EXCEPT ![reason] = @ \cup S]

Init ==
  /\ sub = [m \in Msgs |-> "ready"] /\ tries = [m \in Msgs |-> 0]
  /\ paused = FALSE /\ polling = FALSE
  /\ pc = [m \in Msgs |-> "idle"] /\ ev = [m \in Msgs |-> 1]
  /\ chain = [m \in Msgs |-> {}] /\ cur = [m \in Msgs |-> 0]
  /\ res = [m \in Msgs |-> "none"]
  /\ held = [x \in Holders |-> {}]
  /\ queue = {} /\ age = [h \in Batching |-> 0] /\ ttl = [h \in Batching |-> 0]
  /\ sw = [s \in Sweepers |-> "idle"] /\ left = [s \in Sweepers |-> {}] /\ nap = 0
  /\ clearing = [todo |-> {}, at |-> 0]
  /\ api = Handlers /\ cached = {} /\ fresh = FALSE /\ shared = {}
  /\ due = {} /\ done = {} /\ lost = [r \in Reasons |-> {}]
  /\ crashes = 0

\* Mutation: the coroutine yields between add_to_batch and get_and_clear_batch.
AlwaysLoopFree == TRUE

\* add_to_batch and the get_and_clear_batch it may call for have no await in
\* between, so no other coroutine runs there; the clear thread does.
LoopFree == \A m \in Msgs : pc[m] # "flush"

-----------------------------------------------------------------------------
(* The handler configuration (ApiConfigProvider, _get_handler_set) *)

\* The copy in Redis, else the API's answer, which is then copied; a failing
\* API yields the empty list, which is not.  Redis errors are passed over.
FetchHandlers(hs) ==
  \/ hs \in shared /\ UNCHANGED shared
  \/ /\ shared = {} \/ "redis" \in Env
     /\ \/ hs = api /\ shared' = {api}
        \/ hs = api /\ "redis" \in Env /\ UNCHANGED shared
        \/ hs = {} /\ "config" \in Env /\ UNCHANGED shared

\* The in-process set is used for a whole TTL, an empty one included.
LoadConfig(hs) ==
  /\ fresh' = TRUE /\ cached' = hs
  /\ IF fresh THEN hs = cached /\ UNCHANGED shared ELSE FetchHandlers(hs)
  /\ UNCHANGED api

\* Either TTL runs out.
ConfigExpires ==
  /\ "stale" \in Env
  /\ \/ fresh /\ fresh' = FALSE /\ UNCHANGED shared
     \/ shared # {} /\ shared' = {} /\ UNCHANGED fresh
  /\ UNCHANGED <<api, cached, streamVars, taskVars, redisVars, sweepVars,
                 ledgerVars, ctlVars, held>>

\* An administrator changes the handlers of the program.
EditHandlers ==
  /\ "edit" \in Env
  /\ \E hs \in SUBSET Handlers : hs # api /\ api' = hs
  /\ UNCHANGED <<cached, fresh, shared, streamVars, taskVars, redisVars,
                 sweepVars, ledgerVars, ctlVars, held>>

-----------------------------------------------------------------------------
(* The fetch loop (EventsSubscriber.run) *)

RoundOver == \A m \in Msgs : pc[m] = "idle"

StartFetch ==
  /\ ~paused /\ ~polling /\ RoundOver
  /\ polling' = TRUE
  /\ UNCHANGED <<paused, clearing, crashes, streamVars, taskVars, redisVars,
                 sweepVars, configVars, ledgerVars, held>>

FetchTimesOut ==
  /\ polling /\ \A m \in Msgs : sub[m] # "ready"
  /\ polling' = FALSE
  /\ UNCHANGED <<paused, clearing, crashes, streamVars, taskVars, redisVars,
                 sweepVars, configVars, ledgerVars, held>>

\* Every message of the round becomes a task; the next fetch waits for all.
FetchRound ==
  /\ polling /\ polling' = FALSE
  /\ \E S \in SUBSET {m \in Msgs : sub[m] = "ready"} :
       /\ S # {}
       /\ sub' = [m \in Msgs |-> IF m \in S THEN "out" ELSE sub[m]]
       /\ tries' = [m \in Msgs |-> IF m \in S THEN tries[m] + 1 ELSE tries[m]]
       /\ pc' = [m \in Msgs |-> IF m \in S THEN "waiting" ELSE pc[m]]
  /\ UNCHANGED <<ev, chain, cur, res, paused, clearing, crashes, redisVars, sweepVars,
                 configVars, ledgerVars, held>>

Running == {m \in Msgs : pc[m] \notin {"idle", "waiting"}}

\* The semaphore admits the task; an empty batch message is acknowledged.
Begin(m) ==
  /\ LoopFree /\ pc[m] = "waiting" /\ Cardinality(Running) < MaxConcurrent
  /\ pc' = [pc EXCEPT ![m] = IF Size[m] = 0 THEN "reply" ELSE "event"]
  /\ UNCHANGED <<ev, chain, cur, res, streamVars, redisVars, sweepVars,
                 configVars, ledgerVars, ctlVars, held>>

-----------------------------------------------------------------------------
(* One event through its handlers (_handle_single_event, registry, handler) *)

StartEvent(m) ==
  /\ LoopFree /\ pc[m] = "event"
  /\ \E hs \in SUBSET Handlers :
       /\ LoadConfig(hs)
       /\ chain' = [chain EXCEPT ![m] = hs \cap Matches[m]]
  /\ pc' = [pc EXCEPT ![m] = "run"] /\ res' = [res EXCEPT ![m] = "none"]
  /\ UNCHANGED <<ev, cur, streamVars, redisVars, sweepVars, ledgerVars, ctlVars,
                 held>>

\* Mutation: the last result decides.
MergeLast(m, r) == res' = [res EXCEPT ![m] = r]

\* Any successful result makes the event a success.
Merge(m, r) == res' = [res EXCEPT ![m] = IF @ = "ok" THEN "ok" ELSE r]

NextHandler(m, h) ==
  /\ LoopFree /\ pc[m] = "run"
  /\ h \in chain[m] /\ \A g \in chain[m] : h <= g
  /\ chain' = [chain EXCEPT ![m] = @ \ {h}]
  /\ due' = due \cup {SlipOf(m, h)}

\* A handler without batching starts its actions at once.
ActNow(m, h) ==
  /\ NextHandler(m, h) /\ h \notin Batching
  /\ held' = [held EXCEPT ![m] = {SlipOf(m, h)}]
  /\ pc' = [pc EXCEPT ![m] = "act"]
  /\ UNCHANGED <<ev, cur, res, done, lost, streamVars, redisVars, sweepVars,
                 configVars, ctlVars>>

\* The MULTI of add_to_batch: first_ts is set once per batch, the keys' expiry
\* is renewed by every event.
Push(p) ==
  /\ queue' = queue \cup {p}
  /\ age' = IF BatchOf(p.h) = {} THEN [age EXCEPT ![p.h] = 0] ELSE age
  /\ ttl' = [ttl EXCEPT ![p.h] = 2 * MaxDelay]

\* Mutation: one event too late.
ShouldFlushLate(h) ==
  \/ Cardinality(BatchOf(h)') > MaxEvents
  \/ age'[h] >= MaxDelay

ShouldFlush(h) ==
  \/ Cardinality(BatchOf(h)') >= MaxEvents
  \/ age'[h] >= MaxDelay

AddToBatch(m, h) ==
  /\ NextHandler(m, h) /\ h \in Batching
  /\ Push(SlipOf(m, h))
  /\ IF ShouldFlush(h)
       THEN /\ pc' = [pc EXCEPT ![m] = "flush"] /\ cur' = [cur EXCEPT ![m] = h]
            /\ UNCHANGED res
       ELSE Merge(m, "ok") /\ UNCHANGED <<pc, cur>>
  /\ UNCHANGED <<ev, done, lost, streamVars, sweepVars, configVars, ctlVars, held>>

\* A Redis error is swallowed: the result still says "queued", whether or not
\* the transaction went through.
AddToBatchFails(m, h) ==
  /\ "redis" \in Env /\ NextHandler(m, h) /\ h \in Batching
  /\ \/ Push(SlipOf(m, h)) /\ UNCHANGED lost
     \/ Lose("redis", {SlipOf(m, h)}) /\ UNCHANGED redisVars
  /\ Merge(m, "ok")
  /\ UNCHANGED <<pc, ev, cur, done, streamVars, sweepVars, configVars, ctlVars, held>>

\* Mutation: only the meta hash is deleted.
RemoveMeta(h) ==
  /\ age' = [age EXCEPT ![h] = 0] /\ ttl' = [ttl EXCEPT ![h] = 0]
  /\ UNCHANGED queue

\* The batch's item list and meta hash are deleted together.
Remove(h) ==
  /\ queue' = queue \ BatchOf(h)
  /\ age' = [age EXCEPT ![h] = 0] /\ ttl' = [ttl EXCEPT ![h] = 0]

Take(x, h) == held' = [held EXCEPT ![x] = BatchOf(h)] /\ Remove(h)

\* The pipeline raises; Redis may have executed it all the same.
TakeFails(h) ==
  /\ "redis" \in Env
  /\ \/ UNCHANGED <<redisVars, lost>>
     \/ Remove(h) /\ Lose("redis", BatchOf(h))
  /\ UNCHANGED held

\* get_and_clear_batch for the event that filled the batch; the actions run
\* on whatever it returns, an empty list included.
TakeBatch(m) ==
  /\ pc[m] = "flush"
  /\ Take(m, cur[m])
  /\ pc' = [pc EXCEPT ![m] = "act"] /\ cur' = [cur EXCEPT ![m] = 0]
  /\ UNCHANGED <<ev, chain, res, streamVars, sweepVars, configVars,
                 ledgerVars, ctlVars>>

\* The exception of a failing pipeline becomes one failed result.
TakeBatchFails(m) ==
  /\ pc[m] = "flush"
  /\ TakeFails(cur[m])
  /\ Merge(m, "fail")
  /\ pc' = [pc EXCEPT ![m] = "run"] /\ cur' = [cur EXCEPT ![m] = 0]
  /\ UNCHANGED <<ev, chain, due, done, streamVars, sweepVars, configVars,
                 ctlVars>>

\* Mutation: failed actions count as executed, too.
SettleBoth(x, outcome) ==
  /\ held' = [held EXCEPT ![x] = {}] /\ done' = done \cup held[x]
  /\ IF outcome = "ok" THEN UNCHANGED lost
     ELSE "action" \in Env /\ Lose("action", held[x])

\* The actions of x end: they were executed for the slips x holds, or failed.
Settle(x, outcome) ==
  /\ held' = [held EXCEPT ![x] = {}]
  /\ \/ outcome = "ok" /\ done' = done \cup held[x] /\ UNCHANGED lost
     \/ "action" \in Env /\ outcome = "fail" /\ Lose("action", held[x])
        /\ UNCHANGED done

FinishActions(m) ==
  /\ LoopFree /\ pc[m] = "act"
  /\ \E outcome \in {"ok", "fail"} : Settle(m, outcome) /\ Merge(m, outcome)
  /\ pc' = [pc EXCEPT ![m] = "run"]
  /\ UNCHANGED <<ev, chain, cur, due, streamVars, redisVars, sweepVars,
                 configVars, ctlVars>>

\* The event is over: the next event of a batch message, or the verdict.
EndEvent(m) ==
  /\ LoopFree /\ pc[m] = "run" /\ chain[m] = {}
  /\ IF ev[m] < Size[m]
       THEN ev' = [ev EXCEPT ![m] = @ + 1] /\ pc' = [pc EXCEPT ![m] = "event"]
       ELSE pc' = [pc EXCEPT ![m] = "reply"] /\ UNCHANGED ev
  /\ UNCHANGED <<chain, cur, res, streamVars, redisVars, sweepVars, configVars,
                 ledgerVars, ctlVars, held>>

\* handle_event's return value: a batch message is always a success.
Verdict(m) == m \in Wrapped \/ res[m] # "fail"

\* Mutation: the stream considers a delivered message done.
GiveBackNever(m) == "acked"

\* Mutation: the message is neither delivered again nor given up.
GiveBackForgotten(m) == "out"

GiveBack(m) == IF tries[m] < MaxDeliver THEN "ready" ELSE "dead"

\* ack or nak; a lost answer makes JetStream deliver the message again, up to
\* max_deliver times.
Reply(m) ==
  /\ LoopFree /\ pc[m] = "reply"
  /\ pc' = [pc EXCEPT ![m] = "idle"]
  /\ ev' = [ev EXCEPT ![m] = 1] /\ res' = [res EXCEPT ![m] = "none"]
  /\ \/ Verdict(m) /\ sub' = [sub EXCEPT ![m] = "acked"]
     \/ ~Verdict(m) /\ sub' = [sub EXCEPT ![m] = GiveBack(m)]
     \/ "ack" \in Env /\ sub' = [sub EXCEPT ![m] = GiveBack(m)]
  /\ UNCHANGED <<tries, chain, cur, redisVars, sweepVars, configVars,
                 ledgerVars, ctlVars, held>>

-----------------------------------------------------------------------------
(* The recovery loop and the admin flush *)

Pending == {h \in Batching : BatchOf(h) # {}}
\* Mutation: a batch must be older than the (capped) age.
ExpiredLate == {h \in Pending : age[h] > MaxDelay}

Expired == {h \in Pending : age[h] >= MaxDelay}

Sweep(s, hs) ==
  /\ sw' = [sw EXCEPT ![s] = "scan"] /\ left' = [left EXCEPT ![s] = hs]

RecoveryWakes ==
  /\ LoopFree /\ sw["recovery"] = "idle" /\ nap = 0
  /\ \/ paused /\ nap' = SweepPeriod /\ UNCHANGED <<sw, left>>
     \/ ~paused /\ Sweep("recovery", Expired) /\ UNCHANGED nap
  /\ UNCHANGED <<streamVars, taskVars, redisVars, configVars, ledgerVars,
                 ctlVars, held>>

\* POST /control/flush-batches, also while paused; one at a time here.
FlushRequested ==
  /\ "flush" \in Env /\ LoopFree /\ sw["flush"] = "idle" /\ Pending # {}
  /\ Sweep("flush", Pending)
  /\ UNCHANGED <<nap, streamVars, taskVars, redisVars, configVars, ledgerVars,
                 ctlVars, held>>

\* One batch of the list: the recovery loop leaves a batch whose handler is
\* gone, the flush discards it; an empty batch is passed over.
SweepTakes(s, h) ==
  /\ LoopFree /\ sw[s] = "scan" /\ h \in left[s]
  /\ left' = [left EXCEPT ![s] = @ \ {h}]
  /\ \E hs \in SUBSET Handlers :
       /\ LoadConfig(hs)
       /\ \/ /\ h \in hs /\ Take(s, h)
             /\ sw' = [sw EXCEPT ![s] = IF BatchOf(h) = {} THEN "scan" ELSE "act"]
             /\ UNCHANGED lost
          \/ /\ h \notin hs /\ s = "flush"
             /\ Remove(h) /\ Lose("orphan", BatchOf(h))
             /\ UNCHANGED <<sw, held>>
          \/ /\ h \notin hs /\ s = "recovery"
             /\ UNCHANGED <<sw, held, redisVars, lost>>
          \/ h \in hs \cup (IF s = "flush" THEN {h} ELSE {})
             /\ TakeFails(h) /\ UNCHANGED sw
  /\ UNCHANGED <<nap, due, done, streamVars, taskVars, ctlVars>>

SweepActed(s) ==
  /\ LoopFree /\ sw[s] = "act"
  /\ \E outcome \in {"ok", "fail"} : Settle(s, outcome)
  /\ sw' = [sw EXCEPT ![s] = "scan"]
  /\ UNCHANGED <<left, nap, due, streamVars, taskVars, redisVars, configVars,
                 ctlVars>>

SweepEnds(s) ==
  /\ LoopFree /\ sw[s] = "scan" /\ left[s] = {}
  /\ sw' = [sw EXCEPT ![s] = "idle"]
  /\ nap' = IF s = "recovery" THEN SweepPeriod ELSE nap
  /\ UNCHANGED <<left, streamVars, taskVars, redisVars, configVars, ledgerVars,
                 ctlVars, held>>

-----------------------------------------------------------------------------
(* The clear thread (delete_all_pending_batches under asyncio.to_thread) *)

ClearRequested ==
  /\ "clear" \in Env /\ LoopFree
  /\ clearing = [todo |-> {}, at |-> 0] /\ Pending # {}
  /\ clearing' = [todo |-> Pending, at |-> 0]
  /\ UNCHANGED <<paused, polling, crashes, streamVars, taskVars, redisVars,
                 sweepVars, configVars, ledgerVars, held>>

ClearCounts(h) ==
  /\ clearing.at = 0 /\ h \in clearing.todo
  /\ clearing' = [todo |-> clearing.todo \ {h},
                  at |-> IF BatchOf(h) = {} THEN 0 ELSE h]
  /\ UNCHANGED <<paused, polling, crashes, streamVars, taskVars, redisVars,
                 sweepVars, configVars, ledgerVars, held>>

ClearDeletes ==
  /\ clearing.at # 0
  /\ Remove(clearing.at) /\ Lose("clear", BatchOf(clearing.at))
  /\ clearing' = [clearing EXCEPT !.at = 0]
  /\ UNCHANGED <<paused, polling, crashes, due, done, streamVars, taskVars,
                 sweepVars, configVars, held>>

-----------------------------------------------------------------------------
(* Time, control and crashes *)

\* Mutation: the count goes below zero.
CountdownOpen(n) == n - 1

Countdown(n) == IF n > 0 THEN n - 1 ELSE 0

\* Redis drops the keys of a batch 2 * MaxDelay after its last event.  A tick
\* is long: the recovery loop wakes when its sleep is over, and unless
\* SlowActions a sweep ends, before the next one.
Tick ==
  /\ sw["recovery"] = "idle" => nap > 0
  /\ SlowActions \/ \A s \in Sweepers : sw[s] = "idle"
  /\ LoopFree
  /\ nap > 0 \/ Pending # {}
  /\ nap' = Countdown(nap)
  /\ ttl' = [h \in Batching |-> Countdown(ttl[h])]
  /\ age' = [h \in Batching |-> IF ttl[h] <= 1 THEN 0
                               ELSE IF age[h] < MaxDelay THEN age[h] + 1 ELSE age[h]]
  /\ LET gone == {p \in queue : ttl[p.h] <= 1}
     IN  queue' = queue \ gone /\ Lose("expired", gone)
  /\ UNCHANGED <<sw, left, due, done, streamVars, taskVars, configVars, ctlVars,
                 held>>

Pause ==
  /\ "pause" \in Env /\ LoopFree
  /\ paused' = ~paused
  /\ UNCHANGED <<polling, clearing, crashes, streamVars, taskVars, redisVars,
                 sweepVars, configVars, ledgerVars, held>>

\* The process dies and restarts; unanswered messages come back after ack_wait.
Crash ==
  /\ "crash" \in Env /\ crashes < MaxCrashes /\ crashes' = crashes + 1
  /\ sub' = [m \in Msgs |-> IF sub[m] = "out" THEN GiveBack(m) ELSE sub[m]]
  /\ pc' = [m \in Msgs |-> "idle"] /\ ev' = [m \in Msgs |-> 1]
  /\ chain' = [m \in Msgs |-> {}] /\ cur' = [m \in Msgs |-> 0]
  /\ res' = [m \in Msgs |-> "none"]
  /\ Lose("crash", AllHeld)
  /\ held' = [x \in Holders |-> {}]
  /\ sw' = [s \in Sweepers |-> "idle"] /\ left' = [s \in Sweepers |-> {}]
  /\ nap' = 0
  /\ clearing' = [todo |-> {}, at |-> 0]
  /\ paused' = FALSE /\ polling' = FALSE
  /\ fresh' = FALSE /\ cached' = {}
  /\ UNCHANGED <<tries, redisVars, api, shared, due, done>>

-----------------------------------------------------------------------------

TaskStep(m) ==
  \/ Begin(m) \/ StartEvent(m) \/ EndEvent(m) \/ Reply(m)
  \/ FinishActions(m) \/ TakeBatch(m) \/ TakeBatchFails(m)
  \/ \E h \in Handlers :
       ActNow(m, h) \/ AddToBatch(m, h) \/ AddToBatchFails(m, h)

SweepStep(s) ==
  \/ SweepActed(s) \/ SweepEnds(s)
  \/ \E h \in Batching : SweepTakes(s, h)

FetchStep == StartFetch \/ FetchTimesOut \/ FetchRound

ClearStep == ClearDeletes \/ \E h \in Batching : ClearCounts(h)

Next ==
  \/ FetchStep \/ RecoveryWakes \/ Tick
  \/ \E m \in Msgs : TaskStep(m)
  \/ \E s \in Sweepers : SweepStep(s)
  \/ FlushRequested \/ ClearRequested \/ ClearStep
  \/ ConfigExpires \/ EditHandlers \/ Pause \/ Crash

Spec == Init /\ [][Next]_vars

\* The event loop runs every ready coroutine, actions end (their HTTP calls
\* have timeouts), and time passes.
Fairness ==
  /\ WF_vars(FetchStep) /\ WF_vars(RecoveryWakes) /\ WF_vars(Tick)
  /\ WF_vars(ClearStep)
  /\ \A m \in Msgs : WF_vars(TaskStep(m))
  /\ \A s \in Sweepers : WF_vars(SweepStep(s))

FairSpec == Spec /\ Fairness

-----------------------------------------------------------------------------
(* Properties *)

\* Every variable stays in its range.
TypeOK ==
  /\ sub \in [Msgs -> {"ready", "out", "acked", "dead"}]
  /\ tries \in [Msgs -> Nat]
  /\ paused \in BOOLEAN /\ polling \in BOOLEAN
  /\ pc \in [Msgs -> {"idle", "waiting", "event", "run", "flush", "act", "reply"}]
  /\ ev \in [Msgs -> Nat]
  /\ chain \in [Msgs -> SUBSET Handlers]
  /\ cur \in [Msgs -> Nat]
  /\ res \in [Msgs -> {"none", "fail", "ok"}]
  /\ held \in [Holders -> SUBSET Slip]
  /\ queue \in SUBSET Slip
  /\ age \in [Batching -> Nat] /\ ttl \in [Batching -> Nat]
  /\ sw \in [Sweepers -> {"idle", "scan", "act"}]
  /\ left \in [Sweepers -> SUBSET Batching]
  /\ nap \in Nat
  /\ clearing \in [todo : SUBSET Batching, at : Nat]
  /\ api \in SUBSET Handlers /\ cached \in SUBSET Handlers
  /\ fresh \in BOOLEAN /\ shared \in SUBSET (SUBSET Handlers)
  /\ due \in SUBSET Slip /\ done \in SUBSET Slip
  /\ lost \in [Reasons -> SUBSET Slip]
  /\ crashes \in Nat

\* A slip a handler accepted is in exactly one place: a Redis batch, the hands
\* of one coroutine, executed, or given up for one reason.  Racing flushes,
\* recovery, redelivery and clears neither duplicate nor mislay it.
OnePlace ==
  /\ due = queue \cup AllHeld \cup done \cup AllLost
  /\ queue \cap (AllHeld \cup done \cup AllLost) = {}
  /\ AllHeld \cap (done \cup AllLost) = {}
  /\ done \cap AllLost = {}
  /\ \A x, y \in Holders : x # y => held[x] \cap held[y] = {}
  /\ \A r, s \in Reasons : r # s => lost[r] \cap lost[s] = {}

\* A coroutine has slips in its hands only while its actions run: what a take
\* overwrites is never a slip in flight.
HandsEmpty ==
  /\ \A m \in Msgs : pc[m] # "act" => held[m] = {}
  /\ \A s \in Sweepers : sw[s] # "act" => held[s] = {}

\* A handler never sees the same event of the same delivery twice: what the
\* current delivery already offered lies behind the task's position.
SlipsFresh ==
  \A p \in due :
    /\ p.k <= tries[p.m]
    /\ p.k = tries[p.m] =>
         /\ pc[p.m] # "waiting"
         /\ pc[p.m] = "event" => p.i < ev[p.m]
         /\ pc[p.m] \in {"run", "flush", "act"} =>
              p.i < ev[p.m] \/ (p.i = ev[p.m] /\ p.h \notin chain[p.m])

\* A message with a task is with the consumer: it is not fetched again.
TaskOwnsMessage == \A m \in Msgs : pc[m] # "idle" => sub[m] = "out"

\* OnePlace with what makes it inductive.
PlacesInv == OnePlace /\ HandsEmpty /\ SlipsFresh /\ TaskOwnsMessage

\* A handler is run on an empty batch only if the clear thread emptied it
\* between add_to_batch and get_and_clear_batch: no coroutine can.
EmptyBatchNeedsClear ==
  \A m \in Msgs :
    pc[m] = "act" /\ held[m] = {} => lost["clear"] # {}

\* While Redis answers, a batch is below max_events between turns of the event
\* loop: it never waits for another event to notice it is full.
BatchBelowLimit ==
  LoopFree => \A h \in Batching : Cardinality(BatchOf(h)) < MaxEvents

\* The slips of the last delivery of a message.
LastSlips(m) == {p \in due : p.m = m /\ p.k = tries[m]}

\* A message all of whose handlers failed was not acknowledged.
AckedWasActedOn(m) ==
  LET mine == LastSlips(m)
  IN  sub[m] = "acked" /\ mine # {} /\ (\A p \in mine : p.h \notin Batching)
      => mine \cap done # {}

\* A single-event message handled without batching is acknowledged only after
\* an action was executed for it, whatever fails, crashes or is redelivered.
AckedImmediateExecuted == \A m \in Msgs \ Wrapped : AckedWasActedOn(m)

\* Every message is eventually acknowledged or given up by the stream.
EveryMessageSettles ==
  \A m \in Msgs : <>(sub[m] \in {"acked", "dead"})

\* Every accepted slip is eventually executed.
EverySlipExecuted ==
  \A h \in Handlers, m \in Msgs :
    \A i \in 1..Size[m], k \in 1..MaxDeliver :
      LET p == [h |-> h, m |-> m, i |-> i, k |-> k]
      IN  p \in due ~> p \in done

\* An event is executed once per handler as long as answers and processes are
\* not lost: flushes, sweeps, clears and failing actions never cause a second.
ExecutedOnce ==
  \A p, q \in done : p.h = q.h /\ p.m = q.m /\ p.i = q.i => p.k = q.k

\* Everything above about slips, as a promise: see EventFate.
Fate == INSTANCE EventFate WITH pending <- queue \cup AllHeld, lost <- AllLost

FateSpec == Fate!Spec

=============================================================================
