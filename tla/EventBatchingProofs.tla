------------------------- MODULE EventBatchingProofs -------------------------
(***************************************************************************)
(* Proofs about EventBatching, for every number of messages, handlers and  *)
(* retries, every batching limit and everything the environment may do.    *)
(***************************************************************************)
EXTENDS EventBatching, TLAPS

\* What a handler is offered is a slip.
LEMMA SlipType ==
  ASSUME TypeOK, NEW m \in Msgs, NEW h \in Handlers
  PROVE  SlipOf(m, h) \in Slip
BY DEF SlipOf, Slip, TypeOK

\* Running a handler records its slip and takes it off the chain.
LEMMA NextHandlerType ==
  ASSUME TypeOK, NEW m \in Msgs, NEW h \in Handlers, NextHandler(m, h)
  PROVE  /\ SlipOf(m, h) \in Slip /\ SlipOf(m, h).h = h
         /\ chain' \in [Msgs -> SUBSET Handlers] /\ due' \in SUBSET Slip
BY SlipType DEF NextHandler, TypeOK, SlipOf

\* Batches are sets of slips.
LEMMA BatchType ==
  ASSUME TypeOK, NEW h
  PROVE  BatchOf(h) \subseteq queue /\ BatchOf(h) \subseteq Slip
BY DEF BatchOf, TypeOK

\* Appending a slip keeps the Redis state in range.
LEMMA PushType ==
  ASSUME TypeOK, NEW p \in Slip, Push(p)
  PROVE  /\ queue' \in SUBSET Slip
         /\ age' \in [Batching -> Nat] /\ ttl' \in [Batching -> Nat]
<1>1. 2 * MaxDelay \in Nat
  BY LimitsAssumption
<1>2. age' = age \/ age' = [age EXCEPT ![p.h] = 0]
  BY DEF Push
<1>3. QED BY <1>1, <1>2 DEF Push, TypeOK

\* Reading the configuration keeps it in range (_get_handler_set).
LEMMA LoadConfigType ==
  ASSUME TypeOK, NEW hs \in SUBSET Handlers, LoadConfig(hs)
  PROVE  /\ api' \in SUBSET Handlers /\ cached' \in SUBSET Handlers
         /\ fresh' \in BOOLEAN /\ shared' \in SUBSET (SUBSET Handlers)
BY DEF LoadConfig, FetchHandlers, TypeOK

\* Removing a batch keeps the Redis state in range.
LEMMA RemoveType ==
  ASSUME TypeOK, NEW h, Remove(h)
  PROVE  /\ queue' \in SUBSET Slip
         /\ age' \in [Batching -> Nat] /\ ttl' \in [Batching -> Nat]
BY DEF Remove, TypeOK

\* Giving slips up keeps the ledger in range.
LEMMA LoseType ==
  ASSUME TypeOK, NEW r, NEW S \in SUBSET Slip, Lose(r, S)
  PROVE  lost' \in [Reasons -> SUBSET Slip]
BY DEF Lose, TypeOK

\* Type correctness: every variable stays in its range, for all constants.
THEOREM TypeCorrect == Spec => []TypeOK
<1>1. Init => TypeOK
  <2> SUFFICES ASSUME Init PROVE TypeOK
    OBVIOUS
  <2>1. /\ sub \in [Msgs -> {"ready", "out", "acked", "dead"}]
        /\ tries \in [Msgs -> Nat] /\ ev \in [Msgs -> Nat] /\ cur \in [Msgs -> Nat]
        /\ pc \in [Msgs -> {"idle", "waiting", "event", "run", "flush", "act", "reply"}]
        /\ chain \in [Msgs -> SUBSET Handlers]
        /\ res \in [Msgs -> {"none", "fail", "ok"}]
    BY DEF Init
  <2>2. /\ held \in [Holders -> SUBSET Slip] /\ lost \in [Reasons -> SUBSET Slip]
        /\ left \in [Sweepers -> SUBSET Batching]
        /\ sw \in [Sweepers -> {"idle", "scan", "act"}]
        /\ age \in [Batching -> Nat] /\ ttl \in [Batching -> Nat]
        /\ clearing \in [todo : SUBSET Batching, at : Nat]
    BY DEF Init
  <2>3. /\ shared \in SUBSET (SUBSET Handlers) /\ api \in SUBSET Handlers
        /\ cached \in SUBSET Handlers
    BY DEF Init
  <2>4. QED BY <2>1, <2>2, <2>3 DEF Init, TypeOK
<1>2. TypeOK /\ [Next]_vars => TypeOK'
  <2> SUFFICES ASSUME TypeOK, [Next]_vars PROVE TypeOK'
    OBVIOUS
  <2> USE MsgsAssumption, HandlersAssumption, LimitsAssumption
      DEF streamVars, taskVars, redisVars, sweepVars, configVars, ledgerVars, ctlVars
  <2>1. CASE FetchStep
    <3>1. CASE StartFetch
      BY <3>1 DEF StartFetch, TypeOK
    <3>2. CASE FetchTimesOut
      BY <3>2 DEF FetchTimesOut, TypeOK
    <3>3. CASE FetchRound
      <4>1. PICK S \in SUBSET {m \in Msgs : sub[m] = "ready"} :
              /\ sub' = [m \in Msgs |-> IF m \in S THEN "out" ELSE sub[m]]
              /\ tries' = [m \in Msgs |-> IF m \in S THEN tries[m] + 1 ELSE tries[m]]
              /\ pc' = [m \in Msgs |-> IF m \in S THEN "waiting" ELSE pc[m]]
        BY <3>3 DEF FetchRound
      <4>2. /\ sub' \in [Msgs -> {"ready", "out", "acked", "dead"}]
            /\ tries' \in [Msgs -> Nat]
            /\ pc' \in [Msgs -> {"idle", "waiting", "event", "run", "flush", "act", "reply"}]
        BY <4>1 DEF TypeOK
      <4>3. QED BY <3>3, <4>2 DEF FetchRound, TypeOK
    <3>4. QED BY <2>1, <3>1, <3>2, <3>3 DEF FetchStep
  <2>2. CASE RecoveryWakes
    BY <2>2 DEF RecoveryWakes, Sweep, Expired, Pending, TypeOK, Sweepers
  <2>3. CASE Tick
    <3>1. nap' \in Nat
      BY <2>3 DEF Tick, Countdown, TypeOK
    <3>2. ttl' \in [Batching -> Nat] /\ age' \in [Batching -> Nat]
      BY <2>3 DEF Tick, Countdown, TypeOK
    <3>3. queue' \in SUBSET Slip /\ lost' \in [Reasons -> SUBSET Slip]
      BY <2>3 DEF Tick, Countdown, TypeOK, Lose
    <3>4. QED
      BY <2>3, <3>1, <3>2, <3>3 DEF Tick, Countdown, TypeOK
  <2>4. ASSUME NEW m \in Msgs, TaskStep(m) PROVE TypeOK'
    <3>1. CASE Begin(m)
      BY <3>1 DEF Begin, TypeOK
    <3>2. CASE StartEvent(m)
      BY <3>2, LoadConfigType DEF StartEvent, TypeOK
    <3>3. CASE EndEvent(m)
      BY <3>3 DEF EndEvent, TypeOK
    <3>4. CASE Reply(m)
      BY <3>4 DEF Reply, GiveBack, TypeOK
    <3>5. CASE FinishActions(m)
      BY <3>5, LoseType DEF FinishActions, Settle, Merge, TypeOK, Lose, Holders
    <3>6. CASE TakeBatch(m)
      BY <3>6, RemoveType, BatchType DEF TakeBatch, Take, TypeOK
    <3>7. CASE TakeBatchFails(m)
      <4>1. TypeOK => BatchOf(cur[m]) \subseteq Slip
        BY DEF BatchOf, TypeOK
      <4>2. redisVars' = redisVars \/ Remove(cur[m])
        BY <3>7 DEF TakeBatchFails, TakeFails
      <4>3. queue' \in SUBSET Slip /\ age' \in [Batching -> Nat] /\ ttl' \in [Batching -> Nat]
        BY <4>2, RemoveType DEF TypeOK
      <4>4. lost' \in [Reasons -> SUBSET Slip]
        BY <3>7, <4>1 DEF TakeBatchFails, TakeFails, Lose, TypeOK
      <4>5. QED
        BY <3>7, <4>3, <4>4 DEF TakeBatchFails, TakeFails, Merge, TypeOK
    <3>8. ASSUME NEW h \in Handlers, ActNow(m, h) PROVE TypeOK'
      <4>1. NextHandler(m, h)
        BY <3>8 DEF ActNow
      <4>2. /\ SlipOf(m, h) \in Slip
            /\ chain' \in [Msgs -> SUBSET Handlers] /\ due' \in SUBSET Slip
        BY <4>1, NextHandlerType
      <4>3. held' \in [Holders -> SUBSET Slip]
        BY ZenonT(60), <3>8, <4>2 DEF ActNow, TypeOK
      <4>4. QED BY <3>8, <4>2, <4>3 DEF ActNow, TypeOK
    <3>9. ASSUME NEW h \in Handlers, AddToBatch(m, h) PROVE TypeOK'
      <4>1. NextHandler(m, h) /\ Push(SlipOf(m, h))
        BY <3>9 DEF AddToBatch
      <4>2. /\ SlipOf(m, h) \in Slip
            /\ chain' \in [Msgs -> SUBSET Handlers] /\ due' \in SUBSET Slip
        BY <4>1, NextHandlerType
      <4>3. queue' \in SUBSET Slip /\ age' \in [Batching -> Nat] /\ ttl' \in [Batching -> Nat]
        BY <4>1, <4>2, PushType
      <4>4. /\ pc' = [pc EXCEPT ![m] = "flush"] \/ pc' = pc
            /\ cur' = [cur EXCEPT ![m] = h] \/ cur' = cur
            /\ Merge(m, "ok") \/ res' = res
        BY <3>9, Zenon DEF AddToBatch
      <4>5. /\ pc' \in [Msgs -> {"idle", "waiting", "event", "run", "flush", "act", "reply"}]
            /\ cur' \in [Msgs -> Nat] /\ res' \in [Msgs -> {"none", "fail", "ok"}]
        <5>1. pc' \in [Msgs -> {"idle", "waiting", "event", "run", "flush", "act", "reply"}]
          BY <4>4 DEF TypeOK
        <5>2. cur' \in [Msgs -> Nat]
          BY <4>4 DEF TypeOK, Handlers
        <5>3. res' \in [Msgs -> {"none", "fail", "ok"}]
          BY <4>4 DEF Merge, TypeOK
        <5>4. QED BY <5>1, <5>2, <5>3
      <4>6. UNCHANGED <<ev, done, lost, streamVars, sweepVars, configVars, ctlVars, held>>
        BY <3>9 DEF AddToBatch
      <4>7. QED
        BY <4>2, <4>3, <4>5, <4>6 DEF TypeOK
    <3>10. ASSUME NEW h \in Handlers, AddToBatchFails(m, h) PROVE TypeOK'
      <4>1. NextHandler(m, h)
        BY <3>10 DEF AddToBatchFails
      <4>2. /\ SlipOf(m, h) \in Slip
            /\ chain' \in [Msgs -> SUBSET Handlers] /\ due' \in SUBSET Slip
        BY <4>1, NextHandlerType
      <4>3. redisVars' = redisVars \/ Push(SlipOf(m, h))
        BY <3>10, Zenon DEF AddToBatchFails
      <4>4. queue' \in SUBSET Slip /\ age' \in [Batching -> Nat] /\ ttl' \in [Batching -> Nat]
        <5>1. CASE redisVars' = redisVars
          BY <5>1 DEF TypeOK
        <5>2. CASE Push(SlipOf(m, h))
          BY <5>2, <4>2, PushType
        <5>3. QED BY <4>3, <5>1, <5>2
      <4>5. lost' \in [Reasons -> SUBSET Slip] /\ res' \in [Msgs -> {"none", "fail", "ok"}]
        BY <3>10, <4>2 DEF AddToBatchFails, Merge, Lose, TypeOK
      <4>6. QED
        BY <3>10, <4>2, <4>4, <4>5 DEF AddToBatchFails, TypeOK
    <3>11. QED
      BY <2>4, <3>1, <3>2, <3>3, <3>4, <3>5, <3>6, <3>7, <3>8, <3>9, <3>10 DEF TaskStep
  <2>5. ASSUME NEW s \in Sweepers, SweepStep(s) PROVE TypeOK'
    <3>1. CASE SweepActed(s)
      <4>1. held[s] \subseteq Slip
        BY DEF TypeOK, Holders
      <4>2. /\ held' \in [Holders -> SUBSET Slip] /\ done' \in SUBSET Slip
            /\ lost' \in [Reasons -> SUBSET Slip]
        BY <3>1, <4>1 DEF SweepActed, Settle, Lose, TypeOK, Holders
      <4>3. QED BY <3>1, <4>2 DEF SweepActed, TypeOK
    <3>2. CASE SweepEnds(s)
      BY <3>2 DEF SweepEnds, TypeOK
    <3>3. ASSUME NEW h \in Batching, SweepTakes(s, h) PROVE TypeOK'
      <4>1. BatchOf(h) \subseteq Slip
        BY BatchType
      <4>2. redisVars' = redisVars \/ Remove(h)
        BY <3>3 DEF SweepTakes, Take, TakeFails
      <4>3. queue' \in SUBSET Slip /\ age' \in [Batching -> Nat] /\ ttl' \in [Batching -> Nat]
        BY <4>2, RemoveType DEF TypeOK
      <4>4. lost' \in [Reasons -> SUBSET Slip] /\ held' \in [Holders -> SUBSET Slip]
            /\ sw' \in [Sweepers -> {"idle", "scan", "act"}]
        BY <3>3, <4>1 DEF SweepTakes, Take, TakeFails, Lose, TypeOK
      <4>5. /\ api' \in SUBSET Handlers /\ cached' \in SUBSET Handlers
            /\ fresh' \in BOOLEAN /\ shared' \in SUBSET (SUBSET Handlers)
        BY <3>3, LoadConfigType DEF SweepTakes
      <4>6. QED
        BY <3>3, <4>3, <4>4, <4>5 DEF SweepTakes, TypeOK
    <3>4. QED BY <2>5, <3>1, <3>2, <3>3 DEF SweepStep
  <2>6. CASE FlushRequested
    BY <2>6 DEF FlushRequested, Sweep, Pending, TypeOK, Sweepers
  <2>7. CASE ClearRequested
    BY <2>7 DEF ClearRequested, Pending, TypeOK
  <2>8. CASE ClearStep
    <3>1. CASE ClearDeletes
      BY <3>1, RemoveType, BatchType, LoseType DEF ClearDeletes, TypeOK
    <3>2. ASSUME NEW h \in Batching, ClearCounts(h) PROVE TypeOK'
      BY <3>2 DEF ClearCounts, TypeOK, Handlers
    <3>3. QED BY <2>8, <3>1, <3>2 DEF ClearStep
  <2>9. CASE ConfigExpires
    BY <2>9 DEF ConfigExpires, TypeOK
  <2>10. CASE EditHandlers
    BY <2>10 DEF EditHandlers, TypeOK
  <2>11. CASE Pause
    BY <2>11 DEF Pause, TypeOK
  <2>12. CASE Crash
    <3>1. AllHeld \subseteq Slip
      BY DEF AllHeld, TypeOK
    <3>2. lost' \in [Reasons -> SUBSET Slip]
      BY <2>12, <3>1 DEF Crash, Lose, TypeOK
    <3>3. /\ sub' \in [Msgs -> {"ready", "out", "acked", "dead"}]
          /\ crashes' \in Nat /\ clearing' \in [todo : SUBSET Batching, at : Nat]
      BY <2>12 DEF Crash, GiveBack, TypeOK
    <3>4. /\ held' \in [Holders -> SUBSET Slip] /\ left' \in [Sweepers -> SUBSET Batching]
          /\ chain' \in [Msgs -> SUBSET Handlers] /\ cached' \in SUBSET Handlers
      BY <2>12 DEF Crash
    <3>5. QED
      BY <2>12, <3>2, <3>3, <3>4 DEF Crash, TypeOK
  <2>13. CASE UNCHANGED vars
    BY <2>13 DEF vars, TypeOK
  <2>14. QED
    BY <2>1, <2>2, <2>3, <2>4, <2>5, <2>6, <2>7, <2>8, <2>9, <2>10, <2>11, <2>12, <2>13 DEF Next
<1>3. QED BY <1>1, <1>2, PTL DEF Spec

-----------------------------------------------------------------------------
(* Where a slip is: sets in hand and sets given up *)

\* An action that only takes slips into empty hands.
LEMMA TakeInHand ==
  ASSUME TypeOK, OnePlace, NEW x \in Holders, NEW S \in SUBSET Slip,
         held[x] = {}, S \cap AllHeld = {}, held' = [held EXCEPT ![x] = S]
  PROVE  /\ AllHeld' = AllHeld \cup S
         /\ \A y, z \in Holders : y # z => held'[y] \cap held'[z] = {}
<1>1. \A y \in Holders : held'[y] = IF y = x THEN S ELSE held[y]
  BY DEF TypeOK
<1>2. AllHeld' = AllHeld \cup S
  BY <1>1 DEF AllHeld
<1>3. ASSUME NEW y \in Holders, NEW z \in Holders, y # z
      PROVE  held'[y] \cap held'[z] = {}
  <2>1. held[y] \subseteq AllHeld /\ held[z] \subseteq AllHeld
    BY DEF AllHeld
  <2>2. held[y] \cap held[z] = {}
    BY <1>3 DEF OnePlace
  <2>3. QED BY <1>1, <1>3, <2>1, <2>2
<1>4. QED BY <1>2, <1>3

\* An action that empties a holder's hands.
LEMMA LetGo ==
  ASSUME TypeOK, OnePlace, NEW x \in Holders, held' = [held EXCEPT ![x] = {}]
  PROVE  /\ held[x] \subseteq AllHeld
         /\ AllHeld' = AllHeld \ held[x]
         /\ \A y, z \in Holders : y # z => held'[y] \cap held'[z] = {}
<1>1. \A y \in Holders : held'[y] = IF y = x THEN {} ELSE held[y]
  BY DEF TypeOK
<1>2. \A y, z \in Holders : y # z => held[y] \cap held[z] = {}
  BY DEF OnePlace
<1>3. held[x] \subseteq AllHeld
  BY DEF AllHeld
<1>4. AllHeld' = AllHeld \ held[x]
  BY <1>1, <1>2 DEF AllHeld
<1>5. QED BY <1>1, <1>2, <1>3, <1>4

\* Slips that were not given up before are given up for one reason.
LEMMA GiveUp ==
  ASSUME TypeOK, OnePlace, NEW why \in Reasons, NEW S \in SUBSET Slip,
         S \cap AllLost = {}, Lose(why, S)
  PROVE  /\ AllLost' = AllLost \cup S
         /\ \A q, t \in Reasons : q # t => lost'[q] \cap lost'[t] = {}
<1>1. \A q \in Reasons : lost'[q] = IF q = why THEN lost[q] \cup S ELSE lost[q]
  BY DEF TypeOK, Lose
<1>2. AllLost' = AllLost \cup S
  <2>1. \A p : p \in AllLost' <=> \E q \in Reasons : p \in lost'[q]
    BY DEF AllLost
  <2>2. \A p : p \in AllLost <=> \E q \in Reasons : p \in lost[q]
    BY DEF AllLost
  <2>3. QED BY <1>1, <2>1, <2>2
<1>3. ASSUME NEW q \in Reasons, NEW t \in Reasons, q # t
      PROVE  lost'[q] \cap lost'[t] = {}
  <2>1. lost[q] \cap S = {} /\ lost[t] \cap S = {}
    BY DEF AllLost
  <2>2. lost[q] \cap lost[t] = {}
    BY <1>3 DEF OnePlace
  <2>3. CASE q = why
    BY <1>1, <1>3, <2>1, <2>2, <2>3
  <2>4. CASE q # why
    BY <1>1, <1>3, <2>1, <2>2, <2>4
  <2>5. QED BY <2>3, <2>4
<1>4. QED BY <1>2, <1>3

\* An event of a delivery is new to every handler still on the task's chain.
LEMMA SlipIsNew ==
  ASSUME TypeOK, SlipsFresh, NEW m \in Msgs, NEW h \in Handlers, NextHandler(m, h)
  PROVE  SlipOf(m, h) \notin due
<1> DEFINE p == SlipOf(m, h)
<1>1. p.m = m /\ p.k = tries[m] /\ p.i = ev[m] /\ p.h \in chain[m] /\ ev[m] \in Nat
  BY DEF SlipOf, NextHandler, TypeOK
<1>2. pc[m] = "run"
  BY DEF NextHandler
<1>3. p \in due => p.i < ev[m] \/ p.h \notin chain[m]
  BY <1>1, <1>2 DEF SlipsFresh
<1>4. QED BY <1>1, <1>3

-----------------------------------------------------------------------------
(* One step *)

\* What a step may do to the ledger, as EventFate states it.
Grows ==
  /\ due \subseteq due' /\ done \subseteq done' /\ AllLost \subseteq AllLost'
  /\ done' \ done \subseteq AllHeld

\* A step that touches neither the queue, the hands nor the ledger.
LEMMA QuietStep ==
  ASSUME OnePlace, UNCHANGED <<queue, held, due, done, lost>>
  PROVE  OnePlace' /\ Grows
<1>1. AllHeld' = AllHeld /\ AllLost' = AllLost
  BY DEF AllHeld, AllLost
<1>2. QED BY <1>1 DEF OnePlace, Grows

\* Actions that end are executed or given up (Settle).
LEMMA SettleStep ==
  ASSUME TypeOK, OnePlace, NEW x \in Holders, NEW outcome, Settle(x, outcome),
         UNCHANGED <<queue, due>>
  PROVE  OnePlace' /\ Grows
<1>1. held[x] \subseteq Slip
  BY DEF TypeOK
<1>2. /\ held[x] \subseteq AllHeld /\ AllHeld' = AllHeld \ held[x]
      /\ \A y, z \in Holders : y # z => held'[y] \cap held'[z] = {}
  BY LetGo DEF Settle
<1>3. CASE done' = done \cup held[x] /\ lost' = lost
  <2>1. AllLost' = AllLost
    BY <1>3 DEF AllLost
  <2>2. QED BY <1>2, <1>3, <2>1 DEF OnePlace, Grows
<1>4. CASE Lose("action", held[x]) /\ done' = done
  <2>1. held[x] \cap AllLost = {} /\ "action" \in Reasons
    BY <1>2 DEF OnePlace, Reasons
  <2>2. /\ AllLost' = AllLost \cup held[x]
        /\ \A q, t \in Reasons : q # t => lost'[q] \cap lost'[t] = {}
    BY <1>1, <1>4, <2>1, GiveUp
  <2>3. QED BY <1>2, <1>4, <2>2 DEF OnePlace, Grows
<1>5. QED BY <1>3, <1>4 DEF Settle

\* A batch that leaves Redis into empty hands.
LEMMA TakeStep ==
  ASSUME TypeOK, OnePlace, NEW x \in Holders, NEW h, held[x] = {}, Take(x, h),
         UNCHANGED <<due, done, lost>>
  PROVE  OnePlace' /\ Grows
<1>1. BatchOf(h) \subseteq queue /\ BatchOf(h) \in SUBSET Slip
  BY BatchType
<1>2. BatchOf(h) \cap AllHeld = {}
  BY <1>1 DEF OnePlace
<1>3. /\ AllHeld' = AllHeld \cup BatchOf(h)
      /\ \A y, z \in Holders : y # z => held'[y] \cap held'[z] = {}
  BY <1>1, <1>2, TakeInHand DEF Take
<1>4. queue' = queue \ BatchOf(h) /\ AllLost' = AllLost
  BY DEF Take, Remove, AllLost
<1>5. QED BY <1>1, <1>3, <1>4 DEF OnePlace, Grows

\* Queued slips that are given up.
LEMMA DropStep ==
  ASSUME TypeOK, OnePlace, NEW S \in SUBSET queue, NEW why \in Reasons,
         queue' = queue \ S, Lose(why, S), UNCHANGED <<held, due, done>>
  PROVE  OnePlace' /\ Grows
<1>1. S \in SUBSET Slip /\ S \cap AllLost = {}
  BY DEF TypeOK, OnePlace
<1>2. /\ AllLost' = AllLost \cup S
      /\ \A q, t \in Reasons : q # t => lost'[q] \cap lost'[t] = {}
  BY <1>1, GiveUp
<1>3. AllHeld' = AllHeld
  BY DEF AllHeld
<1>4. QED BY <1>2, <1>3 DEF OnePlace, Grows

\* The pipeline that may have run although it raised.
LEMMA TakeFailsStep ==
  ASSUME TypeOK, OnePlace, NEW h, TakeFails(h), UNCHANGED <<due, done>>
  PROVE  OnePlace' /\ Grows
<1>1. held' = held
  BY DEF TakeFails
<1>2. CASE UNCHANGED <<redisVars, lost>>
  BY <1>1, <1>2, QuietStep DEF redisVars
<1>3. CASE Remove(h) /\ Lose("redis", BatchOf(h))
  <2>1. queue' = queue \ BatchOf(h) /\ BatchOf(h) \in SUBSET queue /\ "redis" \in Reasons
    BY <1>3, BatchType DEF Remove, Reasons
  <2>2. QED BY <1>1, <1>3, <2>1, DropStep
<1>4. QED BY <1>2, <1>3 DEF TakeFails

\* A slip a handler accepts goes to one place: into the task's hands, into the
\* batch, or nowhere when Redis fails.
LEMMA AcceptStep ==
  ASSUME TypeOK, OnePlace, SlipsFresh, HandsEmpty,
         NEW m \in Msgs, NEW h \in Handlers, NextHandler(m, h), done' = done,
         \/ held' = [held EXCEPT ![m] = {SlipOf(m, h)}] /\ UNCHANGED <<queue, lost>>
         \/ queue' = queue \cup {SlipOf(m, h)} /\ UNCHANGED <<held, lost>>
         \/ Lose("redis", {SlipOf(m, h)}) /\ UNCHANGED <<queue, held>>
  PROVE  OnePlace' /\ Grows
<1> DEFINE p == SlipOf(m, h)
<1>1. p \in Slip /\ p \notin due /\ due' = due \cup {p}
  BY SlipType, SlipIsNew DEF NextHandler
<1>2. p \notin queue /\ p \notin AllHeld /\ p \notin done /\ p \notin AllLost
  BY <1>1 DEF OnePlace
<1>3. m \in Holders /\ held[m] = {} /\ "redis" \in Reasons
  BY DEF HandsEmpty, NextHandler, Holders, Reasons
<1> HIDE DEF p
<1>4. CASE held' = [held EXCEPT ![m] = {p}] /\ UNCHANGED <<queue, lost>>
  <2>1. {p} \in SUBSET Slip /\ {p} \cap AllHeld = {}
    BY <1>1, <1>2
  <2>2. /\ AllHeld' = AllHeld \cup {p}
        /\ \A y, z \in Holders : y # z => held'[y] \cap held'[z] = {}
    BY <1>3, <1>4, <2>1, TakeInHand
  <2>3. AllLost' = AllLost
    BY <1>4 DEF AllLost
  <2>4. QED BY <1>1, <1>2, <1>4, <2>2, <2>3 DEF OnePlace, Grows
<1>5. CASE queue' = queue \cup {p} /\ UNCHANGED <<held, lost>>
  <2>1. AllHeld' = AllHeld /\ AllLost' = AllLost
    BY <1>5 DEF AllHeld, AllLost
  <2>2. QED BY <1>1, <1>2, <1>5, <2>1 DEF OnePlace, Grows
<1>6. CASE Lose("redis", {p}) /\ UNCHANGED <<queue, held>>
  <2>1. {p} \in SUBSET Slip /\ {p} \cap AllLost = {}
    BY <1>1, <1>2
  <2>2. /\ AllLost' = AllLost \cup {p}
        /\ \A q, t \in Reasons : q # t => lost'[q] \cap lost'[t] = {}
    BY <1>3, <1>6, <2>1, GiveUp
  <2>3. AllHeld' = AllHeld
    BY <1>6 DEF AllHeld
  <2>4. QED BY <1>1, <1>2, <1>6, <2>2, <2>3 DEF OnePlace, Grows
<1>7. QED BY <1>4, <1>5, <1>6 DEF p

\* A crash gives up everything in hand.
LEMMA CrashStep ==
  ASSUME TypeOK, OnePlace, Crash
  PROVE  OnePlace' /\ Grows
<1>1. AllHeld \in SUBSET Slip /\ AllHeld \cap AllLost = {} /\ "crash" \in Reasons
  BY DEF AllHeld, TypeOK, OnePlace, Reasons
<1>2. /\ AllLost' = AllLost \cup AllHeld
      /\ \A q, t \in Reasons : q # t => lost'[q] \cap lost'[t] = {}
  BY <1>1, GiveUp DEF Crash
<1>3. \A x \in Holders : held'[x] = {}
  BY DEF Crash
<1>4. AllHeld' = {}
  BY <1>3 DEF AllHeld
<1>5. queue' = queue /\ due' = due /\ done' = done
  BY DEF Crash, redisVars
<1>6. QED BY <1>2, <1>3, <1>4, <1>5 DEF OnePlace, Grows

\* Every step keeps each slip in one place and moves it only forward.
LEMMA PlacesStep ==
  ASSUME TypeOK, PlacesInv, [Next]_vars
  PROVE  OnePlace' /\ Grows
<1> USE DEF PlacesInv
<1>1. CASE UNCHANGED <<queue, held, due, done, lost>>
  BY <1>1, QuietStep
<1>2. CASE FetchStep
  BY <1>1, <1>2 DEF FetchStep, StartFetch, FetchTimesOut, FetchRound, redisVars, ledgerVars
<1>3. CASE RecoveryWakes
  BY <1>1, <1>3 DEF RecoveryWakes, redisVars, ledgerVars
<1>4. CASE Tick
  <2> DEFINE gone == {p \in queue : ttl[p.h] <= 1}
  <2>1. gone \in SUBSET queue /\ "expired" \in Reasons
    BY DEF Reasons
  <2>2. queue' = queue \ gone /\ Lose("expired", gone) /\ UNCHANGED <<held, due, done>>
    BY <1>4 DEF Tick
  <2>3. QED BY <2>1, <2>2, DropStep
<1>5. ASSUME NEW m \in Msgs, TaskStep(m) PROVE OnePlace' /\ Grows
  <2>1. CASE Begin(m) \/ StartEvent(m) \/ EndEvent(m) \/ Reply(m)
    BY <1>1, <2>1 DEF Begin, StartEvent, EndEvent, Reply, redisVars, ledgerVars
  <2>2. CASE FinishActions(m)
    <3>1. m \in Holders /\ UNCHANGED <<queue, due>>
      BY <2>2 DEF FinishActions, Holders, redisVars
    <3>2. PICK outcome \in {"ok", "fail"} : Settle(m, outcome)
      BY <2>2 DEF FinishActions
    <3>3. QED BY <3>1, <3>2, SettleStep
  <2>3. CASE TakeBatch(m)
    <3>1. m \in Holders /\ held[m] = {}
      BY <2>3 DEF TakeBatch, HandsEmpty, Holders
    <3>2. Take(m, cur[m]) /\ UNCHANGED <<due, done, lost>>
      BY <2>3 DEF TakeBatch, ledgerVars
    <3>3. QED BY <3>1, <3>2, TakeStep
  <2>4. CASE TakeBatchFails(m)
    <3>1. TakeFails(cur[m]) /\ UNCHANGED <<due, done>>
      BY <2>4 DEF TakeBatchFails
    <3>2. QED BY <3>1, TakeFailsStep
  <2>5. ASSUME NEW h \in Handlers, ActNow(m, h) PROVE OnePlace' /\ Grows
    <3>1. /\ NextHandler(m, h) /\ held' = [held EXCEPT ![m] = {SlipOf(m, h)}]
          /\ UNCHANGED <<queue, done, lost>>
      BY <2>5 DEF ActNow, redisVars
    <3>2. QED BY <3>1, AcceptStep
  <2>6. ASSUME NEW h \in Handlers, AddToBatch(m, h) PROVE OnePlace' /\ Grows
    <3>1. /\ NextHandler(m, h) /\ queue' = queue \cup {SlipOf(m, h)}
          /\ UNCHANGED <<held, done, lost>>
      BY <2>6 DEF AddToBatch, Push
    <3>2. QED BY <3>1, AcceptStep
  <2>7. ASSUME NEW h \in Handlers, AddToBatchFails(m, h) PROVE OnePlace' /\ Grows
    <3>1. /\ NextHandler(m, h) /\ done' = done /\ held' = held
          /\ \/ queue' = queue \cup {SlipOf(m, h)} /\ UNCHANGED lost
             \/ Lose("redis", {SlipOf(m, h)}) /\ UNCHANGED queue
      BY <2>7 DEF AddToBatchFails, Push, redisVars
    <3>2. QED BY <3>1, AcceptStep
  <2>8. QED
    BY <1>5, <2>1, <2>2, <2>3, <2>4, <2>5, <2>6, <2>7 DEF TaskStep
<1>6. ASSUME NEW s \in Sweepers, SweepStep(s) PROVE OnePlace' /\ Grows
  <2>1. s \in Holders
    BY DEF Holders
  <2>2. CASE SweepActed(s)
    <3>1. UNCHANGED <<queue, due>> /\ \E outcome \in {"ok", "fail"} : Settle(s, outcome)
      BY <2>2 DEF SweepActed, redisVars
    <3>2. QED BY <2>1, <3>1, SettleStep
  <2>3. CASE SweepEnds(s)
    BY <1>1, <2>3 DEF SweepEnds, redisVars, ledgerVars
  <2>4. ASSUME NEW h \in Batching, SweepTakes(s, h) PROVE OnePlace' /\ Grows
    <3>1. UNCHANGED <<due, done>> /\ held[s] = {}
      BY <2>4 DEF SweepTakes, HandsEmpty
    <3>2. \/ Take(s, h) /\ UNCHANGED lost
          \/ Remove(h) /\ Lose("orphan", BatchOf(h)) /\ UNCHANGED held
          \/ UNCHANGED <<held, redisVars, lost>>
          \/ TakeFails(h)
      BY <2>4 DEF SweepTakes
    <3>3. CASE Take(s, h) /\ UNCHANGED lost
      BY <2>1, <3>1, <3>3, TakeStep
    <3>4. CASE Remove(h) /\ Lose("orphan", BatchOf(h)) /\ UNCHANGED held
      <4>1. queue' = queue \ BatchOf(h) /\ BatchOf(h) \in SUBSET queue /\ "orphan" \in Reasons
        BY <3>4, BatchType DEF Remove, Reasons
      <4>2. QED BY <3>1, <3>4, <4>1, DropStep
    <3>5. CASE UNCHANGED <<held, redisVars, lost>>
      BY <1>1, <3>1, <3>5 DEF redisVars
    <3>6. CASE TakeFails(h)
      BY <3>1, <3>6, TakeFailsStep
    <3>7. QED BY <3>2, <3>3, <3>4, <3>5, <3>6
  <2>5. QED BY <1>6, <2>2, <2>3, <2>4 DEF SweepStep
<1>7. CASE FlushRequested \/ ClearRequested \/ ConfigExpires \/ EditHandlers \/ Pause
  BY <1>1, <1>7 DEF FlushRequested, ClearRequested, ConfigExpires, EditHandlers, Pause, redisVars, ledgerVars
<1>8. CASE ClearStep
  <2>1. CASE ClearDeletes
    <3>1. /\ queue' = queue \ BatchOf(clearing.at) /\ Lose("clear", BatchOf(clearing.at))
          /\ UNCHANGED <<held, due, done>>
      BY <2>1 DEF ClearDeletes, Remove
    <3>2. BatchOf(clearing.at) \in SUBSET queue /\ "clear" \in Reasons
      BY BatchType DEF Reasons
    <3>3. QED BY <3>1, <3>2, DropStep
  <2>2. CASE \E h \in Batching : ClearCounts(h)
    BY <1>1, <2>2 DEF ClearCounts, redisVars, ledgerVars
  <2>3. QED BY <1>8, <2>1, <2>2 DEF ClearStep
<1>9. CASE Crash
  BY <1>9, CrashStep
<1>10. CASE UNCHANGED vars
  BY <1>1, <1>10 DEF vars, redisVars, ledgerVars
<1>11. QED
  BY <1>2, <1>3, <1>4, <1>5, <1>6, <1>7, <1>8, <1>9, <1>10 DEF Next

\* Only the fetch starts tasks, for messages that had none.
LEMMA OwnsStep ==
  ASSUME TypeOK, TaskOwnsMessage, [Next]_vars
  PROVE  TaskOwnsMessage'
<1> USE DEF TaskOwnsMessage
<1>1. CASE UNCHANGED <<pc, sub>>
  BY <1>1
<1>2. CASE FetchStep
  <2>1. CASE FetchRound
    <3>1. PICK S \in SUBSET {m \in Msgs : sub[m] = "ready"} :
            /\ sub' = [m \in Msgs |-> IF m \in S THEN "out" ELSE sub[m]]
            /\ pc' = [m \in Msgs |-> IF m \in S THEN "waiting" ELSE pc[m]]
      BY <2>1 DEF FetchRound
    <3>2. QED BY <3>1
  <2>2. QED
    BY <1>1, <1>2, <2>1 DEF FetchStep, StartFetch, FetchTimesOut, taskVars, streamVars
<1>3. ASSUME NEW m \in Msgs, TaskStep(m) PROVE TaskOwnsMessage'
  <2>1. CASE Reply(m)
    <3>1. /\ pc' = [pc EXCEPT ![m] = "idle"]
          /\ \A n \in Msgs : n # m => sub'[n] = sub[n]
      BY <2>1 DEF Reply, TypeOK
    <3>2. QED BY <3>1 DEF TypeOK
  <2>2. CASE ~Reply(m)
    <3>1. pc[m] # "idle" /\ sub' = sub
      BY <1>3, <2>2
      DEF TaskStep, Begin, StartEvent, EndEvent, FinishActions, TakeBatch, TakeBatchFails,
          ActNow, AddToBatch, AddToBatchFails, NextHandler, streamVars
    <3>2. \A n \in Msgs : n # m => pc'[n] = pc[n]
      <4>1. CASE Begin(m) \/ StartEvent(m) \/ EndEvent(m)
        BY <4>1 DEF Begin, StartEvent, EndEvent, TypeOK
      <4>2. CASE FinishActions(m) \/ TakeBatch(m) \/ TakeBatchFails(m)
        BY <4>2 DEF FinishActions, TakeBatch, TakeBatchFails, TypeOK
      <4>3. CASE \E h \in Handlers : ActNow(m, h) \/ AddToBatch(m, h) \/ AddToBatchFails(m, h)
        BY <4>3 DEF ActNow, AddToBatch, AddToBatchFails, TypeOK
      <4>4. QED BY <1>3, <2>2, <4>1, <4>2, <4>3 DEF TaskStep
    <3>3. QED BY <3>1, <3>2
  <2>3. QED BY <2>1, <2>2
<1>4. ASSUME NEW s \in Sweepers, SweepStep(s) PROVE TaskOwnsMessage'
  BY <1>1, <1>4 DEF SweepStep, SweepActed, SweepEnds, SweepTakes, taskVars, streamVars
<1>5. CASE RecoveryWakes \/ Tick \/ FlushRequested \/ ClearRequested \/ ConfigExpires
            \/ EditHandlers \/ Pause
  BY <1>1, <1>5
  DEF RecoveryWakes, Tick, FlushRequested, ClearRequested, ConfigExpires, EditHandlers,
      Pause, taskVars, streamVars
<1>6. CASE ClearStep
  BY <1>1, <1>6 DEF ClearStep, ClearDeletes, ClearCounts, taskVars, streamVars
<1>7. CASE Crash
  BY <1>7 DEF Crash
<1>8. CASE UNCHANGED vars
  BY <1>1, <1>8 DEF vars, taskVars, streamVars
<1>9. QED BY <1>2, <1>3, <1>4, <1>5, <1>6, <1>7, <1>8 DEF Next

\* Hands are filled only by the step that starts the actions and emptied by
\* the one that ends them.
LEMMA HandsStep ==
  ASSUME TypeOK, HandsEmpty, TaskOwnsMessage, [Next]_vars
  PROVE  HandsEmpty'
<1> USE DEF HandsEmpty
<1>1. CASE UNCHANGED <<pc, sw, held>>
  BY <1>1
<1>2. CASE FetchStep
  <2>1. CASE FetchRound
    <3>1. PICK S \in SUBSET {m \in Msgs : sub[m] = "ready"} :
            pc' = [m \in Msgs |-> IF m \in S THEN "waiting" ELSE pc[m]]
      BY <2>1 DEF FetchRound
    <3>2. \A m \in S : pc[m] = "idle"
      BY DEF TaskOwnsMessage, TypeOK
    <3>3. held' = held /\ sw' = sw
      BY <2>1 DEF FetchRound, sweepVars
    <3>4. QED BY <3>1, <3>2, <3>3
  <2>2. QED
    BY <1>1, <1>2, <2>1 DEF FetchStep, StartFetch, FetchTimesOut, taskVars, sweepVars
<1>3. ASSUME NEW m \in Msgs, TaskStep(m) PROVE HandsEmpty'
  <2>1. m \in Holders /\ \A s \in Sweepers : s \in Holders /\ s # m
    BY MsgsAssumption DEF Holders
  <2>2. sw' = sw
    BY <1>3
    DEF TaskStep, Begin, StartEvent, EndEvent, Reply, FinishActions, TakeBatch,
        TakeBatchFails, ActNow, AddToBatch, AddToBatchFails, sweepVars
  <2>3. \A n \in Msgs : n # m => pc'[n] = pc[n]
    BY ZenonT(60), <1>3
    DEF TaskStep, Begin, StartEvent, EndEvent, Reply, FinishActions, TakeBatch,
        TakeBatchFails, ActNow, AddToBatch, AddToBatchFails, TypeOK
  <2>4. \A x \in Holders : x # m => held'[x] = held[x]
    BY ZenonT(60), <1>3
    DEF TaskStep, Begin, StartEvent, EndEvent, Reply, FinishActions, Settle, TakeBatch,
        Take, TakeBatchFails, TakeFails, ActNow, AddToBatch, AddToBatchFails, TypeOK
  <2>5. pc'[m] # "act" => held'[m] = {}
    <3>1. CASE TakeBatch(m) \/ \E h \in Handlers : ActNow(m, h)
      BY <3>1 DEF TakeBatch, ActNow, TypeOK
    <3>2. CASE FinishActions(m)
      BY <2>1, <3>2 DEF FinishActions, Settle, TypeOK
    <3>3. CASE Begin(m) \/ StartEvent(m) \/ EndEvent(m) \/ Reply(m) \/ TakeBatchFails(m)
      BY <3>3 DEF Begin, StartEvent, EndEvent, Reply, TakeBatchFails, TakeFails
    <3>4. CASE \E h \in Handlers : AddToBatch(m, h) \/ AddToBatchFails(m, h)
      BY <3>4 DEF AddToBatch, AddToBatchFails, NextHandler
    <3>5. QED BY <1>3, <3>1, <3>2, <3>3, <3>4 DEF TaskStep
  <2>6. QED BY <2>1, <2>2, <2>3, <2>4, <2>5 DEF Holders
<1>4. ASSUME NEW s \in Sweepers, SweepStep(s) PROVE HandsEmpty'
  <2>1. s \in Holders /\ \A m \in Msgs : m \in Holders /\ m # s
    BY MsgsAssumption DEF Holders
  <2>2. pc' = pc
    BY <1>4 DEF SweepStep, SweepActed, SweepEnds, SweepTakes, taskVars
  <2>3. \A x \in Holders : x # s => held'[x] = held[x]
    BY <1>4 DEF SweepStep, SweepActed, Settle, SweepEnds, SweepTakes, Take, TakeFails, TypeOK
  <2>4. \A t \in Sweepers : t # s => sw'[t] = sw[t]
    BY <1>4 DEF SweepStep, SweepActed, SweepEnds, SweepTakes, TypeOK
  <2>5. sw'[s] # "act" => held'[s] = {}
    <3>1. CASE SweepActed(s)
      BY <2>1, <3>1 DEF SweepActed, Settle, TypeOK
    <3>2. CASE SweepEnds(s)
      BY <3>2 DEF SweepEnds
    <3>3. ASSUME NEW h \in Batching, SweepTakes(s, h) PROVE sw'[s] # "act" => held'[s] = {}
      <4>1. held[s] = {}
        BY <3>3 DEF SweepTakes
      <4>2. \/ held' = [held EXCEPT ![s] = BatchOf(h)]
               /\ sw' = [sw EXCEPT ![s] = IF BatchOf(h) = {} THEN "scan" ELSE "act"]
            \/ held' = held
        BY <3>3 DEF SweepTakes, Take, TakeFails
      <4>3. QED BY <2>1, <4>1, <4>2 DEF TypeOK
    <3>4. QED BY <1>4, <3>1, <3>2, <3>3 DEF SweepStep
  <2>6. QED BY <2>1, <2>2, <2>3, <2>4, <2>5 DEF Holders
<1>5. CASE RecoveryWakes \/ FlushRequested
  <2>1. PICK s \in Sweepers : sw[s] = "idle" /\ (sw' = sw \/ sw' = [sw EXCEPT ![s] = "scan"])
    BY <1>5 DEF RecoveryWakes, FlushRequested, Sweep, Sweepers
  <2>2. pc' = pc /\ held' = held
    BY <1>5 DEF RecoveryWakes, FlushRequested, taskVars
  <2>3. QED BY <2>1, <2>2 DEF TypeOK
<1>6. CASE Tick \/ ClearRequested \/ ConfigExpires \/ EditHandlers \/ Pause
  BY <1>1, <1>6
  DEF Tick, ClearRequested, ConfigExpires, EditHandlers, Pause, taskVars, sweepVars
<1>7. CASE ClearStep
  BY <1>1, <1>7 DEF ClearStep, ClearDeletes, ClearCounts, taskVars, sweepVars
<1>8. CASE Crash
  BY <1>8 DEF Crash, Holders
<1>9. CASE UNCHANGED vars
  BY <1>1, <1>9 DEF vars, taskVars, sweepVars
<1>10. QED BY <1>2, <1>3, <1>4, <1>5, <1>6, <1>7, <1>8, <1>9 DEF Next

\* A task offers an event to a handler only after those before it.
LEMMA FreshStep ==
  ASSUME TypeOK, TypeOK', SlipsFresh, [Next]_vars
  PROVE  SlipsFresh'
<1>1. /\ tries \in [Msgs -> Nat] /\ ev \in [Msgs -> Nat] /\ due \in SUBSET Slip
      /\ \A p \in Slip : p.m \in Msgs /\ p.h \in Handlers /\ p.i \in Nat /\ p.k \in Nat
  BY DEF TypeOK, Slip
<1> USE DEF SlipsFresh
<1>2. CASE UNCHANGED <<due, tries, pc, ev, chain>>
  BY <1>2
<1>3. CASE FetchStep
  <2>1. CASE FetchRound
    <3>1. PICK S \in SUBSET {m \in Msgs : sub[m] = "ready"} :
            /\ tries' = [m \in Msgs |-> IF m \in S THEN tries[m] + 1 ELSE tries[m]]
            /\ pc' = [m \in Msgs |-> IF m \in S THEN "waiting" ELSE pc[m]]
      BY <2>1 DEF FetchRound
    <3>2. UNCHANGED <<due, ev, chain>>
      BY <2>1 DEF FetchRound, ledgerVars
    <3>3. ASSUME NEW p \in due, p.m \in S PROVE p.k < tries'[p.m]
      BY <1>1, <3>1, <3>3
    <3>4. ASSUME NEW p \in due, p.m \notin S
          PROVE  tries'[p.m] = tries[p.m] /\ pc'[p.m] = pc[p.m]
      BY <1>1, <3>1, <3>4
    <3>5. \A p \in due : tries'[p.m] \in Nat /\ p.k \in Nat
      BY <1>1, <3>1
    <3>6. SUFFICES ASSUME NEW p \in due
                   PROVE  /\ p.k <= tries'[p.m]
                          /\ p.k = tries'[p.m] =>
                               /\ pc'[p.m] # "waiting"
                               /\ pc'[p.m] = "event" => p.i < ev'[p.m]
                               /\ pc'[p.m] \in {"run", "flush", "act"} =>
                                    p.i < ev'[p.m] \/ (p.i = ev'[p.m] /\ p.h \notin chain'[p.m])
      BY <3>2
    <3>7. CASE p.m \in S
      BY <3>3, <3>5, <3>7
    <3>8. CASE p.m \notin S
      BY <3>2, <3>4, <3>8
    <3>9. QED BY <3>7, <3>8
  <2>2. QED
    BY <1>2, <1>3, <2>1 DEF FetchStep, StartFetch, FetchTimesOut, taskVars, streamVars, ledgerVars
<1>4. ASSUME NEW m \in Msgs, TaskStep(m) PROVE SlipsFresh'
  <2>1. tries' = tries
    BY <1>4
    DEF TaskStep, Begin, StartEvent, EndEvent, Reply, FinishActions, TakeBatch,
        TakeBatchFails, ActNow, AddToBatch, AddToBatchFails, streamVars
  <2>2. \A n \in Msgs : n # m => pc'[n] = pc[n] /\ ev'[n] = ev[n] /\ chain'[n] = chain[n]
    <3>1. CASE Begin(m) \/ StartEvent(m) \/ EndEvent(m) \/ Reply(m)
      BY <3>1 DEF Begin, StartEvent, EndEvent, Reply, TypeOK
    <3>2. CASE FinishActions(m) \/ TakeBatch(m) \/ TakeBatchFails(m)
      BY <3>2 DEF FinishActions, TakeBatch, TakeBatchFails, TypeOK
    <3>3. CASE \E h \in Handlers : ActNow(m, h) \/ AddToBatch(m, h) \/ AddToBatchFails(m, h)
      BY <3>3 DEF ActNow, AddToBatch, AddToBatchFails, NextHandler, TypeOK
    <3>4. QED BY <1>4, <3>1, <3>2, <3>3 DEF TaskStep
  <2>3. ASSUME NEW p \in due, p.m # m
        PROVE  /\ p.k <= tries'[p.m]
               /\ p.k = tries'[p.m] =>
                    /\ pc'[p.m] # "waiting"
                    /\ pc'[p.m] = "event" => p.i < ev'[p.m]
                    /\ pc'[p.m] \in {"run", "flush", "act"} =>
                         p.i < ev'[p.m] \/ (p.i = ev'[p.m] /\ p.h \notin chain'[p.m])
    BY <1>1, <2>1, <2>2, <2>3
  <2>4. CASE Begin(m) \/ StartEvent(m) \/ EndEvent(m) \/ Reply(m)
    <3>1. due' = due
      BY <2>4 DEF Begin, StartEvent, EndEvent, Reply, ledgerVars
    <3>2. ASSUME NEW p \in due, p.m = m, p.k = tries[m]
          PROVE  /\ pc'[m] # "waiting"
                 /\ pc'[m] = "event" => p.i < ev'[m]
                 /\ pc'[m] \in {"run", "flush", "act"} =>
                      p.i < ev'[m] \/ (p.i = ev'[m] /\ p.h \notin chain'[m])
      <4>1. CASE Begin(m)
        BY <3>2, <4>1 DEF Begin, TypeOK
      <4>2. CASE StartEvent(m)
        BY <3>2, <4>2 DEF StartEvent, TypeOK
      <4>3. CASE EndEvent(m)
        BY SMTT(30), <1>1, <3>2, <4>3 DEF EndEvent, TypeOK
      <4>4. CASE Reply(m)
        BY <3>2, <4>4 DEF Reply, TypeOK
      <4>5. QED BY <2>4, <4>1, <4>2, <4>3, <4>4
    <3>3. QED BY <1>1, <2>1, <2>3, <3>1, <3>2
  <2>5. CASE FinishActions(m) \/ TakeBatch(m) \/ TakeBatchFails(m)
    <3>1. due' = due /\ ev' = ev /\ chain' = chain
          /\ pc[m] \in {"act", "flush"} /\ pc'[m] \in {"run", "act"}
      BY <2>5 DEF FinishActions, TakeBatch, TakeBatchFails, ledgerVars, TypeOK
    <3>2. QED BY <1>1, <2>1, <2>3, <3>1
  <2>6. ASSUME NEW h \in Handlers, ActNow(m, h) \/ AddToBatch(m, h) \/ AddToBatchFails(m, h)
        PROVE  SlipsFresh'
    <3>1. /\ pc[m] = "run" /\ pc'[m] \in {"run", "flush", "act"} /\ ev' = ev
          /\ due' = due \cup {SlipOf(m, h)} /\ chain'[m] = chain[m] \ {h}
      BY <2>6 DEF ActNow, AddToBatch, AddToBatchFails, NextHandler, TypeOK
    <3>2. SlipOf(m, h).m = m /\ SlipOf(m, h).h = h /\ SlipOf(m, h).i = ev[m]
          /\ SlipOf(m, h).k = tries[m] /\ tries[m] \in Nat
      BY DEF SlipOf, TypeOK
    <3>3. QED BY <1>1, <2>1, <2>3, <3>1, <3>2
  <2>7. QED BY <1>4, <2>4, <2>5, <2>6 DEF TaskStep
<1>5. ASSUME NEW s \in Sweepers, SweepStep(s) PROVE SlipsFresh'
  BY <1>2, <1>5
  DEF SweepStep, SweepActed, SweepEnds, SweepTakes, taskVars, streamVars, ledgerVars
<1>6. CASE RecoveryWakes \/ Tick \/ FlushRequested \/ ClearRequested \/ ConfigExpires
            \/ EditHandlers \/ Pause
  BY <1>2, <1>6
  DEF RecoveryWakes, Tick, FlushRequested, ClearRequested, ConfigExpires, EditHandlers,
      Pause, taskVars, streamVars, ledgerVars
<1>7. CASE ClearStep
  BY <1>2, <1>7 DEF ClearStep, ClearDeletes, ClearCounts, taskVars, streamVars, ledgerVars
<1>8. CASE Crash
  <2>1. tries' = tries /\ due' = due /\ \A m \in Msgs : pc'[m] = "idle"
    BY <1>8 DEF Crash
  <2>2. QED BY <1>1, <2>1
<1>9. CASE UNCHANGED vars
  BY <1>2, <1>9 DEF vars, taskVars, streamVars, ledgerVars
<1>10. QED BY <1>3, <1>4, <1>5, <1>6, <1>7, <1>8, <1>9 DEF Next

-----------------------------------------------------------------------------
(* The theorems *)

\* The inductive invariant: every slip is in one place, hands are empty between
\* actions, slips are fresh, and a task owns its message.
THEOREM PlacesCorrect == Spec => []PlacesInv
<1>1. Init => PlacesInv
  <2> SUFFICES ASSUME Init PROVE PlacesInv
    OBVIOUS
  <2>1. (\A x \in Holders : held[x] = {}) /\ (\A r \in Reasons : lost[r] = {})
        /\ (\A m \in Msgs : pc[m] = "idle")
    BY DEF Init
  <2>2. AllHeld = {} /\ AllLost = {}
    BY <2>1 DEF AllHeld, AllLost
  <2>3. OnePlace
    BY <2>1, <2>2 DEF Init, OnePlace
  <2>4. HandsEmpty /\ TaskOwnsMessage
    BY <2>1 DEF HandsEmpty, TaskOwnsMessage, Holders
  <2>5. SlipsFresh
    BY DEF Init, SlipsFresh
  <2>6. QED BY <2>3, <2>4, <2>5 DEF PlacesInv
<1>2. TypeOK /\ TypeOK' /\ PlacesInv /\ [Next]_vars => PlacesInv'
  BY PlacesStep, HandsStep, FreshStep, OwnsStep DEF PlacesInv
<1>3. QED BY <1>1, <1>2, TypeCorrect, PTL DEF Spec

\* Flushes, sweeps, clears, crashes and redeliveries neither duplicate nor
\* mislay a slip: it is queued, in one coroutine's hands, executed, or given up
\* for one reason.
THEOREM OnePlaceCorrect == Spec => []OnePlace
<1>1. PlacesInv => OnePlace
  BY DEF PlacesInv
<1>2. QED BY <1>1, PlacesCorrect, PTL

\* The service implements the ledger of EventFate: accepted slips are pending
\* until they are executed or given up, and both are final.
THEOREM FateImplemented == Spec => FateSpec
<1>1. Init => Fate!Init
  <2> SUFFICES ASSUME Init PROVE Fate!Init
    OBVIOUS
  <2>1. (\A x \in Holders : held[x] = {}) /\ (\A r \in Reasons : lost[r] = {})
    BY DEF Init
  <2>2. AllHeld = {} /\ AllLost = {}
    BY <2>1 DEF AllHeld, AllLost
  <2>3. QED BY <2>2 DEF Init, Fate!Init
<1>2. TypeOK /\ PlacesInv /\ [Next]_vars => [Fate!Next]_(Fate!vars)
  <2> SUFFICES ASSUME TypeOK, PlacesInv, [Next]_vars PROVE Fate!Next
    OBVIOUS
  <2>1. OnePlace /\ OnePlace' /\ Grows
    BY PlacesStep DEF PlacesInv
  <2>2. QED BY <2>1 DEF OnePlace, Grows, Fate!Next, Fate!Step, Fate!Known
<1>3. QED
  BY <1>1, <1>2, TypeCorrect, PlacesCorrect, PTL DEF Spec, FateSpec, Fate!Spec

=============================================================================
