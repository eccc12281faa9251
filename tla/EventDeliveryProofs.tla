------------------------- MODULE EventDeliveryProofs -------------------------
(***************************************************************************)
(* Proofs about EventBatching, beside EventBatchingProofs: what an         *)
(* acknowledgement means, that an event is executed once, and what the     *)
(* absence of an await between add_to_batch and get_and_clear_batch gives. *)
(***************************************************************************)
EXTENDS EventBatchingProofs, FiniteSetTheorems

\* An acknowledgement of a message with one event: what its last delivery was
\* offered to has been executed or batched when its result says so.
Good(m) == LastSlips(m) \cap done # {} \/ \E p \in LastSlips(m) : p.h \in Batching

AckOf(m) ==
  /\ ev[m] = 1
  /\ pc[m] = "idle" => res[m] = "none"
  /\ pc[m] \in {"waiting", "event"} => res[m] = "none" /\ LastSlips(m) = {}
  /\ pc[m] \in {"run", "reply"} /\ res[m] = "none" => LastSlips(m) = {}
  /\ pc[m] = "flush" => Good(m)
  /\ pc[m] = "act" => Good(m) \/ held[m] \cap LastSlips(m) # {}
  /\ res[m] = "ok" => Good(m)
  /\ sub[m] = "acked" => AckedWasActedOn(m)

AckInv == \A m \in Msgs \ Wrapped : AckOf(m)

\* What was delivered before, and what will be delivered again, was given up:
\* it was not executed.  While a message has no success to show, what its last
\* delivery was offered to is given up or in the hands of its task.
OnceOf(m) ==
  /\ ev[m] = 1
  /\ pc[m] = "event" => LastSlips(m) = {}
  /\ pc[m] \in {"run", "flush", "act", "reply"} /\ res[m] # "ok" =>
       \A p \in LastSlips(m) : \/ p \in AllLost
                               \/ pc[m] = "act" /\ p \in held[m]
                               \/ pc[m] = "flush" /\ p \in queue /\ p.h = cur[m]

OnceInv ==
  /\ \A p \in due : p.k < tries[p.m] => p \in AllLost
  /\ \A m \in Msgs : sub[m] = "ready" => \A p \in due : p.m = m => p \in AllLost
  /\ \A m \in Msgs \ Wrapped : OnceOf(m)

\* One task at most is between the two calls; until the clear thread has taken
\* something, the batch it is about to take is not empty.
FlushInv ==
  /\ \A m, n \in Msgs : pc[m] = "flush" /\ pc[n] = "flush" => m = n
  /\ \A m \in Msgs : pc[m] = "flush" =>
       cur[m] \in Batching /\ (BatchOf(cur[m]) # {} \/ lost["clear"] # {})
  /\ EmptyBatchNeedsClear

\* A full batch is about to be taken.
LimitInv ==
  /\ IsFiniteSet(queue)
  /\ \A h \in Batching : \/ Cardinality(BatchOf(h)) < MaxEvents
                         \/ \E m \in Msgs : pc[m] = "flush" /\ cur[m] = h

-----------------------------------------------------------------------------
(* The kinds of steps *)

\* A step that no task takes part in.
Aside ==
  /\ UNCHANGED <<sub, tries, pc, ev, chain, cur, res, due>>
  /\ \A m \in Msgs : held'[m] = held[m]

\* Every step is of the task of a message or is named here.
LEMMA StepKinds ==
  ASSUME TypeOK, [Next]_vars
  PROVE  Aside \/ FetchRound \/ Crash \/ \E m \in Msgs : TaskStep(m)
<1> USE DEF Aside, streamVars, taskVars, ledgerVars
<1>1. ASSUME NEW s \in Sweepers, SweepStep(s) PROVE Aside
  <2>1. UNCHANGED <<streamVars, taskVars, due>>
    BY <1>1 DEF SweepStep, SweepActed, SweepEnds, SweepTakes
  <2>2. \A m \in Msgs : m # s /\ m \in Holders
    BY MsgsAssumption DEF Holders
  <2>3. \A m \in Msgs : held'[m] = held[m]
    BY <1>1, <2>2
    DEF SweepStep, SweepActed, Settle, SweepEnds, SweepTakes, Take, TakeFails, TypeOK
  <2>4. QED
    BY <2>1, <2>3
<1>2. CASE StartFetch \/ FetchTimesOut \/ RecoveryWakes \/ Tick
  BY <1>2 DEF StartFetch, FetchTimesOut, RecoveryWakes, Tick
<1>3. CASE FlushRequested \/ ClearRequested \/ ConfigExpires \/ EditHandlers \/ Pause
  BY <1>3 DEF FlushRequested, ClearRequested, ConfigExpires, EditHandlers, Pause
<1>4. CASE ClearStep
  BY <1>4 DEF ClearStep, ClearDeletes, ClearCounts
<1>5. CASE UNCHANGED vars
  BY <1>5 DEF vars
<1>6. QED
  BY <1>1, <1>2, <1>3, <1>4, <1>5 DEF Next, FetchStep

\* A task's step is about its own message.
LEMMA OwnStep ==
  ASSUME TypeOK, NEW m \in Msgs, TaskStep(m)
  PROVE  /\ tries' = tries
         /\ \A n \in Msgs : n # m =>
              /\ pc'[n] = pc[n] /\ ev'[n] = ev[n] /\ chain'[n] = chain[n]
              /\ cur'[n] = cur[n] /\ res'[n] = res[n] /\ sub'[n] = sub[n]
              /\ held'[n] = held[n]
         /\ \A p : p \in due' /\ p \notin due => p.m = m
<1> USE DEF TypeOK, streamVars, ledgerVars
<1>1. \A h \in Handlers : SlipOf(m, h).m = m
  BY DEF SlipOf
<1>2. CASE Begin(m) \/ StartEvent(m) \/ EndEvent(m) \/ Reply(m)
  BY <1>2 DEF Begin, StartEvent, EndEvent, Reply
<1>3. CASE FinishActions(m)
  BY <1>3 DEF FinishActions, Settle, Merge
<1>4. CASE TakeBatch(m) \/ TakeBatchFails(m)
  <2>1. /\ UNCHANGED <<ev, chain, sub, tries, due>>
        /\ \A n \in Msgs : n # m => pc'[n] = pc[n] /\ cur'[n] = cur[n]
    BY <1>4 DEF TakeBatch, TakeBatchFails
  <2>2. \A n \in Msgs : n # m => res'[n] = res[n]
    BY <1>4 DEF TakeBatch, TakeBatchFails, Merge
  <2>3. held' = held \/ held' = [held EXCEPT ![m] = BatchOf(cur[m])]
    BY <1>4 DEF TakeBatch, Take, TakeBatchFails, TakeFails
  <2>4. \A n \in Msgs : n # m => held'[n] = held[n]
    BY <2>3 DEF Holders
  <2>5. QED
    BY <2>1, <2>2, <2>4
<1>5. ASSUME NEW h \in Handlers, ActNow(m, h) \/ AddToBatch(m, h) \/ AddToBatchFails(m, h)
      PROVE  /\ tries' = tries
             /\ \A n \in Msgs : n # m =>
                  /\ pc'[n] = pc[n] /\ ev'[n] = ev[n] /\ chain'[n] = chain[n]
                  /\ cur'[n] = cur[n] /\ res'[n] = res[n] /\ sub'[n] = sub[n]
                  /\ held'[n] = held[n]
             /\ \A p : p \in due' /\ p \notin due => p.m = m
  <2>1. UNCHANGED <<ev, sub, tries>>
    BY <1>5 DEF ActNow, AddToBatch, AddToBatchFails
  <2>2. NextHandler(m, h)
    BY <1>5 DEF ActNow, AddToBatch, AddToBatchFails
  <2>3. \A n \in Msgs : n # m => pc'[n] = pc[n] /\ cur'[n] = cur[n]
    BY <1>5 DEF ActNow, AddToBatch, AddToBatchFails
  <2>4. \A n \in Msgs : n # m => res'[n] = res[n]
    BY <1>5 DEF ActNow, AddToBatch, AddToBatchFails, Merge
  <2>5. \A n \in Msgs : n # m => held'[n] = held[n]
    <3>1. held' = held \/ held' = [held EXCEPT ![m] = {SlipOf(m, h)}]
      BY <1>5 DEF ActNow, AddToBatch, AddToBatchFails
    <3>2. QED
      BY <3>1 DEF Holders
  <2>6. /\ \A n \in Msgs : n # m => chain'[n] = chain[n]
        /\ \A p : p \in due' /\ p \notin due => p.m = m
    BY <1>1, <2>2 DEF NextHandler
  <2>7. QED
    BY <2>1, <2>3, <2>4, <2>5, <2>6
<1>6. QED
  BY <1>2, <1>3, <1>4, <1>5 DEF TaskStep

\* The slips of a delivery change with the step of its own task only.
LEMMA LastSame ==
  ASSUME NEW m, tries'[m] = tries[m], due \subseteq due',
         \A p : p \in due' /\ p \notin due => p.m # m
  PROVE  LastSlips(m)' = LastSlips(m)
BY DEF LastSlips

\* What a fetch delivers is new.
LEMMA LastFetched ==
  ASSUME TypeOK, SlipsFresh, FetchRound, NEW m \in Msgs, tries'[m] # tries[m]
  PROVE  LastSlips(m)' = {} /\ sub[m] = "ready" /\ sub'[m] = "out" /\ pc'[m] = "waiting"
<1>1. PICK S \in SUBSET {n \in Msgs : sub[n] = "ready"} :
        /\ sub' = [n \in Msgs |-> IF n \in S THEN "out" ELSE sub[n]]
        /\ tries' = [n \in Msgs |-> IF n \in S THEN tries[n] + 1 ELSE tries[n]]
        /\ pc' = [n \in Msgs |-> IF n \in S THEN "waiting" ELSE pc[n]]
  BY DEF FetchRound
<1>2. m \in S /\ tries'[m] = tries[m] + 1 /\ tries[m] \in Nat
  BY <1>1 DEF TypeOK
<1>3. due' = due
  BY DEF FetchRound, ledgerVars
<1>4. \A p \in due : p.m = m => p.k <= tries[m] /\ p.k \in Nat
  BY DEF SlipsFresh, TypeOK, Slip
<1>5. LastSlips(m)' = {}
  BY <1>2, <1>3, <1>4 DEF LastSlips
<1>6. QED
  BY <1>1, <1>2, <1>5

\* A fetch changes no message that was not fetched.
LEMMA FetchEffect ==
  ASSUME TypeOK, FetchRound
  PROVE  /\ UNCHANGED <<ev, chain, cur, res, queue, due, done, lost, held>>
         /\ \A m \in Msgs : tries'[m] = tries[m] => sub'[m] = sub[m] /\ pc'[m] = pc[m]
<1>1. PICK S \in SUBSET {n \in Msgs : sub[n] = "ready"} :
        /\ sub' = [n \in Msgs |-> IF n \in S THEN "out" ELSE sub[n]]
        /\ tries' = [n \in Msgs |-> IF n \in S THEN tries[n] + 1 ELSE tries[n]]
        /\ pc' = [n \in Msgs |-> IF n \in S THEN "waiting" ELSE pc[n]]
  BY DEF FetchRound
<1>2. UNCHANGED <<ev, chain, cur, res, queue, due, done, lost, held>>
  BY DEF FetchRound, redisVars, ledgerVars
<1>3. \A m \in Msgs : tries[m] \in Nat
  BY DEF TypeOK
<1>4. QED
  BY <1>1, <1>2, <1>3

\* A handler that takes its turn is offered one more slip.
LEMMA LastOffered ==
  ASSUME TypeOK, NEW m \in Msgs, NEW h \in Handlers, NextHandler(m, h), tries' = tries
  PROVE  /\ LastSlips(m)' = LastSlips(m) \cup {SlipOf(m, h)}
         /\ SlipOf(m, h).h = h
BY DEF NextHandler, LastSlips, SlipOf

-----------------------------------------------------------------------------
(* What an acknowledgement means *)

\* Results and executions accumulate.
LEMMA GoodStays ==
  ASSUME NEW m, Good(m), LastSlips(m) \subseteq LastSlips(m)', done \subseteq done'
  PROVE  Good(m)'
BY DEF Good

\* What has led to an ack stays so when the rest of the message stays.
LEMMA AckStays ==
  ASSUME TypeOK, NEW m \in Msgs, AckOf(m), LastSlips(m)' = LastSlips(m),
         done \subseteq done', held'[m] = held[m], ev'[m] = ev[m], pc'[m] = pc[m],
         res'[m] = res[m], sub'[m] = sub[m]
  PROVE  AckOf(m)'
<1>1. Good(m) => Good(m)'
  BY GoodStays
<1>2. AckedWasActedOn(m) /\ sub'[m] = "acked" => AckedWasActedOn(m)'
  BY DEF AckedWasActedOn
<1>3. QED
  BY <1>1, <1>2 DEF AckOf

\* The steps of a message's own task keep it.
LEMMA AckTask ==
  ASSUME TypeOK, PlacesInv, NEW m \in Msgs \ Wrapped, AckOf(m), TaskStep(m),
         done \subseteq done'
  PROVE  AckOf(m)'
<1>1. /\ Size[m] = 1 /\ m \in Msgs /\ tries' = tries /\ sub[m] # "acked"
      /\ ev[m] = 1
  <2>1. pc[m] # "idle"
    BY DEF TaskStep, Begin, StartEvent, EndEvent, Reply, FinishActions, TakeBatch,
           TakeBatchFails, ActNow, AddToBatch, AddToBatchFails, NextHandler
  <2>2. QED
    BY <2>1, MsgsAssumption, OwnStep DEF PlacesInv, TaskOwnsMessage, AckOf
<1>2. due' = due => LastSlips(m)' = LastSlips(m)
  BY <1>1 DEF LastSlips
<1>3. Good(m) /\ LastSlips(m) \subseteq LastSlips(m)' => Good(m)'
  BY GoodStays
<1> USE DEF streamVars, ledgerVars
<1>4. CASE Begin(m)
  <2>1. /\ pc[m] = "waiting" /\ pc'[m] = "event"
        /\ UNCHANGED <<ev, res, sub, due, held>>
    BY <1>1, <1>4 DEF Begin, TypeOK
  <2>2. QED
    BY <1>1, <1>2, <1>3, <2>1 DEF AckOf
<1>5. CASE StartEvent(m)
  <2>1. /\ pc[m] = "event" /\ pc'[m] = "run" /\ res'[m] = "none"
        /\ UNCHANGED <<ev, sub, due, held>>
    BY <1>5 DEF StartEvent, TypeOK
  <2>2. QED
    BY <1>1, <1>2, <1>3, <2>1 DEF AckOf
<1>6. CASE EndEvent(m)
  <2>1. /\ pc[m] = "run" /\ pc'[m] = "reply" /\ UNCHANGED <<ev, res, sub, due, held>>
    BY <1>1, <1>6 DEF EndEvent, TypeOK
  <2>2. QED
    BY <1>1, <1>2, <1>3, <2>1 DEF AckOf
<1>7. CASE Reply(m)
  <2>1. /\ pc[m] = "reply" /\ pc'[m] = "idle" /\ ev'[m] = 1 /\ res'[m] = "none"
        /\ UNCHANGED <<due, done>>
        /\ (Verdict(m) \/ sub'[m] \in {"ready", "dead"})
    BY <1>7 DEF Reply, GiveBack, TypeOK
  <2>2. Verdict(m) => LastSlips(m) = {} \/ Good(m)
    <3>1. Verdict(m) => res[m] \in {"none", "ok"}
      BY DEF Verdict, TypeOK
    <3>2. QED
      BY <2>1, <3>1 DEF AckOf
  <2>3. sub'[m] = "acked" => AckedWasActedOn(m)'
    BY <1>2, <2>1, <2>2 DEF AckedWasActedOn, Good
  <2>4. QED
    BY <2>1, <2>3 DEF AckOf
<1>8. CASE FinishActions(m)
  <2>1. PICK outcome \in {"ok", "fail"} : Settle(m, outcome) /\ Merge(m, outcome)
    BY <1>8 DEF FinishActions
  <2>2. /\ pc[m] = "act" /\ pc'[m] = "run" /\ UNCHANGED <<ev, sub, due>>
    BY <1>8 DEF FinishActions, TypeOK
  <2>3. res'[m] = IF res[m] = "ok" THEN "ok" ELSE outcome
    BY <2>1 DEF Merge, TypeOK
  <2>4. outcome = "ok" => done' = done \cup held[m]
    BY <2>1 DEF Settle
  <2>5. res'[m] = "ok" => Good(m)'
    <3>1. CASE Good(m)
      BY <1>2, <1>3, <2>2, <3>1
    <3>2. CASE ~Good(m)
      <4>1. held[m] \cap LastSlips(m) # {} /\ res[m] # "ok"
        BY <2>2, <3>2 DEF AckOf
      <4>2. QED
        BY <1>2, <2>2, <2>3, <2>4, <4>1 DEF Good
    <3>3. QED
      BY <3>1, <3>2
  <2>6. res'[m] # "none"
    BY <2>3
  <2>7. QED
    BY <1>1, <2>2, <2>5, <2>6 DEF AckOf
<1>9. CASE TakeBatch(m)
  <2>1. /\ pc[m] = "flush" /\ pc'[m] = "act" /\ UNCHANGED <<ev, res, sub, due>>
    BY <1>9 DEF TakeBatch, TypeOK
  <2>2. QED
    BY <1>1, <1>2, <1>3, <2>1 DEF AckOf
<1>10. CASE TakeBatchFails(m)
  <2>1. /\ pc[m] = "flush" /\ pc'[m] = "run" /\ UNCHANGED <<ev, sub, due>>
        /\ res'[m] = IF res[m] = "ok" THEN "ok" ELSE "fail"
    BY <1>10 DEF TakeBatchFails, Merge, TypeOK
  <2>2. QED
    BY <1>1, <1>2, <1>3, <2>1 DEF AckOf
<1>11. ASSUME NEW h \in Handlers, ActNow(m, h) PROVE AckOf(m)'
  <2>1. NextHandler(m, h) /\ pc'[m] = "act" /\ UNCHANGED <<ev, res, sub>>
        /\ m \in Holders /\ held' = [held EXCEPT ![m] = {SlipOf(m, h)}]
    BY <1>11 DEF ActNow, TypeOK, Holders
  <2>2. LastSlips(m)' = LastSlips(m) \cup {SlipOf(m, h)}
    BY <1>1, <2>1, LastOffered
  <2>3. held'[m] \cap LastSlips(m)' # {}
    BY <2>1, <2>2 DEF TypeOK
  <2>4. res'[m] = "ok" => Good(m)'
    BY <1>3, <2>1, <2>2 DEF AckOf
  <2>5. QED
    BY <1>1, <2>1, <2>3, <2>4 DEF AckOf
<1>12. ASSUME NEW h \in Handlers, AddToBatch(m, h) \/ AddToBatchFails(m, h)
       PROVE  AckOf(m)'
  <2>1. /\ NextHandler(m, h) /\ h \in Batching /\ UNCHANGED <<ev, sub, held>>
        /\ pc'[m] \in {"run", "flush"}
        /\ pc'[m] = "run" => res'[m] = "ok"
    <3>1. NextHandler(m, h) /\ h \in Batching /\ UNCHANGED <<ev, sub, held>>
      BY <1>12 DEF AddToBatch, AddToBatchFails
    <3>2. pc[m] = "run" /\ m \in Msgs
      BY <3>1 DEF NextHandler
    <3>3. \/ pc' = [pc EXCEPT ![m] = "flush"]
          \/ pc' = pc /\ Merge(m, "ok")
      BY <1>12 DEF AddToBatch, AddToBatchFails
    <3>4. QED
      BY <3>1, <3>2, <3>3 DEF Merge, TypeOK
  <2>2. /\ LastSlips(m)' = LastSlips(m) \cup {SlipOf(m, h)} /\ SlipOf(m, h).h = h
    BY <1>1, <2>1, LastOffered
  <2>3. Good(m)'
    BY <2>1, <2>2 DEF Good
  <2>4. QED
    BY <1>1, <2>1, <2>3 DEF AckOf
<1>13. QED
  BY <1>4, <1>5, <1>6, <1>7, <1>8, <1>9, <1>10, <1>11, <1>12 DEF TaskStep

\* Every step keeps it for all messages.
LEMMA AckStep ==
  ASSUME TypeOK, PlacesInv, AckInv, [Next]_vars
  PROVE  AckInv'
<1> SUFFICES ASSUME NEW n \in Msgs \ Wrapped PROVE AckOf(n)'
  BY DEF AckInv
<1>1. AckOf(n) /\ n \in Msgs
  BY DEF AckInv
<1>2. due \subseteq due' /\ done \subseteq done'
  BY PlacesStep DEF Grows
<1>3. CASE Aside
  <2>1. LastSlips(n)' = LastSlips(n)
    BY <1>3 DEF Aside, LastSlips
  <2>2. QED
    BY <1>1, <1>2, <1>3, <2>1, AckStays DEF Aside
<1>4. CASE FetchRound
  <2>1. /\ UNCHANGED <<ev, res, due, done, held>>
        /\ tries'[n] = tries[n] => sub'[n] = sub[n] /\ pc'[n] = pc[n]
    BY <1>1, <1>4, FetchEffect
  <2>2. CASE tries'[n] = tries[n]
    <3>1. LastSlips(n)' = LastSlips(n)
      BY <2>1, <2>2 DEF LastSlips
    <3>2. QED
      BY <1>1, <1>2, <2>1, <2>2, <3>1, AckStays
  <2>3. CASE tries'[n] # tries[n]
    <3>1. LastSlips(n)' = {} /\ sub[n] = "ready" /\ sub'[n] = "out" /\ pc'[n] = "waiting"
      BY <1>1, <1>4, <2>3, LastFetched DEF PlacesInv
    <3>2. pc[n] = "idle"
      BY <1>1, <3>1 DEF PlacesInv, TaskOwnsMessage
    <3>3. QED
      BY <1>1, <2>1, <3>1, <3>2 DEF AckOf
  <2>4. QED
    BY <2>2, <2>3
<1>5. CASE Crash
  <2>1. /\ pc'[n] = "idle" /\ res'[n] = "none" /\ ev'[n] = 1 /\ UNCHANGED <<tries, due, done>>
        /\ sub'[n] = "acked" => sub[n] = "acked"
    BY <1>5 DEF Crash, GiveBack
  <2>2. LastSlips(n)' = LastSlips(n)
    BY <2>1 DEF LastSlips
  <2>3. QED
    BY <1>1, <2>1, <2>2 DEF AckOf, AckedWasActedOn
<1>6. ASSUME NEW m \in Msgs, TaskStep(m) PROVE AckOf(n)'
  <2>1. CASE n = m
    BY <1>1, <1>2, <1>6, <2>1, AckTask
  <2>2. CASE n # m
    <3>1. /\ tries' = tries /\ pc'[n] = pc[n] /\ ev'[n] = ev[n] /\ res'[n] = res[n]
          /\ sub'[n] = sub[n] /\ held'[n] = held[n]
          /\ \A p : p \in due' /\ p \notin due => p.m # n
      BY <1>1, <1>6, <2>2, OwnStep
    <3>2. LastSlips(n)' = LastSlips(n)
      BY <1>2, <3>1, LastSame
    <3>3. QED
      BY <1>1, <1>2, <3>1, <3>2, AckStays
  <2>3. QED
    BY <2>1, <2>2
<1>7. QED
  BY <1>3, <1>4, <1>5, <1>6, StepKinds

\* A single-event message that only handlers without batching accepted is
\* acknowledged only after an action was executed for it, whatever fails,
\* crashes, expires or is delivered again.
THEOREM AckMeansExecuted == Spec => []AckedImmediateExecuted
<1>1. Init => AckInv
  <2> SUFFICES ASSUME Init, NEW m \in Msgs \ Wrapped PROVE AckOf(m)
    BY DEF AckInv
  <2>1. /\ ev[m] = 1 /\ pc[m] = "idle" /\ res[m] = "none" /\ sub[m] = "ready"
    BY DEF Init
  <2>2. QED
    BY <2>1 DEF AckOf
<1>2. TypeOK /\ PlacesInv /\ AckInv /\ [Next]_vars => AckInv'
  BY AckStep
<1>3. AckInv => AckedImmediateExecuted
  <2> SUFFICES ASSUME AckInv, NEW m \in Msgs \ Wrapped PROVE AckedWasActedOn(m)
    BY DEF AckedImmediateExecuted
  <2>1. sub[m] = "acked" => AckedWasActedOn(m)
    BY DEF AckInv, AckOf
  <2>2. QED
    BY <2>1 DEF AckedWasActedOn
<1>4. QED
  BY <1>1, <1>2, <1>3, TypeCorrect, PlacesCorrect, PTL DEF Spec

-----------------------------------------------------------------------------
(* Between add_to_batch and get_and_clear_batch *)

\* What the clear thread took stays on record.
LEMMA ClearedStays ==
  ASSUME TypeOK, [Next]_vars
  PROVE  lost["clear"] \subseteq lost'["clear"]
<1> DEFINE Goal == lost["clear"] \subseteq lost'["clear"]
<1>1. ASSUME NEW r \in Reasons, NEW S, Lose(r, S) PROVE Goal
  BY <1>1 DEF Lose, TypeOK, Reasons
<1>2. lost' = lost => Goal
  OBVIOUS
<1> SUFFICES Goal
  OBVIOUS
<1> HIDE DEF Goal
<1>3. {"redis", "action", "expired", "orphan", "clear", "crash"} = Reasons
  BY DEF Reasons
<1> USE DEF ledgerVars
<1>4. ASSUME NEW m \in Msgs, TaskStep(m) PROVE Goal
  <2>1. CASE Begin(m) \/ StartEvent(m) \/ EndEvent(m) \/ Reply(m) \/ TakeBatch(m)
    BY <1>2, <2>1 DEF Begin, StartEvent, EndEvent, Reply, TakeBatch
  <2>2. CASE FinishActions(m) \/ TakeBatchFails(m)
    BY <1>1, <1>2, <1>3, <2>2 DEF FinishActions, Settle, TakeBatchFails, TakeFails
  <2>3. CASE \E h \in Handlers : ActNow(m, h) \/ AddToBatch(m, h) \/ AddToBatchFails(m, h)
    BY <1>1, <1>2, <1>3, <2>3 DEF ActNow, AddToBatch, AddToBatchFails
  <2>4. QED
    BY <1>4, <2>1, <2>2, <2>3 DEF TaskStep
<1>5. ASSUME NEW s \in Sweepers, SweepStep(s) PROVE Goal
  BY <1>1, <1>2, <1>3, <1>5
  DEF SweepStep, SweepActed, Settle, SweepEnds, SweepTakes, TakeFails
<1>6. CASE FetchStep \/ RecoveryWakes \/ Tick
  <2>1. CASE FetchStep \/ RecoveryWakes
    BY <1>2, <2>1 DEF FetchStep, StartFetch, FetchTimesOut, FetchRound, RecoveryWakes
  <2>2. CASE Tick
    <3>1. Lose("expired", {p \in queue : ttl[p.h] <= 1})
      BY <2>2 DEF Tick
    <3>2. QED
      BY <1>1, <1>3, <3>1
  <2>3. QED
    BY <1>6, <2>1, <2>2
<1>7. CASE FlushRequested \/ ClearRequested \/ ConfigExpires \/ EditHandlers \/ Pause
  BY <1>2, <1>7 DEF FlushRequested, ClearRequested, ConfigExpires, EditHandlers, Pause
<1>8. CASE ClearStep \/ Crash
  <2>1. CASE ClearDeletes
    <3>1. Lose("clear", BatchOf(clearing.at))
      BY <2>1 DEF ClearDeletes
    <3>2. QED
      BY <1>1, <1>3, <3>1
  <2>2. CASE Crash
    <3>1. Lose("crash", AllHeld)
      BY <2>2 DEF Crash
    <3>2. QED
      BY <1>1, <1>3, <3>1
  <2>3. QED
    BY <1>2, <1>8, <2>1, <2>2 DEF ClearStep, ClearCounts
<1>9. CASE UNCHANGED vars
  BY <1>2, <1>9 DEF vars
<1>10. QED
  BY <1>4, <1>5, <1>6, <1>7, <1>8, <1>9 DEF Next, Goal

\* While a task is between the two calls the event loop runs no other coroutine:
\* the batch can only be taken by that task or deleted by the clear thread.
LEMMA FlushHolds ==
  ASSUME TypeOK, NEW m \in Msgs, pc[m] = "flush", [Next]_vars
  PROVE  \/ UNCHANGED <<queue, lost>> /\ (Aside \/ FetchRound)
         \/ ClearDeletes /\ Aside
         \/ Crash
         \/ \E n \in Msgs : pc[n] = "flush" /\ (TakeBatch(n) \/ TakeBatchFails(n))
<1>1. ~LoopFree
  BY DEF LoopFree
<1> USE DEF redisVars, ledgerVars
<1>2. ASSUME NEW n \in Msgs, TaskStep(n)
      PROVE  pc[n] = "flush" /\ (TakeBatch(n) \/ TakeBatchFails(n))
  BY <1>1, <1>2
  DEF TaskStep, Begin, StartEvent, EndEvent, Reply, FinishActions, ActNow, AddToBatch,
      AddToBatchFails, NextHandler, TakeBatch, TakeBatchFails
<1>3. ASSUME NEW s \in Sweepers, SweepStep(s) PROVE FALSE
  BY <1>1, <1>3 DEF SweepStep, SweepActed, SweepEnds, SweepTakes
<1>4. ~RecoveryWakes /\ ~Tick /\ ~FlushRequested /\ ~ClearRequested /\ ~Pause
  BY <1>1 DEF RecoveryWakes, Tick, FlushRequested, ClearRequested, Pause
<1>5. CASE FetchStep
  <2>1. UNCHANGED <<queue, lost>>
    BY <1>5 DEF FetchStep, StartFetch, FetchTimesOut, FetchRound
  <2>2. StartFetch \/ FetchTimesOut => Aside
    BY DEF StartFetch, FetchTimesOut, Aside, streamVars, taskVars
  <2>3. QED
    BY <1>5, <2>1, <2>2 DEF FetchStep
<1>6. CASE ConfigExpires \/ EditHandlers \/ UNCHANGED vars
  BY <1>6 DEF ConfigExpires, EditHandlers, vars, Aside, streamVars, taskVars
<1>7. CASE ClearStep
  <2>1. Aside
    BY <1>7 DEF ClearStep, ClearDeletes, ClearCounts, Aside, streamVars, taskVars
  <2>2. UNCHANGED <<queue, lost>> \/ ClearDeletes
    BY <1>7 DEF ClearStep, ClearCounts
  <2>3. QED
    BY <2>1, <2>2
<1>8. QED
  BY <1>2, <1>3, <1>4, <1>5, <1>6, <1>7 DEF Next

\* What the clear thread deletes is on record as cleared.
LEMMA ClearEffect ==
  ASSUME TypeOK, ClearDeletes
  PROVE  \A p \in queue : p \in queue' \/ (p \in lost'["clear"] /\ p \in AllLost')
<1>1. queue' = queue \ BatchOf(clearing.at)
      /\ lost' = [lost EXCEPT !["clear"] = @ \cup BatchOf(clearing.at)]
  BY DEF ClearDeletes, Remove, Lose
<1>2. "clear" \in Reasons
  BY DEF Reasons
<1>3. BatchOf(clearing.at) \subseteq lost'["clear"]
  BY <1>1, <1>2 DEF TypeOK
<1>4. lost'["clear"] \subseteq AllLost'
  BY <1>2 DEF AllLost
<1>5. QED
  BY <1>1, <1>3, <1>4

\* Every step keeps an admin flush apart from handlers and recovery.
LEMMA FlushStep ==
  ASSUME TypeOK, PlacesInv, FlushInv, [Next]_vars
  PROVE  FlushInv'
<1>1. lost["clear"] \subseteq lost'["clear"]
  BY ClearedStays
<1>2. CASE \E m \in Msgs : pc[m] = "flush"
  <2>1. PICK m \in Msgs : pc[m] = "flush"
    BY <1>2
  <2>2. /\ \A n \in Msgs : pc[n] = "flush" => n = m
        /\ cur[m] \in Batching
        /\ BatchOf(cur[m]) # {} \/ lost["clear"] # {}
        /\ \A n \in Msgs : pc[n] = "act" /\ held[n] = {} => lost["clear"] # {}
    BY <2>1 DEF FlushInv, EmptyBatchNeedsClear
  <2>3. CASE UNCHANGED <<queue, lost>> /\ Aside
    BY <2>1, <2>2, <2>3 DEF Aside, FlushInv, EmptyBatchNeedsClear, BatchOf
  <2>4. CASE UNCHANGED <<queue, lost>> /\ FetchRound
    <3>1. /\ cur' = cur /\ held' = held
          /\ \A n \in Msgs : pc'[n] = pc[n] \/ pc'[n] = "waiting"
      BY <2>4, FetchEffect, LastFetched DEF PlacesInv
    <3>2. QED
      BY <2>1, <2>2, <2>4, <3>1 DEF FlushInv, EmptyBatchNeedsClear, BatchOf
  <2>5. CASE ClearDeletes /\ Aside
    <3>1. BatchOf(cur[m])' # {} \/ lost'["clear"] # {}
      <4>1. CASE lost["clear"] # {}
        BY <1>1, <4>1
      <4>2. CASE BatchOf(cur[m]) # {}
        <5>1. PICK p \in queue : p.h = cur[m]
          BY <4>2 DEF BatchOf
        <5>2. cur'[m] = cur[m]
          BY <2>5 DEF Aside
        <5>3. QED
          BY <2>5, <5>1, <5>2, ClearEffect DEF BatchOf
      <4>3. QED
        BY <2>2, <4>1, <4>2
    <3>2. QED
      BY <1>1, <2>1, <2>2, <2>5, <3>1 DEF Aside, FlushInv, EmptyBatchNeedsClear
  <2>6. CASE Crash
    BY <2>6 DEF Crash, FlushInv, EmptyBatchNeedsClear
  <2>7. ASSUME NEW n \in Msgs, pc[n] = "flush", TakeBatch(n) \/ TakeBatchFails(n)
        PROVE  FlushInv'
    <3>1. n = m /\ m \in Holders
      BY <2>2, <2>7 DEF Holders
    <3>2. TaskStep(m)
      BY <2>7, <3>1 DEF TaskStep
    <3>3. \A x \in Msgs : x # m => pc'[x] = pc[x] /\ held'[x] = held[x]
      BY <3>2, OwnStep
    <3>4. pc'[m] = "run" \/ (pc'[m] = "act" /\ held'[m] = BatchOf(cur[m]))
      BY <2>7, <3>1 DEF TakeBatch, TakeBatchFails, Take, TypeOK
    <3>5. QED
      BY <1>1, <2>2, <3>3, <3>4 DEF FlushInv, EmptyBatchNeedsClear
  <2>8. QED
    BY <2>1, <2>3, <2>4, <2>5, <2>6, <2>7, FlushHolds
<1>3. CASE \A m \in Msgs : pc[m] # "flush"
  <2>1. \A n \in Msgs : pc[n] = "act" /\ held[n] = {} => lost["clear"] # {}
    BY DEF FlushInv, EmptyBatchNeedsClear
  <2>2. CASE Aside
    BY <1>1, <1>3, <2>1, <2>2 DEF Aside, FlushInv, EmptyBatchNeedsClear
  <2>3. CASE FetchRound
    <3>1. /\ held' = held
          /\ \A n \in Msgs : pc'[n] = pc[n] \/ pc'[n] = "waiting"
      BY <2>3, FetchEffect, LastFetched DEF PlacesInv
    <3>2. QED
      BY <1>1, <1>3, <2>1, <3>1 DEF FlushInv, EmptyBatchNeedsClear
  <2>4. CASE Crash
    BY <2>4 DEF Crash, FlushInv, EmptyBatchNeedsClear
  <2>5. ASSUME NEW m \in Msgs, TaskStep(m) PROVE FlushInv'
    <3>1. \A x \in Msgs : x # m => pc'[x] = pc[x] /\ held'[x] = held[x]
      BY <2>5, OwnStep
    <3>2. pc'[m] = "act" => held'[m] # {}
      <4>1. ASSUME NEW h \in Handlers, ActNow(m, h) PROVE held'[m] # {}
        <5>1. held' = [held EXCEPT ![m] = {SlipOf(m, h)}] /\ m \in Holders
          BY <4>1 DEF ActNow, Holders
        <5>2. held'[m] = {SlipOf(m, h)}
          BY <5>1 DEF TypeOK
        <5>3. QED
          BY <5>2
      <4>2. CASE Begin(m) \/ StartEvent(m) \/ EndEvent(m) \/ Reply(m) \/ FinishActions(m)
        BY <4>2 DEF Begin, StartEvent, EndEvent, Reply, FinishActions, TypeOK
      <4>3. CASE \E h \in Handlers : AddToBatch(m, h) \/ AddToBatchFails(m, h)
        BY <4>3 DEF AddToBatch, AddToBatchFails, NextHandler, TypeOK
      <4>4. QED
        BY <1>3, <2>5, <4>1, <4>2, <4>3 DEF TaskStep, TakeBatch, TakeBatchFails
    <3>3. pc'[m] = "flush" => cur'[m] \in Batching /\ BatchOf(cur[m])' # {}
      <4>1. ASSUME NEW h \in Handlers, AddToBatch(m, h), pc'[m] = "flush"
            PROVE  cur'[m] \in Batching /\ BatchOf(cur[m])' # {}
        <5>1. /\ h \in Batching /\ SlipOf(m, h) \in queue' /\ SlipOf(m, h).h = h
              /\ pc[m] = "run"
          BY <4>1 DEF AddToBatch, Push, SlipOf, NextHandler
        <5>2. cur'[m] = h
          BY <4>1, <5>1 DEF AddToBatch, TypeOK
        <5>3. QED
          BY <5>1, <5>2 DEF BatchOf
      <4>2. CASE Begin(m) \/ StartEvent(m) \/ EndEvent(m) \/ Reply(m) \/ FinishActions(m)
        BY <4>2 DEF Begin, StartEvent, EndEvent, Reply, FinishActions, TypeOK
      <4>3. CASE \E h \in Handlers : ActNow(m, h) \/ AddToBatchFails(m, h)
        BY <4>3 DEF ActNow, AddToBatchFails, NextHandler, TypeOK
      <4>4. QED
        BY <1>3, <2>5, <4>1, <4>2, <4>3 DEF TaskStep, TakeBatch, TakeBatchFails
    <3>4. QED
      BY <1>1, <1>3, <2>1, <3>1, <3>2, <3>3 DEF FlushInv, EmptyBatchNeedsClear
  <2>6. QED
    BY <2>2, <2>3, <2>4, <2>5, StepKinds
<1>4. QED
  BY <1>2, <1>3

\* The inductive invariant of the two calls, for whatever the environment does.
THEOREM FlushingAlone == Spec => []FlushInv
<1>1. Init => FlushInv
  BY DEF Init, FlushInv, EmptyBatchNeedsClear
<1>2. TypeOK /\ PlacesInv /\ FlushInv /\ [Next]_vars => FlushInv'
  BY FlushStep
<1>3. QED
  BY <1>1, <1>2, TypeCorrect, PlacesCorrect, PTL DEF Spec

\* A handler runs its actions on an empty batch only when the clear thread
\* emptied it between the two calls; no coroutine, failure or restart can.
THEOREM EmptyBatchIsCleared == Spec => []EmptyBatchNeedsClear
<1>1. FlushInv => EmptyBatchNeedsClear
  BY DEF FlushInv
<1>2. QED
  BY <1>1, FlushingAlone, PTL

-----------------------------------------------------------------------------
(* Batches stay below max_events *)

\* The parts of a finite set of slips.
LEMMA BatchFinite ==
  ASSUME NEW S, IsFiniteSet(S), NEW T \in SUBSET S
  PROVE  /\ IsFiniteSet(T) /\ Cardinality(T) \in Nat /\ Cardinality(S) \in Nat
         /\ Cardinality(T) <= Cardinality(S)
BY FS_Subset, FS_CardinalityType

\* What a step without Redis failures does to the batches.
LEMMA QueueShrinks ==
  ASSUME TypeOK, Aside, [Next]_vars
  PROVE  queue' \subseteq queue
<1> USE DEF redisVars, taskVars
<1>1. ASSUME NEW s \in Sweepers, SweepStep(s) PROVE queue' \subseteq queue
  BY <1>1 DEF SweepStep, SweepActed, SweepEnds, SweepTakes, Take, TakeFails, Remove
<1>2. ASSUME NEW m \in Msgs, TaskStep(m) PROVE queue' \subseteq queue
  <2>1. ASSUME NEW h \in Handlers, AddToBatch(m, h) \/ AddToBatchFails(m, h) PROVE FALSE
    <3>1. NextHandler(m, h)
      BY <2>1 DEF AddToBatch, AddToBatchFails
    <3>2. h \in chain[m] /\ chain' = [chain EXCEPT ![m] = @ \ {h}] /\ chain' = chain
      BY <3>1 DEF NextHandler, Aside
    <3>3. QED
      BY <3>2 DEF TypeOK
  <2>2. CASE Begin(m) \/ StartEvent(m) \/ EndEvent(m) \/ Reply(m) \/ FinishActions(m)
    BY <2>2 DEF Begin, StartEvent, EndEvent, Reply, FinishActions
  <2>3. CASE TakeBatch(m) \/ TakeBatchFails(m)
    BY <2>3 DEF TakeBatch, TakeBatchFails, Take, TakeFails, Remove
  <2>4. CASE \E h \in Handlers : ActNow(m, h)
    BY <2>4 DEF ActNow
  <2>5. QED
    BY <1>2, <2>1, <2>2, <2>3, <2>4 DEF TaskStep
<1>3. CASE FetchStep \/ RecoveryWakes \/ Tick
  BY <1>3 DEF FetchStep, StartFetch, FetchTimesOut, FetchRound, RecoveryWakes, Tick
<1>4. CASE FlushRequested \/ ClearRequested \/ ConfigExpires \/ EditHandlers \/ Pause
  BY <1>4 DEF FlushRequested, ClearRequested, ConfigExpires, EditHandlers, Pause
<1>5. CASE ClearStep \/ Crash \/ UNCHANGED vars
  BY <1>5 DEF ClearStep, ClearDeletes, ClearCounts, Remove, Crash, vars
<1>6. QED
  BY <1>1, <1>2, <1>3, <1>4, <1>5 DEF Next

\* Every step keeps batches below the limit, unless Redis fails or the process dies.
LEMMA LimitStep ==
  ASSUME TypeOK, TypeOK', PlacesInv, FlushInv, LimitInv, [Next]_vars,
         "redis" \notin Env, "crash" \notin Env
  PROVE  LimitInv'
<1>1. MaxEvents \in Nat /\ MaxEvents > 0 /\ IsFiniteSet(queue)
  BY LimitsAssumption DEF LimitInv
\* A batch that did not grow.
<1>2. ASSUME NEW h \in Batching, BatchOf(h)' \subseteq BatchOf(h),
             Cardinality(BatchOf(h)) < MaxEvents
      PROVE  Cardinality(BatchOf(h)') < MaxEvents
  <2>1. BatchOf(h) \subseteq queue
    BY DEF BatchOf
  <2>2. IsFiniteSet(BatchOf(h))
    BY <1>1, <2>1, BatchFinite
  <2>3. /\ Cardinality(BatchOf(h)') \in Nat /\ Cardinality(BatchOf(h)) \in Nat
        /\ Cardinality(BatchOf(h)') <= Cardinality(BatchOf(h))
    BY <1>2, <2>2, BatchFinite
  <2>4. QED
    BY <1>1, <1>2, <2>3
<1>3. ASSUME queue' \subseteq queue, UNCHANGED <<pc, cur>> PROVE LimitInv'
  <2>1. IsFiniteSet(queue')
    BY <1>1, <1>3, BatchFinite
  <2>2. ASSUME NEW h \in Batching
        PROVE  \/ Cardinality(BatchOf(h)') < MaxEvents
               \/ \E m \in Msgs : pc'[m] = "flush" /\ cur'[m] = h
    <3>1. BatchOf(h)' \subseteq BatchOf(h)
      BY <1>3 DEF BatchOf
    <3>2. QED
      BY <1>2, <1>3, <3>1 DEF LimitInv
  <2>3. QED
    BY <2>1, <2>2 DEF LimitInv
<1>4. CASE Aside
  BY <1>3, <1>4, QueueShrinks DEF Aside
<1>5. CASE FetchRound
  <2>1. /\ UNCHANGED <<queue, cur>>
        /\ \A m \in Msgs : pc[m] = "flush" => pc'[m] = "flush"
    <3>1. UNCHANGED <<queue, cur>>
          /\ \A m \in Msgs : tries'[m] = tries[m] => pc'[m] = pc[m]
      BY <1>5, FetchEffect
    <3>2. \A m \in Msgs : pc[m] = "flush" => tries'[m] = tries[m]
      BY <1>5, LastFetched DEF PlacesInv, TaskOwnsMessage
    <3>3. QED
      BY <3>1, <3>2
  <2>2. QED
    BY <1>1, <2>1 DEF LimitInv, BatchOf
<1>6. ~Crash
  BY DEF Crash
<1>7. ASSUME NEW m \in Msgs, TaskStep(m) PROVE LimitInv'
  <2>1. CASE TakeBatch(m)
    <3>1. /\ pc[m] = "flush" /\ queue' = queue \ BatchOf(cur[m])
          /\ \A n \in Msgs : n # m => pc'[n] = pc[n] /\ cur'[n] = cur[n]
      BY <1>7, <2>1, OwnStep DEF TakeBatch, Take, Remove
    <3>2. IsFiniteSet(queue')
      BY <1>1, <3>1, BatchFinite
    <3>3. ASSUME NEW h \in Batching PROVE Cardinality(BatchOf(h)') < MaxEvents
      <4>1. CASE h = cur[m]
        <5>1. BatchOf(h)' = {}
          BY <3>1, <4>1 DEF BatchOf
        <5>2. QED
          BY <1>1, <5>1, FS_EmptySet
      <4>2. CASE h # cur[m]
        <5>1. Cardinality(BatchOf(h)) < MaxEvents
          BY <3>1, <4>2 DEF LimitInv, FlushInv
        <5>2. BatchOf(h)' \subseteq BatchOf(h)
          BY <3>1 DEF BatchOf
        <5>3. QED
          BY <1>2, <5>1, <5>2
      <4>3. QED
        BY <4>1, <4>2
    <3>4. QED
      BY <3>2, <3>3 DEF LimitInv
  <2>2. ~TakeBatchFails(m) /\ \A h \in Handlers : ~AddToBatchFails(m, h)
    BY DEF TakeBatchFails, TakeFails, AddToBatchFails
  <2>3. CASE ~TakeBatch(m)
    <3>1. LoopFree
      BY <1>7, <2>2, <2>3
      DEF TaskStep, Begin, StartEvent, EndEvent, Reply, FinishActions, ActNow, AddToBatch,
          NextHandler
    <3>2. \A h \in Batching : Cardinality(BatchOf(h)) < MaxEvents
      BY <3>1 DEF LoopFree, LimitInv
    <3>3. CASE queue' = queue
      BY <1>1, <3>2, <3>3 DEF LimitInv, BatchOf
    <3>4. ASSUME NEW h \in Handlers, AddToBatch(m, h) PROVE LimitInv'
      <4>1. /\ h \in Batching /\ queue' = queue \cup {SlipOf(m, h)}
            /\ SlipOf(m, h).h = h /\ pc[m] = "run"
        BY <3>4 DEF AddToBatch, Push, SlipOf, NextHandler
      <4>2. IsFiniteSet(queue')
        BY <1>1, <4>1, FS_AddElement
      <4>3. ASSUME NEW g \in Batching, g # h PROVE Cardinality(BatchOf(g)') < MaxEvents
        <5>1. BatchOf(g)' \subseteq BatchOf(g)
          BY <4>1, <4>3 DEF BatchOf
        <5>2. QED
          BY <1>2, <3>2, <5>1
      <4>4. CASE ShouldFlush(h)
        <5>1. pc'[m] = "flush" /\ cur'[m] = h
          BY <3>4, <4>4 DEF AddToBatch, TypeOK
        <5>2. QED
          BY <4>2, <4>3, <5>1 DEF LimitInv
      <4>5. CASE ~ShouldFlush(h)
        <5>1. BatchOf(h)' \subseteq queue'
          BY DEF BatchOf
        <5>2. Cardinality(BatchOf(h)') \in Nat
          BY <4>2, <5>1, BatchFinite
        <5>3. ~(Cardinality(BatchOf(h)') >= MaxEvents)
          BY <4>5 DEF ShouldFlush
        <5>4. QED
          BY <1>1, <4>2, <4>3, <5>2, <5>3 DEF LimitInv
      <4>6. QED
        BY <4>4, <4>5
    <3>5. QED
      BY <1>7, <2>2, <2>3, <3>3, <3>4
      DEF TaskStep, Begin, StartEvent, EndEvent, Reply, FinishActions, ActNow, redisVars
  <2>4. QED
    BY <2>1, <2>3
<1>8. QED
  BY <1>4, <1>5, <1>6, <1>7, StepKinds

\* As long as Redis answers and the process does not die between the two calls,
\* a full batch never outlasts the turn of the event loop that filled it.
THEOREM BatchesBelowLimit ==
  ASSUME "redis" \notin Env, "crash" \notin Env
  PROVE  Spec => []BatchBelowLimit
<1>1. Init => LimitInv
  <2> SUFFICES ASSUME Init PROVE LimitInv
    OBVIOUS
  <2>1. queue = {} /\ \A h \in Batching : BatchOf(h) = {}
    BY DEF Init, BatchOf
  <2>2. Cardinality({}) = 0 /\ IsFiniteSet({}) /\ 0 < MaxEvents
    BY FS_EmptySet, LimitsAssumption
  <2>3. QED
    BY <2>1, <2>2 DEF LimitInv
<1>2. TypeOK /\ TypeOK' /\ PlacesInv /\ FlushInv /\ LimitInv /\ [Next]_vars
      => LimitInv'
  BY LimitStep
<1>3. LimitInv => BatchBelowLimit
  BY DEF LimitInv, BatchBelowLimit, LoopFree
<1>4. QED
  BY <1>1, <1>2, <1>3, TypeCorrect, PlacesCorrect, FlushingAlone, PTL DEF Spec

-----------------------------------------------------------------------------
(* Executed once *)

\* What is in the batch a task is about to take stays there, or is given up.
LEMMA FlushKeeps ==
  ASSUME TypeOK, FlushInv, [Next]_vars, NEW m \in Msgs, pc[m] = "flush", pc'[m] = "flush"
  PROVE  \A p \in queue : p \in queue' \/ p \in AllLost'
<1>1. ~Crash
  BY DEF Crash
<1>2. ASSUME NEW n \in Msgs, pc[n] = "flush", TakeBatch(n) \/ TakeBatchFails(n) PROVE FALSE
  <2>1. n = m
    BY <1>2 DEF FlushInv
  <2>2. QED
    BY <1>2, <2>1 DEF TakeBatch, TakeBatchFails, TypeOK
<1>3. CASE ClearDeletes
  BY <1>3, ClearEffect
<1>4. QED
  BY <1>1, <1>2, <1>3, FlushHolds

\* What a message has executed stays so when the message does not move.
LEMMA OnceStays ==
  ASSUME TypeOK, FlushInv, [Next]_vars, NEW m \in Msgs, OnceOf(m), AllLost \subseteq AllLost',
         LastSlips(m)' = LastSlips(m), held'[m] = held[m], ev'[m] = ev[m], pc'[m] = pc[m],
         cur'[m] = cur[m], res'[m] = res[m]
  PROVE  OnceOf(m)'
<1>1. ev'[m] = 1 /\ (pc'[m] = "event" => LastSlips(m)' = {})
  BY DEF OnceOf
<1>2. ASSUME pc'[m] \in {"run", "flush", "act", "reply"}, res'[m] # "ok",
             NEW p \in LastSlips(m)'
      PROVE  \/ p \in AllLost'
             \/ pc'[m] = "act" /\ p \in held'[m]
             \/ pc'[m] = "flush" /\ p \in queue' /\ p.h = cur'[m]
  <2>1. \/ p \in AllLost
        \/ pc[m] = "act" /\ p \in held[m]
        \/ pc[m] = "flush" /\ p \in queue /\ p.h = cur[m]
    BY <1>2 DEF OnceOf
  <2>2. QED
    BY <2>1, FlushKeeps
<1>3. QED
  BY <1>1, <1>2 DEF OnceOf

\* The steps of a message's own task keep it.
LEMMA OnceTask ==
  ASSUME TypeOK, PlacesInv, NEW m \in Msgs \ Wrapped, OnceOf(m), TaskStep(m),
         AllLost \subseteq AllLost', "redis" \notin Env
  PROVE  OnceOf(m)'
<1>1. Size[m] = 1 /\ m \in Msgs /\ m \in Holders /\ tries' = tries /\ ev[m] = 1
  BY MsgsAssumption, OwnStep DEF OnceOf, Holders
<1>2. due' = due => LastSlips(m)' = LastSlips(m)
  BY <1>1 DEF LastSlips
<1> USE DEF streamVars, ledgerVars
<1>3. CASE Begin(m)
  <2>1. pc[m] = "waiting" /\ pc'[m] = "event" /\ UNCHANGED <<ev, due>>
    BY <1>1, <1>3 DEF Begin, TypeOK
  <2>2. LastSlips(m) = {}
    BY <2>1 DEF LastSlips, PlacesInv, SlipsFresh
  <2>3. QED
    BY <1>1, <1>2, <2>1, <2>2 DEF OnceOf
<1>4. CASE StartEvent(m)
  <2>1. pc[m] = "event" /\ pc'[m] = "run" /\ UNCHANGED <<ev, due>>
    BY <1>4 DEF StartEvent, TypeOK
  <2>2. QED
    BY <1>1, <1>2, <2>1 DEF OnceOf
<1>5. CASE EndEvent(m)
  <2>1. pc[m] = "run" /\ pc'[m] = "reply" /\ UNCHANGED <<ev, res, due>>
    BY <1>1, <1>5 DEF EndEvent, TypeOK
  <2>2. QED
    BY <1>1, <1>2, <2>1 DEF OnceOf
<1>6. CASE Reply(m)
  <2>1. pc'[m] = "idle" /\ ev'[m] = 1
    BY <1>6 DEF Reply, TypeOK
  <2>2. QED
    BY <2>1 DEF OnceOf
<1>7. CASE FinishActions(m)
  <2>1. PICK outcome \in {"ok", "fail"} : Settle(m, outcome) /\ Merge(m, outcome)
    BY <1>7 DEF FinishActions
  <2>2. /\ pc[m] = "act" /\ pc'[m] = "run" /\ UNCHANGED <<ev, due>>
    BY <1>7 DEF FinishActions, TypeOK
  <2>3. res'[m] = IF res[m] = "ok" THEN "ok" ELSE outcome
    BY <2>1 DEF Merge, TypeOK
  <2>4. outcome = "fail" => held[m] \subseteq AllLost'
    <3>1. SUFFICES ASSUME outcome = "fail" PROVE held[m] \subseteq AllLost'
      OBVIOUS
    <3>2. Lose("action", held[m]) /\ "action" \in Reasons
      BY <2>1, <3>1 DEF Settle, Reasons
    <3>3. held[m] \subseteq lost'["action"]
      BY <3>2 DEF Lose, TypeOK
    <3>4. QED
      BY <3>2, <3>3 DEF AllLost
  <2>5. QED
    BY <1>1, <1>2, <2>2, <2>3, <2>4 DEF OnceOf
<1>8. CASE TakeBatch(m)
  <2>1. /\ pc[m] = "flush" /\ pc'[m] = "act" /\ UNCHANGED <<ev, res, due>>
        /\ held'[m] = BatchOf(cur[m])
    BY <1>1, <1>8 DEF TakeBatch, Take, TypeOK
  <2>2. QED
    BY <1>1, <1>2, <2>1 DEF OnceOf, BatchOf
<1>9. ~TakeBatchFails(m) /\ \A h \in Handlers : ~AddToBatchFails(m, h)
  BY DEF TakeBatchFails, TakeFails, AddToBatchFails
<1>10. ASSUME NEW h \in Handlers, ActNow(m, h) PROVE OnceOf(m)'
  <2>1. /\ NextHandler(m, h) /\ pc'[m] = "act" /\ UNCHANGED <<ev, res>>
        /\ held'[m] = {SlipOf(m, h)} /\ pc[m] = "run"
    BY <1>1, <1>10 DEF ActNow, NextHandler, TypeOK
  <2>2. LastSlips(m)' = LastSlips(m) \cup {SlipOf(m, h)}
    BY <1>1, <2>1, LastOffered
  <2>3. QED
    BY <1>1, <2>1, <2>2 DEF OnceOf
<1>11. ASSUME NEW h \in Handlers, AddToBatch(m, h) PROVE OnceOf(m)'
  <2>1. /\ NextHandler(m, h) /\ pc[m] = "run" /\ UNCHANGED ev /\ SlipOf(m, h) \in queue'
    BY <1>11 DEF AddToBatch, NextHandler, Push
  <2>2. /\ LastSlips(m)' = LastSlips(m) \cup {SlipOf(m, h)} /\ SlipOf(m, h).h = h
    BY <1>1, <2>1, LastOffered
  <2>3. \/ pc'[m] = "flush" /\ cur'[m] = h /\ res' = res
        \/ pc'[m] = "run" /\ res'[m] = "ok"
    BY <1>1, <1>11, <2>1 DEF AddToBatch, Merge, TypeOK
  <2>4. QED
    BY <1>1, <2>1, <2>2, <2>3 DEF OnceOf
<1>12. QED
  BY <1>3, <1>4, <1>5, <1>6, <1>7, <1>8, <1>9, <1>10, <1>11 DEF TaskStep

\* Every step keeps it for all messages, if no answer to the stream is lost.
LEMMA OnceStep ==
  ASSUME TypeOK, PlacesInv, FlushInv, OnceInv, [Next]_vars,
         "redis" \notin Env, "ack" \notin Env, "crash" \notin Env
  PROVE  OnceInv'
<1>1. AllLost \subseteq AllLost' /\ due \subseteq due'
  BY PlacesStep DEF Grows
<1>2. \A p \in due : p.m \in Msgs /\ p.k \in Nat /\ tries[p.m] \in Nat /\ p.k <= tries[p.m]
  BY DEF TypeOK, Slip, PlacesInv, SlipsFresh
<1>3. CASE Aside
  <2>1. UNCHANGED <<due, tries, sub>>
    BY <1>3 DEF Aside
  <2>2. ASSUME NEW n \in Msgs \ Wrapped PROVE OnceOf(n)'
    <3>1. LastSlips(n)' = LastSlips(n)
      BY <2>1 DEF LastSlips
    <3>2. QED
      BY <1>1, <1>3, <3>1, OnceStays DEF Aside, OnceInv
  <2>3. QED
    BY <1>1, <2>1, <2>2 DEF OnceInv
<1>4. CASE FetchRound
  <2>1. /\ UNCHANGED <<ev, cur, res, queue, due, held>>
        /\ \A n \in Msgs : tries'[n] = tries[n] => sub'[n] = sub[n] /\ pc'[n] = pc[n]
    BY <1>4, FetchEffect
  <2>2. \A n \in Msgs : tries'[n] # tries[n] =>
          LastSlips(n)' = {} /\ sub[n] = "ready" /\ sub'[n] = "out" /\ pc'[n] = "waiting"
    BY <1>4, LastFetched DEF PlacesInv
  <2>3. ASSUME NEW n \in Msgs \ Wrapped PROVE OnceOf(n)'
    <3>1. CASE tries'[n] = tries[n]
      <4>1. LastSlips(n)' = LastSlips(n)
        BY <2>1, <3>1 DEF LastSlips
      <4>2. QED
        BY <1>1, <2>1, <3>1, <4>1, OnceStays DEF OnceInv
    <3>2. CASE tries'[n] # tries[n]
      BY <2>1, <2>2, <3>2 DEF OnceInv, OnceOf
    <3>3. QED
      BY <3>1, <3>2
  <2>4. \A p \in due' : p.k < tries'[p.m] => p \in AllLost'
    <3>1. SUFFICES ASSUME NEW p \in due, p.k < tries'[p.m] PROVE p \in AllLost
      BY <1>1, <2>1
    <3>2. CASE tries'[p.m] = tries[p.m]
      BY <3>1, <3>2 DEF OnceInv
    <3>3. CASE tries'[p.m] # tries[p.m]
      BY <1>2, <2>2, <3>3 DEF OnceInv
    <3>4. QED
      BY <3>2, <3>3
  <2>5. \A n \in Msgs : sub'[n] = "ready" => \A p \in due' : p.m = n => p \in AllLost'
    BY <1>1, <2>1, <2>2 DEF OnceInv
  <2>6. QED
    BY <2>3, <2>4, <2>5 DEF OnceInv
<1>5. ~Crash
  BY DEF Crash
<1>6. ASSUME NEW m \in Msgs, TaskStep(m) PROVE OnceInv'
  <2>1. /\ tries' = tries
        /\ \A n \in Msgs : n # m =>
             /\ pc'[n] = pc[n] /\ ev'[n] = ev[n] /\ cur'[n] = cur[n] /\ res'[n] = res[n]
             /\ sub'[n] = sub[n] /\ held'[n] = held[n]
        /\ \A p : p \in due' /\ p \notin due => p.m = m
    BY <1>6, OwnStep
  <2>2. ASSUME NEW n \in Msgs \ Wrapped PROVE OnceOf(n)'
    <3>1. CASE n = m
      BY <1>1, <1>6, <3>1, OnceTask DEF OnceInv
    <3>2. CASE n # m
      <4>1. LastSlips(n)' = LastSlips(n)
        BY <1>1, <2>1, <3>2, LastSame
      <4>2. QED
        BY <1>1, <2>1, <3>2, <4>1, OnceStays DEF OnceInv
    <3>3. QED
      BY <3>1, <3>2
  <2>3. \A p \in due' \ due : p.m = m /\ p.k = tries[m]
    <3>1. \A h \in Handlers : SlipOf(m, h).m = m /\ SlipOf(m, h).k = tries[m]
      BY DEF SlipOf
    <3>2. due' = due \/ \E h \in Handlers : due' = due \cup {SlipOf(m, h)}
      BY <1>6
      DEF TaskStep, Begin, StartEvent, EndEvent, Reply, FinishActions, TakeBatch,
          TakeBatchFails, ActNow, AddToBatch, AddToBatchFails, NextHandler, ledgerVars
    <3>3. QED
      BY <3>1, <3>2
  <2>4. \A p \in due' : p.k < tries'[p.m] => p \in AllLost'
    <3>1. tries[m] \in Nat
      BY DEF TypeOK
    <3>2. \A p \in due : p.k < tries[p.m] => p \in AllLost
      BY DEF OnceInv
    <3>3. QED
      BY <1>1, <2>1, <2>3, <3>1, <3>2
  <2>5. CASE Reply(m)
    <3>1. due' = due /\ pc[m] = "reply"
      BY <2>5 DEF Reply, ledgerVars
    <3>2. sub'[m] = "ready" => m \notin Wrapped /\ res[m] = "fail"
      BY <2>5 DEF Reply, Verdict, TypeOK
    <3>3. sub'[m] = "ready" => \A p \in due : p.m = m => p \in AllLost
      <4>1. SUFFICES ASSUME sub'[m] = "ready", NEW p \in due, p.m = m PROVE p \in AllLost
        OBVIOUS
      <4>2. p.k < tries[m] => p \in AllLost
        BY <4>1 DEF OnceInv
      <4>3. p.k = tries[m] => p \in LastSlips(m)
        BY <4>1 DEF LastSlips
      <4>4. OnceOf(m)
        BY <3>2, <4>1 DEF OnceInv
      <4>5. p \in LastSlips(m) => p \in AllLost
        BY <3>1, <3>2, <4>1, <4>4 DEF OnceOf
      <4>6. QED
        BY <1>2, <4>1, <4>2, <4>3, <4>5
    <3>4. \A n \in Msgs : sub'[n] = "ready" => \A p \in due' : p.m = n => p \in AllLost'
      BY <1>1, <2>1, <3>1, <3>3 DEF OnceInv
    <3>5. QED
      BY <2>2, <2>4, <3>4 DEF OnceInv
  <2>6. CASE ~Reply(m)
    <3>1. sub'[m] = sub[m] /\ pc[m] # "idle"
      BY <1>6, <2>6
      DEF TaskStep, Begin, StartEvent, EndEvent, FinishActions, TakeBatch,
          TakeBatchFails, ActNow, AddToBatch, AddToBatchFails, NextHandler, streamVars
    <3>2. sub'[m] = "out"
      BY <3>1 DEF PlacesInv, TaskOwnsMessage
    <3>3. \A n \in Msgs : sub'[n] = "ready" => \A p \in due' : p.m = n => p \in AllLost'
      BY <1>1, <2>1, <3>2 DEF OnceInv
    <3>4. QED
      BY <2>2, <2>4, <3>3 DEF OnceInv
  <2>7. QED
    BY <2>5, <2>6
<1>7. QED
  BY <1>3, <1>4, <1>5, <1>6, StepKinds

\* As long as Redis answers, answers to the stream arrive and the process does
\* not die, no handler executes an event twice: a message is delivered again
\* only when everything its last delivery was offered to was given up, whatever
\* flushes, sweeps, clears, edits and failing actions happen in between.
THEOREM EventsExecutedOnce ==
  ASSUME "redis" \notin Env, "ack" \notin Env, "crash" \notin Env
  PROVE  Spec => []ExecutedOnce
<1>1. Init => OnceInv
  BY DEF Init, OnceInv, OnceOf
<1>2. TypeOK /\ PlacesInv /\ FlushInv /\ OnceInv /\ [Next]_vars => OnceInv'
  BY OnceStep
<1>3. TypeOK /\ PlacesInv /\ OnceInv => ExecutedOnce
  <2> SUFFICES ASSUME TypeOK, PlacesInv, OnceInv, NEW p \in done, NEW q \in done, p.m = q.m
               PROVE  p.k = q.k
    BY DEF ExecutedOnce
  <2>1. /\ p \in due /\ q \in due /\ p \notin AllLost /\ q \notin AllLost
    BY DEF PlacesInv, OnePlace
  <2>2. p.k <= tries[p.m] /\ q.k <= tries[p.m] /\ ~(p.k < tries[p.m]) /\ ~(q.k < tries[p.m])
    BY <2>1 DEF PlacesInv, SlipsFresh, OnceInv
  <2>3. p.k \in Nat /\ q.k \in Nat /\ tries[p.m] \in Nat
    BY <2>1 DEF TypeOK, Slip
  <2>4. QED
    BY <2>2, <2>3
<1>4. QED
  BY <1>1, <1>2, <1>3, TypeCorrect, PlacesCorrect, FlushingAlone, PTL DEF Spec

=============================================================================
