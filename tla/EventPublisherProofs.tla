------------------------- MODULE EventPublisherProofs -------------------------
(***************************************************************************)
(* Proofs about EventPublisher, for every number of events and subjects,   *)
(* every size and timeout of a batch, any number of attempts and faults.   *)
(***************************************************************************)
EXTENDS EventPublisher, SequenceTheorems, TLAPS

\* The awaits of a process that has a message to send.
Sending == {"start", "dial", "flight", "cut", "dead", "pause", "pauseLost"}

InBatch == {batch[i] : i \in 1..Len(batch)}

\* The bound on the age in the model is beyond any age that matters.
LEMMA MaxAgeType == MaxAge \in Nat /\ MaxAge >= BatchTimeout /\ MaxAge > 0
<1>1. BatchSize \in Nat /\ BatchTimeout \in Nat /\ BatchSize > 1 /\ BatchTimeout > 0
  BY PublisherAssumption
<1>2. BatchSize * BatchTimeout \in Nat /\ BatchSize * BatchTimeout >= BatchTimeout
  BY <1>1
<1>3. QED
  BY <1>1, <1>2 DEF MaxAge

\* Someone who is in the system is not nobody.
LEMMA SomeBody == Nobody \notin Processes /\ Events \subseteq Processes
                  /\ Processor \in Processes /\ Processor \notin Events
BY PublisherAssumption DEF Processes

\* With the lock in hand a process opens the batch, adds to it, begins to
\* publish it or leaves it.
LEMMA WithLockType ==
  ASSUME TypeOK, NEW p \in Processes, WithLock(p)
  PROVE  /\ at' \in [Processes -> Places]
         /\ batch' \in Seq(Events) /\ accepted' \in Seq(Events)
         /\ age' \in 0..MaxAge /\ nap' \in 0..BatchTimeout
         /\ holder' \in {holder, p}
         /\ out' \in [Processes -> SUBSET Events]
         /\ tries' \in [Processes -> 0..(Attempts - 1)]
<1> USE PublisherAssumption, MaxAgeType
<1>1. \A q \in Processes : \A w \in Places : Stands(q, w) => at' \in [Processes -> Places]
  BY DEF Stands, TypeOK
<1>2. \A events \in SUBSET Events : BeginPublish(p, events) =>
        /\ at' \in [Processes -> Places] /\ holder' = p
        /\ out' \in [Processes -> SUBSET Events]
        /\ tries' \in [Processes -> 0..(Attempts - 1)]
  BY <1>1 DEF BeginPublish, TypeOK, Places
<1>3. CASE p = Processor
  <2>1. ToSet(batch) \in SUBSET Events
    BY DEF ToSet, TypeOK
  <2>2. CASE Aged
    BY <1>2, <1>3, <2>1, <2>2 DEF WithLock, CheckAge, TypeOK
  <2>3. CASE ~Aged
    BY <1>1, <1>3, <2>3 DEF WithLock, CheckAge, TypeOK, Places, sendVars
  <2>4. QED
    BY <2>2, <2>3
<1>4. CASE p \in Events
  <2>1. p # Processor
    BY <1>4
  <2>2. batch' \in Seq(Events) /\ accepted' \in Seq(Events)
    <3>1. batch' = Append(batch, p) /\ accepted' = Append(accepted, p)
      BY <2>1 DEF WithLock, PutInBatch
    <3>2. QED
      BY <1>4, <3>1, AppendProperties DEF TypeOK
  <2>3. ToSet(batch') \in SUBSET Events
    BY <2>2 DEF ToSet
  <2>4. CASE batch = <<>>
    BY <1>1, <1>4, <2>1, <2>2, <2>4
       DEF WithLock, PutInBatch, Wake, TypeOK, Places, sendVars
  <2>5. CASE batch # <<>> /\ Len(batch') >= BatchSize
    BY <1>2, <2>1, <2>2, <2>3, <2>5 DEF WithLock, PutInBatch, TypeOK
  <2>6. CASE batch # <<>> /\ ~(Len(batch') >= BatchSize)
    <3>1. /\ nap' = 0 /\ Stands(p, "done")
          /\ holder' = holder /\ out' = out /\ tries' = tries /\ age' = age
      BY <2>1, <2>6 DEF WithLock, PutInBatch, Wake, sendVars
    <3>2. at' \in [Processes -> Places]
      BY <1>1, <3>1 DEF Places
    <3>3. QED
      BY <2>2, <3>1, <3>2 DEF TypeOK
  <2>7. QED
    BY <2>4, <2>5, <2>6
<1>5. QED
  BY <1>3, <1>4 DEF Processes

\* So does a step for the lock.
LEMMA LockStepType ==
  ASSUME TypeOK,
         (\E e \in Events : Publish(e)) \/ WaitTimesOut \/ Enter
  PROVE  TypeOK'
<1>1. ASSUME NEW p \in Processes, Acquire(p), UNCHANGED <<linkVars, historyVars>>
      PROVE  TypeOK'
  <2>1. CASE holder = Nobody /\ waiters = <<>>
    BY <1>1, <2>1, WithLockType, SomeBody DEF Acquire, linkVars, historyVars, TypeOK
  <2>2. CASE ~(holder = Nobody /\ waiters = <<>>)
    <3>1. waiters' = Append(waiters, p) /\ at' = [at EXCEPT ![p] = "lock"]
      BY <1>1, <2>2 DEF Acquire, Stands
    <3>2. waiters' \in Seq(Processes) /\ at' \in [Processes -> Places]
      BY <3>1, AppendProperties DEF TypeOK, Places
    <3>3. QED
      BY <1>1, <2>2, <3>2 DEF Acquire, sendVars, linkVars, historyVars, TypeOK
  <2>3. QED
    BY <2>1, <2>2
<1>2. CASE Enter
  <2>1. Head(waiters) \in Processes /\ Tail(waiters) \in Seq(Processes)
    BY <1>2 DEF Enter, TypeOK
  <2>2. QED
    BY <1>2, <2>1, WithLockType DEF Enter, linkVars, historyVars, TypeOK
<1>3. QED
  BY <1>1, <1>2, SomeBody DEF Publish, WaitTimesOut

-----------------------------------------------------------------------------
(* What a step of a sending process does *)

\* It goes on with its message, which may have been stored.
GoesOn(p) ==
  /\ UNCHANGED <<out, nap, batch, holder, dropped>>
  /\ Stores(p, TRUE) \/ Stores(p, FALSE)
  /\ at' \in [Processes -> Places] /\ at'[p] \in Sending
  /\ \A q \in Processes \ {p} : at'[q] = at[q] \/ (at[q] = "flight" /\ at'[q] = "cut")

\* It is done with it: the message is acknowledged, or given up.
MessageOver(p) ==
  /\ NextMessage(p)
  /\ \/ /\ dropped' = dropped \cup Message(p)
        /\ Stores(p, TRUE) \/ Stores(p, FALSE)
     \/ UNCHANGED <<dropped, unsure>> /\ stored' = Plus(stored, Message(p))

LinkOK ==
  /\ nc \in {"none", "dialing", "open", "closed"}
  /\ connected \in BOOLEAN /\ cooling \in BOOLEAN
  /\ dialer \in Processes \cup {Nobody} /\ faults \in 0..MaxFaults
  /\ tries \in [Processes -> 0..(Attempts - 1)]

\* The cases of the end of a message, one by one.
LEMMA NextMessageCases ==
  ASSUME NEW p \in Processes, NextMessage(p)
  PROVE  /\ out' = [out EXCEPT ![p] = Rest(p)] /\ tries' = [tries EXCEPT ![p] = 0]
         /\ UNCHANGED <<age, waiters, accepted>>
         /\ Rest(p) # {} => Stands(p, "start") /\ UNCHANGED <<nap, batch, holder>>
         /\ Rest(p) = {} /\ p = Processor => Stands(p, "wait") /\ nap' = 0 /\ Released
         /\ Rest(p) = {} /\ p \in Direct => Stands(p, "done") /\ UNCHANGED <<nap, batch, holder>>
         /\ Rest(p) = {} /\ p # Processor /\ p \notin Direct =>
              Stands(p, "done") /\ nap' = 0 /\ Released
BY PublisherAssumption DEF NextMessage, Wake

\* Copies are counted.
LEMMA PlusType ==
  ASSUME NEW count \in [Events -> Nat], NEW S
  PROVE  Plus(count, S) \in [Events -> Nat]
BY DEF Plus

\* A failed attempt is given up, or starts a pause.
LEMMA RetryEffect ==
  ASSUME TypeOK, NEW p \in Processes, NEW pause \in {"pause", "pauseLost"},
         Retry(p, pause), Stores(p, TRUE) \/ Stores(p, FALSE)
  PROVE  /\ GoesOn(p) \/ MessageOver(p)
         /\ tries' \in [Processes -> 0..(Attempts - 1)]
         /\ UNCHANGED <<accepted, waiters, age>>
<1> USE PublisherAssumption
<1>1. CASE OutOfTries(p)
  <2>1. MessageOver(p)
    BY <1>1 DEF Retry, GiveUp, MessageOver
  <2>2. tries' = [tries EXCEPT ![p] = 0] /\ UNCHANGED <<accepted, waiters, age>>
    BY <2>1, NextMessageCases DEF MessageOver
  <2>3. tries' \in [Processes -> 0..(Attempts - 1)]
    BY <2>2 DEF TypeOK
  <2>4. QED
    BY <2>1, <2>2, <2>3
<1>2. CASE ~OutOfTries(p)
  <2>1. Stands(p, pause) /\ tries' = [tries EXCEPT ![p] = @ + 1]
        /\ UNCHANGED <<out, nap, batch, age, holder, waiters, accepted, dropped>>
    BY <1>2 DEF Retry
  <2>2. tries' \in [Processes -> 0..(Attempts - 1)]
    BY <1>2, <2>1 DEF OutOfTries, TypeOK
  <2>3. /\ at' \in [Processes -> Places] /\ at'[p] \in Sending
        /\ \A q \in Processes \ {p} : at'[q] = at[q]
    BY <2>1 DEF Stands, TypeOK, Places, Sending
  <2>4. QED
    BY <2>1, <2>2, <2>3 DEF GoesOn
<1>3. QED
  BY <1>1, <1>2

\* A message that is given up without an attempt.
LEMMA GiveUpEffect ==
  ASSUME TypeOK, NEW p \in Processes, GiveUp(p), UNCHANGED <<stored, unsure>>
  PROVE  /\ MessageOver(p) /\ UNCHANGED <<accepted, waiters, age>>
         /\ tries' \in [Processes -> 0..(Attempts - 1)]
BY PublisherAssumption DEF GiveUp, MessageOver, NextMessage, Stores, TypeOK

\* A process that moves on to another await.
LEMMA StandsEffect ==
  ASSUME TypeOK, NEW p \in Processes, NEW w \in Sending, Stands(p, w),
         UNCHANGED <<out, nap, batch, holder, dropped, stored, unsure>>
  PROVE  GoesOn(p)
BY DEF Stands, GoesOn, Stores, TypeOK, Places, Sending

\* Every step of a sending process is one of the two, and keeps the ranges of
\* the connection.
LEMMA SendEffect ==
  ASSUME TypeOK, NEW p \in Processes, SendStep(p)
  PROVE  /\ at[p] \in Sending /\ LinkOK' /\ UNCHANGED <<accepted, waiters, age>>
         /\ GoesOn(p) \/ MessageOver(p)
<1> USE PublisherAssumption
    DEF batchVars, sendVars, linkVars, historyVars
<1>1. CASE Reuse(p)
  <2>1. \E w \in {"flight", "dead"} : Stands(p, w)
    BY <1>1 DEF Reuse, Send
  <2>2. QED
    BY <1>1, <2>1, StandsEffect DEF Reuse, LinkOK, TypeOK, Sending
<1>2. CASE TooEarly(p)
  <2>1. CASE tries[p] = 0
    BY <1>2, <2>1, GiveUpEffect DEF TooEarly, NoConnection, LinkOK, TypeOK, Sending
  <2>2. CASE tries[p] # 0
    <3>1. \E w \in {"flight", "dead"} : Stands(p, w)
      BY <1>2, <2>2 DEF TooEarly, NoConnection, Send
    <3>2. QED
      BY <1>2, <2>2, <3>1, StandsEffect DEF TooEarly, NoConnection, LinkOK, TypeOK, Sending
  <2>3. QED
    BY <2>1, <2>2
<1>3. CASE Dial(p)
  <2>1. /\ at' \in [Processes -> Places] /\ at'[p] \in Sending
        /\ \A q \in Processes \ {p} :
             at'[q] = at[q] \/ (at[q] = "flight" /\ at'[q] = "cut")
    BY <1>3 DEF Dial, TypeOK, Places, Sending
  <2>2. QED
    BY <1>3, <2>1 DEF Dial, GoesOn, Stores, LinkOK, TypeOK, Sending
<1>4. CASE DialSucceeds(p)
  BY <1>4, StandsEffect DEF DialSucceeds, LinkOK, TypeOK, Sending
<1>5. CASE DialFails(p)
  <2>1. faults' \in 0..MaxFaults
    BY <1>5 DEF DialFails, TypeOK
  <2>2. CASE tries[p] = 0
    BY <1>5, <2>1, <2>2, GiveUpEffect DEF DialFails, LinkOK, TypeOK, Sending
  <2>3. CASE tries[p] # 0
    BY <1>5, <2>1, <2>3, StandsEffect DEF DialFails, LinkOK, TypeOK, Sending
  <2>4. QED
    BY <2>2, <2>3
<1>6. CASE Acked(p)
  BY <1>6 DEF Acked, MessageOver, NextMessage, LinkOK, TypeOK, Sending
<1>7. CASE AttemptFails(p)
  <2>1. faults' \in 0..MaxFaults
    BY <1>7 DEF AttemptFails, TypeOK
  <2>2. PICK pause \in {"pause", "pauseLost"} : Retry(p, pause)
    BY <1>7 DEF AttemptFails
  <2>3. Stores(p, TRUE) \/ Stores(p, FALSE)
    BY <1>7 DEF AttemptFails
  <2>4. QED
    BY ZenonT(60), <1>7, <2>1, <2>2, <2>3, RetryEffect DEF AttemptFails, LinkOK, TypeOK, Sending
<1>8. CASE AttemptCut(p)
  <2>1. Stores(p, TRUE) \/ Stores(p, FALSE)
    BY <1>8 DEF AttemptCut
  <2>2. QED
    BY <1>8, <2>1, RetryEffect DEF AttemptCut, LinkOK, TypeOK, Sending
<1>9. CASE TryAgain(p)
  <2>1. \E w \in {"flight", "dead", "start"} : Stands(p, w)
    BY <1>9 DEF TryAgain, Send
  <2>2. QED
    BY <1>9, <2>1, StandsEffect DEF TryAgain, LinkOK, TypeOK, Sending
<1>10. QED
  BY <1>1, <1>2, <1>3, <1>4, <1>5, <1>6, <1>7, <1>8, <1>9 DEF SendStep

\* The next message is one of those that are left.
LEMMA MessageLeft ==
  ASSUME NEW p PROVE Message(p) \subseteq out[p] /\ Rest(p) = out[p] \ Message(p)
BY DEF Message, Rest

\* The end of a message keeps every variable in its range.
LEMMA NextMessageType ==
  ASSUME TypeOK, NEW p \in Processes, NextMessage(p)
  PROVE  /\ at' \in [Processes -> Places] /\ batch' \in Seq(Events)
         /\ holder' \in Processes \cup {Nobody} /\ nap' \in 0..BatchTimeout
         /\ out' \in [Processes -> SUBSET Events]
<1> USE PublisherAssumption
<1>1. out' \in [Processes -> SUBSET Events]
  <2>1. Rest(p) \in SUBSET Events /\ out' = [out EXCEPT ![p] = Rest(p)]
    BY MessageLeft, NextMessageCases DEF TypeOK
  <2>2. QED
    BY <2>1 DEF TypeOK
<1>2. \A w \in Places : Stands(p, w) => at' \in [Processes -> Places]
  BY DEF Stands, TypeOK
<1>3. \/ UNCHANGED <<nap, batch, holder>>
      \/ nap' = 0 /\ batch' = <<>> /\ holder' = Nobody
  BY NextMessageCases DEF Released
<1>4. nap' \in 0..BatchTimeout /\ holder' \in Processes \cup {Nobody}
  BY <1>3 DEF TypeOK
<1>5. batch' \in Seq(Events)
  <2>1. batch' = batch \/ batch' = << >>
    BY <1>3
  <2>2. << >> \in Seq(Events)
    BY EmptySeq
  <2>3. QED
    BY <2>1, <2>2 DEF TypeOK
<1>6. at' \in [Processes -> Places]
  BY <1>2, NextMessageCases DEF Places
<1>7. QED
  BY <1>1, <1>4, <1>5, <1>6

\* Storing counts in naturals.
LEMMA StoresType ==
  ASSUME TypeOK, NEW p, NEW copy \in BOOLEAN, Stores(p, copy)
  PROVE  stored' \in [Events -> Nat] /\ unsure' \in [Events -> Nat]
BY PlusType DEF Stores, TypeOK

\* The steps of a send keep every variable in its range.
LEMMA SendType ==
  ASSUME TypeOK, NEW p \in Processes, SendStep(p)
  PROVE  TypeOK'
<1>1. LinkOK' /\ UNCHANGED <<accepted, waiters, age>>
  BY SendEffect
<1>2. CASE GoesOn(p)
  BY <1>1, <1>2, StoresType DEF GoesOn, LinkOK, TypeOK
<1>3. CASE MessageOver(p)
  <2>1. stored' \in [Events -> Nat] /\ unsure' \in [Events -> Nat]
    BY ZenonT(60), <1>3, StoresType, PlusType DEF MessageOver, TypeOK
  <2>2. dropped' \subseteq Events
    BY <1>3, MessageLeft DEF MessageOver, TypeOK
  <2>3. QED
    BY <1>1, <1>3, <2>1, <2>2, NextMessageType DEF MessageOver, LinkOK, TypeOK
<1>4. QED
  BY <1>2, <1>3, SendEffect

\* Every step keeps the ranges.
LEMMA StepType == TypeOK /\ [Next]_vars => TypeOK'
<1> SUFFICES ASSUME TypeOK, [Next]_vars PROVE TypeOK'
  OBVIOUS
<1> USE PublisherAssumption DEF batchVars, sendVars, linkVars, historyVars
<1>1. ASSUME NEW e \in Events, PublishImmediate(e) PROVE TypeOK'
  <2>1. at' \in [Processes -> Places] /\ out' \in [Processes -> SUBSET Events]
    BY <1>1, SomeBody DEF PublishImmediate, Stands, TypeOK, Places
  <2>2. QED
    BY <1>1, <2>1 DEF PublishImmediate, TypeOK
<1>2. CASE Tick
  <2>1. nap' \in 0..BatchTimeout /\ age' \in 0..MaxAge
    BY <1>2, MaxAgeType DEF Tick, TypeOK
  <2>2. QED
    BY <1>2, <2>1 DEF Tick, TypeOK
<1>3. CASE CoolsDown
  BY <1>3 DEF CoolsDown, TypeOK
<1>4. CASE LinkDies
  BY <1>4 DEF LinkDies, TypeOK, Places
<1>5. CASE UNCHANGED vars
  BY <1>5 DEF vars, TypeOK
<1>6. QED
  BY <1>1, <1>2, <1>3, <1>4, <1>5, LockStepType, SendType DEF Next

-----------------------------------------------------------------------------
(* The inductive invariants *)

\* Who has something to send holds the lock, or has only itself; who waits for
\* the lock waits once.
LockInv ==
  /\ \A p \in Processes : out[p] # {} => p = holder \/ (p \in Direct /\ out[p] = {p})
  /\ \A p \in Processes : at[p] \in Sending => p = holder \/ p \in Direct
  /\ holder # Nobody =>
       holder \notin Direct /\ at[holder] \in Sending /\ out[holder] \subseteq InBatch
  /\ \A i \in 1..Len(waiters) : waiters[i] \notin Direct /\ at[waiters[i]] = "lock"
  /\ \A i, j \in 1..Len(waiters) : waiters[i] = waiters[j] => i = j
  /\ at[Processor] \in {"wait", "lock"} \cup Sending
  /\ \A e \in Events : at[e] # "wait"

\* A batch that waits to be published is as old as the waits of the background
\* task make it: a wait that is not restarted ends with a batch that is due.
AgeInv ==
  holder = Nobody /\ batch # <<>> =>
    /\ at[Processor] = "wait" =>
         nap <= age /\ age <= (Len(batch) - 1) * BatchTimeout + nap
    /\ at[Processor] = "lock" =>
         (age = 0 \/ age >= BatchTimeout) /\ age <= Len(batch) * BatchTimeout

\* Without a fault the connection is made once, and every message finds it.
LinkInv ==
  faults = 0 =>
    /\ dropped = {}
    /\ nc # "closed"
    /\ nc = "none" => ~connected /\ ~cooling /\ dialer = Nobody
    /\ nc = "dialing" => ~connected /\ dialer # Nobody
    /\ nc = "open" => connected
    /\ \A p \in Processes :
         /\ at[p] \notin {"cut", "dead", "pause", "pauseLost"}
         /\ at[p] = "flight" => nc = "open"

\* The events taken before those of the current batch.
Earlier == 1..(Len(accepted) - Len(batch))

\* An event that was not yet taken, or begun, has no copies.
Untouched(e) == stored[e] = 0 /\ unsure[e] = 0

Mates(e, f) == SubjectOf[e] = SubjectOf[f]

\* The batch is what was taken last, each event once.
OrderInv ==
  /\ \A i \in 1..Len(accepted) :
       accepted[i] \notin Direct /\ at[accepted[i]] \notin {"new", "lock"}
  /\ \A i, j \in 1..Len(accepted) : accepted[i] = accepted[j] => i = j
  /\ Len(batch) <= Len(accepted)
  /\ \A i \in 1..Len(batch) : batch[i] = accepted[Len(accepted) - Len(batch) + i]

\* What is left to send has one copy less than what is sent; what is sent is
\* settled; and the events of a subject in a batch have the same fate.
LedgerInv ==
  /\ \A e \in Events : at[e] \in {"new", "lock"} => Untouched(e)
  /\ holder = Nobody => \A e \in InBatch : Untouched(e)
  /\ \A p \in Processes : \A e \in out[p] : stored[e] <= unsure[e]
  /\ CopiesJustified
  /\ \A i \in Earlier : Settled(accepted[i])
  /\ holder # Nobody =>
       /\ \A e \in InBatch \ out[holder] : Settled(e)
       /\ \A e, f \in InBatch : Mates(e, f) =>
            (e \in out[holder] <=> f \in out[holder]) /\ stored[e] = stored[f]

-----------------------------------------------------------------------------
(* What a step for the lock does *)

\* A process queues for the lock ...
Queues(p) ==
  /\ waiters' = Append(waiters, p) /\ at' = [at EXCEPT ![p] = "lock"]
  /\ UNCHANGED <<nap, batch, age, holder, accepted, out>>

\* ... or enters at once, or as the first that waits.
Turn(p) ==
  /\ holder = Nobody
  /\ \/ waiters = << >> /\ waiters' = waiters /\ at[p] \in {"new", "wait"}
        /\ (p = Processor => nap >= BatchTimeout)
     \/ waiters # << >> /\ p = Head(waiters) /\ waiters' = Tail(waiters) /\ at[p] = "lock"

\* An event is added to the batch.
Adds(e) ==
  /\ e \in Events /\ batch' = Append(batch, e) /\ accepted' = Append(accepted, e)
  /\ \/ /\ at' = [at EXCEPT ![e] = "done"] /\ nap' = 0 /\ UNCHANGED <<holder, out>>
        /\ age' = IF batch = << >> THEN 0 ELSE age
     \/ /\ at' = [at EXCEPT ![e] = "start"] /\ holder' = e
        /\ out' = [out EXCEPT ![e] = InBatch'] /\ UNCHANGED <<age, nap>>

\* The background task looks at the batch.
Checks ==
  /\ UNCHANGED <<batch, age, accepted>>
  /\ \/ /\ Aged /\ at' = [at EXCEPT ![Processor] = "start"] /\ holder' = Processor
        /\ out' = [out EXCEPT ![Processor] = InBatch] /\ UNCHANGED nap
     \/ /\ ~Aged /\ at' = [at EXCEPT ![Processor] = "wait"] /\ nap' = 0
        /\ UNCHANGED <<holder, out>>

\* The events of a batch, by position.
LEMMA BatchSet ==
  ASSUME NEW q \in Seq(Events) PROVE ToSet(q) = {q[i] : i \in 1..Len(q)}
BY LenProperties DEF ToSet

\* What a process does once it has the batch lock.
LEMMA WithLockEffect ==
  ASSUME TypeOK, NEW p \in Processes, WithLock(p)
  PROVE  Adds(p) \/ (p = Processor /\ Checks)
<1>1. CASE p = Processor
  <2>1. ToSet(batch) = InBatch
    BY BatchSet DEF TypeOK, InBatch
  <2>2. QED
    BY <1>1, <2>1 DEF WithLock, CheckAge, BeginPublish, Stands, Checks, sendVars
<1>2. CASE p # Processor
  <2>1. p \in Events
    BY <1>2 DEF Processes
  <2>2. batch' = Append(batch, p) /\ accepted' = Append(accepted, p)
    BY <1>2 DEF WithLock, PutInBatch
  <2>3. batch' \in Seq(Events)
    BY <2>1, <2>2, AppendProperties DEF TypeOK
  <2>4. ToSet(batch') = InBatch'
    BY <2>3, BatchSet DEF InBatch
  <2>5. QED
    BY <1>2, <2>1, <2>2, <2>4
       DEF WithLock, PutInBatch, BeginPublish, Wake, Stands, Adds, sendVars
<1>3. QED
  BY <1>1, <1>2

\* Every step that may take the batch lock queues for it or has it.
LEMMA LockEffect ==
  ASSUME TypeOK, LockInv, (\E e \in Events : Publish(e)) \/ WaitTimesOut \/ Enter
  PROVE  /\ UNCHANGED <<linkVars, historyVars>>
         /\ \E p \in Processes :
              /\ p \notin Direct
              /\ \/ /\ at[p] \in {"new", "wait"} /\ Queues(p)
                    /\ (p = Processor => nap >= BatchTimeout)
                 \/ Turn(p) /\ (Adds(p) \/ (p = Processor /\ Checks))
<1>1. ASSUME NEW p \in Processes, p \notin Direct, at[p] \in {"new", "wait"},
             p = Processor => nap >= BatchTimeout,
             Acquire(p), UNCHANGED <<linkVars, historyVars>>
      PROVE  (Queues(p) \/ (Turn(p) /\ (Adds(p) \/ (p = Processor /\ Checks))))
  BY <1>1, WithLockEffect DEF Acquire, Queues, Turn, Stands, sendVars
<1>2. CASE Enter
  <2>1. Head(waiters) = waiters[1] /\ Len(waiters) \in Nat \ {0}
        /\ Head(waiters) \in Processes
    BY <1>2 DEF Enter, TypeOK
  <2>2. Head(waiters) \notin Direct /\ at[Head(waiters)] = "lock"
    BY <2>1 DEF LockInv
  <2>3. QED
    BY <1>2, <2>1, <2>2, WithLockEffect DEF Enter, Turn
<1>3. CASE WaitTimesOut
  <2>1. Processor \in Processes /\ Processor \notin Direct
    BY SomeBody, PublisherAssumption
  <2>2. QED
    BY <1>1, <1>3, <2>1 DEF WaitTimesOut
<1>4. ASSUME NEW e \in Events, Publish(e) PROVE e \in Processes /\ e # Processor
  BY SomeBody
<1>5. QED
  BY <1>1, <1>2, <1>3, <1>4 DEF Publish

\* How the batch and the queue of the lock change.
LEMMA SequenceFacts ==
  ASSUME TypeOK
  PROVE  /\ Len(batch) \in Nat /\ Len(accepted) \in Nat /\ Len(waiters) \in Nat
         /\ batch # << >> => Len(batch) > 0
         /\ \A e \in Events : batch' = Append(batch, e) =>
              /\ Len(batch') = Len(batch) + 1 /\ batch'[Len(batch) + 1] = e
              /\ \A i \in 1..Len(batch) : batch'[i] = batch[i]
              /\ InBatch' = InBatch \cup {e}
         /\ \A e \in Events : accepted' = Append(accepted, e) =>
              /\ Len(accepted') = Len(accepted) + 1 /\ accepted'[Len(accepted) + 1] = e
              /\ \A i \in 1..Len(accepted) : accepted'[i] = accepted[i]
         /\ \A p \in Processes : waiters' = Append(waiters, p) =>
              /\ Len(waiters') = Len(waiters) + 1 /\ waiters'[Len(waiters) + 1] = p
              /\ \A i \in 1..Len(waiters) : waiters'[i] = waiters[i]
         /\ waiters # << >> /\ waiters' = Tail(waiters) =>
              /\ Len(waiters') = Len(waiters) - 1 /\ Head(waiters) = waiters[1]
              /\ Len(waiters) >= 1
              /\ \A i \in 1..Len(waiters') : waiters'[i] = waiters[i + 1]
<1>1. /\ batch \in Seq(Events) /\ accepted \in Seq(Events) /\ waiters \in Seq(Processes)
  BY DEF TypeOK
<1>2. /\ Len(batch) \in Nat /\ Len(accepted) \in Nat /\ Len(waiters) \in Nat
      /\ batch # << >> => Len(batch) > 0
  BY <1>1
<1>3. \A e \in Events : batch' = Append(batch, e) =>
        /\ Len(batch') = Len(batch) + 1 /\ batch'[Len(batch) + 1] = e
        /\ \A i \in 1..Len(batch) : batch'[i] = batch[i]
  BY <1>1, AppendProperties
<1>4. \A e \in Events : accepted' = Append(accepted, e) =>
        /\ Len(accepted') = Len(accepted) + 1 /\ accepted'[Len(accepted) + 1] = e
        /\ \A i \in 1..Len(accepted) : accepted'[i] = accepted[i]
  BY <1>1, AppendProperties
<1>5. \A p \in Processes : waiters' = Append(waiters, p) =>
        /\ Len(waiters') = Len(waiters) + 1 /\ waiters'[Len(waiters) + 1] = p
        /\ \A i \in 1..Len(waiters) : waiters'[i] = waiters[i]
  BY <1>1, AppendProperties
<1>6. waiters # << >> /\ waiters' = Tail(waiters) =>
        /\ Len(waiters') = Len(waiters) - 1 /\ Head(waiters) = waiters[1]
        /\ Len(waiters) >= 1
        /\ \A i \in 1..Len(waiters') : waiters'[i] = waiters[i + 1]
  BY <1>1, HeadTailProperties
<1>7. ASSUME NEW e \in Events, batch' = Append(batch, e)
      PROVE  InBatch' = InBatch \cup {e}
  <2>1. Len(batch') = Len(batch) + 1 /\ batch'[Len(batch) + 1] = e
        /\ \A i \in 1..Len(batch) : batch'[i] = batch[i]
    BY <1>3, <1>7
  <2>2. 1..Len(batch') = 1..Len(batch) \cup {Len(batch) + 1}
    BY <1>2, <2>1
  <2>3. QED
    BY <2>1, <2>2 DEF InBatch
<1>8. QED
  BY <1>2, <1>3, <1>4, <1>5, <1>6, <1>7

-----------------------------------------------------------------------------
(* The lock *)

\* Those steps keep the lock with one process.
LEMMA LockKeepsLock ==
  ASSUME TypeOK, LockInv, (\E e \in Events : Publish(e)) \/ WaitTimesOut \/ Enter
  PROVE  LockInv'
<1> USE SomeBody, PublisherAssumption
<1>1. PICK p \in Processes :
        /\ p \notin Direct
        /\ \/ at[p] \in {"new", "wait"} /\ Queues(p)
           \/ Turn(p) /\ (Adds(p) \/ (p = Processor /\ Checks))
  BY LockEffect
<1>2. /\ at \in [Processes -> Places] /\ out \in [Processes -> SUBSET Events]
      /\ Len(waiters) \in Nat /\ \A i \in 1..Len(waiters) : waiters[i] \in Processes
  BY SMTT(30), SequenceFacts DEF TypeOK
<1>3. CASE at[p] \in {"new", "wait"} /\ Queues(p)
  <2>1. /\ at' = [at EXCEPT ![p] = "lock"] /\ UNCHANGED <<holder, out>> /\ InBatch' = InBatch
        /\ Len(waiters') = Len(waiters) + 1 /\ waiters'[Len(waiters) + 1] = p
        /\ \A i \in 1..Len(waiters) : waiters'[i] = waiters[i]
    BY <1>3, SequenceFacts DEF Queues, InBatch
  <2>2. \A i \in 1..Len(waiters) : waiters[i] # p
    BY <1>3 DEF LockInv
  <2>3. /\ \A i \in 1..Len(waiters') : waiters'[i] \notin Direct /\ at'[waiters'[i]] = "lock"
        /\ \A i, j \in 1..Len(waiters') : waiters'[i] = waiters'[j] => i = j
    BY <1>1, <1>2, <2>1, <2>2 DEF LockInv
  <2>4. QED
    BY <1>1, <1>2, <1>3, <2>1, <2>3 DEF LockInv, Sending
<1>4. CASE Turn(p) /\ (Adds(p) \/ (p = Processor /\ Checks))
  <2>1. holder = Nobody /\ at[p] \in {"new", "wait", "lock"} /\ out[p] = {}
    BY <1>1, <1>4 DEF Turn, LockInv
  <2>2. \/ at' = [at EXCEPT ![p] = "done"] /\ p \in Events /\ UNCHANGED <<holder, out>>
        \/ at' = [at EXCEPT ![p] = "wait"] /\ p = Processor /\ UNCHANGED <<holder, out>>
        \/ at' = [at EXCEPT ![p] = "start"] /\ holder' = p /\ out' = [out EXCEPT ![p] = InBatch']
    BY <1>4 DEF Adds, Checks, InBatch
  <2>3. /\ \A i \in 1..Len(waiters') : waiters'[i] \notin Direct /\ waiters'[i] \in Processes
             /\ at[waiters'[i]] = "lock" /\ waiters'[i] # p
        /\ \A i, j \in 1..Len(waiters') : waiters'[i] = waiters'[j] => i = j
    <3>1. CASE waiters = << >> /\ waiters' = waiters
      BY <3>1
    <3>2. CASE waiters # << >> /\ p = Head(waiters) /\ waiters' = Tail(waiters)
      <4>1. /\ Len(waiters') = Len(waiters) - 1 /\ p = waiters[1] /\ Len(waiters) >= 1
            /\ \A i \in 1..Len(waiters') : waiters'[i] = waiters[i + 1]
        BY <3>2, SequenceFacts
      <4>2. \A i \in 1..Len(waiters') : i + 1 \in 1..Len(waiters) /\ i + 1 # 1
        BY <1>2, <4>1
      <4>3. 1 \in 1..Len(waiters)
        BY <1>2, <4>1
      <4>4. \A i \in 1..Len(waiters') : waiters[i + 1] # p
        BY <4>1, <4>2, <4>3 DEF LockInv
      <4>5. \A i, j \in 1..Len(waiters') : waiters'[i] = waiters'[j] => i = j
        BY <4>1, <4>2 DEF LockInv
      <4>6. ASSUME NEW i \in 1..Len(waiters')
            PROVE  /\ waiters'[i] \notin Direct /\ waiters'[i] \in Processes
                   /\ at[waiters'[i]] = "lock" /\ waiters'[i] # p
        <5>1. waiters'[i] = waiters[i + 1] /\ i + 1 \in 1..Len(waiters)
          BY <4>1, <4>2
        <5>2. waiters[i + 1] \notin Direct /\ at[waiters[i + 1]] = "lock"
          BY <5>1 DEF LockInv
        <5>3. waiters[i + 1] \in Processes
          BY <1>2, <5>1
        <5>4. QED
          BY <4>4, <5>1, <5>2, <5>3
      <4>7. QED
        BY <4>5, <4>6
    <3>3. QED
      BY <1>4, <3>1, <3>2 DEF Turn
  <2>4. \A i \in 1..Len(waiters') : at'[waiters'[i]] = "lock"
    BY <1>2, <2>2, <2>3
  <2>5. /\ \A q \in Processes : out'[q] # {} => q = holder' \/ (q \in Direct /\ out'[q] = {q})
        /\ \A q \in Processes : at'[q] \in Sending => q = holder' \/ q \in Direct
    BY <1>1, <1>2, <2>1, <2>2 DEF LockInv, Sending
  <2>6. holder' # Nobody => holder' \notin Direct /\ at'[holder'] \in Sending
                            /\ out'[holder'] \subseteq InBatch'
    BY <1>1, <1>2, <2>1, <2>2 DEF Sending
  <2>7. /\ at'[Processor] \in {"wait", "lock"} \cup Sending
        /\ \A e \in Events : at'[e] # "wait"
    BY <1>2, <2>2 DEF LockInv, Sending
  <2>8. QED
    BY <2>3, <2>4, <2>5, <2>6, <2>7 DEF LockInv
<1>5. QED
  BY <1>1, <1>3, <1>4

\* A message that goes on keeps the lock where it is.
LEMMA GoesOnKeepsLock ==
  ASSUME TypeOK, LockInv, NEW p \in Processes, at[p] \in Sending,
         GoesOn(p), UNCHANGED waiters
  PROVE  LockInv'
<1>1. /\ UNCHANGED <<out, holder, waiters>> /\ InBatch' = InBatch
      /\ \A q \in Processes : at'[q] = at[q] \/ (at[q] \in Sending /\ at'[q] \in Sending)
  BY DEF GoesOn, InBatch, Sending
<1>2. \A i \in 1..Len(waiters) : waiters[i] \in Processes
  BY SequenceFacts DEF TypeOK
<1>3. /\ \A q \in Processes : out'[q] # {} => q = holder' \/ (q \in Direct /\ out'[q] = {q})
      /\ \A q \in Processes : at'[q] \in Sending => q = holder' \/ q \in Direct
      /\ holder' # Nobody => holder' \notin Direct /\ at'[holder'] \in Sending
                            /\ out'[holder'] \subseteq InBatch'
  BY <1>1 DEF LockInv, TypeOK
<1>4. /\ \A i \in 1..Len(waiters') : waiters'[i] \notin Direct /\ at'[waiters'[i]] = "lock"
      /\ \A i, j \in 1..Len(waiters') : waiters'[i] = waiters'[j] => i = j
  BY <1>1, <1>2 DEF LockInv, Sending
<1>5. /\ at'[Processor] \in {"wait", "lock"} \cup Sending
      /\ \A e \in Events : at'[e] # "wait"
  BY <1>1, SomeBody DEF LockInv, Sending
<1>6. QED
  BY <1>3, <1>4, <1>5 DEF LockInv

\* A batch that is over gives the lock back.
LEMMA OverKeepsLock ==
  ASSUME TypeOK, LockInv, NEW p \in Processes, at[p] \in Sending,
         NextMessage(p)
  PROVE  LockInv'
<1> USE SomeBody, PublisherAssumption
<1>1. /\ out' = [out EXCEPT ![p] = Rest(p)] /\ waiters' = waiters
      /\ Rest(p) \subseteq out[p]
  BY NextMessageCases, MessageLeft
<1>2. /\ at \in [Processes -> Places] /\ out \in [Processes -> SUBSET Events]
      /\ Len(waiters) \in Nat
      /\ \A i \in 1..Len(waiters) : waiters[i] \in Processes /\ waiters[i] # p
  <2>1. \A i \in 1..Len(waiters) : waiters[i] # p
    BY DEF LockInv, Sending
  <2>2. Len(waiters) \in Nat /\ \A i \in 1..Len(waiters) : waiters[i] \in Processes
    BY SequenceFacts DEF TypeOK
  <2>3. QED
    BY <2>1, <2>2 DEF TypeOK
<1>3. CASE Rest(p) # {}
  <2>1. Stands(p, "start") /\ UNCHANGED <<batch, holder>> /\ InBatch' = InBatch
    BY <1>3, NextMessageCases DEF InBatch
  <2>2. QED
    BY <1>1, <1>2, <2>1 DEF LockInv, Sending, Stands
<1>4. CASE Rest(p) = {} /\ p \in Direct
  <2>1. Stands(p, "done") /\ UNCHANGED <<batch, holder>> /\ InBatch' = InBatch
    BY <1>4, NextMessageCases DEF InBatch
  <2>2. QED
    BY <1>1, <1>2, <1>4, <2>1 DEF LockInv, Sending, Stands
<1>5. CASE Rest(p) = {} /\ p \notin Direct
  <2>1. p = holder
    BY <1>5 DEF LockInv
  <2>2. /\ holder' = Nobody
        /\ (Stands(p, "wait") /\ p = Processor) \/ (Stands(p, "done") /\ p # Processor)
    BY <1>5, NextMessageCases DEF Released
  <2>3. QED
    BY <1>1, <1>2, <1>5, <2>1, <2>2 DEF LockInv, Sending, Stands, Processes
<1>6. QED
  BY <1>3, <1>4, <1>5

\* Every step keeps the lock with one process.
LEMMA StepKeepsLock == TypeOK /\ LockInv /\ [Next]_vars => LockInv'
<1> SUFFICES ASSUME TypeOK, LockInv, [Next]_vars PROVE LockInv'
  OBVIOUS
<1> USE SomeBody, PublisherAssumption DEF batchVars, sendVars, linkVars, historyVars
<1>1. \A i \in 1..Len(waiters) : waiters[i] \in Processes
  BY SequenceFacts DEF TypeOK
<1>2. ASSUME NEW e \in Events, PublishImmediate(e) PROVE LockInv'
  <2>1. InBatch' = InBatch /\ e # Processor /\ e \in Processes
    BY <1>2 DEF PublishImmediate, InBatch
  <2>2. holder # Nobody => holder # e /\ holder \in Processes
    BY <1>2 DEF PublishImmediate, LockInv, TypeOK
  <2>3. QED
    BY SMTT(30), <1>1, <1>2, <2>1, <2>2 DEF PublishImmediate, Stands, LockInv, Sending, TypeOK
<1>3. CASE Tick \/ CoolsDown \/ UNCHANGED vars
  BY <1>3 DEF Tick, CoolsDown, vars, LockInv, InBatch
<1>4. CASE LinkDies
  <2>1. InBatch' = InBatch
    BY <1>4 DEF LinkDies, InBatch
  <2>2. QED
    BY <1>1, <1>4, <2>1 DEF LinkDies, LockInv, Sending, TypeOK
<1>5. ASSUME NEW p \in Processes, SendStep(p) PROVE LockInv'
  BY <1>5, SendEffect, GoesOnKeepsLock, OverKeepsLock DEF MessageOver
<1>6. QED
  BY <1>2, <1>3, <1>4, <1>5, LockKeepsLock DEF Next

-----------------------------------------------------------------------------
(* The age of the batch *)

\* Each event that joins the batch allows one more wait.
LEMMA OneMoreWait ==
  ASSUME NEW n \in Nat
  PROVE  /\ (n + 1 - 1) * BatchTimeout = n * BatchTimeout /\ n * BatchTimeout \in Nat
         /\ (n + 1) * BatchTimeout = n * BatchTimeout + BatchTimeout
         /\ (n - 1) * BatchTimeout + BatchTimeout = n * BatchTimeout
         /\ n > 0 => (n - 1) * BatchTimeout \in Nat
BY PublisherAssumption

\* The steps that may take the lock keep the age of the batch bounded.
LEMMA LockKeepsAge ==
  ASSUME TypeOK, LockInv, AgeInv,
         (\E e \in Events : Publish(e)) \/ WaitTimesOut \/ Enter
  PROVE  AgeInv'
<1> USE SomeBody, PublisherAssumption
<1>1. PICK p \in Processes :
        \/ /\ at[p] \in {"new", "wait"} /\ Queues(p)
           /\ (p = Processor => nap >= BatchTimeout)
        \/ Turn(p) /\ (Adds(p) \/ (p = Processor /\ Checks))
  BY LockEffect
<1>2. /\ at \in [Processes -> Places] /\ age \in 0..MaxAge /\ nap \in 0..BatchTimeout
      /\ Len(batch) \in Nat /\ (batch # << >> => Len(batch) > 0)
      /\ BatchTimeout \in Nat /\ BatchTimeout > 0 /\ MaxAge \in Nat
  BY SequenceFacts, MaxAgeType DEF TypeOK
<1>3. CASE Queues(p) /\ p = Processor /\ at[p] \in {"new", "wait"} /\ nap >= BatchTimeout
  <2>1. at[p] = "wait" /\ nap = BatchTimeout
    BY <1>2, <1>3 DEF LockInv, Sending
  <2>2. at'[Processor] = "lock" /\ UNCHANGED <<nap, batch, age, holder>>
    BY <1>2, <1>3 DEF Queues
  <2>3. (Len(batch) - 1) * BatchTimeout + BatchTimeout = Len(batch) * BatchTimeout
    BY <1>2, OneMoreWait
  <2>4. holder = Nobody /\ batch # << >> =>
          nap <= age /\ age <= (Len(batch) - 1) * BatchTimeout + nap
    BY <1>3, <2>1 DEF AgeInv
  <2>5. holder = Nobody /\ batch # << >> =>
          age >= BatchTimeout /\ age <= Len(batch) * BatchTimeout
    BY <1>2, <2>1, <2>3, <2>4
  <2>6. QED
    BY <2>2, <2>5 DEF AgeInv
<1>4. CASE Queues(p) /\ p # Processor
  BY <1>2, <1>4 DEF Queues, AgeInv
<1>5. CASE Turn(p) /\ Adds(p)
  <2>1. p # Processor /\ holder = Nobody /\ p \in Events
    BY <1>5 DEF Adds, Turn
  <2>2. at'[Processor] = at[Processor] /\ Len(batch') = Len(batch) + 1
    BY <1>2, <1>5, <2>1, SequenceFacts DEF Adds
  <2>3. CASE holder' = p
    BY <2>1, <2>3 DEF AgeInv
  <2>4. CASE holder' # p
    <3>1. nap' = 0 /\ age' = (IF batch = << >> THEN 0 ELSE age) /\ Len(batch') - 1 = Len(batch)
      BY <1>2, <1>5, <2>2, <2>4 DEF Adds
    <3>2. /\ (Len(batch') - 1) * BatchTimeout = Len(batch) * BatchTimeout
          /\ Len(batch) * BatchTimeout \in Nat
          /\ Len(batch') * BatchTimeout = Len(batch) * BatchTimeout + BatchTimeout
          /\ (Len(batch) - 1) * BatchTimeout + BatchTimeout = Len(batch) * BatchTimeout
      BY <1>2, <2>2, <3>1, OneMoreWait
    <3>3. batch # << >> /\ at[Processor] = "wait" =>
            nap <= age /\ age <= Len(batch) * BatchTimeout
      BY <1>2, <2>1, <3>2 DEF AgeInv
    <3>4. batch # << >> /\ at[Processor] = "lock" => age <= Len(batch) * BatchTimeout
                                               /\ (age = 0 \/ age >= BatchTimeout)
      BY <2>1 DEF AgeInv
    <3>5. QED
      BY <1>2, <2>2, <3>1, <3>2, <3>3, <3>4 DEF AgeInv
  <2>5. QED
    BY <2>3, <2>4
<1>6. CASE Turn(p) /\ p = Processor /\ Checks
  <2>1. CASE holder' = Processor
    BY <2>1 DEF AgeInv
  <2>2. CASE holder' # Processor /\ batch # << >>
    <3>1. ~Aged /\ nap' = 0 /\ at'[Processor] = "wait" /\ holder = Nobody
          /\ UNCHANGED <<batch, age, holder>>
      BY <1>2, <1>6, <2>2 DEF Checks, Turn
    <3>2. age < BatchTimeout
      BY <1>2, <2>2, <3>1 DEF Aged
    <3>3. age = 0
      <4>1. CASE at[Processor] = "lock"
        BY <2>2, <3>1, <3>2, <1>2, <4>1 DEF AgeInv
      <4>2. CASE at[Processor] \in {"new", "wait"} /\ nap >= BatchTimeout
        BY <1>2, <2>2, <3>1, <3>2, <4>2 DEF AgeInv, LockInv, Sending
      <4>3. QED
        BY <1>6, <4>1, <4>2 DEF Turn
    <3>4. (Len(batch) - 1) * BatchTimeout \in Nat
      BY <1>2, <2>2, OneMoreWait
    <3>5. QED
      BY <3>1, <3>3, <3>4 DEF AgeInv
  <2>3. QED
    BY <2>1, <2>2, <1>6 DEF Checks, AgeInv
<1>7. QED
  BY <1>1, <1>3, <1>4, <1>5, <1>6

\* Every step keeps the age of the batch bounded.
LEMMA StepKeepsAge == TypeOK /\ LockInv /\ AgeInv /\ [Next]_vars => AgeInv'
<1> SUFFICES ASSUME TypeOK, LockInv, AgeInv, [Next]_vars PROVE AgeInv'
  OBVIOUS
<1> USE SomeBody, PublisherAssumption DEF batchVars, sendVars, linkVars, historyVars
<1>1. CASE Tick
  <2>1. /\ age \in 0..MaxAge /\ nap \in 0..BatchTimeout /\ nap < BatchTimeout
        /\ MaxAge \in Nat /\ MaxAge >= BatchTimeout /\ BatchTimeout \in Nat
        /\ Len(batch) \in Nat /\ (batch # << >> => (Len(batch) - 1) * BatchTimeout \in Nat)
    BY <1>1, MaxAgeType, SequenceFacts, OneMoreWait DEF Tick, TypeOK
  <2>2. /\ at[Processor] = "wait" /\ at' = at /\ nap' = nap + 1 /\ UNCHANGED <<holder, batch>>
        /\ (batch # << >> /\ holder = Nobody => age' = age + 1 \/ (age' = age /\ age >= MaxAge))
    BY <1>1, <2>1 DEF Tick
  <2>3. QED
    BY <2>1, <2>2 DEF AgeInv
<1>2. ASSUME NEW e \in Events, PublishImmediate(e) PROVE AgeInv'
  BY <1>2 DEF PublishImmediate, Stands, AgeInv, TypeOK
<1>3. CASE CoolsDown \/ UNCHANGED vars
  BY <1>3 DEF CoolsDown, vars, AgeInv
<1>4. CASE LinkDies
  BY <1>4 DEF LinkDies, AgeInv, TypeOK, LockInv, Sending
<1>5. ASSUME NEW p \in Processes, SendStep(p) PROVE AgeInv'
  <2>1. at[p] \in Sending /\ age' = age
    BY <1>5, SendEffect
  <2>2. CASE GoesOn(p)
    BY <2>1, <2>2 DEF GoesOn, AgeInv, Sending, LockInv
  <2>3. CASE MessageOver(p)
    <3>1. NextMessage(p)
      BY <2>3 DEF MessageOver
    <3>2. CASE batch' = << >>
      BY <3>2 DEF AgeInv
    <3>3. CASE batch' # << >>
      <4>1. UNCHANGED <<nap, batch, holder>> /\ (Stands(p, "start") \/ (Stands(p, "done") /\ p \in Direct))
        BY <3>1, <3>3, NextMessageCases DEF Released
      <4>2. p = Processor => holder = Processor
        BY <2>1 DEF LockInv
      <4>3. at'[Processor] = at[Processor] \/ p = Processor
        BY <4>1 DEF Stands, TypeOK
      <4>4. QED
        BY <2>1, <4>1, <4>2, <4>3 DEF AgeInv
    <3>4. QED
      BY <3>2, <3>3
  <2>4. QED
    BY <1>5, <2>2, <2>3, SendEffect
<1>6. QED
  BY <1>1, <1>2, <1>3, <1>4, <1>5, LockKeepsAge DEF Next

-----------------------------------------------------------------------------
(* The connection without a fault *)

\* Steps that leave the connection alone.
LEMMA LinkStays ==
  ASSUME LinkInv, UNCHANGED <<nc, connected, dialer, faults, dropped>>,
         cooling' = cooling \/ cooling' = FALSE,
         \A p \in Processes : at'[p] = at[p] \/ at'[p] \notin
           {"cut", "dead", "pause", "pauseLost", "flight"}
  PROVE  LinkInv'
BY DEF LinkInv

\* The steps of a send, without a fault, find and keep one connection.
LEMMA SendKeepsLink ==
  ASSUME TypeOK, LinkInv, NEW p \in Processes, SendStep(p)
  PROVE  LinkInv'
<1> USE SomeBody, PublisherAssumption DEF linkVars, historyVars, batchVars, sendVars
<1>1. SUFFICES ASSUME faults' = 0 PROVE LinkInv'
  BY DEF LinkInv
<1>2. at \in [Processes -> Places] /\ faults \in Nat
  BY DEF TypeOK
<1>3. CASE Reuse(p)
  <2>1. nc = "open"
    BY <1>1, <1>3 DEF Reuse, CanReuse, Healthy, LinkInv
  <2>2. at' = [at EXCEPT ![p] = "flight"]
    BY <1>3, <2>1 DEF Reuse, Send, Stands
  <2>3. QED
    BY <1>2, <1>3, <2>1, <2>2 DEF Reuse, LinkInv
<1>4. CASE TooEarly(p)
  <2>1. faults = 0 /\ ~Healthy /\ dialer = Nobody /\ cooling
    BY <1>1, <1>4 DEF TooEarly, CanReuse
  <2>2. nc \in {"none", "dialing", "open", "closed"}
    BY DEF TypeOK
  <2>3. FALSE
    BY <2>1, <2>2 DEF Healthy, LinkInv
  <2>4. QED
    BY <2>3
<1>5. CASE Dial(p)
  <2>1. /\ faults = 0 /\ ~Healthy /\ dialer = Nobody
        /\ nc' = "dialing" /\ dialer' = p /\ connected' = connected /\ dropped' = dropped
    BY <1>1, <1>5 DEF Dial, CanReuse
  <2>2. nc = "none"
    BY <2>1 DEF Healthy, LinkInv, TypeOK
  <2>3. \A q \in Processes : at'[q] \notin {"cut", "dead", "pause", "pauseLost", "flight"}
    BY <1>5, <2>1, <2>2 DEF Dial, LinkInv
  <2>4. QED
    BY <2>1, <2>2, <2>3 DEF LinkInv
<1>6. CASE DialSucceeds(p)
  <2>1. at' = [at EXCEPT ![p] = "flight"] /\ nc' = "open"
        /\ connected' = TRUE /\ UNCHANGED <<dropped, faults>>
    BY <1>6 DEF DialSucceeds, Stands
  <2>2. QED
    BY <1>1, <1>2, <2>1 DEF LinkInv
<1>7. CASE DialFails(p) \/ AttemptFails(p)
  BY <1>1, <1>2, <1>7 DEF DialFails, AttemptFails
<1>8. CASE Acked(p)
  <2>1. \E w \in {"start", "wait", "done"} : Stands(p, w)
    BY <1>8, NextMessageCases DEF Acked
  <2>2. QED
    BY <1>2, <1>8, <2>1, LinkStays DEF Acked, Stands
<1>9. CASE AttemptCut(p) \/ TryAgain(p)
  BY <1>1, <1>9 DEF AttemptCut, TryAgain, LinkInv
<1>10. QED
  BY <1>3, <1>4, <1>5, <1>6, <1>7, <1>8, <1>9 DEF SendStep

\* Every step keeps it.
LEMMA StepKeepsLink == TypeOK /\ LockInv /\ LinkInv /\ [Next]_vars => LinkInv'
<1> SUFFICES ASSUME TypeOK, LockInv, LinkInv, [Next]_vars PROVE LinkInv'
  OBVIOUS
<1> USE SomeBody, PublisherAssumption DEF batchVars, sendVars, linkVars, historyVars
<1>1. CASE (\E e \in Events : Publish(e)) \/ WaitTimesOut \/ Enter
  <2>1. PICK p \in Processes :
          Queues(p) \/ (Turn(p) /\ (Adds(p) \/ (p = Processor /\ Checks)))
    BY <1>1, LockEffect
  <2>2. \E w \in {"lock", "done", "wait", "start"} : at' = [at EXCEPT ![p] = w]
    BY <2>1 DEF Queues, Adds, Checks
  <2>3. UNCHANGED <<linkVars, historyVars>>
    BY <1>1, LockEffect
  <2>4. QED
    BY <2>2, <2>3, LinkStays DEF TypeOK
<1>2. ASSUME NEW e \in Events, PublishImmediate(e) PROVE LinkInv'
  BY <1>2, LinkStays DEF PublishImmediate, Stands, TypeOK
<1>3. CASE Tick \/ CoolsDown \/ UNCHANGED vars
  BY <1>3, LinkStays DEF Tick, CoolsDown, vars
<1>4. CASE LinkDies
  BY <1>4 DEF LinkDies, LinkInv, TypeOK
<1>5. QED
  BY <1>1, <1>2, <1>3, <1>4, SendKeepsLink DEF Next

-----------------------------------------------------------------------------
(* The order of the events *)

\* An event that is added was not taken before.
LEMMA LockKeepsOrder ==
  ASSUME TypeOK, LockInv, OrderInv,
         (\E e \in Events : Publish(e)) \/ WaitTimesOut \/ Enter
  PROVE  OrderInv'
<1> USE SomeBody, PublisherAssumption
<1>1. PICK p \in Processes :
        /\ p \notin Direct
        /\ \/ at[p] \in {"new", "wait"} /\ Queues(p)
           \/ Turn(p) /\ (Adds(p) \/ (p = Processor /\ Checks))
  BY LockEffect
<1>2. /\ at \in [Processes -> Places] /\ Len(accepted) \in Nat /\ Len(batch) \in Nat
      /\ \A i \in 1..Len(accepted) : accepted[i] \in Events
  BY SMTT(30), SequenceFacts DEF TypeOK
<1>3. CASE (at[p] \in {"new", "wait"} /\ Queues(p)) \/ (p = Processor /\ Checks)
  <2>1. UNCHANGED <<batch, accepted>>
    BY <1>3 DEF Queues, Checks
  <2>2. at' = [at EXCEPT ![p] = "lock"] \/ p = Processor
    BY <1>3 DEF Queues
  <2>3. \A q \in Processes : q # p => at'[q] = at[q]
    BY <1>2, <1>3 DEF Queues, Checks
  <2>4. \A i \in 1..Len(accepted) : accepted[i] # p
    <3>1. p = Processor \/ (p \in Events /\ at[p] = "new")
      BY <1>3 DEF LockInv, Processes
    <3>2. QED
      BY <1>2, <3>1 DEF OrderInv
  <2>5. \A i \in 1..Len(accepted) : at'[accepted[i]] = at[accepted[i]]
    BY <1>2, <2>3, <2>4
  <2>6. QED
    BY <2>1, <2>5 DEF OrderInv
<1>4. CASE Turn(p) /\ Adds(p)
  <2>1. /\ p \in Events /\ at[p] \in {"new", "lock"}
        /\ at'[p] \in {"done", "start"} /\ \A q \in Processes : q # p => at'[q] = at[q]
    BY <1>2, <1>4 DEF Turn, Adds, LockInv
  <2>2. /\ Len(accepted') = Len(accepted) + 1 /\ accepted'[Len(accepted) + 1] = p
        /\ \A i \in 1..Len(accepted) : accepted'[i] = accepted[i]
        /\ Len(batch') = Len(batch) + 1 /\ batch'[Len(batch) + 1] = p
        /\ \A i \in 1..Len(batch) : batch'[i] = batch[i]
    BY <1>4, <2>1, SequenceFacts DEF Adds
  <2>3. \A i \in 1..Len(accepted) : accepted[i] # p
    BY <2>1 DEF OrderInv
  <2>4. \A i \in 1..Len(accepted') :
          accepted'[i] \notin Direct /\ at'[accepted'[i]] \notin {"new", "lock"}
    <3>1. \A i \in 1..Len(accepted) : at'[accepted[i]] = at[accepted[i]]
      BY <1>2, <2>1, <2>3
    <3>2. \A i \in 1..Len(accepted) :
            accepted'[i] \notin Direct /\ at'[accepted'[i]] \notin {"new", "lock"}
      BY SMTT(30), <2>2, <3>1 DEF OrderInv
    <3>3. \A i \in 1..Len(accepted') : i \in 1..Len(accepted) \/ i = Len(accepted) + 1
      BY <1>2, <2>2
    <3>4. QED
      BY <1>1, <2>1, <2>2, <3>2, <3>3
  <2>5. \A i, j \in 1..Len(accepted') : accepted'[i] = accepted'[j] => i = j
    BY <1>2, <2>2, <2>3 DEF OrderInv
  <2>6. Len(batch') <= Len(accepted')
    BY <1>2, <2>2 DEF OrderInv
  <2>7. ASSUME NEW i \in 1..Len(batch')
        PROVE  batch'[i] = accepted'[Len(accepted') - Len(batch') + i]
    <3>1. Len(accepted') - Len(batch') = Len(accepted) - Len(batch)
          /\ Len(batch) <= Len(accepted)
      BY <1>2, <2>2 DEF OrderInv
    <3>2. CASE i = Len(batch) + 1
      BY <1>2, <2>2, <3>1, <3>2
    <3>3. CASE i \in 1..Len(batch)
      <4>1. Len(accepted) - Len(batch) + i \in 1..Len(accepted)
        BY <1>2, <3>1, <3>3
      <4>2. QED
        BY <2>2, <3>1, <3>3, <4>1 DEF OrderInv
    <3>4. QED
      BY <1>2, <2>2, <3>2, <3>3
  <2>8. QED
    BY <2>4, <2>5, <2>6, <2>7 DEF OrderInv
<1>5. QED
  BY <1>1, <1>3, <1>4

\* Nothing is un-taken, and no one goes back to where he was before.
LEMMA OrderStays ==
  ASSUME TypeOK, OrderInv, accepted' = accepted, batch' = batch \/ batch' = << >>,
         \A p \in Processes : at'[p] \in {"new", "lock"} => at[p] \in {"new", "lock"}
  PROVE  OrderInv'
<1>1. /\ Len(accepted) \in Nat /\ \A i \in 1..Len(accepted) : accepted[i] \in Processes
      /\ Len(<< >>) = 0
  BY SequenceFacts, SomeBody DEF TypeOK
<1>2. CASE batch' = batch
  BY <1>1, <1>2 DEF OrderInv
<1>3. CASE batch' = << >>
  BY <1>1, <1>3 DEF OrderInv
<1>4. QED
  BY <1>2, <1>3

\* What is done with a batch changes no order.
LEMMA SendOrderFacts ==
  ASSUME TypeOK, NEW p \in Processes, SendStep(p)
  PROVE  /\ accepted' = accepted /\ (batch' = batch \/ batch' = << >>)
         /\ \A q \in Processes : at'[q] \in {"new", "lock"} => at[q] = at'[q]
<1>1. accepted' = accepted
  BY SendEffect
<1>2. CASE GoesOn(p)
  BY <1>1, <1>2 DEF GoesOn, Sending
<1>3. CASE MessageOver(p)
  <2>1. (batch' = batch \/ batch' = << >>) /\ \E w \in {"start", "wait", "done"} : Stands(p, w)
    BY <1>3, NextMessageCases DEF MessageOver, Released
  <2>2. QED
    BY <1>1, <2>1 DEF Stands, TypeOK
<1>4. QED
  BY <1>2, <1>3, SendEffect

\* Every step keeps the events of a subject in order.
LEMMA StepKeepsOrder == TypeOK /\ LockInv /\ OrderInv /\ [Next]_vars => OrderInv'
<1> SUFFICES ASSUME TypeOK, LockInv, OrderInv, [Next]_vars PROVE OrderInv'
  OBVIOUS
<1> USE SomeBody, PublisherAssumption DEF batchVars, sendVars, linkVars, historyVars
<1>1. ASSUME NEW e \in Events, PublishImmediate(e) PROVE OrderInv'
  BY <1>1, OrderStays DEF PublishImmediate, Stands, TypeOK
<1>2. CASE Tick \/ CoolsDown \/ LinkDies \/ UNCHANGED vars
  BY <1>2, OrderStays DEF Tick, CoolsDown, LinkDies, vars
<1>3. ASSUME NEW p \in Processes, SendStep(p) PROVE OrderInv'
  BY <1>3, SendOrderFacts, OrderStays
<1>4. QED
  BY <1>1, <1>2, <1>3, LockKeepsOrder DEF Next

-----------------------------------------------------------------------------
(* The copies of the events *)

\* What is in the batch was taken.
LEMMA InBatchTaken ==
  ASSUME TypeOK, OrderInv, NEW e \in InBatch
  PROVE  e \in Events /\ e \notin Direct /\ at[e] \notin {"new", "lock"}
<1>1. Len(batch) \in Nat /\ Len(accepted) \in Nat /\ Len(batch) <= Len(accepted)
  BY SequenceFacts DEF OrderInv
<1>2. PICK i \in 1..Len(batch) : e = batch[i]
  BY DEF InBatch
<1>3. e \in Events
  BY <1>2 DEF TypeOK
<1>4. Len(accepted) - Len(batch) + i \in 1..Len(accepted)
  BY <1>1, <1>2
<1>5. QED
  BY <1>2, <1>3, <1>4 DEF OrderInv

\* A message concerns no one but its process, and whole subjects of the batch.
LEMMA MessageApart ==
  ASSUME TypeOK, LockInv, OrderInv, NEW p \in Processes, at[p] \in Sending
  PROVE  /\ Message(p) \subseteq Events
         /\ \A e \in Message(p) : at[e] \notin {"new", "lock"}
         /\ p # holder => \A e \in InBatch : e \notin Message(p)
         /\ \A q \in Processes \ {p} : \A e \in out[q] : e \notin Message(p)
         /\ p = holder => \A e, f \in InBatch :
              Mates(e, f) /\ (e \in out[p] <=> f \in out[p]) =>
                (e \in Message(p) <=> f \in Message(p))
<1> USE SomeBody, PublisherAssumption
<1>1. Message(p) \subseteq out[p] /\ out \in [Processes -> SUBSET Events]
      /\ Message(p) \subseteq Events
  BY MessageLeft DEF TypeOK
<1>2. p \in Direct => out[p] \subseteq {p} /\ p # holder
  BY DEF LockInv
<1>3. p \notin Direct => p = holder /\ out[p] \subseteq InBatch
  BY DEF LockInv
<1>4. \A e \in Message(p) : at[e] \notin {"new", "lock"}
  BY <1>1, <1>2, <1>3, InBatchTaken DEF Sending
<1>5. p # holder => \A e \in InBatch : e \notin Message(p)
  BY <1>1, <1>2, <1>3, InBatchTaken
<1>6. ASSUME NEW q \in Processes \ {p}, NEW e \in out[q] PROVE e \notin Message(p)
  <2>1. (q = holder /\ e \in InBatch) \/ (q \in Direct /\ e = q)
    BY <1>6 DEF LockInv
  <2>2. QED
    BY <1>1, <1>2, <1>3, <1>6, <2>1, InBatchTaken
<1>7. p = holder => \A e, f \in InBatch :
        Mates(e, f) /\ (e \in out[p] <=> f \in out[p]) =>
          (e \in Message(p) <=> f \in Message(p))
  BY DEF Message, Mates
<1>8. QED
  BY <1>1, <1>4, <1>5, <1>6, <1>7

\* How a step of a sending process counts: c more copies of its message, u of
\* them unsure.
Counts(p, c, u) ==
  \A e \in Events :
    /\ stored'[e] = stored[e] + (IF e \in Message(p) THEN c ELSE 0)
    /\ unsure'[e] = unsure[e] + (IF e \in Message(p) THEN u ELSE 0)

\* Storing a message counts each of its events.
LEMMA StoresCount ==
  ASSUME TypeOK, NEW p, Stores(p, TRUE) \/ Stores(p, FALSE)
  PROVE  Counts(p, 0, 0) \/ Counts(p, 1, 1)
<1>1. CASE Stores(p, TRUE)
  BY <1>1 DEF Stores, Plus, Counts, TypeOK
<1>2. CASE Stores(p, FALSE)
  BY <1>2 DEF Stores, Counts, TypeOK
<1>3. QED
  BY <1>1, <1>2

\* What a step of a sending process does to the ledger.
LEMMA SendCounts ==
  ASSUME TypeOK, NEW p \in Processes, SendStep(p)
  PROVE  \/ /\ GoesOn(p) /\ dropped' = dropped
            /\ Counts(p, 0, 0) \/ Counts(p, 1, 1)
         \/ /\ NextMessage(p)
            /\ \/ dropped' = dropped /\ Counts(p, 1, 0)
               \/ dropped' = dropped \cup Message(p) /\ (Counts(p, 0, 0) \/ Counts(p, 1, 1))
<1>1. CASE GoesOn(p)
  BY <1>1, StoresCount DEF GoesOn
<1>2. CASE MessageOver(p)
  <2>1. stored' = Plus(stored, Message(p)) /\ unsure' = unsure => Counts(p, 1, 0)
    BY DEF Plus, Counts, TypeOK
  <2>2. QED
    BY <1>2, <2>1, StoresCount DEF MessageOver
<1>3. QED
  BY <1>1, <1>2, SendEffect

\* What is taken is in the batch or was taken before it.
LEMMA BatchedOrEarlier ==
  ASSUME TypeOK, OrderInv, NEW i \in 1..Len(accepted)
  PROVE  i \in Earlier \/ accepted[i] \in InBatch
<1>1. Len(batch) \in Nat /\ Len(accepted) \in Nat /\ Len(batch) <= Len(accepted)
  BY SequenceFacts DEF OrderInv
<1>2. CASE i <= Len(accepted) - Len(batch)
  BY <1>1, <1>2 DEF Earlier
<1>3. CASE i > Len(accepted) - Len(batch)
  <2> DEFINE k == i - (Len(accepted) - Len(batch))
  <2>1. k \in 1..Len(batch) /\ Len(accepted) - Len(batch) + k = i
    BY <1>1, <1>3
  <2>2. batch[k] = accepted[i]
    BY <2>1 DEF OrderInv
  <2>3. QED
    BY <2>1, <2>2 DEF InBatch
<1>4. QED
  BY <1>1, <1>2, <1>3

\* What was settled stays settled; what a message is over for is.
LEMMA SettledStays ==
  ASSUME TypeOK, NEW p, NEW c \in 0..1, NEW u \in 0..1, Counts(p, c, u),
         dropped \subseteq dropped'
  PROVE  /\ \A e \in Events : Settled(e) => Settled(e)'
         /\ c = 1 \/ Message(p) \subseteq dropped' =>
              \A e \in Events : e \in Message(p) => Settled(e)'
<1>1. \A e \in Events : stored[e] \in Nat
  BY DEF TypeOK
<1>2. \A e \in Events : stored'[e] = stored[e] + (IF e \in Message(p) THEN c ELSE 0)
  BY DEF Counts
<1>3. QED
  BY <1>1, <1>2 DEF Settled

\* A message that goes on.
LEMMA GoesOnKeepsLedger ==
  ASSUME TypeOK, LockInv, OrderInv, LedgerInv, NEW p \in Processes, at[p] \in Sending,
         GoesOn(p), dropped' = dropped, accepted' = accepted,
         \A q \in Processes : at'[q] \in {"new", "lock"} => at[q] = at'[q],
         NEW c \in 0..1, Counts(p, c, c)
  PROVE  LedgerInv'
<1> USE SomeBody
<1>1. /\ UNCHANGED <<out, batch, holder, accepted, dropped>> /\ InBatch' = InBatch
      /\ Earlier' = Earlier /\ \A e \in InBatch : e \in Events
      /\ \A e \in Events : stored[e] \in Nat /\ unsure[e] \in Nat
      /\ \A q \in Processes : out[q] \subseteq Events
      /\ \A i \in 1..Len(accepted) : accepted[i] \in Events
  BY InBatchTaken DEF GoesOn, InBatch, Earlier, TypeOK
<1>2. \A e \in Events : e \notin Message(p) => stored'[e] = stored[e] /\ unsure'[e] = unsure[e]
  BY <1>1 DEF Counts
<1>3. \A e \in Events : at'[e] \in {"new", "lock"} => Untouched(e)'
  BY <1>2, MessageApart DEF LedgerInv, Untouched
<1>4. holder' = Nobody => \A e \in InBatch' : Untouched(e)'
  BY <1>1, <1>2, MessageApart DEF LedgerInv, Untouched
<1>5. /\ \A q \in Processes : \A e \in out'[q] : stored'[e] <= unsure'[e]
      /\ CopiesJustified'
  BY <1>1 DEF LedgerInv, Counts, CopiesJustified
<1>6. \A e \in Events : Settled(e) => Settled(e)'
  BY <1>1, SettledStays
<1>7. \A i \in Earlier' : Settled(accepted[i])'
  <2>1. \A i \in Earlier : i \in 1..Len(accepted)
    BY SequenceFacts DEF OrderInv, Earlier
  <2>2. QED
    BY <1>1, <1>6, <2>1 DEF LedgerInv, Settled
<1>8. ASSUME holder' # Nobody, NEW e \in InBatch, NEW f \in InBatch, Mates(e, f)
      PROVE  (e \in out[holder] <=> f \in out[holder]) /\ stored'[e] = stored'[f]
  <2>1. (e \in out[holder] <=> f \in out[holder]) /\ stored[e] = stored[f]
    BY <1>1, <1>8 DEF LedgerInv
  <2>2. e \in Message(p) <=> f \in Message(p)
    BY <1>8, <2>1, MessageApart
  <2>3. QED
    BY <1>1, <2>1, <2>2 DEF Counts
<1>9. holder' # Nobody => \A e \in InBatch' \ out'[holder'] : Settled(e)'
  BY <1>1, <1>6 DEF LedgerInv
<1>10. QED
  BY <1>1, <1>3, <1>4, <1>5, <1>7, <1>8, <1>9 DEF LedgerInv, Mates

\* A message that is over.
LEMMA OverKeepsLedger ==
  ASSUME TypeOK, LockInv, OrderInv, LedgerInv, NEW p \in Processes, at[p] \in Sending,
         NextMessage(p), accepted' = accepted,
         \A q \in Processes : at'[q] \in {"new", "lock"} => at[q] = at'[q],
         NEW c \in 0..1, NEW u \in 0..1, Counts(p, c, u), dropped \subseteq dropped',
         c = 1 \/ Message(p) \subseteq dropped'
  PROVE  LedgerInv'
<1> USE SomeBody
<1>1. /\ \A e \in InBatch : e \in Events
      /\ \A e \in Events : stored[e] \in Nat /\ unsure[e] \in Nat
      /\ out \in [Processes -> SUBSET Events]
      /\ \A i \in 1..Len(accepted) : accepted[i] \in Events
  BY SMTT(30), InBatchTaken DEF TypeOK
<1>2. \A e \in Events : e \notin Message(p) => stored'[e] = stored[e] /\ unsure'[e] = unsure[e]
  BY <1>1 DEF Counts
<1>3. /\ \A e \in Events : Settled(e) => Settled(e)'
      /\ \A e \in Events : e \in Message(p) => Settled(e)'
  BY SettledStays
<1>4. /\ out' = [out EXCEPT ![p] = out[p] \ Message(p)] /\ Message(p) \subseteq out[p]
      /\ \/ UNCHANGED <<batch, holder>>
         \/ batch' = << >> /\ holder' = Nobody /\ out[p] = Message(p) /\ p \notin Direct
  BY ZenonT(60), NextMessageCases, MessageLeft, PublisherAssumption DEF Released
<1>5. \A e \in Events : at'[e] \in {"new", "lock"} => Untouched(e)'
  BY <1>2, MessageApart DEF LedgerInv, Untouched
<1>6. \A q \in Processes : \A e \in out'[q] : stored'[e] <= unsure'[e]
  <2>1. ASSUME NEW q \in Processes, NEW e \in out'[q]
        PROVE  e \in out[q] /\ e \notin Message(p) /\ e \in Events
    BY <1>1, <1>4, <2>1, MessageApart
  <2>2. QED
    BY <1>2, <2>1 DEF LedgerInv
<1>7. CopiesJustified'
  <2>1. \A e \in Events : e \in Message(p) => stored'[e] <= 1 + unsure'[e]
    BY <1>1, <1>4 DEF LedgerInv, Counts
  <2>2. QED
    BY <1>2, <2>1 DEF LedgerInv, CopiesJustified
<1>8. CASE UNCHANGED <<batch, holder>>
  <2>1. InBatch' = InBatch /\ Earlier' = Earlier
    BY <1>8 DEF InBatch, Earlier
  <2>2. holder' = Nobody => \A e \in InBatch' : Untouched(e)'
    BY <1>1, <1>2, <1>8, <2>1, MessageApart DEF LedgerInv, Untouched
  <2>3. \A i \in Earlier' : Settled(accepted[i])'
    <3>1. \A i \in Earlier : i \in 1..Len(accepted)
      BY SequenceFacts DEF OrderInv, Earlier
    <3>2. QED
      BY <1>1, <1>3, <2>1, <3>1 DEF LedgerInv, Settled
  <2>4. ASSUME holder' # Nobody
        PROVE  /\ \A e \in InBatch \ out'[holder] : Settled(e)'
               /\ \A e, f \in InBatch : Mates(e, f) =>
                    (e \in out'[holder] <=> f \in out'[holder]) /\ stored'[e] = stored'[f]
    <3>1. holder \in Processes
      BY <1>8, <2>4 DEF TypeOK
    <3>2. CASE p = holder
      <4>1. out'[holder] = out[holder] \ Message(p)
        BY <1>1, <1>4, <3>1, <3>2
      <4>2. \A e \in InBatch \ out'[holder] : Settled(e)'
        BY <1>1, <1>3, <1>8, <2>4, <4>1 DEF LedgerInv
      <4>3. ASSUME NEW e \in InBatch, NEW f \in InBatch, Mates(e, f)
            PROVE  (e \in out'[holder] <=> f \in out'[holder]) /\ stored'[e] = stored'[f]
        <5>1. (e \in out[holder] <=> f \in out[holder]) /\ stored[e] = stored[f]
          BY <1>8, <2>4, <4>3 DEF LedgerInv
        <5>2. e \in Message(p) <=> f \in Message(p)
          BY <3>2, <4>3, <5>1, MessageApart
        <5>3. QED
          BY <1>1, <4>1, <5>1, <5>2 DEF Counts
      <4>4. QED
        BY <4>2, <4>3
    <3>3. CASE p # holder
      <4>1. out'[holder] = out[holder]
        BY <1>1, <1>4, <3>1, <3>3
      <4>2. \A e \in InBatch : stored'[e] = stored[e]
        BY <1>1, <1>2, <3>3, MessageApart
      <4>3. QED
        BY <1>1, <1>3, <1>8, <2>4, <4>1, <4>2 DEF LedgerInv
    <3>4. QED
      BY <3>2, <3>3
  <2>5. holder' = holder /\ \A e, f : Mates(e, f)' <=> Mates(e, f)
    BY <1>8 DEF Mates
  <2>6. QED
    BY <1>5, <1>6, <1>7, <2>1, <2>2, <2>3, <2>4, <2>5 DEF LedgerInv
<1>9. CASE batch' = << >> /\ holder' = Nobody /\ out[p] = Message(p) /\ p \notin Direct
  <2>1. p = holder /\ holder # Nobody
    BY <1>9 DEF LockInv
  <2>2. \A e \in InBatch : Settled(e)'
    BY <1>1, <1>3, <1>9, <2>1 DEF LedgerInv
  <2>3. \A i \in 1..Len(accepted) : Settled(accepted[i])'
    <3>1. ASSUME NEW i \in Earlier, i \in 1..Len(accepted) PROVE Settled(accepted[i])'
      BY <1>1, <1>3, <3>1 DEF LedgerInv, Settled
    <3>2. \A i \in 1..Len(accepted) : accepted[i] \in InBatch => Settled(accepted[i])'
      BY <2>2 DEF Settled
    <3>3. QED
      BY <3>1, <3>2, BatchedOrEarlier
  <2>4. InBatch' = {} /\ \A i \in Earlier' : i \in 1..Len(accepted)
    BY <1>9, SequenceFacts DEF InBatch, Earlier
  <2>5. QED
    BY <1>5, <1>6, <1>7, <1>9, <2>3, <2>4 DEF LedgerInv
<1>10. QED
  BY <1>4, <1>8, <1>9

\* A step for the lock: what enters the batch, or begins to be sent, is new.
LEMMA LockKeepsLedger ==
  ASSUME TypeOK, LockInv, OrderInv, LedgerInv,
         (\E e \in Events : Publish(e)) \/ WaitTimesOut \/ Enter
  PROVE  LedgerInv'
<1> USE SomeBody, PublisherAssumption
<1>1. PICK p \in Processes :
        /\ p \notin Direct
        /\ \/ at[p] \in {"new", "wait"} /\ Queues(p)
           \/ Turn(p) /\ (Adds(p) \/ (p = Processor /\ Checks))
  BY LockEffect
<1>2. /\ at \in [Processes -> Places] /\ out \in [Processes -> SUBSET Events]
      /\ Len(accepted) \in Nat /\ Len(batch) \in Nat
      /\ UNCHANGED <<stored, unsure, dropped>>
  BY LockEffect, SequenceFacts DEF TypeOK, historyVars
<1>3. CopiesJustified'
  BY <1>2 DEF LedgerInv, CopiesJustified
<1>4. CASE \/ at[p] \in {"new", "wait"} /\ Queues(p)
           \/ Turn(p) /\ p = Processor /\ Checks /\ holder' = holder
  <2>1. UNCHANGED <<batch, accepted, holder, out>>
    BY <1>4 DEF Queues, Turn, Checks
  <2>2. /\ UNCHANGED <<batch, accepted, holder, out>>
        /\ InBatch' = InBatch /\ Earlier' = Earlier
    BY <2>1 DEF InBatch, Earlier
  <2>3. \A e \in Events : at'[e] \in {"new", "lock"} => at[e] \in {"new", "lock"}
    BY <1>2, <1>4 DEF Queues, Checks, LockInv
  <2>4. QED
    BY <1>2, <1>3, <2>2, <2>3 DEF LedgerInv, Untouched, Settled, Mates
<1>5. CASE Turn(p) /\ p = Processor /\ Checks /\ holder' # holder
  <2>1. /\ holder = Nobody /\ holder' = p /\ out' = [out EXCEPT ![p] = InBatch]
        /\ UNCHANGED <<batch, accepted>> /\ InBatch' = InBatch /\ Earlier' = Earlier
        /\ \A e \in Events : at'[e] = at[e]
    BY <1>2, <1>5 DEF Turn, Checks, InBatch, Earlier
  <2>2. \A e \in InBatch : Untouched(e)
    BY <2>1 DEF LedgerInv
  <2>3. \A q \in Processes : \A e \in out'[q] : stored'[e] <= unsure'[e]
    BY <1>2, <2>1, <2>2 DEF LedgerInv, Untouched
  <2>4. out'[holder'] = InBatch'
    BY <1>2, <2>1
  <2>5. \A e, f \in InBatch' : stored'[e] = stored'[f]
    BY <1>2, <2>1, <2>2 DEF Untouched
  <2>6. holder' # Nobody
    BY <2>1
  <2>7. QED
    BY <1>2, <1>3, <2>1, <2>3, <2>4, <2>5, <2>6 DEF LedgerInv, Untouched, Settled
<1>6. CASE Turn(p) /\ Adds(p)
  <2>1. /\ holder = Nobody /\ p \in Events /\ at[p] \in {"new", "lock"}
        /\ InBatch' = InBatch \cup {p}
        /\ \A e \in Events : at'[e] \in {"new", "lock"} => at[e] \in {"new", "lock"}
    BY <1>2, <1>6, SequenceFacts DEF Turn, Adds, LockInv
  <2>2. \A e \in InBatch' : Untouched(e)
    BY <2>1 DEF LedgerInv
  <2>3. \A i \in Earlier' : i \in Earlier /\ accepted'[i] = accepted[i]
    <3>1. /\ Len(accepted') = Len(accepted) + 1 /\ Len(batch') = Len(batch) + 1
          /\ \A i \in 1..Len(accepted) : accepted'[i] = accepted[i]
      BY <1>6, <2>1, SequenceFacts DEF Adds
    <3>2. Len(batch) <= Len(accepted)
      BY DEF OrderInv
    <3>3. QED
      BY <1>2, <3>1, <3>2 DEF Earlier
  <2>4. \A i \in Earlier' : Settled(accepted[i]) /\ accepted'[i] = accepted[i]
    BY <2>3 DEF LedgerInv
  <2>5. CASE UNCHANGED <<holder, out>>
    BY <1>2, <1>3, <2>1, <2>2, <2>4, <2>5 DEF LedgerInv, Untouched, Settled
  <2>6. CASE holder' = p /\ out' = [out EXCEPT ![p] = InBatch']
    <3>1. \A q \in Processes : \A e \in out'[q] : stored'[e] <= unsure'[e]
      BY <1>2, <2>2, <2>6 DEF LedgerInv, Untouched
    <3>2. out'[holder'] = InBatch' /\ \A e, f \in InBatch' : stored'[e] = stored'[f]
      BY <1>2, <2>2, <2>6 DEF Untouched
    <3>3. holder' # Nobody
      BY <2>6
    <3>4. QED
      BY <1>2, <1>3, <2>1, <2>4, <3>1, <3>2, <3>3 DEF LedgerInv, Untouched, Settled
  <2>7. QED
    BY <1>6, <2>5, <2>6 DEF Adds
<1>7. QED
  BY <1>1, <1>4, <1>5, <1>6

\* Every step keeps the ledger.
LEMMA StepKeepsLedger ==
  TypeOK /\ LockInv /\ OrderInv /\ LedgerInv /\ [Next]_vars => LedgerInv'
<1> SUFFICES ASSUME TypeOK, LockInv, OrderInv, LedgerInv, [Next]_vars PROVE LedgerInv'
  OBVIOUS
<1> USE SomeBody, PublisherAssumption DEF batchVars, sendVars, linkVars, historyVars
<1>1. ASSUME NEW e \in Events, PublishImmediate(e) PROVE LedgerInv'
  <2>1. /\ UNCHANGED <<batch, accepted, holder, stored, unsure, dropped>>
        /\ InBatch' = InBatch /\ Earlier' = Earlier
        /\ at[e] = "new" /\ at' = [at EXCEPT ![e] = "start"]
        /\ out' = [out EXCEPT ![e] = {e}] /\ e \in Direct
    BY <1>1 DEF PublishImmediate, Stands, InBatch, Earlier
  <2>2. at \in [Processes -> Places] /\ out \in [Processes -> SUBSET Events] /\ e \in Processes
    BY DEF TypeOK
  <2>3. \A q \in Processes : \A x \in out'[q] : stored'[x] <= unsure'[x]
    BY <2>1, <2>2 DEF LedgerInv, Untouched
  <2>4. \A x \in Events : at'[x] \in {"new", "lock"} => Untouched(x)'
    BY <2>1, <2>2 DEF LedgerInv, Untouched
  <2>5. holder # Nobody => holder # e /\ holder \in Processes
    BY <2>1 DEF LockInv, TypeOK
  <2>6. holder # Nobody => out'[holder] = out[holder]
    BY <2>1, <2>2, <2>5
  <2>7. QED
    BY <2>1, <2>3, <2>4, <2>6 DEF LedgerInv, Untouched, Settled, CopiesJustified, Mates
<1>2. CASE Tick \/ CoolsDown \/ LinkDies \/ UNCHANGED vars
  <2>1. /\ UNCHANGED <<batch, accepted, holder, out, stored, unsure, dropped>>
        /\ InBatch' = InBatch /\ Earlier' = Earlier
        /\ \A q \in Processes : at'[q] \in {"new", "lock"} => at[q] = at'[q]
    BY <1>2 DEF Tick, CoolsDown, LinkDies, vars, InBatch, Earlier
  <2>2. QED
    BY <2>1 DEF LedgerInv, Untouched, Settled, CopiesJustified, Mates
<1>3. ASSUME NEW p \in Processes, SendStep(p) PROVE LedgerInv'
  <2>1. at[p] \in Sending /\ accepted' = accepted
        /\ \A q \in Processes : at'[q] \in {"new", "lock"} => at[q] = at'[q]
    BY <1>3, SendEffect, SendOrderFacts
  <2>2. CASE GoesOn(p) /\ dropped' = dropped /\ (Counts(p, 0, 0) \/ Counts(p, 1, 1))
    BY <2>1, <2>2, GoesOnKeepsLedger
  <2>3. CASE /\ NextMessage(p)
             /\ \/ dropped' = dropped /\ Counts(p, 1, 0)
                \/ dropped' = dropped \cup Message(p) /\ (Counts(p, 0, 0) \/ Counts(p, 1, 1))
    BY <2>1, <2>3, OverKeepsLedger
  <2>4. QED
    BY <1>3, <2>2, <2>3, SendCounts
<1>4. QED
  BY <1>1, <1>2, <1>3, LockKeepsLedger DEF Next

-----------------------------------------------------------------------------
(* The theorems *)

\* What every step keeps.
PInv == TypeOK /\ LockInv /\ AgeInv /\ LinkInv /\ OrderInv /\ LedgerInv

\* Initially.
LEMMA InitHolds == Init => PInv
<1> SUFFICES ASSUME Init PROVE PInv
  OBVIOUS
<1> USE SomeBody, PublisherAssumption, MaxAgeType DEF Init
<1>1. Len(batch) = 0 /\ Len(accepted) = 0 /\ Len(waiters) = 0
  BY EmptySeq
<1>2. TypeOK
  <2>1. batch \in Seq(Events) /\ accepted \in Seq(Events) /\ waiters \in Seq(Processes)
    BY EmptySeq
  <2>2. at \in [Processes -> Places] /\ out \in [Processes -> SUBSET Events]
    BY DEF Places
  <2>3. tries \in [Processes -> 0..(Attempts - 1)] /\ age \in 0..MaxAge
        /\ nap \in 0..BatchTimeout /\ faults \in 0..MaxFaults
    OBVIOUS
  <2>4. QED
    BY <2>1, <2>2, <2>3 DEF TypeOK
<1>3. LockInv /\ AgeInv
  BY <1>1 DEF LockInv, AgeInv, Sending
<1>4. LinkInv
  BY DEF LinkInv
<1>5. OrderInv
  BY <1>1 DEF OrderInv
<1>6. LedgerInv
  BY <1>1 DEF LedgerInv, Untouched, InBatch, Earlier, CopiesJustified
<1>7. QED
  BY <1>2, <1>3, <1>4, <1>5, <1>6 DEF PInv

\* The invariant the others follow from: who holds the lock, how old a batch can
\* be, what a connection that never failed looks like, and how many copies of an
\* event there are at every await of _publish_batch.
THEOREM PublisherInvariant == Spec => []PInv
<1>1. PInv /\ [Next]_vars => PInv'
  BY StepType, StepKeepsLock, StepKeepsAge, StepKeepsLink, StepKeepsOrder,
     StepKeepsLedger DEF PInv
<1>2. QED
  BY <1>1, InitHolds, PTL DEF Spec

\* Every variable of the publisher stays in its range: the size of the batch, its
\* age and the retries never run away.
THEOREM PublisherTypeCorrect == Spec => []TypeOK
<1>1. PInv => TypeOK
  BY DEF PInv
<1>2. QED
  BY <1>1, PublisherInvariant, PTL

\* A batch of n events is published before it is older than n timeouts, whatever
\* the size, the timeout and the pace of the events: publish restarts the wait of
\* the background task once for each event.
THEOREM AgeStaysBounded == Spec => []AgeBounded
<1>1. ASSUME PInv PROVE AgeBounded
  <2>1. SUFFICES ASSUME holder = Nobody, batch # << >>
                 PROVE  age <= Len(batch) * BatchTimeout
    BY DEF AgeBounded
  <2>2. /\ TypeOK /\ LockInv /\ AgeInv
    BY <1>1 DEF PInv
  <2>3. at[Processor] \in {"wait", "lock"}
    BY <2>1, <2>2, SomeBody, PublisherAssumption DEF LockInv
  <2>4. CASE at[Processor] = "lock"
    BY <2>1, <2>2, <2>4 DEF AgeInv
  <2>5. CASE at[Processor] = "wait"
    <3>1. age <= (Len(batch) - 1) * BatchTimeout + nap
      BY <2>1, <2>2, <2>5 DEF AgeInv
    <3>2. Len(batch) \in Nat /\ age \in Nat /\ nap \in 0..BatchTimeout /\ BatchTimeout \in Nat
      BY <2>2, SequenceFacts, PublisherAssumption, MaxAgeType DEF TypeOK
    <3>3. (Len(batch) - 1) * BatchTimeout + BatchTimeout = Len(batch) * BatchTimeout
      BY <3>2
    <3>4. (Len(batch) - 1) * BatchTimeout \in Int
      BY <3>2
    <3>5. QED
      BY <3>1, <3>2, <3>3, <3>4
  <2>6. QED
    BY <2>3, <2>4, <2>5
<1>2. QED
  BY <1>1, PublisherInvariant, PTL

\* Only an attempt that raised although the stream had the message leaves a
\* second copy: no event is published from two batches, or by two coroutines.
THEOREM OnlyFaultsCopy == Spec => []CopiesJustified
<1>1. PInv => CopiesJustified
  BY DEF PInv, LedgerInv
<1>2. QED
  BY <1>1, PublisherInvariant, PTL

\* As long as the connection never fails, _publish_single_event gives up no
\* message, also while several coroutines ask for the first connection.
THEOREM NothingDroppedWithoutFault == Spec => []NoFaultNoDrop
<1>1. PInv => NoFaultNoDrop
  BY DEF PInv, LinkInv, NoFaultNoDrop
<1>2. QED
  BY <1>1, PublisherInvariant, PTL

\* The batched events of one subject reach the stream in the order publish took
\* them: a batch is settled before the next one is begun, and one message
\* carries all a batch has of a subject.
THEOREM OrderKept == Spec => []NoOvertaking
<1>1. ASSUME PInv PROVE NoOvertaking
  <2>1. SUFFICES ASSUME NEW j \in 1..Len(accepted), NEW i \in 1..(j - 1),
                        Mates(accepted[i], accepted[j]),
                        stored[accepted[j]] > 0, stored[accepted[i]] = 0
                 PROVE  accepted[i] \in dropped
    BY DEF NoOvertaking, Mates
  <2>2. /\ TypeOK /\ OrderInv /\ LedgerInv
    BY <1>1 DEF PInv
  <2>3. /\ Len(accepted) \in Nat /\ Len(batch) \in Nat /\ i \in 1..Len(accepted) /\ i < j
    BY <2>2, SequenceFacts
  <2>4. CASE i \in Earlier
    BY <2>1, <2>2, <2>4 DEF LedgerInv, Settled
  <2>5. CASE i \notin Earlier
    <3>1. j \notin Earlier
      BY <2>3, <2>5 DEF Earlier
    <3>2. accepted[i] \in InBatch /\ accepted[j] \in InBatch
      BY <2>2, <2>3, <2>5, <3>1, BatchedOrEarlier
    <3>3. holder # Nobody
      BY <2>1, <2>2, <3>2 DEF LedgerInv, Untouched
    <3>4. stored[accepted[i]] = stored[accepted[j]]
      BY <2>1, <2>2, <3>2, <3>3 DEF LedgerInv
    <3>5. QED
      BY <2>1, <3>4
  <2>6. QED
    BY <2>4, <2>5
<1>2. QED
  BY <1>1, PublisherInvariant, PTL

=============================================================================
