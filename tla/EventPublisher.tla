----------------------------- MODULE EventPublisher -----------------------------
(***************************************************************************)
(* The API's event publisher: events are collected in one batch, which     *)
(* goes to NATS when it is full or old; important events go at once        *)
(* (src/src/api/app/services/event_publisher.py).                          *)
(*                                                                         *)
(* A process is the coroutine that called publish or publish_immediate for *)
(* an event, or the background task.  at[p] is the await p stands at; what *)
(* happens between two awaits is one step.  shutdown, flush_batches and    *)
(* start_batch_processor have no caller and are left out, and so is the    *)
(* queue of wake-ups: all a wake-up does is restart the wait.              *)
(***************************************************************************)
EXTENDS Naturals, Sequences, FiniteSets, SequencesExt

CONSTANTS
  Events,        \* the events of a run
  Direct,        \* those sent by publish_immediate
  Processor,     \* _batch_processor_task
  SubjectOf,     \* an event's subject
  BatchSize,     \* batch_size
  BatchTimeout,  \* batch_timeout, in ticks
  Attempts,      \* max_retries
  MaxFaults      \* bound on the faults of the connection

Processes == Events \cup {Processor}

Nobody == "nobody"

ASSUME PublisherAssumption ==
  /\ Direct \subseteq Events /\ Processor \notin Events
  /\ Nobody \notin Processes
  /\ BatchSize \in Nat /\ BatchSize > 1
  /\ BatchTimeout \in Nat \ {0} /\ Attempts \in Nat \ {0} /\ MaxFaults \in Nat

VARIABLES
  at,         \* where each process stands
  batch,      \* the events of _current_batch
  age,        \* its age in ticks, up to the start of its publishing
  nap,        \* ticks since the background task began its wait
  holder,     \* who holds _batch_lock
  waiters,    \* who waits for it, in order
  out,        \* the events a process has yet to send
  tries,      \* failed attempts at its current message
  nc,         \* the NATS client: none, dialing, open or closed
  connected,  \* _connected
  dialer,     \* who holds _connection_lock and connects
  cooling,    \* the last connection attempt is younger than the retry delay
  faults,     \* history: faults so far
  accepted,   \* batched events in the order the batch took them
  stored,     \* history: copies of an event in the stream
  unsure,     \* history: attempts that stored an event and raised
  dropped     \* history: events given up

batchVars   == <<batch, age, holder, waiters, accepted>>
sendVars    == <<out, tries>>
linkVars    == <<nc, connected, dialer, cooling>>
historyVars == <<faults, stored, unsure, dropped>>
vars == <<at, nap, batchVars, sendVars, linkVars, historyVars>>

Init ==
  /\ at = [p \in Processes |-> IF p = Processor THEN "wait" ELSE "new"]
  /\ batch = <<>> /\ age = 0 /\ nap = 0 /\ holder = Nobody /\ waiters = <<>>
  /\ out = [p \in Processes |-> {}] /\ tries = [p \in Processes |-> 0]
  /\ nc = "none" /\ connected = FALSE /\ dialer = Nobody /\ cooling = FALSE
  /\ faults = 0 /\ accepted = <<>> /\ dropped = {}
  /\ stored = [e \in Events |-> 0] /\ unsure = [e \in Events |-> 0]

Stands(p, where) == at' = [at EXCEPT ![p] = where]

-----------------------------------------------------------------------------
(* Batching *)

\* Mutation: the task goes on waiting, and misses the batch that is younger.
NoWake == UNCHANGED nap

\* An event wakes the background task, which waits anew.
Wake == nap' = 0

BeginPublish(p, events) ==
  /\ holder' = p /\ out' = [out EXCEPT ![p] = events]
  /\ tries' = [tries EXCEPT ![p] = 0] /\ Stands(p, "start")

\* publish, with the lock in hand: the size is looked at only when the event
\* did not open the batch.
PutInBatch(e) ==
  /\ batch' = Append(batch, e) /\ accepted' = Append(accepted, e)
  /\ IF batch = <<>>
       THEN age' = 0 /\ Wake /\ Stands(e, "done") /\ UNCHANGED <<holder, sendVars>>
       ELSE /\ IF Len(batch') >= BatchSize
                 THEN BeginPublish(e, ToSet(batch')) /\ UNCHANGED nap
                 ELSE Wake /\ Stands(e, "done") /\ UNCHANGED <<holder, sendVars>>
            /\ UNCHANGED age

\* Mutation: only a full batch is published.
FullAndAged == Len(batch) >= BatchSize /\ age >= BatchTimeout

Aged == batch # <<>> /\ age >= BatchTimeout

\* The background task, with the lock in hand.
CheckAge ==
  IF Aged
    THEN BeginPublish(Processor, ToSet(batch)) /\ UNCHANGED <<batch, age, nap, accepted>>
    ELSE /\ Stands(Processor, "wait") /\ nap' = 0
         /\ UNCHANGED <<batch, age, holder, accepted, sendVars>>

WithLock(p) == IF p = Processor THEN CheckAge ELSE PutInBatch(p)

\* Mutation: without the lock.
Barge(p) == WithLock(p) /\ UNCHANGED waiters

Acquire(p) ==
  IF holder = Nobody /\ waiters = <<>>
    THEN WithLock(p) /\ UNCHANGED waiters
    ELSE /\ waiters' = Append(waiters, p) /\ Stands(p, "lock")
         /\ UNCHANGED <<nap, batch, age, holder, accepted, sendVars>>

Publish(e) ==
  /\ e \notin Direct /\ at[e] = "new" /\ Acquire(e)
  /\ UNCHANGED <<linkVars, historyVars>>

WaitTimesOut ==
  /\ at[Processor] = "wait" /\ nap >= BatchTimeout /\ Acquire(Processor)
  /\ UNCHANGED <<linkVars, historyVars>>

\* A released lock goes to the first that waits for it.
Enter ==
  /\ holder = Nobody /\ waiters # <<>>
  /\ WithLock(Head(waiters)) /\ waiters' = Tail(waiters)
  /\ UNCHANGED <<linkVars, historyVars>>

PublishImmediate(e) ==
  /\ e \in Direct /\ at[e] = "new"
  /\ Stands(e, "start") /\ out' = [out EXCEPT ![e] = {e}]
  /\ UNCHANGED <<nap, batchVars, tries, linkVars, historyVars>>

\* Bound: an age is counted up to one more than AgeBounded allows.
MaxAge == BatchSize * BatchTimeout + 1

\* Time passes between the loop's steps; a timer that is due fires first.
Tick ==
  /\ at[Processor] = "wait" /\ nap < BatchTimeout
  /\ ~(holder = Nobody /\ waiters # <<>>)
  /\ nap' = nap + 1
  /\ age' = IF batch # <<>> /\ holder = Nobody /\ age < MaxAge THEN age + 1 ELSE age
  /\ UNCHANGED <<at, batch, holder, waiters, accepted, sendVars, linkVars, historyVars>>

-----------------------------------------------------------------------------
(* _publish_batch: one message per subject *)

TakenBefore(e, f) ==
  \E j \in 1..Len(accepted) : \E i \in 1..(j - 1) : accepted[i] = e /\ accepted[j] = f

\* A batch has its events in the order it took them; the subject of the first
\* that is left is next.
First(p) == CHOOSE e \in out[p] : \A f \in out[p] \ {e} : TakenBefore(e, f)

Message(p) == {e \in out[p] : SubjectOf[e] = SubjectOf[First(p)]}
Rest(p) == out[p] \ Message(p)

\* Mutation: the batch that was published stays the current one.
BatchStays == UNCHANGED batch /\ holder' = Nobody

Released == batch' = <<>> /\ holder' = Nobody

\* The message is over, published or not: the result is ignored.
NextMessage(p) ==
  /\ out' = [out EXCEPT ![p] = Rest(p)]
  /\ tries' = [tries EXCEPT ![p] = 0]
  /\ \/ Rest(p) # {} /\ Stands(p, "start") /\ UNCHANGED <<nap, batch, holder>>
     \/ Rest(p) = {} /\ p \in Direct /\ Stands(p, "done") /\ UNCHANGED <<nap, batch, holder>>
     \/ Rest(p) = {} /\ p = Processor /\ Stands(p, "wait") /\ nap' = 0 /\ Released
     \/ /\ Rest(p) = {} /\ p \notin Direct \cup {Processor}
        /\ Stands(p, "done") /\ Wake /\ Released
  /\ UNCHANGED <<age, waiters, accepted>>

GiveUp(p) == dropped' = dropped \cup Message(p) /\ NextMessage(p)

-----------------------------------------------------------------------------
(* _ensure_connection *)

Healthy == connected /\ nc \in {"open", "dialing"}

\* Mutation: the retry delay is looked at before the connection.
CannotReuse(p) == Healthy /\ ~cooling

\* The connection is there, at first sight or with the lock in hand.
CanReuse(p) == Healthy

\* js.publish on whatever client there is.
Send(p) == Stands(p, IF nc = "open" THEN "flight" ELSE "dead")

Reuse(p) ==
  /\ at[p] = "start" /\ CanReuse(p) /\ Send(p)
  /\ UNCHANGED <<nap, batchVars, sendVars, linkVars, historyVars>>

\* No connection: the message is given up at its first attempt; a retry goes on
\* with the client there is.
NoConnection(p) ==
  IF tries[p] = 0
    THEN GiveUp(p)
    ELSE Send(p) /\ UNCHANGED <<nap, batch, age, holder, waiters, accepted, sendVars, dropped>>

TooEarly(p) ==
  /\ at[p] = "start" /\ ~CanReuse(p) /\ dialer = Nobody /\ cooling
  /\ NoConnection(p)
  /\ UNCHANGED <<linkVars, faults, stored, unsure>>

\* The old client is closed, whoever uses it.
Dial(p) ==
  /\ at[p] = "start" /\ ~CanReuse(p) /\ dialer = Nobody /\ ~cooling
  /\ cooling' = TRUE /\ dialer' = p /\ nc' = "dialing"
  /\ at' = [q \in Processes |-> CASE q = p -> "dial"
                                  [] at[q] = "flight" -> "cut"
                                  [] OTHER -> at[q]]
  /\ UNCHANGED <<connected, nap, batchVars, sendVars, historyVars>>

DialSucceeds(p) ==
  /\ at[p] = "dial"
  /\ nc' = "open" /\ connected' = TRUE /\ dialer' = Nobody /\ Stands(p, "flight")
  /\ UNCHANGED <<cooling, nap, batchVars, sendVars, historyVars>>

DialFails(p) ==
  /\ at[p] = "dial" /\ faults < MaxFaults
  /\ nc' = "closed" /\ connected' = FALSE /\ dialer' = Nobody
  /\ IF tries[p] = 0
       THEN GiveUp(p)
       ELSE /\ Stands(p, "dead")
            /\ UNCHANGED <<nap, batch, age, holder, waiters, accepted, sendVars, dropped>>
  /\ faults' = faults + 1 /\ UNCHANGED <<cooling, stored, unsure>>

\* The retry delay passes.
CoolsDown ==
  /\ cooling /\ cooling' = FALSE
  /\ UNCHANGED <<at, nap, batchVars, sendVars, nc, connected, dialer, historyVars>>

\* The client gives up reconnecting.
LinkDies ==
  /\ nc = "open" /\ faults < MaxFaults
  /\ nc' = "closed" /\ faults' = faults + 1
  /\ at' = [q \in Processes |-> IF at[q] = "flight" THEN "cut" ELSE at[q]]
  /\ UNCHANGED <<nap, batchVars, sendVars, connected, dialer, cooling, stored,
                 unsure, dropped>>

-----------------------------------------------------------------------------
(* _publish_single_event *)

Plus(count, events) == [e \in Events |-> IF e \in events THEN count[e] + 1 ELSE count[e]]

Acked(p) ==
  /\ at[p] = "flight"
  /\ stored' = Plus(stored, Message(p)) /\ NextMessage(p)
  /\ UNCHANGED <<linkVars, faults, unsure, dropped>>

\* The attempt raises, and the stream may have the message all the same.
Stores(p, copy) ==
  IF copy
    THEN stored' = Plus(stored, Message(p)) /\ unsure' = Plus(unsure, Message(p))
    ELSE UNCHANGED <<stored, unsure>>

\* Mutation: the last attempt's failure starts over.
NeverOut(p) == FALSE

OutOfTries(p) == tries[p] + 1 >= Attempts

Retry(p, pause) ==
  IF OutOfTries(p)
    THEN GiveUp(p)
    ELSE /\ Stands(p, pause) /\ tries' = [tries EXCEPT ![p] = @ + 1]
         /\ UNCHANGED <<out, nap, batch, age, holder, waiters, accepted, dropped>>

\* The attempt times out, or the stream does not answer.
AttemptFails(p) ==
  /\ at[p] = "flight" /\ faults < MaxFaults
  /\ \E copy \in BOOLEAN : Stores(p, copy)
  /\ \E pause \in {"pause", "pauseLost"} : Retry(p, pause)
  /\ faults' = faults + 1 /\ UNCHANGED linkVars

\* It ran on a client that was closed meanwhile, or before.
AttemptCut(p) ==
  /\ at[p] \in {"cut", "dead"}
  /\ \E copy \in (IF at[p] = "cut" THEN BOOLEAN ELSE {FALSE}) : Stores(p, copy)
  /\ Retry(p, "pauseLost")
  /\ UNCHANGED <<linkVars, faults>>

\* After the pause.  An error that speaks of the connection or a timeout marks
\* the connection as lost, also when another process has replaced it since.
TryAgain(p) ==
  /\ \/ at[p] = "pause" /\ Send(p) /\ UNCHANGED connected
     \/ at[p] = "pauseLost" /\ connected' = FALSE /\ Stands(p, "start")
  /\ UNCHANGED <<nap, batchVars, sendVars, nc, dialer, cooling, historyVars>>

-----------------------------------------------------------------------------

SendStep(p) ==
  \/ Reuse(p) \/ TooEarly(p) \/ Dial(p) \/ DialSucceeds(p) \/ DialFails(p)
  \/ Acked(p) \/ AttemptFails(p) \/ AttemptCut(p) \/ TryAgain(p)

Next ==
  \/ \E e \in Events : Publish(e) \/ PublishImmediate(e)
  \/ WaitTimesOut \/ Enter \/ Tick \/ CoolsDown \/ LinkDies
  \/ \E p \in Processes : SendStep(p)

Spec == Init /\ [][Next]_vars

\* The event loop runs every ready coroutine and time passes; NATS answers or the
\* attempt times out.  Nobody has to publish, and no delay has to end.
FairSpec ==
  /\ Spec
  /\ WF_vars(WaitTimesOut) /\ WF_vars(Enter) /\ WF_vars(Tick)
  /\ \A p \in Processes : WF_vars(SendStep(p))

-----------------------------------------------------------------------------
(* Properties *)

Places == {"new", "wait", "lock", "start", "dial", "flight", "cut", "dead",
           "pause", "pauseLost", "done"}

\* Every variable stays in its range.
TypeOK ==
  /\ at \in [Processes -> Places]
  /\ batch \in Seq(Events) /\ age \in 0..MaxAge /\ nap \in 0..BatchTimeout
  /\ holder \in Processes \cup {Nobody} /\ waiters \in Seq(Processes)
  /\ out \in [Processes -> SUBSET Events] /\ tries \in [Processes -> 0..(Attempts - 1)]
  /\ nc \in {"none", "dialing", "open", "closed"}
  /\ connected \in BOOLEAN /\ cooling \in BOOLEAN
  /\ dialer \in Processes \cup {Nobody}
  /\ faults \in 0..MaxFaults /\ accepted \in Seq(Events) /\ dropped \subseteq Events
  /\ stored \in [Events -> Nat] /\ unsure \in [Events -> Nat]

\* However the events trickle in, a batch of n events that waits to be published
\* is no older than n timeouts: each event restarts the wait of the background
\* task once (lines 219-239), and a wait that is not restarted finds the batch
\* old enough.
AgeBounded ==
  holder = Nobody /\ batch # <<>> => age <= Len(batch) * BatchTimeout

\* Only an attempt that raised although the stream had the message makes a
\* second copy of an event: no batch is published twice, by two processes or in
\* two batches.
CopiesJustified == \A e \in Events : stored[e] <= 1 + unsure[e]

\* As long as NATS answers, no event is lost, also while the first connection is
\* made and several processes ask for it at once.
NoFaultNoDrop == faults = 0 => dropped = {}

\* The stream has the batched events of one subject in the order publish took
\* them: when a later one is stored, an earlier one is stored or given up.
NoOvertaking ==
  \A j \in 1..Len(accepted) : \A i \in 1..(j - 1) :
    /\ SubjectOf[accepted[i]] = SubjectOf[accepted[j]]
    /\ stored[accepted[j]] > 0 /\ stored[accepted[i]] = 0
    => accepted[i] \in dropped

Settled(e) == stored[e] > 0 \/ e \in dropped

\* Every event that was handed to the publisher is stored or given up, and its
\* caller goes on: the lock is always released, and a batch that does not fill is
\* published when it is old.
AlwaysSettles ==
  []<>(\A e \in Events : at[e] # "new" => at[e] = "done" /\ Settled(e))

=============================================================================
