------------------------------- MODULE EventBus -------------------------------
(***************************************************************************)
(* The in-process event bus behind the event manager: publishers that      *)
(* share the manager's read lock, the bounded channel, the dispatch        *)
(* goroutine, the worker pool with its overflow goroutines, the retries    *)
(* and the circuit breaker of each listener type, and Stop.                *)
(*                                                                         *)
(* Stop holds the manager's write lock from its first to its last step.    *)
(* A handler that publishes (the listener that creates a new user's team   *)
(* and project does) waits for that lock while Stop waits for the handler; *)
(* only the pool's release timeout ends it.                                *)
(***************************************************************************)
EXTENDS Integers, Sequences, FiniteSets, TLC

CONSTANTS
  Events,       \* the events published, by requests or by handlers
  Listeners,    \* the listener types
  Inline,       \* the listeners that manage their own concurrency
  Subscribed,   \* Subscribed[e]: the listeners of e's type, in subscription order
  Causes,       \* Causes[d]: the event the handler of delivery d publishes, or NoEvent
  NoEvent,
  BufferSize,   \* event_bus.buffer_size
  WorkerCount,  \* event_bus.worker_count
  MaxRetries,   \* event_bus.max_retries: attempts in all
  MaxFailures   \* failures in a row that open a breaker

Deliveries == Events \X Listeners

ASSUME EventBusAssumption ==
  /\ Inline \subseteq Listeners
  /\ Subscribed \in [Events -> Seq(Listeners)]
  /\ \A e \in Events : \A i, j \in DOMAIN Subscribed[e] :  \* each is registered once
       Subscribed[e][i] = Subscribed[e][j] => i = j
  /\ Causes \in [Deliveries -> Events \cup {NoEvent}]
  /\ NoEvent \notin Events
  /\ {BufferSize, WorkerCount, MaxRetries, MaxFailures} \subseteq Nat \ {0}

VARIABLES
  alive,       \* the process runs
  event,       \* event[e]: "new", "sending" under the read lock, "accepted" or "dropped"
  channel,     \* b.eventChannel
  dispatcher,  \* "selecting", "draining" after the stop signal, or "exited"
  current,     \* processEvent: the deliveries of the event still to be made
  task,        \* task[d]: the pooled handling of an event by a listener
  breaker,     \* breaker[l]: the listener type's breaker
  stopper,     \* "idle", "joining" the dispatcher, "releasing" the pool, "returned"
  \* observed, not part of the program:
  accepted,    \* the events Publish returned nil for, in order
  inlined,     \* inlined[l]: the events an inline listener was called with, in order
  timedOut     \* the pool was released with workers still running

dispatch == <<channel, dispatcher, current>>
stop == <<stopper, timedOut>>
vars == <<alive, event, dispatch, task, breaker, stop, accepted, inlined>>

SubscribersOf(e) == {Subscribed[e][i] : i \in DOMAIN Subscribed[e]}
PooledOf(e) == SubscribersOf(e) \ Inline
Outcomes == {"none", "handled", "failed", "skipped", "panicked"}
Stages == {"none", "submitted", "handling", "publishing", "recording", "admitted", "over"}

NoTask == [stage |-> "none", attempt |-> 0, thread |-> "none", outcome |-> "none"]
Running == {d \in Deliveries : task[d].stage \notin {"none", "over"}}
OnWorkers == {d \in Running : task[d].thread = "worker"}
Caused == {Causes[d] : d \in Deliveries} \ {NoEvent}

Init ==
  /\ alive = TRUE
  /\ event = [e \in Events |-> "new"]
  /\ channel = <<>>
  /\ dispatcher = "selecting"
  /\ current = <<>>
  /\ task = [d \in Deliveries |-> NoTask]
  /\ breaker = [l \in Listeners |-> [mode |-> "closed", failures |-> 0, admitted |-> {}]]
  /\ stopper = "idle"
  /\ accepted = <<>>
  /\ inlined = [l \in Listeners |-> <<>>]
  /\ timedOut = FALSE

-----------------------------------------------------------------------------
(* Publish.  The read lock is held from Enter to Send.                      *)

WriteLocked == stopper \in {"joining", "releasing"}
ChannelClosed == stopper \in {"releasing", "returned"}

(* EventManager.Publish up to the bus's look at running *)
EnterPublish(e) ==
  /\ event[e] = "new"
  /\ ~WriteLocked
  /\ event' = [event EXCEPT ![e] = IF stopper = "idle" THEN "sending" ELSE "dropped"]
  /\ UNCHANGED <<dispatch, task, breaker, stop, accepted, inlined>>

(* The non-blocking send; it fails on a full channel and may fail when the  *)
(* publisher's context has ended.                                           *)
Send(e) ==
  /\ event[e] = "sending"
  /\ \/ /\ Len(channel) < BufferSize
        /\ event' = [event EXCEPT ![e] = "accepted"]
        /\ channel' = Append(channel, e)
        /\ accepted' = Append(accepted, e)
     \/ /\ event' = [event EXCEPT ![e] = "dropped"]
        /\ UNCHANGED <<channel, accepted>>
  /\ UNCHANGED <<dispatcher, current, task, breaker, stop, inlined>>

Publish(e) == EnterPublish(e) \/ Send(e)

-----------------------------------------------------------------------------
(* The dispatch goroutine.                                                  *)

Idle == current = <<>>
Signalled == stopper # "idle"

\* Faulty variant: takes the newest event first.
NewestFirst == [event |-> channel[Len(channel)], left |-> SubSeq(channel, 1, Len(channel) - 1)]
NextEvent == [event |-> Head(channel), left |-> Tail(channel)]

Receive ==
  /\ dispatcher \in {"selecting", "draining"}
  /\ Idle
  /\ channel # <<>>
  /\ LET e == NextEvent.event
     IN current' = [i \in DOMAIN Subscribed[e] |-> <<e, Subscribed[e][i]>>]
  /\ channel' = NextEvent.left
  /\ UNCHANGED <<dispatcher, event, task, breaker, stop, accepted, inlined>>

NoticeStop ==
  /\ dispatcher = "selecting"
  /\ Idle
  /\ Signalled
  /\ dispatcher' = "draining"
  /\ UNCHANGED <<channel, current, event, task, breaker, stop, accepted, inlined>>

\* Faulty variant: leaves at once.
NoDrain == TRUE
Drained == channel = <<>>

DispatcherExits ==
  /\ dispatcher = "draining"
  /\ Idle
  /\ Drained
  /\ dispatcher' = "exited"
  /\ UNCHANGED <<channel, current, event, task, breaker, stop, accepted, inlined>>

(* The listener's error is only logged: the bus neither retries nor counts  *)
(* what an inline listener refuses.                                         *)
DispatchInline ==
  /\ ~Idle
  /\ LET d == Head(current)
     IN /\ d[2] \in Inline
        /\ inlined' = [inlined EXCEPT ![d[2]] = Append(@, d[1])]
  /\ current' = Tail(current)
  /\ UNCHANGED <<channel, dispatcher, event, task, breaker, stop, accepted>>

(* A saturated pool lets the task run on a goroutine of its own; a stopped  *)
(* one drops it.                                                            *)
HasFreeWorker == Cardinality(OnWorkers) < WorkerCount
Thread == IF HasFreeWorker THEN "worker" ELSE "overflow"

\* Faulty variant: a saturated pool drops the task.
TakesIfFree == ~ChannelClosed /\ HasFreeWorker
TakesTasks == ~ChannelClosed

Submit ==
  /\ ~Idle
  /\ LET d == Head(current)
     IN /\ d[2] \notin Inline
        /\ task' = IF ~TakesTasks THEN task
                   ELSE [task EXCEPT ![d] = [NoTask EXCEPT !.stage = "submitted", !.thread = Thread]]
  /\ current' = Tail(current)
  /\ UNCHANGED <<channel, dispatcher, event, breaker, stop, accepted, inlined>>

Dispatch == Receive \/ NoticeStop \/ DispatcherExits \/ DispatchInline \/ Submit

-----------------------------------------------------------------------------
(* The circuit breaker, one for each listener type.  A change of mode       *)
(* starts a new generation: what was admitted before no longer counts.      *)

\* Faulty variant: one breaker for all listener types.
SharedBreaker(d) == CHOOSE l \in Listeners : TRUE
BreakerOf(d) == d[2]

Enters(mode) == [mode |-> mode, failures |-> 0, admitted |-> {}]

(* Allow: refused while open, and while a half-open breaker has its trial   *)
Admits(b) == b.mode = "closed" \/ (b.mode = "halfOpen" /\ b.admitted = {})

(* done: what the outcome of an admitted record does to breaker b *)
Counted(b, d, outcome) ==
  IF d \notin b.admitted THEN b
  ELSE IF outcome = "handled" THEN
         IF b.mode = "halfOpen" THEN Enters("closed")
         ELSE [b EXCEPT !.failures = 0, !.admitted = b.admitted \ {d}]
  ELSE IF b.mode = "halfOpen" \/ b.failures + 1 >= MaxFailures THEN Enters("open")
  ELSE [b EXCEPT !.failures = b.failures + 1, !.admitted = b.admitted \ {d}]

BreakerTimesOut(l) ==
  /\ breaker[l].mode = "open"
  /\ breaker' = [breaker EXCEPT ![l] = Enters("halfOpen")]
  /\ UNCHANGED <<event, dispatch, task, stop, accepted, inlined>>

-----------------------------------------------------------------------------
(* A pooled task: handleEventWithRetry.                                     *)

Move(d, stage) == task' = [task EXCEPT ![d].stage = stage]
Finish(d, outcome) == task' = [task EXCEPT ![d].stage = "over", ![d].outcome = outcome]

CheckBreaker(d) ==
  /\ task[d].stage = "submitted"
  /\ IF breaker[BreakerOf(d)].mode = "open" THEN Finish(d, "skipped")
     ELSE task' = [task EXCEPT ![d].stage = "handling", ![d].attempt = 1]
  /\ UNCHANGED <<event, dispatch, breaker, stop, accepted, inlined>>

HandlerSucceeds(d) ==
  /\ \/ task[d].stage = "handling"
     \/ task[d].stage = "publishing" /\ event[Causes[d]] \in {"accepted", "dropped"}
  /\ task' = [task EXCEPT ![d].stage = "recording", ![d].outcome = "handled"]
  /\ UNCHANGED <<event, dispatch, breaker, stop, accepted, inlined>>

(* The team-creation listener calls the project service, which publishes;   *)
(* it returns no errors.                                                    *)
HandlerPublishes(d) ==
  /\ task[d].stage = "handling"
  /\ Causes[d] # NoEvent
  /\ Move(d, "publishing")
  /\ UNCHANGED <<event, dispatch, breaker, stop, accepted, inlined>>

(* The next attempt, or the end of the task: its last attempt, an error     *)
(* that is not retried, or the end of its two minutes.                      *)
HandlerFails(d) ==
  /\ task[d].stage = "handling"
  /\ Causes[d] = NoEvent
  /\ \/ /\ task[d].attempt < MaxRetries
        /\ task' = [task EXCEPT ![d].attempt = @ + 1]
     \/ task' = [task EXCEPT ![d].stage = "recording", ![d].outcome = "failed"]
  /\ UNCHANGED <<event, dispatch, breaker, stop, accepted, inlined>>

(* RecordSuccess and RecordFailure: Allow, then done *)
Record(d) ==
  /\ task[d].stage = "recording"
  /\ LET l == BreakerOf(d)
     IN IF Admits(breaker[l])
        THEN /\ breaker' = [breaker EXCEPT ![l].admitted = @ \cup {d}]
             /\ Move(d, "admitted")
        ELSE /\ Move(d, "over")
             /\ UNCHANGED breaker
  /\ UNCHANGED <<event, dispatch, stop, accepted, inlined>>

Done(d) ==
  /\ task[d].stage = "admitted"
  /\ breaker' = [breaker EXCEPT ![BreakerOf(d)] = Counted(breaker[BreakerOf(d)], d, task[d].outcome)]
  /\ Move(d, "over")
  /\ UNCHANGED <<event, dispatch, stop, accepted, inlined>>

(* The pool swallows a worker's panic; on an overflow goroutine nothing     *)
(* does, and the process ends.                                              *)
Panics(d) ==
  /\ task[d].stage = "handling"
  /\ IF task[d].thread = "worker"
     THEN Finish(d, "panicked") /\ UNCHANGED alive
     ELSE alive' = FALSE /\ UNCHANGED task
  /\ UNCHANGED <<event, dispatch, breaker, stop, accepted, inlined>>

Handle(d) ==
  \/ CheckBreaker(d) \/ HandlerPublishes(d) \/ HandlerSucceeds(d) \/ HandlerFails(d)
  \/ Record(d) \/ Done(d)

(* What a handler publishes is published within its task *)
MayPublish(e) == e \in Caused => \E d \in Running : Causes[d] = e /\ task[d].stage = "publishing"

-----------------------------------------------------------------------------
(* EventManager.Stop.                                                       *)

\* Faulty variant: takes the lock over a publisher's read lock.
Anytime == TRUE
NoReaders == \A e \in Events : event[e] # "sending"

BeginStop ==
  /\ stopper = "idle"
  /\ NoReaders
  /\ stopper' = "joining"
  /\ UNCHANGED <<event, dispatch, task, breaker, accepted, inlined, timedOut>>

DispatcherJoined ==
  /\ stopper = "joining"
  /\ dispatcher = "exited"
  /\ stopper' = "releasing"
  /\ UNCHANGED <<event, dispatch, task, breaker, accepted, inlined, timedOut>>

WorkersIdle == OnWorkers = {}

PoolReleased ==
  /\ stopper = "releasing"
  /\ WorkersIdle
  /\ stopper' = "returned"
  /\ UNCHANGED <<event, dispatch, task, breaker, accepted, inlined, timedOut>>

\* Faulty variant: waits for its workers for ever.
NeverInTime == FALSE
ReleaseTimeout == ~WorkersIdle

ReleaseTimesOut ==
  /\ stopper = "releasing"
  /\ ReleaseTimeout
  /\ stopper' = "returned"
  /\ timedOut' = TRUE
  /\ UNCHANGED <<event, dispatch, task, breaker, accepted, inlined>>

Stop == BeginStop \/ DispatcherJoined \/ PoolReleased \/ ReleaseTimesOut

(* The process is killed, or main returns *)
ProcessEnds ==
  /\ alive' = FALSE
  /\ UNCHANGED <<event, dispatch, task, breaker, stop, accepted, inlined>>

-----------------------------------------------------------------------------
Lives(A) == alive /\ A /\ UNCHANGED alive

Next ==
  \/ \E e \in Events : Lives(MayPublish(e) /\ Publish(e))
  \/ Lives(Dispatch)
  \/ \E d \in Deliveries : Lives(Handle(d)) \/ (alive /\ Panics(d))
  \/ \E l \in Listeners : Lives(BreakerTimesOut(l))
  \/ Lives(Stop)
  \/ alive /\ ProcessEnds

Spec == Init /\ [][Next]_vars

-----------------------------------------------------------------------------
TypeOK ==
  /\ {alive, timedOut} \subseteq BOOLEAN
  /\ event \in [Events -> {"new", "sending", "accepted", "dropped"}]
  /\ channel \in Seq(Events)
  /\ dispatcher \in {"selecting", "draining", "exited"}
  /\ current \in Seq(Deliveries)
  /\ task \in [Deliveries -> [stage : Stages, attempt : 0..MaxRetries,
                              thread : {"none", "worker", "overflow"}, outcome : Outcomes]]
  /\ breaker \in [Listeners -> [mode : {"closed", "open", "halfOpen"}, failures : 0..MaxFailures,
                                admitted : SUBSET Deliveries]]
  /\ stopper \in {"idle", "joining", "releasing", "returned"}
  /\ accepted \in Seq(Events)
  /\ inlined \in [Listeners -> Seq(Events)]

(* No publisher is between its look at the bus and its send when the        *)
(* channel is closed: a send would then panic the process.  The bus itself  *)
(* gives its lock up before the send; the manager's lock is what holds.     *)
NeverSendsOnClosed == ChannelClosed => \A e \in Events : event[e] # "sending"

Reached(d) ==
  IF d[2] \in Inline THEN \E i \in DOMAIN inlined[d[2]] : inlined[d[2]][i] = d[1]
  ELSE task[d].stage # "none"

(* What Publish accepted, up to its last moment before Stop, has gone to    *)
(* every listener by the time Stop returns, and the workers are done unless *)
(* the release timed out; only overflow goroutines may go on.               *)
StopDrains ==
  stopper = "returned" =>
    /\ \A i \in DOMAIN accepted : \A l \in SubscribersOf(accepted[i]) : Reached(<<accepted[i], l>>)
    /\ timedOut \/ OnWorkers = {}

(* The events of sequence s that listener l has subscribed to, in their order *)
EventsFor(l, s) ==
  LET upTo[i \in 0..Len(s)] ==
        IF i = 0 THEN <<>>
        ELSE IF l \in SubscribersOf(s[i]) THEN Append(upTo[i - 1], s[i]) ELSE upTo[i - 1]
  IN upTo[Len(s)]

(* A listener that manages its own concurrency gets its events once each    *)
(* and in the order they were accepted: the embedding queue depends on it   *)
(* when it lets the newest content win.                                     *)
InlineInOrder ==
  \A l \in Inline : inlined[l] = SubSeq(EventsFor(l, accepted), 1, Len(inlined[l]))

(* An event is skipped for a listener only after that listener itself has   *)
(* given up on MaxFailures events: tripping one type affects no other, and  *)
(* what another generation or a refused record saw is not counted.          *)
SkipsAreEarned ==
  \A l \in Listeners :
    (\E e \in Events : task[<<e, l>>].outcome = "skipped") =>
      Cardinality({e \in Events : task[<<e, l>>].outcome = "failed"}) >= MaxFailures

(* While the process runs every accepted event is handled, given up or      *)
(* skipped by each of its listeners, also one accepted as the bus stops and *)
(* one whose handler waits for Stop's own lock.                             *)
AllSettled ==
  \A e \in Events : event[e] = "accepted" =>
    \A l \in SubscribersOf(e) :
      Reached(<<e, l>>) /\ (l \notin Inline => task[<<e, l>>].stage = "over")
AcceptedIsSettled == []<>(alive => AllSettled)
=============================================================================
