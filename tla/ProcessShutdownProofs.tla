------------------------ MODULE ProcessShutdownProofs ------------------------
(***************************************************************************)
(* The event bus: Stop loses nothing that was accepted, nothing is sent on *)
(* the closed channel, an inline listener sees its events in the order of  *)
(* their acceptance and a skip is earned, for any events, listeners,       *)
(* subscriptions, buffer, pool and limits.  The background runner: what    *)
(* hangs is bounded and nothing is let in after the drain.  And the        *)
(* process that main puts together runs each of them, so that what is      *)
(* proved of them holds while it runs Close on both.                       *)
(***************************************************************************)
EXTENDS ProcessShutdown, FiniteSetTheorems, SequenceTheorems, WellFoundedInduction, TLAPS

-----------------------------------------------------------------------------
(* Type correctness.                                                        *)

LEMMA TaskTypes ==
  ASSUME TypeOK, NEW d \in Deliveries, Handle(d) \/ Panics(d)
  PROVE  task' \in [Deliveries -> [stage : Stages, attempt : 0..MaxRetries,
                      thread : {"none", "worker", "overflow"}, outcome : Outcomes]]
<1> DEFINE T == [stage : Stages, attempt : 0..MaxRetries,
                 thread : {"none", "worker", "overflow"}, outcome : Outcomes]
<1>0. MaxRetries \in Nat \ {0}
  BY EventBusAssumption
<1>1. task \in [Deliveries -> T]
  BY DEF TypeOK
<1>2. task[d] \in T
  BY <1>1
<1> USE <1>0, <1>1, <1>2 DEF Stages, Outcomes, Move, Finish
<1>3. CASE CheckBreaker(d)
  BY <1>3 DEF CheckBreaker
<1>4. CASE HandlerSucceeds(d)
  BY <1>4 DEF HandlerSucceeds
<1>5. CASE HandlerPublishes(d)
  BY <1>5 DEF HandlerPublishes
<1>6. CASE HandlerFails(d)
  BY <1>6 DEF HandlerFails
<1>7. CASE Record(d)
  BY <1>7 DEF Record
<1>8. CASE Done(d)
  BY <1>8 DEF Done
<1>9. CASE Panics(d)
  BY <1>9 DEF Panics
<1> QED
  BY <1>3, <1>4, <1>5, <1>6, <1>7, <1>8, <1>9 DEF Handle

LEMMA BreakerTypes ==
  ASSUME TypeOK, NEW d \in Deliveries, Handle(d) \/ Panics(d)
  PROVE  breaker' \in [Listeners -> [mode : {"closed", "open", "halfOpen"},
                         failures : 0..MaxFailures, admitted : SUBSET Deliveries]]
<1> DEFINE B == [mode : {"closed", "open", "halfOpen"},
                 failures : 0..MaxFailures, admitted : SUBSET Deliveries]
<1>0. MaxFailures \in Nat \ {0}
  BY EventBusAssumption
<1>1. breaker \in [Listeners -> B]
  BY DEF TypeOK
<1>2. BreakerOf(d) \in Listeners
  BY DEF BreakerOf, Deliveries
<1>3. breaker[BreakerOf(d)] \in B
  BY <1>1, <1>2
<1>4. CASE Record(d)
  BY <1>1, <1>2, <1>3, <1>4 DEF Record
<1>5. CASE Done(d)
  <2>1. /\ Enters("closed") \in B
        /\ Enters("open") \in B
    BY <1>0 DEF Enters
  <2>2. ASSUME NEW b \in B, NEW n \in 0..MaxFailures, NEW S \in SUBSET Deliveries
        PROVE  [b EXCEPT !.failures = n, !.admitted = S] \in B
    OBVIOUS
  <2>3. ASSUME NEW b \in B
        PROVE  Counted(b, d, task[d].outcome) \in B
    <3>1. b.admitted \ {d} \in SUBSET Deliveries /\ 0 \in 0..MaxFailures
      BY <1>0
    <3>2. CASE b.failures + 1 < MaxFailures
      <4>1. b.failures + 1 \in 0..MaxFailures
        BY <1>0, <3>2
      <4> QED
        BY <2>1, <2>2, <3>1, <4>1 DEF Counted
    <3>3. CASE ~(b.failures + 1 < MaxFailures)
      <4>1. b.failures + 1 >= MaxFailures
        BY <1>0, <3>3
      <4> QED
        BY <2>1, <2>2, <3>1, <4>1 DEF Counted
    <3> QED
      BY <3>2, <3>3
  <2> QED
    BY <1>1, <1>2, <1>3, <1>5, <2>3 DEF Done
<1>6. CASE ~Record(d) /\ ~Done(d)
  BY <1>1, <1>6 DEF Handle, CheckBreaker, HandlerPublishes, HandlerSucceeds, HandlerFails, Panics
<1> QED
  BY <1>4, <1>5, <1>6

LEMMA InitTypes == Init => TypeOK
<1> SUFFICES ASSUME Init
             PROVE  TypeOK
  OBVIOUS
<1> USE DEF Init
<1>1. /\ {MaxRetries, MaxFailures} \subseteq Nat \ {0}
      /\ 0 \in 0..MaxRetries
      /\ 0 \in 0..MaxFailures
  BY EventBusAssumption
<1>2. task \in [Deliveries -> [stage : Stages, attempt : 0..MaxRetries,
                  thread : {"none", "worker", "overflow"}, outcome : Outcomes]]
  BY <1>1 DEF NoTask, Stages, Outcomes
<1>3. breaker \in [Listeners -> [mode : {"closed", "open", "halfOpen"},
                     failures : 0..MaxFailures, admitted : SUBSET Deliveries]]
  BY <1>1
<1>4. {alive, timedOut} \subseteq BOOLEAN
  BY Zenon
<1>5. channel \in Seq(Events) /\ current \in Seq(Deliveries) /\ accepted \in Seq(Events)
  OBVIOUS
<1>6. inlined \in [Listeners -> Seq(Events)]
  OBVIOUS
<1> QED
  BY <1>2, <1>3, <1>4, <1>5, <1>6 DEF TypeOK

LEMMA PublishTypes ==
  ASSUME TypeOK, UNCHANGED alive, NEW e \in Events, Publish(e)
  PROVE  TypeOK'
<1> USE DEF TypeOK, dispatch, stop
<1>1. CASE EnterPublish(e)
  BY <1>1 DEF EnterPublish
<1>2. CASE Send(e)
  <2>1. /\ event' \in [Events -> {"new", "sending", "accepted", "dropped"}]
        /\ UNCHANGED <<dispatcher, current, task, breaker, stop, inlined>>
    BY <1>2 DEF Send
  <2>2. \/ channel' = Append(channel, e) /\ accepted' = Append(accepted, e)
        \/ UNCHANGED <<channel, accepted>>
    BY <1>2 DEF Send
  <2>3. channel' \in Seq(Events) /\ accepted' \in Seq(Events)
    <3>1. channel \in Seq(Events) /\ accepted \in Seq(Events)
      OBVIOUS
    <3>2. Append(channel, e) \in Seq(Events) /\ Append(accepted, e) \in Seq(Events)
      BY <3>1
    <3> QED
      BY <2>2, <3>1, <3>2
  <2> QED
    BY <2>1, <2>3
<1> QED
  BY <1>1, <1>2 DEF Publish

LEMMA DispatchTypes ==
  ASSUME TypeOK, UNCHANGED alive, Dispatch
  PROVE  TypeOK'
<1> USE DEF TypeOK, dispatch, stop
<1>1. CASE Receive
  <2>1. NextEvent.event \in Events /\ NextEvent.left \in Seq(Events)
    BY <1>1 DEF Receive, NextEvent
  <2>2. Subscribed[NextEvent.event] \in Seq(Listeners)
    BY <2>1, EventBusAssumption
  <2>3. current' \in Seq(Deliveries)
    <3> DEFINE e == NextEvent.event
               s == Subscribed[e]
    <3>1. current' = [i \in 1..Len(s) |-> <<e, s[i]>>] /\ Len(s) \in Nat
      <4>1. current' = [i \in DOMAIN s |-> <<e, s[i]>>]
        BY <1>1 DEF Receive
      <4>2. DOMAIN s = 1..Len(s) /\ Len(s) \in Nat
        BY <2>2
      <4> QED
        BY <4>1, <4>2
    <3>2. \A i \in 1..Len(s) : <<e, s[i]>> \in Deliveries
      <4> HIDE DEF TypeOK, dispatch, stop
      <4>1. e \in Events /\ s \in Seq(Listeners)
        BY <2>1, <2>2
      <4> HIDE DEF e, s
      <4>2. \A i \in 1..Len(s) : s[i] \in Listeners
        BY <4>1
      <4> QED
        BY <4>1, <4>2 DEF Deliveries
    <3> HIDE DEF e, s
    <3> QED
      BY <3>1, <3>2
  <2> QED
    BY <1>1, <2>1, <2>3 DEF Receive
<1>2. CASE NoticeStop
  BY <1>2 DEF NoticeStop
<1>3. CASE DispatcherExits
  BY <1>3 DEF DispatcherExits
<1>4. CASE DispatchInline
  <2>1. Head(current) \in Deliveries /\ current' \in Seq(Deliveries)
    BY <1>4 DEF DispatchInline, Idle
  <2>2. inlined' \in [Listeners -> Seq(Events)]
    <3>1. PICK l \in Listeners, e \in Events : Head(current) = <<e, l>>
      BY <2>1 DEF Deliveries
    <3>2. inlined' = [inlined EXCEPT ![l] = Append(inlined[l], e)]
      <4> HIDE DEF TypeOK
      <4>1. Head(current)[1] = e /\ Head(current)[2] = l
        BY <3>1
      <4> QED
        BY <1>4, <4>1 DEF DispatchInline
    <3>3. Append(inlined[l], e) \in Seq(Events)
      <4>1. inlined[l] \in Seq(Events)
        OBVIOUS
      <4> QED
        BY <4>1
    <3> QED
      BY <3>2, <3>3
  <2> QED
    BY <1>4, <2>1, <2>2 DEF DispatchInline
<1>5. CASE Submit
  <2>1. Head(current) \in Deliveries /\ current' \in Seq(Deliveries)
    BY <1>5 DEF Submit, Idle
  <2>2. 0 \in 0..MaxRetries
    BY EventBusAssumption
  <2>3. [NoTask EXCEPT !.stage = "submitted", !.thread = Thread]
          \in [stage : Stages, attempt : 0..MaxRetries,
              thread : {"none", "worker", "overflow"}, outcome : Outcomes]
    BY <2>2 DEF NoTask, Thread, Stages, Outcomes
  <2>4. task' \in [Deliveries -> [stage : Stages, attempt : 0..MaxRetries,
                      thread : {"none", "worker", "overflow"}, outcome : Outcomes]]
    BY <1>5, <2>1, <2>3 DEF Submit
  <2> QED
    BY <1>5, <2>1, <2>4 DEF Submit
<1> QED
  BY <1>1, <1>2, <1>3, <1>4, <1>5 DEF Dispatch

(* A handler's step touches its own task and its listener's breaker. *)
LEMMA HandleKeeps ==
  ASSUME NEW d \in Deliveries, Handle(d) \/ Panics(d)
  PROVE  UNCHANGED <<event, channel, dispatcher, current, stopper, timedOut, accepted, inlined>>
  BY DEF Handle, CheckBreaker, HandlerPublishes, HandlerSucceeds, HandlerFails, Record, Done,
         Panics, dispatch, stop

LEMMA HandleTypes ==
  ASSUME TypeOK, NEW d \in Deliveries, (Handle(d) /\ UNCHANGED alive) \/ Panics(d)
  PROVE  TypeOK'
<1>1. alive' \in BOOLEAN
  BY DEF Panics, TypeOK
<1> QED
  BY <1>1, HandleKeeps, TaskTypes, BreakerTypes DEF TypeOK

LEMMA OtherTypes ==
  ASSUME TypeOK,
         \/ UNCHANGED alive /\ (Stop \/ \E l \in Listeners : BreakerTimesOut(l))
         \/ ProcessEnds
         \/ UNCHANGED vars
  PROVE  TypeOK'
<1> USE DEF TypeOK, dispatch, stop
<1>1. CASE UNCHANGED alive /\ Stop
  BY <1>1 DEF Stop, BeginStop, DispatcherJoined, PoolReleased, ReleaseTimesOut
<1>2. ASSUME NEW l \in Listeners, UNCHANGED alive, BreakerTimesOut(l)
      PROVE  TypeOK'
  <2>1. Enters("halfOpen") \in [mode : {"closed", "open", "halfOpen"},
                     failures : 0..MaxFailures, admitted : SUBSET Deliveries]
    BY EventBusAssumption DEF Enters
  <2> QED
    BY <1>2, <2>1 DEF BreakerTimesOut
<1>3. CASE ProcessEnds
  BY <1>3 DEF ProcessEnds
<1>4. CASE UNCHANGED vars
  BY <1>4 DEF vars
<1> QED
  BY <1>1, <1>2, <1>3, <1>4

LEMMA StepTypes == TypeOK /\ [Next]_vars => TypeOK'
  BY PublishTypes, DispatchTypes, HandleTypes, OtherTypes DEF Next, Lives

(* Every reachable state of the bus is well typed. *)
THEOREM TypeCorrect == Spec => []TypeOK
  BY InitTypes, StepTypes, PTL DEF Spec
-----------------------------------------------------------------------------
(* Nobody sends while Stop runs or after it: the manager's lock.             *)

LockInv == stopper # "idle" => \A e \in Events : event[e] # "sending"

LEMMA StepKeepsLock ==
  ASSUME TypeOK, LockInv, [Next]_vars
  PROVE  LockInv'
<1> USE DEF LockInv, dispatch, stop
<1>1. ASSUME NEW e \in Events, Publish(e)
      PROVE  LockInv'
  <2>1. CASE EnterPublish(e)
    BY <2>1 DEF EnterPublish, WriteLocked, TypeOK
  <2>2. CASE Send(e)
    BY <2>2 DEF Send, TypeOK
  <2> QED
    BY <1>1, <2>1, <2>2 DEF Publish
<1>2. ASSUME NEW d \in Deliveries, Handle(d) \/ Panics(d)
      PROVE  LockInv'
  BY <1>2, HandleKeeps
<1>3. CASE Dispatch
  BY <1>3 DEF Dispatch, Receive, NoticeStop, DispatcherExits, DispatchInline, Submit
<1>4. CASE Stop
  BY <1>4 DEF Stop, BeginStop, NoReaders, DispatcherJoined, PoolReleased, ReleaseTimesOut
<1>5. CASE UNCHANGED <<event, stopper>>
  BY <1>5
<1>6. (\E l \in Listeners : BreakerTimesOut(l)) \/ ProcessEnds \/ UNCHANGED vars
        => UNCHANGED <<event, stopper>>
  BY DEF BreakerTimesOut, ProcessEnds, vars
<1> QED
  BY <1>1, <1>2, <1>3, <1>4, <1>5, <1>6 DEF Next, Lives

LEMMA LockHolds == Spec => []LockInv
<1>1. Init => LockInv
  BY DEF Init, LockInv
<1> QED
  BY <1>1, StepKeepsLock, TypeCorrect, PTL DEF Spec

(* The send of a publisher never meets the closed channel: the process      *)
(* cannot die of it, however many publishers there are.                     *)
THEOREM NobodySendsOnClosed == Spec => []NeverSendsOnClosed
<1>1. LockInv => NeverSendsOnClosed
  BY DEF LockInv, NeverSendsOnClosed, ChannelClosed
<1> QED
  BY <1>1, LockHolds, PTL

-----------------------------------------------------------------------------
(* What was accepted is in the channel, in the dispatcher's hand, or has     *)
(* reached the listener.                                                     *)

Holds(s, x) == \E j \in 1..Len(s) : s[j] = x

Custody ==
  \A e \in Events : Holds(accepted, e) =>
    \A l \in SubscribersOf(e) :
      Holds(channel, e) \/ Holds(current, <<e, l>>) \/ Reached(<<e, l>>)

StopOrder ==
  /\ dispatcher # "selecting" => stopper # "idle"
  /\ dispatcher = "exited" => channel = <<>> /\ current = <<>>
  /\ ChannelClosed => dispatcher = "exited"
  /\ stopper = "returned" => timedOut \/ OnWorkers = {}

LEMMA AppendHolds ==
  ASSUME NEW S, NEW s \in Seq(S), NEW x \in S, NEW y
  PROVE  Holds(Append(s, x), y) <=> Holds(s, y) \/ x = y
<1>1. Len(s) \in Nat /\ Len(Append(s, x)) = Len(s) + 1
  OBVIOUS
<1>2. \A j \in 1..Len(s) : Append(s, x)[j] = s[j]
  OBVIOUS
<1>3. Append(s, x)[Len(s) + 1] = x
  OBVIOUS
<1>4. 1..(Len(s) + 1) = 1..Len(s) \cup {Len(s) + 1}
  BY <1>1
<1> QED
  BY <1>1, <1>2, <1>3, <1>4 DEF Holds

LEMMA TailHolds ==
  ASSUME NEW S, NEW s \in Seq(S), s # <<>>, NEW y, Holds(s, y)
  PROVE  y = Head(s) \/ Holds(Tail(s), y)
<1>1. PICK j \in 1..Len(s) : s[j] = y
  BY DEF Holds
<1>2. Len(s) \in Nat /\ Len(Tail(s)) = Len(s) - 1
  OBVIOUS
<1>3. CASE j = 1
  BY <1>1, <1>3
<1>4. CASE j # 1
  <2>1. j - 1 \in 1..Len(Tail(s))
    BY <1>2, <1>4
  <2>2. Tail(s)[j - 1] = s[j]
    BY <1>2, <2>1
  <2> QED
    BY <1>1, <2>1, <2>2 DEF Holds
<1> QED
  BY <1>3, <1>4

LEMMA SubscribersGetDeliveries ==
  \A e \in Events : \A l \in SubscribersOf(e) : <<e, l>> \in Deliveries
  BY EventBusAssumption DEF SubscribersOf, Deliveries

(* A handler's step neither takes a task back nor brings one to a worker. *)
LEMMA HandleKeepsReach ==
  ASSUME TypeOK, NEW d \in Deliveries, Handle(d) \/ Panics(d)
  PROVE  /\ \A x \in Deliveries : Reached(x) => Reached(x)'
         /\ OnWorkers' \subseteq OnWorkers
<1>1. task \in [Deliveries -> [stage : Stages, attempt : 0..MaxRetries,
                  thread : {"none", "worker", "overflow"}, outcome : Outcomes]]
  BY DEF TypeOK
<1>2. \A x \in Deliveries :
        /\ task[x].stage # "none" => task'[x].stage # "none"
        /\ task[x].stage \in {"none", "over"} => task'[x].stage \in {"none", "over"}
        /\ task'[x].thread = task[x].thread
  <2> USE <1>1 DEF Move, Finish
  <2>1. CASE CheckBreaker(d)
    BY <2>1 DEF CheckBreaker
  <2>2. CASE HandlerSucceeds(d)
    BY <2>2 DEF HandlerSucceeds
  <2>3. CASE HandlerPublishes(d)
    BY <2>3 DEF HandlerPublishes
  <2>4. CASE HandlerFails(d)
    BY <2>4 DEF HandlerFails
  <2>5. CASE Record(d)
    BY <2>5 DEF Record
  <2>6. CASE Done(d)
    BY <2>6 DEF Done
  <2>7. CASE Panics(d)
    BY <2>7 DEF Panics
  <2> QED
    BY <2>1, <2>2, <2>3, <2>4, <2>5, <2>6, <2>7 DEF Handle
<1> QED
  BY <1>2, HandleKeeps DEF Reached, OnWorkers, Running

LEMMA StepKeepsCustody ==
  ASSUME TypeOK, Custody, StopOrder, [Next]_vars
  PROVE  Custody'
<1> USE DEF dispatch, stop
<1>1. ASSUME NEW e \in Events, Publish(e)
      PROVE  Custody'
  <2>1. UNCHANGED <<current, task, inlined>>
    BY <1>1 DEF Publish, EnterPublish, Send
  <2>2. \A x \in Deliveries : Reached(x) => Reached(x)'
    BY <2>1 DEF Reached
  <2>3. CASE UNCHANGED <<channel, accepted>>
    BY <2>1, <2>2, <2>3, SubscribersGetDeliveries DEF Custody
  <2>4. CASE channel' = Append(channel, e) /\ accepted' = Append(accepted, e)
    <3>1. \A y \in Events : /\ Holds(accepted', y) => Holds(accepted, y) \/ y = e
                            /\ Holds(channel, y) \/ y = e => Holds(channel', y)
      BY <2>4, AppendHolds DEF TypeOK
    <3> QED
      BY <2>1, <2>2, <3>1 DEF Custody, Reached
  <2> QED
    BY <1>1, <2>3, <2>4 DEF Publish, EnterPublish, Send
<1>2. CASE Dispatch
  <2>1. UNCHANGED accepted
    BY <1>2 DEF Dispatch, Receive, NoticeStop, DispatcherExits, DispatchInline, Submit
  <2>2. CASE Receive
    <3> DEFINE s == Subscribed[Head(channel)]
    <3>1. Head(channel) \in Events /\ s \in Seq(Listeners)
      BY <2>2, EventBusAssumption DEF Receive, TypeOK
    <3>2. current' = [i \in 1..Len(s) |-> <<Head(channel), s[i]>>] /\ Len(s) \in Nat
      BY <2>2, <3>1 DEF Receive, NextEvent
    <3>3. Len(current') = Len(s)
      BY <3>2
    <3>4. \A l \in SubscribersOf(Head(channel)) : Holds(current', <<Head(channel), l>>)
      <4> TAKE l \in SubscribersOf(Head(channel))
      <4>1. PICK i \in 1..Len(s) : s[i] = l
        BY <3>1 DEF SubscribersOf
      <4> QED
        BY <3>2, <3>3, <4>1 DEF Holds
    <3>5. \A y \in Events : Holds(channel, y) => y = Head(channel) \/ Holds(channel', y)
      BY <2>2, TailHolds DEF Receive, NextEvent, TypeOK
    <3>6. \A y : ~Holds(current, y)
      BY <2>2 DEF Receive, Idle, Holds
    <3>7. UNCHANGED <<task, inlined>>
      BY <2>2 DEF Receive
    <3> QED
      BY <2>1, <3>4, <3>5, <3>6, <3>7 DEF Custody, Reached, SubscribersOf
  <2>3. CASE NoticeStop \/ DispatcherExits
    BY <2>1, <2>3 DEF NoticeStop, DispatcherExits, Custody, Reached, SubscribersOf
  <2>4. CASE DispatchInline \/ Submit
    <3>1. current # <<>> /\ current \in Seq(Deliveries) /\ current' = Tail(current)
      BY <2>4 DEF DispatchInline, Submit, Idle, TypeOK
    <3>2. UNCHANGED channel
      BY <2>4 DEF DispatchInline, Submit
    <3>3. \A y \in Deliveries : Holds(current, y) => y = Head(current) \/ Holds(current', y)
      BY <3>1, TailHolds
    <3>4. PICK h \in Deliveries : h = Head(current)
      BY <3>1
    <3>5. (\A x \in Deliveries : Reached(x) => Reached(x)') /\ Reached(h)'
      <4>1. CASE DispatchInline
        <5> DEFINE l == h[2]
                   e == h[1]
        <5>1. l \in Listeners /\ e \in Events /\ l \in Inline
          BY <3>4, <4>1 DEF DispatchInline, Deliveries
        <5>2. inlined[l] \in Seq(Events) /\ inlined' = [inlined EXCEPT ![l] = Append(inlined[l], e)]
          BY <3>4, <4>1, <5>1 DEF DispatchInline, TypeOK
        <5>3. \A y \in Events : Holds(inlined[l], y) \/ y = e <=> Holds(inlined'[l], y)
          BY <5>1, <5>2, AppendHolds DEF TypeOK
        <5>4. \A k \in Listeners : k # l => inlined'[k] = inlined[k]
          BY <5>2 DEF TypeOK
        <5>5. inlined \in [Listeners -> Seq(Events)] /\ inlined' \in [Listeners -> Seq(Events)]
          BY <1>2, DispatchTypes, <4>1, <5>1, <5>2 DEF TypeOK
        <5>6. \A x \in Deliveries : /\ x[1] \in Events /\ x[2] \in Listeners
                                    /\ DOMAIN inlined[x[2]] = 1..Len(inlined[x[2]])
                                    /\ DOMAIN inlined'[x[2]] = 1..Len(inlined'[x[2]])
          BY <5>5 DEF Deliveries
        <5>7. UNCHANGED task
          BY <4>1 DEF DispatchInline
        <5> QED
          <6>1. \A x \in Deliveries : Reached(x) <=>
                   IF x[2] \in Inline THEN Holds(inlined[x[2]], x[1]) ELSE task[x].stage # "none"
            BY <5>6 DEF Reached, Holds
          <6>2. \A x \in Deliveries : Reached(x)' <=>
                   IF x[2] \in Inline THEN Holds(inlined'[x[2]], x[1]) ELSE task'[x].stage # "none"
            BY <5>6 DEF Reached, Holds
          <6>3. \A x \in Deliveries : Reached(x) => Reached(x)'
            <7> TAKE x \in Deliveries
            <7>1. CASE x[2] = l
              BY <5>1, <5>3, <5>6, <6>1, <6>2, <7>1
            <7>2. CASE x[2] # l
              BY <5>4, <5>6, <5>7, <6>1, <6>2, <7>2
            <7> QED
              BY <7>1, <7>2
          <6> QED
            BY <3>4, <5>1, <5>3, <6>2, <6>3
      <4>2. CASE Submit
        <5>1. TakesTasks
          BY <4>2 DEF Submit, Idle, TakesTasks, StopOrder
        <5>2. task' = [task EXCEPT ![h] =
                         [NoTask EXCEPT !.stage = "submitted", !.thread = Thread]]
              /\ UNCHANGED inlined /\ h[2] \notin Inline
          BY <3>4, <4>2, <5>1 DEF Submit
        <5>3. [NoTask EXCEPT !.stage = "submitted", !.thread = Thread].stage = "submitted"
          BY DEF NoTask
        <5> QED
          <6> DEFINE t == [NoTask EXCEPT !.stage = "submitted", !.thread = Thread]
          <6>1. DOMAIN task = Deliveries
            BY DEF TypeOK
          <6>2. task'[h] = t /\ \A x \in Deliveries : x # h => task'[x] = task[x]
            BY <3>4, <5>2, <6>1
          <6> HIDE DEF t
          <6>3. t.stage # "none"
            BY <5>3 DEF t
          <6>4. Reached(h)'
            BY <5>2, <6>2, <6>3 DEF Reached
          <6>5. \A x \in Deliveries : x # h /\ Reached(x) => Reached(x)'
            BY <5>2, <6>2 DEF Reached
          <6> QED
            BY <6>4, <6>5
      <4> QED
        BY <2>4, <4>1, <4>2
    <3> QED
      BY <2>1, <3>2, <3>3, <3>4, <3>5, SubscribersGetDeliveries DEF Custody
  <2> QED
    BY <1>2, <2>2, <2>3, <2>4 DEF Dispatch
<1>3. ASSUME NEW d \in Deliveries, Handle(d) \/ Panics(d)
      PROVE  Custody'
  BY <1>3, SubscribersGetDeliveries, HandleKeeps, HandleKeepsReach DEF Custody
<1>4. CASE UNCHANGED <<accepted, channel, current, task, inlined>>
  BY <1>4 DEF Custody, Reached, SubscribersOf
<1>5. Stop \/ (\E l \in Listeners : BreakerTimesOut(l)) \/ ProcessEnds \/ UNCHANGED vars
        => UNCHANGED <<accepted, channel, current, task, inlined>>
  BY DEF Stop, BeginStop, DispatcherJoined, PoolReleased, ReleaseTimesOut,
         BreakerTimesOut, ProcessEnds, vars
<1> QED
  BY <1>1, <1>2, <1>3, <1>4, <1>5 DEF Next, Lives

LEMMA StepKeepsStopOrder ==
  ASSUME TypeOK, LockInv, StopOrder, [Next]_vars
  PROVE  StopOrder'
<1> USE DEF dispatch, stop
<1>1. ASSUME NEW e \in Events, Publish(e)
      PROVE  StopOrder'
  <2>1. UNCHANGED <<dispatcher, current, task, stopper, timedOut>>
    BY <1>1 DEF Publish, EnterPublish, Send
  <2>2. stopper # "idle" => UNCHANGED channel
    BY <1>1 DEF Publish, EnterPublish, Send, LockInv
  <2> QED
    BY <2>1, <2>2 DEF StopOrder, ChannelClosed, OnWorkers, Running
<1>2. CASE Dispatch
  <2>1. UNCHANGED <<stopper, timedOut>>
    BY <1>2 DEF Dispatch, Receive, NoticeStop, DispatcherExits, DispatchInline, Submit
  <2>2. dispatcher # "exited"
    BY <1>2 DEF Dispatch, Receive, NoticeStop, DispatcherExits, DispatchInline, Submit,
                StopOrder, Idle
  <2>3. dispatcher' # "selecting" => stopper # "idle"
    BY <1>2 DEF Dispatch, Receive, NoticeStop, DispatcherExits, DispatchInline, Submit,
                StopOrder, Signalled
  <2>4. dispatcher' = "exited" => channel' = <<>> /\ current' = <<>>
    BY <1>2, <2>2 DEF Dispatch, Receive, NoticeStop, DispatcherExits, DispatchInline, Submit,
                Idle, Drained
  <2> QED
    BY <2>1, <2>2, <2>3, <2>4 DEF StopOrder, ChannelClosed
<1>3. ASSUME NEW d \in Deliveries, Handle(d) \/ Panics(d)
      PROVE  StopOrder'
  BY <1>3, HandleKeeps, HandleKeepsReach DEF StopOrder, ChannelClosed
<1>4. CASE Stop
  <2>1. UNCHANGED <<channel, dispatcher, current, task>>
    BY <1>4 DEF Stop, BeginStop, DispatcherJoined, PoolReleased, ReleaseTimesOut
  <2> QED
    BY <1>4, <2>1 DEF Stop, BeginStop, DispatcherJoined, PoolReleased, ReleaseTimesOut,
                      WorkersIdle, StopOrder, ChannelClosed, OnWorkers, Running
<1>5. CASE UNCHANGED <<channel, dispatcher, current, task, stopper, timedOut>>
  BY <1>5 DEF StopOrder, ChannelClosed, OnWorkers, Running
<1>6. (\E l \in Listeners : BreakerTimesOut(l)) \/ ProcessEnds \/ UNCHANGED vars
        => UNCHANGED <<channel, dispatcher, current, task, stopper, timedOut>>
  BY DEF BreakerTimesOut, ProcessEnds, vars
<1> QED
  BY <1>1, <1>2, <1>3, <1>4, <1>5, <1>6 DEF Next, Lives

(* Nothing Publish accepted is left behind by Stop, and the workers it      *)
(* waited for are done unless the release timed out.                        *)
THEOREM StopLosesNothing == Spec => []StopDrains
<1>1. Init => Custody /\ StopOrder
  BY DEF Init, Custody, StopOrder, Holds, ChannelClosed
<1>2. TypeOK /\ Custody /\ StopOrder => StopDrains
  <2> SUFFICES ASSUME TypeOK, Custody, StopOrder, stopper = "returned"
               PROVE  StopDrains
    BY DEF StopDrains
  <2>1. channel = <<>> /\ current = <<>>
    BY DEF StopOrder, ChannelClosed
  <2>2. \A y : ~Holds(channel, y) /\ ~Holds(current, y)
    BY <2>1 DEF Holds
  <2>3. \A i \in DOMAIN accepted : accepted[i] \in Events /\ Holds(accepted, accepted[i])
    BY DEF TypeOK, Holds
  <2> QED
    BY <2>2, <2>3 DEF StopDrains, Custody, StopOrder
<1> QED
  BY <1>1, <1>2, StepKeepsCustody, StepKeepsStopOrder, LockHolds, TypeCorrect, PTL DEF Spec

-----------------------------------------------------------------------------
(* The events of a sequence that a listener has subscribed to.              *)

\* The induction over the naturals that the tables below need.
LEMMA Induction ==
  ASSUME NEW A, 0 \in A, \A n \in Nat : n \in A => n + 1 \in A
  PROVE  Nat \subseteq A
<1>1. ASSUME Nat \ A # {} PROVE FALSE
  <2>1. PICK m \in Nat \ A : \A k \in Nat \ A : ~(<<k, m>> \in OpToRel(<, Nat))
    <3>1. Nat \ A \subseteq Nat
      OBVIOUS
    <3> QED
      BY <1>1, <3>1, WFMin, NatLessThanWellFounded, Zenon
  <2>2. ASSUME NEW k \in Nat \ A PROVE ~(k < m)
    <3>1. ~(<<k, m>> \in OpToRel(<, Nat))
      BY <2>1
    <3> QED
      BY <3>1 DEF OpToRel
  <2>3. m - 1 \in Nat
    OBVIOUS
  <2> QED
    BY <2>2, <2>3
<1> QED
  BY <1>1

\* One step of the selection, and a table of the selections from the prefixes of s.
Select(l, s, e) == IF l \in SubscribersOf(e) THEN Append(s, e) ELSE s

Upto(l, s, n, t) ==
  /\ t = [i \in 0..n |-> t[i]]
  /\ t[0] = <<>>
  /\ \A i \in 1..n : t[i] = Select(l, t[i - 1], s[i])

IsTable(l, s, t) == Upto(l, s, Len(s), t)

LEMMA TableExists ==
  ASSUME NEW l, NEW s \in Seq(Events)
  PROVE  \E t : IsTable(l, s, t)
<1> DEFINE A == {n \in Nat : \E t : Upto(l, s, n, t)}
<1>1. 0 \in A
  <2> DEFINE t == [i \in 0..0 |-> <<>>]
  <2>1. Upto(l, s, 0, t)
    BY DEF Upto
  <2> QED
    BY <2>1
<1>2. ASSUME NEW n \in Nat, n \in A PROVE n + 1 \in A
  <2>1. PICK t : Upto(l, s, n, t)
    BY <1>2
  <2> DEFINE last == Select(l, t[n], s[n + 1])
             u == [i \in 0..n + 1 |-> IF i <= n THEN t[i] ELSE last]
  <2>2. Upto(l, s, n + 1, u)
    <3>1. u = [i \in 0..n + 1 |-> u[i]] /\ u[0] = <<>>
      BY <2>1 DEF Upto
    <3>2. ASSUME NEW i \in 1..n + 1 PROVE u[i] = Select(l, u[i - 1], s[i])
      <4>1. i \in 0..n + 1 /\ i - 1 \in 0..n + 1 /\ i - 1 <= n
        OBVIOUS
      <4>2. u[i - 1] = t[i - 1]
        BY <4>1
      <4>3. CASE i <= n
        <5>1. u[i] = t[i] /\ i \in 1..n
          BY <4>1, <4>3
        <5> HIDE DEF u
        <5> QED
          BY <2>1, <4>2, <5>1 DEF Upto
      <4>4. CASE i = n + 1
        <5>1. u[i] = last /\ i - 1 = n
          BY <4>1, <4>4
        <5> HIDE DEF u
        <5> QED
          BY <4>2, <4>4, <5>1
      <4> QED
        BY <4>3, <4>4
    <3> HIDE DEF u
    <3> QED
      BY <3>1, <3>2 DEF Upto
  <2> HIDE DEF u
  <2> QED
    BY <2>2
<1> HIDE DEF A
<1>3. Len(s) \in A
  BY <1>1, <1>2, Induction, LenProperties
<1> QED
  BY <1>3 DEF A, IsTable

LEMMA EventsForTable ==
  ASSUME NEW l, NEW s \in Seq(Events)
  PROVE  \E t : IsTable(l, s, t) /\ EventsFor(l, s) = t[Len(s)]
<1> DEFINE Recursive(t) == t = [i \in 0..Len(s) |->
               IF i = 0 THEN <<>>
               ELSE IF l \in SubscribersOf(s[i]) THEN Append(t[i - 1], s[i]) ELSE t[i - 1]]
<1>0. Len(s) \in Nat
  BY LenProperties
<1>1. \E t : Recursive(t)
  <2>1. PICK t : IsTable(l, s, t)
    BY TableExists
  <2>2. Recursive(t)
    BY <1>0, <2>1 DEF IsTable, Upto, Select
  <2> QED
    BY <2>2
<1> DEFINE c == CHOOSE t : Recursive(t)
<1>2. Recursive(c)
  BY <1>1
<1>3. EventsFor(l, s) = c[Len(s)]
  BY DEF EventsFor
<1> HIDE DEF c
<1>4. IsTable(l, s, c)
  <2>1. c = [i \in 0..Len(s) |-> c[i]] /\ c[0] = <<>>
    BY <1>0, <1>2
  <2>2. ASSUME NEW i \in 1..Len(s) PROVE c[i] = Select(l, c[i - 1], s[i])
    <3>1. i \in 0..Len(s) /\ i # 0
      BY <1>0
    <3> QED
      BY <1>2, <3>1 DEF Select
  <2> QED
    BY <2>1, <2>2 DEF IsTable, Upto
<1> QED
  BY <1>3, <1>4

LEMMA ConcatOfEvents ==
  \A r, s, t \in Seq(Events) : r \o (s \o t) = (r \o s) \o t
  BY ConcatAssociative

LEMMA AppendToConcat ==
  ASSUME NEW s \in Seq(Events), NEW t \in Seq(Events), NEW x \in Events
  PROVE  Append(s \o t, x) = s \o Append(t, x)
<1>1. s \o t \in Seq(Events) /\ <<x>> \in Seq(Events)
  BY ConcatProperties
<1>2. Append(s \o t, x) = (s \o t) \o <<x>> /\ Append(t, x) = t \o <<x>>
  BY <1>1, AppendIsConcat
<1> QED
  BY <1>1, <1>2, ConcatAssociative

LEMMA SelectIsTyped ==
  ASSUME NEW l, NEW s \in Seq(Events), NEW e \in Events
  PROVE  Select(l, s, e) \in Seq(Events)
  BY AppendProperties DEF Select

LEMMA TableIsTyped ==
  ASSUME NEW l, NEW s \in Seq(Events), NEW t, IsTable(l, s, t)
  PROVE  \A n \in 0..Len(s) : t[n] \in Seq(Events)
<1> DEFINE A == {n \in Nat : n <= Len(s) => t[n] \in Seq(Events)}
<1>0. Len(s) \in Nat
  BY LenProperties
<1>1. 0 \in A
  BY EmptySeq DEF IsTable, Upto
<1>2. ASSUME NEW n \in Nat, n \in A PROVE n + 1 \in A
  <2> SUFFICES ASSUME n + 1 <= Len(s) PROVE t[n + 1] \in Seq(Events)
    OBVIOUS
  <2>1. n + 1 \in 1..Len(s) /\ (n + 1) - 1 = n /\ n <= Len(s)
    BY <1>0
  <2>2. t[n + 1] = Select(l, t[n], s[n + 1])
    BY <2>1 DEF IsTable, Upto
  <2>3. t[n] \in Seq(Events) /\ s[n + 1] \in Events
    BY <1>2, <2>1, ElementOfSeq
  <2> QED
    BY <2>2, <2>3, SelectIsTyped
<1> HIDE DEF A
<1>3. Nat \subseteq A
  BY <1>1, <1>2, Induction
<1> QED
  BY <1>0, <1>3 DEF A

LEMMA EventsForTyped ==
  ASSUME NEW l, NEW s \in Seq(Events)
  PROVE  EventsFor(l, s) \in Seq(Events)
<1>1. PICK t : IsTable(l, s, t) /\ EventsFor(l, s) = t[Len(s)]
  BY EventsForTable
<1>2. Len(s) \in 0..Len(s)
  BY LenProperties
<1> QED
  BY <1>1, <1>2, TableIsTyped

LEMMA EventsForEmpty ==
  ASSUME NEW l
  PROVE  EventsFor(l, <<>>) = <<>>
<1>1. <<>> \in Seq(Events) /\ Len(<<>>) = 0
  BY EmptySeq
<1>2. PICK t : IsTable(l, <<>>, t) /\ EventsFor(l, <<>>) = t[Len(<<>>)]
  BY <1>1, EventsForTable
<1> QED
  BY <1>1, <1>2 DEF IsTable, Upto

\* Appending an event appends it to the selection, if it is selected.
LEMMA EventsForAppend ==
  ASSUME NEW l, NEW s \in Seq(Events), NEW e \in Events
  PROVE  EventsFor(l, Append(s, e)) = Select(l, EventsFor(l, s), e)
<1> DEFINE u == Append(s, e)
<1>1. /\ u \in Seq(Events) /\ Len(u) = Len(s) + 1 /\ u[Len(s) + 1] = e /\ Len(s) \in Nat
      /\ \A i \in 1..Len(s) : u[i] = s[i]
  BY AppendProperties, LenProperties
<1> HIDE DEF u
<1>2. PICK t : IsTable(l, s, t) /\ EventsFor(l, s) = t[Len(s)]
  BY EventsForTable
<1>3. PICK v : IsTable(l, u, v) /\ EventsFor(l, u) = v[Len(u)]
  BY <1>1, EventsForTable
<1> DEFINE A == {n \in Nat : n <= Len(s) => v[n] = t[n]}
<1>4. 0 \in A
  BY <1>2, <1>3 DEF IsTable, Upto
<1>5. ASSUME NEW n \in Nat, n \in A PROVE n + 1 \in A
  <2> SUFFICES ASSUME n + 1 <= Len(s) PROVE v[n + 1] = t[n + 1]
    OBVIOUS
  <2>1. n + 1 \in 1..Len(s) /\ n + 1 \in 1..Len(u) /\ (n + 1) - 1 = n /\ n <= Len(s)
    BY <1>1
  <2>2. v[n + 1] = Select(l, v[n], u[n + 1])
    BY <1>3, <2>1 DEF IsTable, Upto
  <2>3. t[n + 1] = Select(l, t[n], s[n + 1])
    BY <1>2, <2>1 DEF IsTable, Upto
  <2> QED
    BY <1>1, <1>5, <2>1, <2>2, <2>3
<1> HIDE DEF A
<1>6. v[Len(s)] = t[Len(s)]
  <2>1. Len(s) \in A
    BY <1>1, <1>4, <1>5, Induction
  <2> QED
    BY <1>1, <2>1 DEF A
<1>7. v[Len(s) + 1] = Select(l, v[Len(s)], e)
  <2>1. Len(s) + 1 \in 1..Len(u) /\ (Len(s) + 1) - 1 = Len(s)
    BY <1>1
  <2>2. v[Len(s) + 1] = Select(l, v[Len(s)], u[Len(s) + 1])
    BY <1>3, <2>1 DEF IsTable, Upto
  <2> QED
    BY <1>1, <2>2
<1> QED
  BY <1>1, <1>2, <1>3, <1>6, <1>7 DEF u

\* Taking the head off takes it off the selection, if it is selected.
LEMMA EventsForHead ==
  ASSUME NEW l, NEW s \in Seq(Events), s # <<>>
  PROVE  EventsFor(l, s) = Select(l, <<>>, Head(s)) \o EventsFor(l, Tail(s))
<1> DEFINE r == Tail(s)
           h == Select(l, <<>>, Head(s))
<1>1. /\ r \in Seq(Events) /\ Len(r) = Len(s) - 1 /\ Len(r) \in Nat /\ Len(s) \in Nat
      /\ \A i \in 1..Len(r) : r[i] = s[i + 1]
      /\ Head(s) = s[1] /\ Head(s) \in Events
  BY HeadTailProperties, LenProperties
<1>2. h \in Seq(Events)
  BY <1>1, EmptySeq, SelectIsTyped
<1> HIDE DEF r, h
<1>3. PICK t : IsTable(l, s, t) /\ EventsFor(l, s) = t[Len(s)]
  BY EventsForTable
<1>4. PICK v : IsTable(l, r, v) /\ EventsFor(l, r) = v[Len(r)]
  BY <1>1, EventsForTable
<1>5. \A n \in 0..Len(r) : v[n] \in Seq(Events)
  BY <1>1, <1>4, TableIsTyped
<1> DEFINE A == {n \in Nat : n <= Len(r) => t[n + 1] = h \o v[n]}
<1>6. 0 \in A
  <2>1. t[1] = Select(l, t[0], s[1]) /\ t[0] = <<>> /\ v[0] = <<>>
    <3>1. 1 \in 1..Len(s) /\ 1 - 1 = 0
      BY <1>1
    <3> QED
      BY <1>3, <1>4, <3>1 DEF IsTable, Upto
  <2>2. h \o <<>> = h
    BY <1>2, ConcatEmptySeq
  <2>3. t[1] = h \o v[0]
    BY <1>1, <2>1, <2>2 DEF h
  <2>4. 0 + 1 = 1
    OBVIOUS
  <2> QED
    BY <2>3, <2>4
<1>7. ASSUME NEW n \in Nat, n \in A PROVE n + 1 \in A
  <2> SUFFICES ASSUME n + 1 <= Len(r) PROVE t[(n + 1) + 1] = h \o v[n + 1]
    OBVIOUS
  <2>1. /\ n + 1 \in 1..Len(r) /\ (n + 1) - 1 = n /\ n \in 0..Len(r)
        /\ n + 2 \in 1..Len(s) /\ (n + 2) - 1 = n + 1 /\ (n + 1) + 1 = n + 2
    BY <1>1
  <2>2. v[n + 1] = Select(l, v[n], r[n + 1])
    BY <1>4, <2>1 DEF IsTable, Upto
  <2>3. t[n + 2] = Select(l, t[n + 1], s[n + 2])
    BY <1>3, <2>1 DEF IsTable, Upto
  <2>4. t[n + 1] = h \o v[n] /\ r[n + 1] = s[n + 2]
    BY <1>1, <1>7, <2>1
  <2>5. v[n] \in Seq(Events) /\ r[n + 1] \in Events
    BY <1>1, <1>5, <2>1, ElementOfSeq
  <2>6. Append(h \o v[n], r[n + 1]) = h \o Append(v[n], r[n + 1])
    <3>1. \A a, b \in Seq(Events) : \A y \in Events : Append(a \o b, y) = a \o Append(b, y)
      BY AppendToConcat
    <3> QED
      BY <1>2, <2>5, <3>1
  <2> QED
    BY <2>1, <2>2, <2>3, <2>4, <2>6 DEF Select
<1> HIDE DEF A
<1>8. Len(r) \in A
  BY <1>1, <1>6, <1>7, Induction
<1>9. t[Len(r) + 1] = h \o v[Len(r)] /\ Len(r) + 1 = Len(s)
  BY <1>1, <1>8 DEF A
<1> QED
  BY <1>3, <1>4, <1>9 DEF h, r

-----------------------------------------------------------------------------
(* An inline listener has been called with what it has subscribed to of the *)
(* accepted events, up to the one in the dispatcher's hand and the channel. *)

CurrentIsOneEvent ==
  \A i, j \in 1..Len(current) :
    current[i][1] = current[j][1] /\ (current[i][2] = current[j][2] => i = j)

Pending(l) ==
  IF \E i \in 1..Len(current) : current[i][2] = l THEN <<current[1][1]>> ELSE <<>>

InlineInv ==
  \A l \in Inline : EventsFor(l, accepted) = (inlined[l] \o Pending(l)) \o EventsFor(l, channel)

LEMMA DispatcherTypes ==
  ASSUME TypeOK
  PROVE  /\ accepted \in Seq(Events) /\ channel \in Seq(Events) /\ current \in Seq(Deliveries)
         /\ inlined \in [Listeners -> Seq(Events)]
         /\ \A l \in Inline : inlined[l] \in Seq(Events)
         /\ Len(current) \in Nat
         /\ \A i \in 1..Len(current) : current[i] \in Deliveries
<1>1. current \in Seq(Deliveries)
  BY DEF TypeOK
<1> QED
  BY <1>1, ElementOfSeq, LenProperties, EventBusAssumption DEF TypeOK

LEMMA PendingIsTyped ==
  ASSUME TypeOK, NEW l
  PROVE  Pending(l) \in Seq(Events)
<1>1. \A i \in 1..Len(current) : current[i][1] \in Events
  BY DispatcherTypes DEF Deliveries
<1>2. CASE \E i \in 1..Len(current) : current[i][2] = l
  <2>1. 1 \in 1..Len(current)
    BY <1>2, DispatcherTypes
  <2>2. current[1][1] \in Events
    BY <1>1, <2>1
  <2> QED
    BY <1>2, <2>2 DEF Pending
<1>3. CASE ~\E i \in 1..Len(current) : current[i][2] = l
  BY <1>3, EmptySeq DEF Pending
<1> QED
  BY <1>2, <1>3

\* The dispatcher goes on to its next delivery.
LEMMA NextDelivery ==
  ASSUME TypeOK, CurrentIsOneEvent, current # <<>>, current' = Tail(current)
  PROVE  /\ CurrentIsOneEvent'
         /\ Head(current) = current[1] /\ current[1] \in Deliveries
         /\ \A l : IF l = current[1][2] THEN Pending(l) = <<current[1][1]>> /\ Pending(l)' = <<>>
                 ELSE Pending(l)' = Pending(l)
<1>1. /\ current \in Seq(Deliveries) /\ Len(current) \in Nat /\ Len(current) # 0
      /\ Head(current) = current[1] /\ Len(current') = Len(current) - 1
      /\ \A i \in 1..Len(current') : current'[i] = current[i + 1]
  BY DispatcherTypes, EmptySeq, HeadTailProperties
<1>2. 1 \in 1..Len(current) /\ current[1] \in Deliveries
  BY <1>1, DispatcherTypes
<1>3. \A i \in 1..Len(current') : i + 1 \in 1..Len(current) /\ i + 1 # 1
  BY <1>1
<1>4. CurrentIsOneEvent'
  <2> SUFFICES ASSUME NEW i \in 1..Len(current'), NEW j \in 1..Len(current')
               PROVE  /\ current'[i][1] = current'[j][1]
                      /\ current'[i][2] = current'[j][2] => i = j
    BY DEF CurrentIsOneEvent
  <2>1. i + 1 \in 1..Len(current) /\ j + 1 \in 1..Len(current)
    BY <1>3
  <2>2. current[i + 1][1] = current[j + 1][1] /\ (current[i + 1][2] = current[j + 1][2] => i + 1 = j + 1)
    BY <2>1 DEF CurrentIsOneEvent
  <2> QED
    BY <1>1, <2>2
<1>5. ASSUME NEW l, l = current[1][2] PROVE Pending(l) = <<current[1][1]>>
  BY <1>2, <1>5 DEF Pending
<1>6. ASSUME NEW l, l = current[1][2] PROVE Pending(l)' = <<>>
  <2>1. ASSUME NEW i \in 1..Len(current'), current'[i][2] = l PROVE FALSE
    BY <1>1, <1>2, <1>3, <1>6, <2>1 DEF CurrentIsOneEvent
  <2>2. ~\E i \in 1..Len(current') : current'[i][2] = l
    BY <2>1
  <2> QED
    BY <2>2 DEF Pending
<1>7. ASSUME NEW l, l # current[1][2] PROVE Pending(l)' = Pending(l)
  <2>1. ASSUME NEW i \in 1..Len(current), current[i][2] = l
        PROVE  (\E j \in 1..Len(current') : current'[j][2] = l) /\ current'[1][1] = current[1][1]
    <3>1. i - 1 \in 1..Len(current') /\ (i - 1) + 1 = i /\ 1 \in 1..Len(current')
      BY <1>1, <1>7, <2>1
    <3>2. current'[i - 1][2] = l
      BY <1>1, <2>1, <3>1
    <3>3. current'[1] = current[1 + 1] /\ 1 + 1 \in 1..Len(current)
      BY <1>1, <1>3, <3>1
    <3>4. current[1 + 1][1] = current[1][1]
      BY <1>2, <3>3 DEF CurrentIsOneEvent
    <3> QED
      BY <3>1, <3>2, <3>3, <3>4
  <2>2. ASSUME NEW i \in 1..Len(current'), current'[i][2] = l
        PROVE  \E j \in 1..Len(current) : current[j][2] = l
    BY <1>1, <1>3, <2>2
  <2>3. CASE \E i \in 1..Len(current) : current[i][2] = l
    BY <2>1, <2>3 DEF Pending
  <2>4. CASE ~\E i \in 1..Len(current) : current[i][2] = l
    <3>1. ~\E i \in 1..Len(current') : current'[i][2] = l
      BY <2>2, <2>4
    <3> QED
      BY <2>4, <3>1 DEF Pending
  <2> QED
    BY <2>3, <2>4
<1> QED
  BY <1>1, <1>2, <1>4, <1>5, <1>6, <1>7

LEMMA InlineStands ==
  ASSUME InlineInv, CurrentIsOneEvent, UNCHANGED <<channel, accepted, current, inlined>>
  PROVE  InlineInv' /\ CurrentIsOneEvent'
<1>1. CurrentIsOneEvent'
  BY DEF CurrentIsOneEvent
<1>2. \A l \in Inline : Pending(l)' = Pending(l)
  BY DEF Pending
<1>3. ASSUME NEW l \in Inline
      PROVE  EventsFor(l, accepted') = (inlined'[l] \o Pending(l)') \o EventsFor(l, channel')
  <2>1. EventsFor(l, accepted) = (inlined[l] \o Pending(l)) \o EventsFor(l, channel)
    BY DEF InlineInv
  <2>2. accepted' = accepted /\ inlined' = inlined /\ Pending(l)' = Pending(l) /\ channel' = channel
    BY <1>2
  <2> QED
    BY <2>1, <2>2, Zenon
<1> QED
  BY <1>1, <1>3 DEF InlineInv

LEMMA AcceptKeepsInline ==
  ASSUME TypeOK, InlineInv, NEW e \in Events,
         channel' = Append(channel, e), accepted' = Append(accepted, e),
         UNCHANGED <<current, inlined>>
  PROVE  InlineInv'
<1> SUFFICES ASSUME NEW l \in Inline
             PROVE  EventsFor(l, accepted') = (inlined[l] \o Pending(l)) \o EventsFor(l, channel')
  BY DEF InlineInv, Pending
<1> DEFINE a == EventsFor(l, accepted)
           c == EventsFor(l, channel)
           b == inlined[l] \o Pending(l)
<1>1. accepted \in Seq(Events) /\ channel \in Seq(Events) /\ inlined[l] \in Seq(Events)
      /\ Pending(l) \in Seq(Events)
  BY DispatcherTypes, PendingIsTyped
<1>2. a \in Seq(Events) /\ c \in Seq(Events)
  BY <1>1, EventsForTyped
<1>3. b \in Seq(Events)
  BY <1>1, ConcatProperties
<1>4. EventsFor(l, accepted') = Select(l, a, e) /\ EventsFor(l, channel') = Select(l, c, e)
  BY <1>1, EventsForAppend
<1>5. a = b \o c
  BY DEF InlineInv
<1> HIDE DEF a, b, c
<1>6. Append(b \o c, e) = b \o Append(c, e)
  BY <1>2, <1>3, AppendToConcat
<1> QED
  BY <1>4, <1>5, <1>6 DEF Select, b

LEMMA ReceiveKeepsInline ==
  ASSUME TypeOK, InlineInv, Receive
  PROVE  InlineInv' /\ CurrentIsOneEvent'
<1> DEFINE h == Head(channel)
           s == Subscribed[h]
<1>1. /\ channel \in Seq(Events) /\ channel # <<>> /\ channel' = Tail(channel)
      /\ current = <<>> /\ current' = [i \in DOMAIN s |-> <<h, s[i]>>]
      /\ UNCHANGED <<accepted, inlined>>
  BY DispatcherTypes DEF Receive, Idle, NextEvent
<1>2. h \in Events /\ Tail(channel) \in Seq(Events)
  BY <1>1, HeadTailProperties
<1>3. s \in Seq(Listeners)
  BY <1>2, EventBusAssumption
<1> HIDE DEF s
<1>4. /\ DOMAIN s = 1..Len(s) /\ Len(s) \in Nat /\ Len(current') = Len(s)
      /\ \A i \in 1..Len(s) : current'[i] = <<h, s[i]>>
  BY <1>1, <1>3, LenProperties
<1>5. CurrentIsOneEvent'
  <2>1. \A i, j \in 1..Len(s) : s[i] = s[j] => i = j
    BY <1>2, <1>4, EventBusAssumption DEF s
  <2> HIDE DEF h
  <2> QED
    BY <1>4, <2>1 DEF CurrentIsOneEvent
<1>6. InlineInv'
  <2> SUFFICES ASSUME NEW l \in Inline
               PROVE  EventsFor(l, accepted) = (inlined[l] \o Pending(l)') \o EventsFor(l, channel')
    BY <1>1 DEF InlineInv
  <2> DEFINE x == inlined[l]
             p == Select(l, <<>>, h)
             c == EventsFor(l, Tail(channel))
  <2>1. Pending(l)' = p
    <3>1. l \in SubscribersOf(h) <=> \E i \in 1..Len(s) : s[i] = l
      BY <1>4 DEF SubscribersOf, s
    <3> HIDE DEF h
    <3>2. l \in SubscribersOf(h) <=> \E i \in 1..Len(current') : current'[i][2] = l
      BY <1>4, <3>1
    <3>3. ASSUME NEW i \in 1..Len(s) PROVE current'[1][1] = h
      <4>1. 1 \in 1..Len(s)
        BY <1>4
      <4> QED
        BY <1>4, <4>1
    <3>4. CASE l \in SubscribersOf(h)
      <4>1. Append(<<>>, h) = <<h>>
        OBVIOUS
      <4> QED
        BY <3>1, <3>2, <3>3, <3>4, <4>1 DEF Pending, Select
    <3>5. CASE l \notin SubscribersOf(h)
      BY <3>2, <3>5 DEF Pending, Select
    <3> QED
      BY <3>4, <3>5
  <2>2. x \in Seq(Events) /\ p \in Seq(Events) /\ c \in Seq(Events)
    BY <1>2, DispatcherTypes, EmptySeq, SelectIsTyped, EventsForTyped
  <2>3. EventsFor(l, channel) = p \o c
    BY <1>1, EventsForHead
  <2>4. EventsFor(l, accepted) = (x \o <<>>) \o EventsFor(l, channel)
    <3>1. Pending(l) = <<>>
      BY <1>1, EmptySeq DEF Pending
    <3> QED
      BY <3>1 DEF InlineInv
  <2>5. x \o <<>> = x
    BY <2>2, ConcatEmptySeq
  <2> HIDE DEF x, p, c
  <2>6. x \o (p \o c) = (x \o p) \o c
    BY <2>2, ConcatOfEvents
  <2>7. EventsFor(l, channel') = c
    BY <1>1 DEF c
  <2>8. EventsFor(l, accepted) = (x \o p) \o c
    <3>1. EventsFor(l, accepted) = (x \o <<>>) \o (p \o c)
      BY <2>3, <2>4 DEF x
    <3> QED
      BY <2>5, <2>6, <3>1
  <2> QED
    BY <2>1, <2>7, <2>8, Zenon DEF x
<1> QED
  BY <1>5, <1>6

LEMMA DispatchKeepsInline ==
  ASSUME TypeOK, InlineInv, CurrentIsOneEvent, Dispatch
  PROVE  InlineInv' /\ CurrentIsOneEvent'
<1>1. CASE Receive
  BY <1>1, ReceiveKeepsInline
<1>2. CASE NoticeStop \/ DispatcherExits
  <2>1. UNCHANGED <<channel, accepted, current, inlined>>
    BY <1>2 DEF NoticeStop, DispatcherExits
  <2> QED
    BY <2>1, InlineStands
<1>3. CASE Submit
  <2>1. current # <<>> /\ current' = Tail(current) /\ UNCHANGED <<channel, accepted, inlined>>
        /\ Head(current)[2] \notin Inline
    BY <1>3 DEF Submit, Idle
  <2>2. CurrentIsOneEvent' /\ \A l \in Inline : Pending(l)' = Pending(l)
    BY <2>1, NextDelivery
  <2> QED
    BY <2>1, <2>2 DEF InlineInv
<1>4. CASE DispatchInline
  <2> DEFINE e == current[1][1]
  <2>0. PICK k : k = current[1][2]
    OBVIOUS
  <2>1. current # <<>> /\ current' = Tail(current) /\ UNCHANGED <<channel, accepted>>
    BY <1>4 DEF DispatchInline, Idle
  <2>2. /\ CurrentIsOneEvent' /\ Head(current) = current[1] /\ current[1] \in Deliveries
        /\ Pending(k) = <<e>> /\ Pending(k)' = <<>>
        /\ \A l \in Inline \ {k} : Pending(l)' = Pending(l)
    BY <2>0, <2>1, NextDelivery
  <2>3. k \in Inline /\ e \in Events /\ k \in Listeners
    BY <1>4, <2>0, <2>2 DEF DispatchInline, Deliveries
  <2> HIDE DEF e
  <2>4. inlined'[k] = Append(inlined[k], e) /\ \A l \in Inline \ {k} : inlined'[l] = inlined[l]
    BY <1>4, <2>0, <2>2, <2>3, DispatcherTypes, EventBusAssumption DEF DispatchInline, e
  <2>5. Append(inlined[k], e) \o <<>> = inlined[k] \o <<e>>
    <3>1. inlined[k] \in Seq(Events) /\ Append(inlined[k], e) \in Seq(Events)
      BY <2>3, DispatcherTypes, AppendProperties
    <3> QED
      BY <2>3, <3>1, AppendIsConcat, ConcatEmptySeq
  <2>6. ASSUME NEW l \in Inline
        PROVE  inlined'[l] \o Pending(l)' = inlined[l] \o Pending(l)
    <3>1. CASE l = k
      <4>1. /\ inlined'[l] = Append(inlined[k], e) /\ inlined[l] = inlined[k]
            /\ Pending(l)' = <<>> /\ Pending(l) = <<e>>
        BY <2>2, <2>4, <3>1
      <4> QED
        BY <2>5, <4>1, Zenon
    <3>2. CASE l # k
      BY <2>2, <2>4, <3>2
    <3> QED
      BY <3>1, <3>2
  <2> QED
    BY <2>1, <2>2, <2>6 DEF InlineInv
<1> QED
  BY <1>1, <1>2, <1>3, <1>4 DEF Dispatch

LEMMA StepKeepsInline ==
  ASSUME TypeOK, InlineInv, CurrentIsOneEvent, [Next]_vars
  PROVE  InlineInv' /\ CurrentIsOneEvent'
<1>1. ASSUME NEW e \in Events, Publish(e)
      PROVE  InlineInv' /\ CurrentIsOneEvent'
  <2>1. UNCHANGED <<current, inlined>>
    BY <1>1 DEF Publish, EnterPublish, Send, dispatch
  <2>2. CASE UNCHANGED <<channel, accepted>>
    BY <2>1, <2>2, InlineStands
  <2>3. CASE channel' = Append(channel, e) /\ accepted' = Append(accepted, e)
    BY <2>1, <2>3, AcceptKeepsInline DEF CurrentIsOneEvent
  <2>4. UNCHANGED <<channel, accepted>> \/ (channel' = Append(channel, e) /\ accepted' = Append(accepted, e))
    BY <1>1 DEF Publish, EnterPublish, Send, dispatch
  <2> QED
    BY <2>2, <2>3, <2>4
<1>2. CASE UNCHANGED <<channel, accepted, current, inlined>>
  BY <1>2, InlineStands
<1>3. ASSUME NEW d \in Deliveries, Handle(d) \/ Panics(d)
      PROVE  UNCHANGED <<channel, accepted, current, inlined>>
  BY <1>3, HandleKeeps
<1>4. Stop \/ (\E l \in Listeners : BreakerTimesOut(l)) \/ ProcessEnds \/ UNCHANGED vars
        => UNCHANGED <<channel, accepted, current, inlined>>
  BY DEF Stop, BeginStop, DispatcherJoined, PoolReleased, ReleaseTimesOut, BreakerTimesOut,
         ProcessEnds, vars, dispatch
<1> QED
  BY <1>1, <1>2, <1>3, <1>4, DispatchKeepsInline DEF Next, Lives

LEMMA PrefixOfConcat ==
  ASSUME NEW s \in Seq(Events), NEW t \in Seq(Events)
  PROVE  SubSeq(s \o t, 1, Len(s)) = s
<1> DEFINE u == s \o t
           v == SubSeq(u, 1, Len(s))
<1>1. /\ u \in Seq(Events) /\ Len(u) = Len(s) + Len(t) /\ Len(s) \in Nat /\ Len(t) \in Nat
      /\ \A i \in 1..Len(s) : u[i] = s[i]
  BY ConcatProperties, LenProperties
<1> HIDE DEF u
<1>2. /\ v \in Seq(Events) /\ Len(v) = Len(s)
      /\ \A i \in 1..Len(s) : v[i] = u[i]
  BY <1>1
<1> HIDE DEF v
<1>3. v = s
  BY <1>1, <1>2, SeqEqual
<1> QED
  BY <1>3 DEF u, v

LEMMA InlineHolds == Spec => []InlineInv /\ []CurrentIsOneEvent
<1>1. Init => InlineInv /\ CurrentIsOneEvent
  <2> SUFFICES ASSUME Init PROVE InlineInv /\ CurrentIsOneEvent
    OBVIOUS
  <2>1. accepted = <<>> /\ channel = <<>> /\ current = <<>> /\ \A l \in Inline : inlined[l] = <<>>
    BY EventBusAssumption DEF Init
  <2>2. CurrentIsOneEvent /\ \A l \in Inline : Pending(l) = <<>>
    BY <2>1, EmptySeq DEF CurrentIsOneEvent, Pending
  <2>3. (<<>> \o <<>>) \o <<>> = <<>>
    OBVIOUS
  <2> QED
    BY <2>1, <2>2, <2>3, EventsForEmpty DEF InlineInv
<1> QED
  BY <1>1, StepKeepsInline, TypeCorrect, PTL DEF Spec

(* An inline listener has seen a prefix of what was accepted for it, each   *)
(* event once and in the order of acceptance, for any number of publishers  *)
(* and subscriptions.                                                       *)
THEOREM InlineSeesTheOrder == Spec => []InlineInOrder
<1>1. TypeOK /\ InlineInv => InlineInOrder
  <2> SUFFICES ASSUME TypeOK, InlineInv, NEW l \in Inline
               PROVE  inlined[l] = SubSeq(EventsFor(l, accepted), 1, Len(inlined[l]))
    BY DEF InlineInOrder
  <2> DEFINE x == inlined[l]
             p == Pending(l)
             c == EventsFor(l, channel)
  <2>1. x \in Seq(Events) /\ p \in Seq(Events) /\ c \in Seq(Events)
    BY DispatcherTypes, PendingIsTyped, EventsForTyped
  <2>2. EventsFor(l, accepted) = (x \o p) \o c
    BY DEF InlineInv
  <2> HIDE DEF x, p, c
  <2>3. (x \o p) \o c = x \o (p \o c) /\ p \o c \in Seq(Events)
    BY <2>1, ConcatAssociative, ConcatProperties
  <2>4. SubSeq(x \o (p \o c), 1, Len(x)) = x
    BY <2>1, <2>3, PrefixOfConcat
  <2> QED
    BY <2>2, <2>3, <2>4 DEF x
<1> QED
  BY <1>1, InlineHolds, TypeCorrect, PTL

-----------------------------------------------------------------------------
(* An event is in one place only until a listener's task begins, so that no *)
(* task is begun twice; what a listener's breaker has counted are events    *)
(* that this listener gave up on.                                           *)

AcceptedOnce ==
  /\ \A i \in 1..Len(channel) : event[channel[i]] = "accepted"
  /\ \A i, j \in 1..Len(channel) : channel[i] = channel[j] => i = j
  /\ \A i \in 1..Len(current) :
       /\ event[current[i][1]] = "accepted"
       /\ \A j \in 1..Len(channel) : channel[j] # current[i][1]

ToCome(d) ==
  \/ event[d[1]] # "accepted"
  \/ \E i \in 1..Len(channel) : channel[i] = d[1]
  \/ \E i \in 1..Len(current) : current[i] = d

Untouched == \A d \in Deliveries : ToCome(d) => task[d] = NoTask

Recorded ==
  \A d \in Deliveries :
    task[d].stage \in {"recording", "admitted"} => task[d].outcome \in {"handled", "failed"}

Failed(l) == {e \in Events : task[<<e, l>>].outcome = "failed"}
GivenUp(l) == {e \in Failed(l) : task[<<e, l>>].stage = "over"}

BreakersEarned ==
  \A l \in Listeners :
    /\ IsFiniteSet(Failed(l))
    /\ breaker[l].mode = "closed" => breaker[l].failures <= Cardinality(GivenUp(l))
    /\ breaker[l].mode # "closed" => Cardinality(GivenUp(l)) >= MaxFailures
    /\ \A e \in Events :
         task[<<e, l>>].outcome = "skipped" => Cardinality(GivenUp(l)) >= MaxFailures

LEMMA ReceiveKeepsOnce ==
  ASSUME TypeOK, AcceptedOnce, Untouched, Receive
  PROVE  AcceptedOnce' /\ Untouched'
<1> DEFINE s == Subscribed[channel[1]]
<1>1. /\ channel \in Seq(Events) /\ Len(channel) \in Nat /\ Len(channel) # 0
      /\ channel[1] \in Events /\ Head(channel) = channel[1] /\ 1 \in 1..Len(channel)
      /\ Len(channel') = Len(channel) - 1
      /\ \A i \in 1..Len(channel') : channel'[i] = channel[i + 1]
  <2>1. channel \in Seq(Events) /\ channel # <<>> /\ channel' = Tail(channel)
    BY DispatcherTypes DEF Receive, NextEvent
  <2>2. Len(channel) \in Nat /\ Len(channel) # 0
    BY <2>1, EmptySeq, LenProperties
  <2> QED
    BY <2>1, <2>2, HeadTailProperties, ElementOfSeq
<1>2. /\ current' = [i \in DOMAIN s |-> <<channel[1], s[i]>>]
      /\ UNCHANGED <<event, task>>
  BY <1>1 DEF Receive, NextEvent
<1>3. s \in Seq(Listeners)
  BY <1>1, EventBusAssumption
<1> HIDE DEF s
<1>4. \A i \in 1..Len(current') : current'[i][1] = channel[1]
  BY <1>2, <1>3, LenProperties
<1>5. \A i \in 1..Len(channel') : i + 1 \in 1..Len(channel) /\ i + 1 # 1
  BY <1>1
<1>6. \A i \in 1..Len(channel') : channel'[i] # channel[1]
  BY <1>1, <1>5 DEF AcceptedOnce
<1>7. AcceptedOnce'
  <2>1. \A i \in 1..Len(channel') : event'[channel'[i]] = "accepted"
    BY <1>1, <1>2, <1>5 DEF AcceptedOnce
  <2>2. ASSUME NEW i \in 1..Len(channel'), NEW j \in 1..Len(channel'), channel'[i] = channel'[j]
        PROVE  i = j
    <3>1. channel[i + 1] = channel[j + 1]
      BY <1>1, <2>2
    <3>2. i + 1 = j + 1
      BY <1>5, <3>1 DEF AcceptedOnce
    <3> QED
      BY <1>1, <3>2
  <2>3. event'[channel[1]] = "accepted"
    BY <1>1, <1>2 DEF AcceptedOnce
  <2> QED
    BY <1>4, <1>6, <2>1, <2>2, <2>3 DEF AcceptedOnce
<1>8. ASSUME NEW d \in Deliveries, ToCome(d)' PROVE ToCome(d)
  <2>1. CASE \E i \in 1..Len(channel') : channel'[i] = d[1]
    BY <1>1, <1>5, <2>1 DEF ToCome
  <2>2. CASE \E i \in 1..Len(current') : current'[i] = d
    BY <1>1, <1>4, <2>2 DEF ToCome
  <2> QED
    BY <1>2, <1>8, <2>1, <2>2 DEF ToCome
<1> QED
  BY <1>2, <1>7, <1>8 DEF Untouched

LEMMA DeliverKeepsOnce ==
  ASSUME TypeOK, AcceptedOnce, CurrentIsOneEvent, Untouched, DispatchInline \/ Submit
  PROVE  AcceptedOnce' /\ Untouched'
<1>1. /\ current # <<>> /\ current' = Tail(current) /\ UNCHANGED <<event, channel>>
      /\ \A d \in Deliveries : d # Head(current) => task'[d] = task[d]
  BY DEF DispatchInline, Submit, Idle, TypeOK
<1>2. /\ current \in Seq(Deliveries) /\ Len(current) \in Nat /\ Len(current) # 0
      /\ Head(current) = current[1] /\ Len(current') = Len(current) - 1
      /\ \A i \in 1..Len(current') : current'[i] = current[i + 1]
  BY <1>1, DispatcherTypes, EmptySeq, HeadTailProperties
<1>3. \A i \in 1..Len(current') : i + 1 \in 1..Len(current) /\ i + 1 # 1
  BY <1>2
<1>4. AcceptedOnce'
  BY <1>1, <1>2, <1>3 DEF AcceptedOnce
<1>5. 1 \in 1..Len(current)
  BY <1>2
<1>6. ASSUME NEW d \in Deliveries, ToCome(d)' PROVE ToCome(d) /\ d # Head(current)
  <2>1. CASE \E i \in 1..Len(current') : current'[i] = d
    BY <1>2, <1>3, <1>5, <2>1 DEF ToCome, CurrentIsOneEvent
  <2>2. CASE event[d[1]] # "accepted" \/ \E i \in 1..Len(channel) : channel[i] = d[1]
    BY <1>2, <1>5, <2>2 DEF ToCome, AcceptedOnce
  <2> QED
    BY <1>1, <1>6, <2>1, <2>2 DEF ToCome
<1> QED
  BY <1>1, <1>4, <1>6 DEF Untouched

LEMMA PublishKeepsOnce ==
  ASSUME TypeOK, AcceptedOnce, Untouched, NEW e \in Events, Publish(e)
  PROVE  AcceptedOnce' /\ Untouched'
<1>1. /\ channel \in Seq(Events) /\ Len(channel) \in Nat /\ event[e] # "accepted"
      /\ \A i \in 1..Len(channel) : channel[i] \in Events /\ channel[i] # e
      /\ \A i \in 1..Len(current) : current[i] \in Deliveries /\ current[i][1] # e
      /\ event' = [event EXCEPT ![e] = event'[e]]
      /\ UNCHANGED <<current, task>>
  <2>1. event[e] # "accepted" /\ UNCHANGED <<current, task>>
    BY DEF Publish, EnterPublish, Send, dispatch
  <2>2. event' = [event EXCEPT ![e] = event'[e]]
    BY DEF Publish, EnterPublish, Send, TypeOK
  <2>3. channel \in Seq(Events)
    BY DispatcherTypes
  <2> QED
    BY <2>1, <2>2, <2>3, DispatcherTypes, ElementOfSeq, LenProperties DEF AcceptedOnce
<1>2. \A f \in Events \ {e} : event'[f] = event[f]
  BY <1>1 DEF TypeOK
<1>3. CASE UNCHANGED channel
  <2>1. AcceptedOnce'
    BY <1>1, <1>2, <1>3 DEF AcceptedOnce, Deliveries
  <2>2. \A d \in Deliveries : ToCome(d)' => ToCome(d)
    BY <1>1, <1>2, <1>3 DEF ToCome, Deliveries
  <2> QED
    BY <1>1, <2>1, <2>2 DEF Untouched
<1>4. CASE channel' = Append(channel, e) /\ event'[e] = "accepted"
  <2>1. /\ Len(channel') = Len(channel) + 1 /\ channel'[Len(channel) + 1] = e
        /\ \A i \in 1..Len(channel) : channel'[i] = channel[i]
    BY <1>1, <1>4, AppendProperties
  <2>2. \A i \in 1..Len(channel') : i \in 1..Len(channel) \/ i = Len(channel) + 1
    BY <1>1, <2>1
  <2>3. AcceptedOnce'
    BY <1>1, <1>2, <1>4, <2>1, <2>2 DEF AcceptedOnce, Deliveries
  <2>4. \A d \in Deliveries : ToCome(d)' => ToCome(d)
    BY <1>1, <1>2, <2>1, <2>2 DEF ToCome, Deliveries
  <2> QED
    BY <1>1, <2>3, <2>4 DEF Untouched
<1> QED
  BY <1>1, <1>3, <1>4 DEF Publish, EnterPublish, Send, dispatch, TypeOK

\* A step of a task takes that task on, from a stage it has reached and not the last.
LEMMA HandleMoves ==
  ASSUME TypeOK, NEW d \in Deliveries, Handle(d) \/ Panics(d)
  PROVE  /\ \A c \in Deliveries \ {d} : task'[c] = task[c]
         /\ task[d].stage \notin {"none", "over"}
  BY DEF Handle, Panics, CheckBreaker, HandlerPublishes, HandlerSucceeds, HandlerFails, Record,
         Done, Move, Finish, TypeOK

LEMMA StepKeepsOnce ==
  ASSUME TypeOK, AcceptedOnce, CurrentIsOneEvent, Untouched, [Next]_vars
  PROVE  AcceptedOnce' /\ Untouched'
<1>1. CASE UNCHANGED <<event, channel, current, task>>
  <2>1. \A d \in Deliveries : ToCome(d)' = ToCome(d)
    BY <1>1 DEF ToCome
  <2> QED
    BY <1>1, <2>1 DEF AcceptedOnce, Untouched
<1>2. CASE Dispatch
  <2>1. CASE NoticeStop \/ DispatcherExits
    BY <1>1, <2>1 DEF NoticeStop, DispatcherExits
  <2> QED
    BY <1>2, <2>1, ReceiveKeepsOnce, DeliverKeepsOnce DEF Dispatch
<1>3. ASSUME NEW d \in Deliveries, Handle(d) \/ Panics(d)
      PROVE  AcceptedOnce' /\ Untouched'
  <2>1. UNCHANGED <<event, channel, current>>
    BY <1>3, HandleKeeps
  <2>2. \A c \in Deliveries : ToCome(c)' = ToCome(c)
    BY <2>1 DEF ToCome
  <2>3. ~ToCome(d)
    BY <1>3, HandleMoves DEF Untouched, NoTask
  <2> QED
    BY <1>3, <2>1, <2>2, <2>3, HandleMoves DEF AcceptedOnce, Untouched
<1>4. Stop \/ (\E l \in Listeners : BreakerTimesOut(l)) \/ ProcessEnds \/ UNCHANGED vars
        => UNCHANGED <<event, channel, current, task>>
  BY DEF Stop, BeginStop, DispatcherJoined, PoolReleased, ReleaseTimesOut, BreakerTimesOut,
         ProcessEnds, vars, dispatch
<1> QED
  BY <1>1, <1>2, <1>3, <1>4, PublishKeepsOnce DEF Next, Lives

\* What a step makes of one task leaves the other tasks' outcomes and undoes no failure.
LEMMA OneTaskMoves ==
  ASSUME TypeOK, BreakersEarned, NEW d \in Deliveries, task[d].stage # "over",
         \A c \in Deliveries \ {d} : task'[c] = task[c], NEW l \in Listeners
  PROVE  /\ IsFiniteSet(Failed(l)')
         /\ IsFiniteSet(GivenUp(l)) /\ Cardinality(GivenUp(l)) \in Nat
         /\ IsFiniteSet(GivenUp(l)') /\ Cardinality(GivenUp(l)') \in Nat
         /\ Cardinality(GivenUp(l)) <= Cardinality(GivenUp(l)')
<1>1. \A e \in Events : <<e, l>> \in Deliveries /\ (<<e, l>> = d <=> e = d[1] /\ l = d[2])
  BY DEF Deliveries
<1>2. \A e \in Events : e # d[1] => task'[<<e, l>>] = task[<<e, l>>]
  BY <1>1
<1>3. IsFiniteSet(Failed(l)) /\ IsFiniteSet(Failed(l)')
  <2>1. IsFiniteSet(Failed(l))
    BY DEF BreakersEarned
  <2>2. IsFiniteSet(Failed(l) \cup {d[1]})
    BY <2>1, FS_AddElement
  <2>3. Failed(l)' \subseteq Failed(l) \cup {d[1]}
    BY <1>2 DEF Failed
  <2> QED
    BY <2>1, <2>2, <2>3, FS_Subset
<1>4. GivenUp(l) \subseteq Failed(l) /\ GivenUp(l)' \subseteq Failed(l)'
  BY DEF GivenUp
<1>5. GivenUp(l) \subseteq GivenUp(l)'
  BY <1>1 DEF GivenUp, Failed
<1>6. IsFiniteSet(GivenUp(l)) /\ IsFiniteSet(GivenUp(l)')
  BY <1>3, <1>4, FS_Subset
<1> QED
  BY <1>3, <1>5, <1>6, FS_Subset, FS_CardinalityType

\* A breaker that stays or is let into its trial, and a skip while a breaker was not closed.
LEMMA NothingCounted ==
  ASSUME TypeOK, BreakersEarned, NEW d \in Deliveries, task[d].stage # "over",
         \A c \in Deliveries \ {d} : task'[c] = task[c],
         task'[d].outcome = "skipped" =>
           task[d].outcome = "skipped" \/ breaker[d[2]].mode # "closed",
         \A l \in Listeners :
           /\ breaker'[l].mode = "closed" <=> breaker[l].mode = "closed"
           /\ breaker'[l].failures = breaker[l].failures
  PROVE  BreakersEarned'
<1> SUFFICES ASSUME NEW l \in Listeners
             PROVE  /\ IsFiniteSet(Failed(l)')
                    /\ breaker'[l].mode = "closed" => breaker'[l].failures <= Cardinality(GivenUp(l)')
                    /\ breaker'[l].mode # "closed" => Cardinality(GivenUp(l)') >= MaxFailures
                    /\ \A e \in Events :
                         task'[<<e, l>>].outcome = "skipped" => Cardinality(GivenUp(l)') >= MaxFailures
  BY DEF BreakersEarned
<1> DEFINE n == Cardinality(GivenUp(l))
           m == Cardinality(GivenUp(l)')
<1>1. IsFiniteSet(Failed(l)') /\ n \in Nat /\ m \in Nat /\ n <= m
  BY OneTaskMoves
<1>2. /\ breaker[l].mode = "closed" => breaker[l].failures <= n
      /\ breaker[l].mode # "closed" => n >= MaxFailures
      /\ \A e \in Events : task[<<e, l>>].outcome = "skipped" => n >= MaxFailures
  BY DEF BreakersEarned
<1> HIDE DEF n, m
<1>3. MaxFailures \in Nat /\ breaker[l].failures \in Nat
  BY EventBusAssumption DEF TypeOK
<1>4. ASSUME NEW e \in Events, task'[<<e, l>>].outcome = "skipped" PROVE n >= MaxFailures
  <2>1. CASE <<e, l>> = d
    <3>1. d[2] = l
      BY <2>1
    <3> QED
      BY <1>2, <1>4, <2>1, <3>1
  <2>2. CASE <<e, l>> # d
    <3>1. <<e, l>> \in Deliveries \ {d}
      BY <2>2 DEF Deliveries
    <3>2. task'[<<e, l>>] = task[<<e, l>>]
      BY <3>1
    <3> QED
      BY <1>2, <1>4, <3>2
  <2> QED
    BY <2>1, <2>2
<1>5. \A e \in Events : task'[<<e, l>>].outcome = "skipped" => m >= MaxFailures
  BY <1>1, <1>3, <1>4
<1>6. /\ breaker'[l].mode = "closed" => breaker'[l].failures <= m
      /\ breaker'[l].mode # "closed" => m >= MaxFailures
  BY <1>1, <1>2, <1>3
<1> QED
  BY <1>1, <1>5, <1>6 DEF m

LEMMA DoneIsEarned ==
  ASSUME TypeOK, Recorded, BreakersEarned, NEW d \in Deliveries, Done(d)
  PROVE  BreakersEarned'
<1> DEFINE k == d[2]
           b == breaker[k]
           after == Counted(b, d, task[d].outcome)
<1>1. /\ k \in Listeners /\ d[1] \in Events /\ d = <<d[1], d[2]>>
      /\ task[d].stage = "admitted" /\ task[d].outcome \in {"handled", "failed"}
      /\ task' = [task EXCEPT ![d].stage = "over"]
      /\ breaker' = [breaker EXCEPT ![k] = after]
  BY DEF Done, Move, Recorded, BreakerOf, Deliveries
<1>2. /\ \A c \in Deliveries \ {d} : task'[c] = task[c]
      /\ task'[d].outcome = task[d].outcome /\ task'[d].stage = "over" /\ task[d].stage # "over"
      /\ task'[d].outcome # "skipped"
  BY <1>1 DEF TypeOK
<1>3. ASSUME NEW l \in Listeners \ {k} PROVE breaker'[l] = breaker[l]
  BY <1>1, <1>3 DEF TypeOK
<1>4. breaker'[k] = after
  BY <1>1 DEF TypeOK
<1>5. /\ MaxFailures \in Nat \ {0} /\ b.failures \in Nat
      /\ b = [mode |-> b.mode, failures |-> b.failures, admitted |-> b.admitted]
  BY <1>1, EventBusAssumption DEF TypeOK
<1> SUFFICES ASSUME NEW l \in Listeners
             PROVE  /\ IsFiniteSet(Failed(l)')
                    /\ breaker'[l].mode = "closed" => breaker'[l].failures <= Cardinality(GivenUp(l)')
                    /\ breaker'[l].mode # "closed" => Cardinality(GivenUp(l)') >= MaxFailures
                    /\ \A e \in Events :
                         task'[<<e, l>>].outcome = "skipped" => Cardinality(GivenUp(l)') >= MaxFailures
  BY DEF BreakersEarned
<1> HIDE DEF after
<1> DEFINE n == Cardinality(GivenUp(l))
           m == Cardinality(GivenUp(l)')
<1>6. IsFiniteSet(Failed(l)') /\ IsFiniteSet(GivenUp(l)) /\ n \in Nat /\ m \in Nat /\ n <= m
  BY <1>2, OneTaskMoves
<1>7. /\ breaker[l].mode = "closed" => breaker[l].failures <= n
      /\ breaker[l].mode # "closed" => n >= MaxFailures
      /\ \A e \in Events : task[<<e, l>>].outcome = "skipped" => n >= MaxFailures
  BY DEF BreakersEarned
<1>8. ASSUME NEW e \in Events, task'[<<e, l>>].outcome = "skipped" PROVE n >= MaxFailures
  <2>1. <<e, l>> \in Deliveries \ {d}
    BY <1>2, <1>8 DEF Deliveries
  <2>2. task'[<<e, l>>] = task[<<e, l>>]
    BY <1>2, <2>1
  <2> QED
    BY <1>7, <1>8, <2>2
<1>9. ASSUME l = k, task[d].outcome = "failed" PROVE m = n + 1
  <2>1. \A e \in Events : <<e, l>> \in Deliveries /\ (<<e, l>> = d <=> e = d[1])
    BY <1>1, <1>9 DEF Deliveries
  <2>2. \A e \in Events : e # d[1] => task'[<<e, l>>] = task[<<e, l>>]
    BY <1>2, <2>1
  <2>3. <<d[1], l>> = d
    BY <1>1, <1>9
  <2>4. GivenUp(l)' = GivenUp(l) \cup {d[1]}
    BY <1>1, <1>2, <1>9, <2>2, <2>3 DEF GivenUp, Failed
  <2>5. d[1] \notin GivenUp(l)
    BY <1>2, <2>3 DEF GivenUp
  <2>6. Cardinality(GivenUp(l) \cup {d[1]}) = n + 1
    BY <1>6, <2>5, FS_AddElement
  <2> QED
    BY <2>4, <2>6
<1> HIDE DEF n, m
<1>10. /\ breaker'[l].mode = "closed" => breaker'[l].failures <= m
       /\ breaker'[l].mode # "closed" => m >= MaxFailures
  <2>1. CASE l # k
    BY <1>3, <1>5, <1>6, <1>7, <2>1, EventBusAssumption DEF TypeOK
  <2>2. CASE l = k /\ d \notin b.admitted
    <3>1. breaker'[l] = b
      BY <1>4, <2>2 DEF after, Counted
    <3> QED
      BY <1>5, <1>6, <1>7, <2>2, <3>1
  <2>3. CASE l = k /\ d \in b.admitted /\ task[d].outcome = "handled"
    <3>1. CASE b.mode = "halfOpen"
      <4>1. breaker'[l] = Enters("closed")
        BY <1>4, <2>3, <3>1 DEF after, Counted
      <4> QED
        BY <1>6, <4>1 DEF Enters
    <3>2. CASE b.mode # "halfOpen"
      <4>1. breaker'[l] = [b EXCEPT !.failures = 0, !.admitted = b.admitted \ {d}]
        BY <1>4, <2>3, <3>2 DEF after, Counted
      <4>2. breaker'[l].mode = b.mode /\ breaker'[l].failures = 0
        BY <1>5, <4>1
      <4> QED
        BY <1>5, <1>6, <1>7, <2>3, <4>2
    <3> QED
      BY <3>1, <3>2
  <2>4. CASE l = k /\ d \in b.admitted /\ task[d].outcome = "failed"
    <3>1. m = n + 1
      BY <1>9, <2>4
    <3>2. CASE b.mode = "halfOpen" \/ b.failures + 1 >= MaxFailures
      <4>1. breaker'[l].mode = "open"
        BY <1>4, <2>4, <3>2 DEF after, Counted, Enters
      <4>2. n >= MaxFailures \/ b.failures + 1 <= n + 1
        BY <1>5, <1>6, <1>7, <2>4
      <4>3. m >= MaxFailures
        BY <1>5, <1>6, <1>7, <2>4, <3>1, <3>2, <4>2
      <4> QED
        BY <4>1, <4>3
    <3>3. CASE ~(b.mode = "halfOpen" \/ b.failures + 1 >= MaxFailures)
      <4>1. breaker'[l].mode = b.mode /\ breaker'[l].failures = b.failures + 1
        BY <1>4, <1>5, <2>4, <3>3 DEF after, Counted
      <4> QED
        BY <1>5, <1>6, <1>7, <2>4, <3>1, <4>1
    <3> QED
      BY <3>2, <3>3
  <2> QED
    BY <1>1, <2>1, <2>2, <2>3, <2>4
<1> QED
  BY <1>5, <1>6, <1>8, <1>10 DEF m

LEMMA HandleIsEarned ==
  ASSUME TypeOK, Recorded, BreakersEarned, NEW d \in Deliveries, Handle(d) \/ Panics(d)
  PROVE  Recorded' /\ BreakersEarned'
<1>1. /\ \A c \in Deliveries \ {d} : task'[c] = task[c]
      /\ task[d].stage \notin {"none", "over"}
      /\ d[2] \in Listeners /\ BreakerOf(d) = d[2]
  BY HandleMoves DEF Deliveries, BreakerOf
<1>2. Recorded'
  <2>1. task'[d].stage \in {"recording", "admitted"} => task'[d].outcome \in {"handled", "failed"}
    BY DEF Recorded, TypeOK, Handle, Panics, CheckBreaker, HandlerPublishes, HandlerSucceeds,
           HandlerFails, Record, Done, Move, Finish
  <2> QED
    BY <1>1, <2>1 DEF Recorded
<1>3. CASE ~Done(d)
  <2>1. task'[d].outcome = "skipped" => task[d].outcome = "skipped" \/ breaker[d[2]].mode # "closed"
    BY <1>1, <1>3 DEF TypeOK, Handle, Panics, CheckBreaker, HandlerPublishes, HandlerSucceeds,
           HandlerFails, Record, Move, Finish
  <2>2. \A l \in Listeners : /\ breaker'[l].mode = breaker[l].mode
                             /\ breaker'[l].failures = breaker[l].failures
    <3>1. CASE Record(d)
      <4>1. breaker' = breaker \/ breaker' = [breaker EXCEPT ![d[2]].admitted = @ \cup {d}]
        BY <1>1, <3>1 DEF Record
      <4>2. \A l \in Listeners : breaker[l] = [mode |-> breaker[l].mode,
              failures |-> breaker[l].failures, admitted |-> breaker[l].admitted]
        BY DEF TypeOK
      <4>3. breaker \in [Listeners -> [mode : {"closed", "open", "halfOpen"},
                           failures : 0..MaxFailures, admitted : SUBSET Deliveries]]
        BY DEF TypeOK
      <4> QED
        BY <1>1, <4>1, <4>2, <4>3
    <3>2. CASE ~Record(d)
      BY <1>3, <3>2 DEF Handle, Panics, CheckBreaker, HandlerPublishes, HandlerSucceeds, HandlerFails
    <3> QED
      BY <3>1, <3>2
  <2>3. \A l \in Listeners : /\ breaker'[l].mode = "closed" <=> breaker[l].mode = "closed"
                             /\ breaker'[l].failures = breaker[l].failures
    BY <2>2
  <2>4. task[d].stage # "over" /\ \A c \in Deliveries \ {d} : task'[c] = task[c]
    BY <1>1
  <2> QED
    BY <1>2, <2>1, <2>3, <2>4, NothingCounted
<1> QED
  BY <1>2, <1>3, DoneIsEarned

LEMMA StepIsEarned ==
  ASSUME TypeOK, AcceptedOnce, Untouched, Recorded, BreakersEarned, [Next]_vars
  PROVE  Recorded' /\ BreakersEarned'
<1>1. CASE UNCHANGED <<task, breaker>>
  <2>1. \A l \in Listeners : Failed(l)' = Failed(l) /\ GivenUp(l)' = GivenUp(l)
    BY <1>1 DEF Failed, GivenUp
  <2> QED
    BY <1>1, <2>1 DEF Recorded, BreakersEarned
<1>2. CASE Submit
  <2>0. PICK d : d = Head(current)
    OBVIOUS
  <2>1. d \in Deliveries /\ \E i \in 1..Len(current) : current[i] = d
    <3>1. /\ current \in Seq(Deliveries) /\ Len(current) \in Nat /\ Len(current) # 0
          /\ Head(current) = current[1]
      BY <1>2, DispatcherTypes, EmptySeq, HeadTailProperties DEF Submit, Idle
    <3> QED
      BY <2>0, <3>1, DispatcherTypes
  <2>2. task[d] = NoTask
    BY <2>1 DEF Untouched, ToCome
  <2>3. /\ \A c \in Deliveries \ {d} : task'[c] = task[c]
        /\ task'[d].outcome = "none" /\ task'[d].stage \in {"none", "submitted"}
        /\ breaker' = breaker
    BY <1>2, <2>0, <2>1, <2>2 DEF Submit, NoTask, TypeOK
  <2>4. Recorded'
    BY <2>3 DEF Recorded
  <2>5. task[d].stage # "over"
    BY <2>2 DEF NoTask
  <2> QED
    BY <2>1, <2>3, <2>4, <2>5, NothingCounted
<1>3. ASSUME NEW d \in Deliveries, Handle(d) \/ Panics(d)
      PROVE  Recorded' /\ BreakersEarned'
  BY <1>3, HandleIsEarned
<1>4. ASSUME NEW l \in Listeners, BreakerTimesOut(l)
      PROVE  Recorded' /\ BreakersEarned'
  <2>1. /\ task' = task /\ breaker[l].mode = "open" /\ breaker'[l].mode = "halfOpen"
        /\ \A k \in Listeners \ {l} : breaker'[k] = breaker[k]
    BY <1>4 DEF BreakerTimesOut, Enters, TypeOK
  <2>2. \A k \in Listeners : Failed(k)' = Failed(k) /\ GivenUp(k)' = GivenUp(k)
    BY <2>1 DEF Failed, GivenUp
  <2>3. ASSUME NEW k \in Listeners
        PROVE  /\ breaker'[k].mode = "closed" <=> breaker[k].mode = "closed"
               /\ breaker'[k].mode = "closed" => breaker'[k].failures = breaker[k].failures
    <3>1. CASE k = l
      BY <2>1, <3>1
    <3>2. CASE k # l
      BY <2>1, <3>2
    <3> QED
      BY <3>1, <3>2
  <2> QED
    BY <2>1, <2>2, <2>3 DEF Recorded, BreakersEarned
<1>5. Dispatch /\ ~Submit => UNCHANGED <<task, breaker>>
  BY DEF Dispatch, Receive, NoticeStop, DispatcherExits, DispatchInline
<1>6. Stop \/ (\E e \in Events : Publish(e)) \/ ProcessEnds \/ UNCHANGED vars
        => UNCHANGED <<task, breaker>>
  BY DEF Stop, BeginStop, DispatcherJoined, PoolReleased, ReleaseTimesOut, Publish, EnterPublish,
         Send, ProcessEnds, vars
<1> QED
  BY <1>1, <1>2, <1>3, <1>4, <1>5, <1>6 DEF Next, Lives

(* An event is skipped for a listener only after that listener has given up *)
(* on MaxFailures events, for any listeners, subscriptions and limits: what *)
(* another listener's breaker, an earlier generation or a refused record    *)
(* saw is never counted.                                                    *)
THEOREM SkippingIsEarned == Spec => []SkipsAreEarned
<1> DEFINE SkipInv == AcceptedOnce /\ Untouched /\ Recorded /\ BreakersEarned
<1>1. Init => SkipInv
  <2> SUFFICES ASSUME Init PROVE SkipInv
    OBVIOUS
  <2>1. /\ \A d \in Deliveries : task[d] = NoTask
        /\ \A l \in Listeners : breaker[l].mode = "closed" /\ breaker[l].failures = 0
    BY DEF Init
  <2>2. AcceptedOnce /\ Untouched /\ Recorded
    BY <2>1 DEF Init, AcceptedOnce, Untouched, Recorded, NoTask
  <2>3. ASSUME NEW l \in Listeners PROVE Failed(l) = {} /\ GivenUp(l) = {}
    BY <2>1 DEF Failed, GivenUp, Deliveries, NoTask
  <2>4. \A l \in Listeners : \A e \in Events : task[<<e, l>>].outcome # "skipped"
    BY <2>1 DEF Deliveries, NoTask
  <2>5. BreakersEarned
    <3> SUFFICES ASSUME NEW l \in Listeners
                 PROVE  /\ IsFiniteSet(Failed(l))
                        /\ breaker[l].mode = "closed" /\ breaker[l].failures <= Cardinality(GivenUp(l))
      BY <2>1, <2>4 DEF BreakersEarned
    <3>1. IsFiniteSet({}) /\ Cardinality({}) = 0
      BY FS_EmptySet
    <3> QED
      BY <2>1, <2>3, <3>1
  <2> QED
    BY <2>2, <2>5
<1>2. TypeOK /\ CurrentIsOneEvent /\ SkipInv /\ [Next]_vars => SkipInv'
  <2> SUFFICES ASSUME TypeOK, CurrentIsOneEvent, SkipInv, [Next]_vars PROVE SkipInv'
    OBVIOUS
  <2> QED
    BY StepKeepsOnce, StepIsEarned
<1>3. SkipInv => SkipsAreEarned
  <2> SUFFICES ASSUME BreakersEarned, NEW l \in Listeners,
                      NEW e \in Events, task[<<e, l>>].outcome = "skipped"
               PROVE  Cardinality({f \in Events : task[<<f, l>>].outcome = "failed"}) >= MaxFailures
    BY DEF SkipsAreEarned
  <2>1. IsFiniteSet(Failed(l)) /\ Cardinality(GivenUp(l)) >= MaxFailures /\ GivenUp(l) \subseteq Failed(l)
    BY DEF BreakersEarned, GivenUp
  <2>2. /\ Cardinality(GivenUp(l)) <= Cardinality(Failed(l))
        /\ Cardinality(GivenUp(l)) \in Nat /\ Cardinality(Failed(l)) \in Nat
    BY <2>1, FS_Subset, FS_CardinalityType
  <2> QED
    BY <2>1, <2>2, EventBusAssumption DEF Failed
<1> QED
  BY <1>1, <1>2, <1>3, InlineHolds, TypeCorrect, PTL DEF Spec

-----------------------------------------------------------------------------
(* The runner, by itself: bounded, and its Shutdown leaves only abandoned   *)
(* tasks behind, for every limit and any number of hanging functions.       *)

(* The tasks that hold a slot uncounted may all be abandoned later, so the  *)
(* bound is on them and the abandoned ones together: only Go adds to the    *)
(* sum, and it does so below 4 * Limit abandoned and with a slot free.      *)
Uncounted == running + overdue + returned
RunnerInv ==
  /\ RunnerTypeOK
  /\ Uncounted + abandoning <= Limit
  /\ Uncounted + Abandoned < 5 * Limit
  /\ drain # "idle" => closed
  /\ drain = "returned" => Slots = 0

LEMMA InitRunnerInv == RunnerInit => RunnerInv
<1> SUFFICES ASSUME RunnerInit
             PROVE  RunnerInv
  OBVIOUS
<1> USE DEF RunnerInit
<1>1. RunnerTypeOK
  <2>1. {running, overdue, returned, abandoning, stuck, leaving} = {0}
    OBVIOUS
  <2>2. {0} \subseteq Nat
    OBVIOUS
  <2> QED
    BY <2>1, <2>2, Zenon DEF RunnerTypeOK
<1>2. Uncounted = 0 /\ Abandoned = 0 /\ abandoning = 0
  BY DEF Uncounted, Abandoned, Abandoning
<1>3. 0 + 0 <= Limit /\ 0 + 0 < 5 * Limit
  BY RunnerAssumption
<1> QED
  BY <1>1, <1>2, <1>3 DEF RunnerInv

LEMMA GoRunnerInv == RunnerInv /\ Go => RunnerInv'
  BY RunnerAssumption
  DEF RunnerInv, RunnerTypeOK, Uncounted, Abandoned, Abandoning, Slots, Go, Accepts, shutdown

LEMMA TasksRunnerInv == RunnerInv /\ Tasks => RunnerInv'
<1> SUFFICES ASSUME RunnerInv, Tasks
             PROVE  RunnerInv'
  OBVIOUS
<1> USE RunnerAssumption
    DEF RunnerInv, RunnerTypeOK, Uncounted, Abandoned, Abandoning, Slots, shutdown
<1>1. CASE FunctionReturns
  BY <1>1 DEF FunctionReturns
<1>2. CASE FreeSlot
  BY <1>2 DEF FreeSlot
<1>3. CASE ContextEnds
  BY <1>3 DEF ContextEnds
<1>4. CASE Abandon
  BY <1>4 DEF Abandon
<1>5. CASE AbandonFreesSlot
  BY <1>5 DEF AbandonFreesSlot
<1>6. CASE StuckReturns
  BY <1>6 DEF StuckReturns
<1>7. CASE StopsCounting
  BY <1>7 DEF StopsCounting
<1> QED
  BY <1>1, <1>2, <1>3, <1>4, <1>5, <1>6, <1>7 DEF Tasks

LEMMA ShutdownRunnerInv == RunnerInv /\ Shutdown => RunnerInv'
<1> SUFFICES ASSUME RunnerInv, Shutdown
             PROVE  RunnerInv'
  OBVIOUS
<1> USE RunnerAssumption
    DEF RunnerInv, RunnerTypeOK, Uncounted, Abandoned, Abandoning, Slots, tasks
<1>1. CASE BeginShutdown
  BY <1>1 DEF BeginShutdown
<1>2. CASE CancelTasks
  BY <1>2 DEF CancelTasks
<1>3. CASE ShutdownReturns
  BY <1>3 DEF ShutdownReturns, NoneLeft
<1> QED
  BY <1>1, <1>2, <1>3 DEF Shutdown

(* The strengthening is inductive: BackgroundRunner's Go, abandon and       *)
(* Shutdown, in any order and overlap, preserve it.                         *)
THEOREM RunnerInvHolds == RunnerSpec => []RunnerInv
<1>1. RunnerInv /\ UNCHANGED runnerVars => RunnerInv'
  BY DEF RunnerInv, RunnerTypeOK, Uncounted, Abandoned, Abandoning, Slots, runnerVars, tasks, shutdown
<1>2. RunnerInv /\ [RunnerNext]_runnerVars => RunnerInv'
  BY <1>1, GoRunnerInv, TasksRunnerInv, ShutdownRunnerInv DEF RunnerNext
<1> QED
  BY InitRunnerInv, <1>2, PTL DEF RunnerSpec

(* However many functions hang, fewer than five times the limit are         *)
(* outstanding (admit's check against abandon's order of count and slot).   *)
THEOREM HangingIsBounded == RunnerSpec => []OutstandingIsBounded
<1>1. RunnerInv => OutstandingIsBounded
  BY RunnerAssumption
  DEF RunnerInv, RunnerTypeOK, Uncounted, Abandoned, Abandoning, OutstandingIsBounded, Outstanding
<1> QED
  BY <1>1, RunnerInvHolds, PTL

(* After Shutdown has returned only abandoned tasks are left, and no Go     *)
(* lets another one in.                                                     *)
THEOREM DrainIsFinal == RunnerSpec => []NothingOutlivesDrain
<1>1. RunnerInv => NothingOutlivesDrain
  BY DEF RunnerInv, NothingOutlivesDrain
<1> QED
  BY <1>1, RunnerInvHolds, PTL

-----------------------------------------------------------------------------
(* The process.                                                             *)

LoadInv == load \in Loads

LEMMA LoadIsKept == SystemSpec => []LoadInv
<1>1. SystemInit => LoadInv
  BY DEF SystemInit, LoadInv
<1>2. LoadInv /\ [SystemNext]_systemVars => LoadInv'
  <2>1. SystemNext => UNCHANGED load
    BY DEF SystemNext, Lives, Bus, Mails, Signal, GraceEnds, Exit
  <2>2. UNCHANGED systemVars => UNCHANGED load
    BY DEF systemVars
  <2> QED
    BY <2>1, <2>2 DEF LoadInv
<1> QED
  BY <1>1, <1>2, PTL DEF SystemSpec

LEMMA StepIsBusStep == LoadInv /\ [SystemNext]_systemVars => [Next]_vars
<1> SUFFICES ASSUME LoadInv, [SystemNext]_systemVars
             PROVE  [Next]_vars
  OBVIOUS
<1>1. load.publishes \subseteq Events
  BY LoadsAssumption DEF LoadInv
<1>2. CASE Lives(Bus(BusSteps))
  BY <1>1, <1>2 DEF Lives, Bus, BusSteps, CloseBegins, Stop, Next
<1>3. ASSUME NEW d \in Deliveries, alive, Bus(Panics(d))
      PROVE  Next
  BY <1>3 DEF Bus, Next
<1>4. Lives(Mails(RunnerSteps)) \/ Lives(Signal \/ GraceEnds) => UNCHANGED vars
  BY DEF Lives, Mails, Signal, GraceEnds, busVars, vars
<1>5. alive /\ Exit => Next
  BY DEF Exit, Next
<1>6. UNCHANGED systemVars => UNCHANGED vars
  BY DEF systemVars
<1> QED
  BY <1>2, <1>3, <1>4, <1>5, <1>6 DEF SystemNext

LEMMA StepIsRunnerStep == [SystemNext]_systemVars => [RunnerNext]_runnerVars
<1> SUFFICES ASSUME [SystemNext]_systemVars
             PROVE  [RunnerNext]_runnerVars
  OBVIOUS
<1>1. CASE Lives(Mails(RunnerSteps))
  BY <1>1 DEF Lives, Mails, RunnerSteps, CloseDrains, Shutdown, RunnerNext
<1>2. Lives(Bus(BusSteps)) \/ Lives(Signal \/ GraceEnds) \/ Exit => UNCHANGED runnerVars
  BY DEF Lives, Bus, Signal, GraceEnds, Exit
<1>3. \A d \in Deliveries : Bus(Panics(d)) => UNCHANGED runnerVars
  BY DEF Bus
<1>4. UNCHANGED systemVars => UNCHANGED runnerVars
  BY DEF systemVars
<1> QED
  BY <1>1, <1>2, <1>3, <1>4 DEF SystemNext

(* Whatever the requests in flight do and whenever the signal comes, the    *)
(* bus inside the process is a bus ...                                      *)
THEOREM SystemRunsTheBus == SystemSpec => Spec
<1>1. SystemInit => Init
  BY DEF SystemInit
<1> QED
  BY <1>1, LoadIsKept, StepIsBusStep, PTL DEF SystemSpec, Spec

(* ... and the runner a runner: Close calls both as they ask to be called.  *)
THEOREM SystemRunsTheRunner == SystemSpec => RunnerSpec
<1>1. SystemInit => RunnerInit
  BY DEF SystemInit
<1> QED
  BY <1>1, StepIsRunnerStep, PTL DEF SystemSpec, RunnerSpec

(* So the process as a whole neither dies of a send on the closed channel   *)
(* nor loses an accepted event in Close, however its requests end ...       *)
THEOREM SystemStopsTheBus == SystemSpec => []NeverSendsOnClosed /\ []StopDrains
  BY SystemRunsTheBus, NobodySendsOnClosed, StopLosesNothing, PTL

(* ... delivers in order and skips only what it must, also while it shuts   *)
(* down ...                                                                 *)
THEOREM SystemDeliversInOrder == SystemSpec => []InlineInOrder /\ []SkipsAreEarned
  BY SystemRunsTheBus, InlineSeesTheOrder, SkippingIsEarned, PTL

(* ... and no mail that hangs outlives the drain uncounted.                 *)
THEOREM SystemDrainsTheRunner == SystemSpec => []OutstandingIsBounded /\ []NothingOutlivesDrain
  BY SystemRunsTheRunner, HangingIsBounded, DrainIsFinal, PTL
=============================================================================
