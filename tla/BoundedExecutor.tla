--------------------------- MODULE BoundedExecutor ---------------------------
(***************************************************************************)
(* The worker pool under the embedding dispatcher: a fixed number of       *)
(* goroutines draining an unbounded FIFO queue, guarded by one mutex and   *)
(* one condition variable.                                                 *)
(*                                                                         *)
(* Every critical section is one step.  cond.Wait gives the mutex up, so a *)
(* worker that was signalled ("ready") still has to lock it again, and     *)
(* another worker may take the task it was woken for.                      *)
(***************************************************************************)
EXTENDS Integers, Sequences, FiniteSets

CONSTANTS
  Workers,   \* the worker goroutines
  Closers,   \* the goroutines that call close
  Tasks,     \* what may be submitted
  MaxTasks   \* bound: accepted submissions

ASSUME PoolAssumption ==
  /\ IsFiniteSet(Workers)
  /\ Workers # {}
  /\ MaxTasks \in Nat

VARIABLES
  queue,     \* e.queue
  closed,    \* e.closed
  worker,    \* worker[w]: "ready" to lock mu, "waiting" in cond.Wait, "running" or "exited"
  closer,    \* closer[c]: "idle", "joining" in wg.Wait, or "returned"
  \* observed, not part of the program:
  accepted,  \* the tasks submit returned true for, in order
  started    \* the tasks a worker took, in order

vars == <<queue, closed, worker, closer, accepted, started>>

In(state) == {w \in Workers : worker[w] = state}

Init ==
  /\ queue = <<>>
  /\ closed = FALSE
  /\ worker = [w \in Workers |-> "ready"]
  /\ closer = [c \in Closers |-> "idle"]
  /\ accepted = <<>>
  /\ started = <<>>

\* Faulty variant: signals only when the queue was empty.
SignalIfFirst ==
  IF queue = <<>> /\ In("waiting") # {}
  THEN \E w \in In("waiting") : worker' = [worker EXCEPT ![w] = "ready"]
  ELSE UNCHANGED worker
(* cond.Signal *)
Signal ==
  \/ \E w \in In("waiting") : worker' = [worker EXCEPT ![w] = "ready"]
  \/ /\ In("waiting") = {}
     /\ UNCHANGED worker

\* Faulty variant: signals one worker.
BroadcastToOne == Signal
(* cond.Broadcast *)
Broadcast == worker' = [w \in Workers |-> IF worker[w] = "waiting" THEN "ready" ELSE worker[w]]

(* submit returns true; it returns false, changing nothing, once closed *)
Submit(t) ==
  /\ ~closed
  /\ Len(accepted) < MaxTasks
  /\ queue' = Append(queue, t)
  /\ accepted' = Append(accepted, t)
  /\ Signal
  /\ UNCHANGED <<closed, closer, started>>

NextTask == Head(queue)

Take(w) ==
  /\ worker[w] = "ready"
  /\ queue # <<>>
  /\ queue' = Tail(queue)
  /\ started' = Append(started, NextTask)
  /\ worker' = [worker EXCEPT ![w] = "running"]
  /\ UNCHANGED <<closed, closer, accepted>>

\* Faulty variant: a closed executor's workers leave the queue behind.
EmptyOrClosed == queue = <<>> \/ closed
NothingLeft == queue = <<>>

Wait(w) ==
  /\ worker[w] = "ready"
  /\ queue = <<>>
  /\ ~closed
  /\ worker' = [worker EXCEPT ![w] = "waiting"]
  /\ UNCHANGED <<queue, closed, closer, accepted, started>>

WorkerExit(w) ==
  /\ worker[w] = "ready"
  /\ NothingLeft
  /\ closed
  /\ worker' = [worker EXCEPT ![w] = "exited"]
  /\ UNCHANGED <<queue, closed, closer, accepted, started>>

(* task() returns and the worker goes round its loop *)
Finish(w) ==
  /\ worker[w] = "running"
  /\ worker' = [worker EXCEPT ![w] = "ready"]
  /\ UNCHANGED <<queue, closed, closer, accepted, started>>

Close(c) ==
  /\ closer[c] = "idle"
  /\ closer' = [closer EXCEPT ![c] = "joining"]
  /\ closed' = TRUE
  /\ IF closed THEN UNCHANGED worker ELSE Broadcast
  /\ UNCHANGED <<queue, accepted, started>>

\* Faulty variant: close does not wait for running tasks.
NobodyWaits == In("waiting") = {} /\ queue = <<>>
AllExited == In("exited") = Workers

CloseReturns(c) ==
  /\ closer[c] = "joining"
  /\ AllExited
  /\ closer' = [closer EXCEPT ![c] = "returned"]
  /\ UNCHANGED <<queue, closed, worker, accepted, started>>

Next ==
  \/ \E t \in Tasks : Submit(t)
  \/ \E w \in Workers : Take(w) \/ Wait(w) \/ WorkerExit(w) \/ Finish(w)
  \/ \E c \in Closers : Close(c) \/ CloseReturns(c)

Spec == Init /\ [][Next]_vars

(* Goroutines are scheduled and tasks return; nobody has to submit or close. *)
Fairness ==
  /\ \A w \in Workers : WF_vars(Take(w) \/ Wait(w) \/ WorkerExit(w) \/ Finish(w))
  /\ \A c \in Closers : WF_vars(CloseReturns(c))

LiveSpec == Spec /\ Fairness

-----------------------------------------------------------------------------
(* Every variable has its type, and nobody sleeps in a closed pool, where   *)
(* nothing would wake it.                                                   *)
TypeOK ==
  /\ queue \in Seq(Tasks)
  /\ closed \in BOOLEAN
  /\ worker \in [Workers -> {"ready", "waiting", "running", "exited"}]
  /\ closer \in [Closers -> {"idle", "joining", "returned"}]
  /\ accepted \in Seq(Tasks)
  /\ started \in Seq(Tasks)
  /\ closed => In("waiting") = {}

(* No wakeup is lost, and none is worth less than a task: while a worker    *)
(* sleeps, every queued task has a worker of its own on its way to the      *)
(* lock, although a wakeup may be stolen by a worker that just got free.    *)
NobodySleepsOnWork ==
  In("waiting") # {} => Len(queue) <= Cardinality(In("ready"))

(* Tasks start in the order they were accepted; none is lost or run twice. *)
StartedInOrder == accepted = started \o queue

(* close has returned only after everything accepted before, during or      *)
(* after an overlapping close has run to its end.                           *)
CloseDrains ==
  (\E c \in Closers : closer[c] = "returned") => started = accepted /\ In("running") = {}

(* The pool keeps the promise, whichever goroutine takes which task and      *)
(* whoever wakes it.                                                        *)
Promise == INSTANCE PoolPromise WITH
             Slots <- Cardinality(Workers), backlog <- queue,
             busy <- Cardinality(In("running")), shut <- closed
KeepsPoolPromise == Promise!Spec

(* Every accepted task is started, also when close comes in between. *)
AcceptedIsStarted ==
  \A n \in 1..MaxTasks : Len(accepted) >= n ~> Len(started) >= n

(* Every close returns: no worker misses the broadcast. *)
CloseTerminates ==
  \A c \in Closers : closer[c] = "joining" ~> closer[c] = "returned"
=============================================================================
