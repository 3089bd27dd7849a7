----------------------- MODULE EmbeddingDispatcherProofs -----------------------
(***************************************************************************)
(* Proofs about the worker pool and about the dispatcher that runs its     *)
(* jobs on one.                                                            *)
(*                                                                         *)
(* The pool, for any number of workers, submitters and overlapping closes: *)
(* its types, that no wakeup is lost, that tasks start in the order they   *)
(* were accepted, and that close drains.  The inductive invariant adds to  *)
(* the stated ones what an exited worker tells about the pool.  What       *)
(* MaxTasks bounds plays no part.                                          *)
(*                                                                         *)
(* The dispatcher, for any rows, workers and Stop calls: every step of it  *)
(* is a step of its intake pool or leaves the pool alone, so what holds of *)
(* the pool holds of the intake; no wakeup of the poller is lost, claims   *)
(* fit the workers that are free, nothing is refused, and Stop leaves      *)
(* nothing behind.                                                         *)
(***************************************************************************)
EXTENDS EmbeddingDispatcher, SequenceTheorems, FiniteSetTheorems, TLAPS

\* A worker leaves only a closed pool with an empty queue, and a close joins
\* the workers before it returns.
ExitedMeansDrained == In("exited") # {} => closed /\ queue = <<>>
JoinedMeansClosed  == \A c \in Closers : closer[c] # "idle" => closed
ReturnedMeansExited ==
  (\E c \in Closers : closer[c] = "returned") => In("exited") = Workers

IInv ==
  /\ TypeOK
  /\ NobodySleepsOnWork
  /\ StartedInOrder
  /\ ExitedMeansDrained /\ JoinedMeansClosed /\ ReturnedMeansExited

-----------------------------------------------------------------------------
\* Sequences and the sets of workers.

LEMMA AppendToConcat ==
  ASSUME NEW s \in Seq(Tasks), NEW t \in Seq(Tasks), NEW x \in Tasks
  PROVE  Append(s \o t, x) = s \o Append(t, x)
<1>1. s \o t \in Seq(Tasks) /\ <<x>> \in Seq(Tasks)
  BY ConcatProperties
<1>2. Append(s \o t, x) = (s \o t) \o <<x>> /\ Append(t, x) = t \o <<x>>
  BY <1>1, AppendIsConcat
<1> QED
  BY <1>1, <1>2, ConcatAssociative

LEMMA MoveHead ==
  ASSUME NEW S, NEW s \in Seq(S), NEW t \in Seq(S), t # <<>>
  PROVE  Append(s, Head(t)) \o Tail(t) = s \o t
<1>1. Head(t) \in S /\ Tail(t) \in Seq(S) /\ Len(Tail(t)) = Len(t) - 1
      /\ \A i \in 1..Len(Tail(t)) : Tail(t)[i] = t[i+1]
  BY HeadTailProperties
<1>2. Head(t) = t[1] /\ Len(t) \in Nat /\ Len(t) # 0 /\ Len(s) \in Nat
  BY EmptySeq, LenProperties
<1> DEFINE a == Append(s, Head(t))
<1>3. a \in Seq(S) /\ Len(a) = Len(s) + 1 /\ a[Len(s)+1] = t[1]
      /\ \A i \in 1..Len(s) : a[i] = s[i]
  BY <1>1, <1>2, AppendProperties
<1> DEFINE u == a \o Tail(t)
           v == s \o t
<1>4. /\ u \in Seq(S) /\ Len(u) = Len(a) + Len(Tail(t))
      /\ \A i \in 1..(Len(a) + Len(Tail(t))) :
           u[i] = IF i <= Len(a) THEN a[i] ELSE Tail(t)[i - Len(a)]
  BY <1>1, <1>3, ConcatProperties
<1>5. /\ v \in Seq(S) /\ Len(v) = Len(s) + Len(t)
      /\ \A i \in 1..(Len(s) + Len(t)) :
           v[i] = IF i <= Len(s) THEN s[i] ELSE t[i - Len(s)]
  BY ConcatProperties
<1> HIDE DEF a, u, v
<1>6. Len(u) = Len(v)
  BY <1>1, <1>2, <1>3, <1>4, <1>5
<1>7. ASSUME NEW i \in 1..Len(u) PROVE u[i] = v[i]
  <2>1. i \in Nat /\ i >= 1 /\ i <= Len(s) + Len(t)
    BY <1>2, <1>5, <1>6
  <2>2. CASE i <= Len(s)
    BY <1>1, <1>2, <1>3, <1>4, <1>5, <2>1, <2>2, SMTT(30)
  <2>3. CASE i = Len(s) + 1
    BY <1>1, <1>2, <1>3, <1>4, <1>5, <2>1, <2>3, SMTT(30)
  <2>4. CASE i > Len(s) + 1
    <3>1. i - Len(a) \in 1..Len(Tail(t)) /\ (i - Len(a)) + 1 = i - Len(s)
      BY <1>1, <1>2, <1>3, <2>1, <2>4
    <3>2. u[i] = Tail(t)[i - Len(a)]
      BY <1>1, <1>2, <1>3, <1>4, <2>1, <2>4
    <3>3. Tail(t)[i - Len(a)] = t[i - Len(s)]
      BY <1>1, <3>1
    <3>4. v[i] = t[i - Len(s)]
      BY <1>2, <1>5, <2>1, <2>4
    <3> QED
      BY <3>2, <3>3, <3>4
  <2> QED
    BY <1>2, <2>1, <2>2, <2>3, <2>4
<1>8. u = v
  BY <1>4, <1>5, <1>6, <1>7, SeqEqual
<1> QED
  BY <1>8 DEF u, v, a

LEMMA InIsFinite ==
  ASSUME NEW state
  PROVE  IsFiniteSet(In(state)) /\ Cardinality(In(state)) \in Nat
<1>1. In(state) \subseteq Workers
  BY DEF In
<1> QED
  BY <1>1, PoolAssumption, FS_Subset, FS_CardinalityType

\* One more worker on its way to the lock, or one fewer.
LEMMA OneMoreReady ==
  ASSUME worker \in [Workers -> {"ready", "waiting", "running", "exited"}],
         NEW w \in Workers, worker[w] # "ready",
         worker' = [worker EXCEPT ![w] = "ready"]
  PROVE  Cardinality(In("ready")') = Cardinality(In("ready")) + 1
<1>1. In("ready")' = In("ready") \cup {w} /\ w \notin In("ready")
  BY DEF In
<1> QED
  BY <1>1, InIsFinite, FS_AddElement

LEMMA OneLessReady ==
  ASSUME worker \in [Workers -> {"ready", "waiting", "running", "exited"}],
         NEW w \in Workers, worker[w] = "ready",
         NEW s \in {"waiting", "running", "exited"},
         worker' = [worker EXCEPT ![w] = s]
  PROVE  Cardinality(In("ready")') = Cardinality(In("ready")) - 1
<1>1. In("ready")' = In("ready") \ {w} /\ w \in In("ready")
  BY DEF In
<1> QED
  BY <1>1, InIsFinite, FS_RemoveElement

-----------------------------------------------------------------------------
\* The inductive invariant.

LEMMA InitHolds == Init => IInv
<1> SUFFICES ASSUME Init PROVE IInv
  OBVIOUS
<1> USE DEF Init, In
<1>1. TypeOK
  <2>1. <<>> \in Seq(Tasks)
    BY EmptySeq
  <2>2. In("waiting") = {}
    OBVIOUS
  <2> QED
    BY <2>1, <2>2 DEF TypeOK
<1>2. NobodySleepsOnWork /\ ExitedMeansDrained /\ JoinedMeansClosed
  BY DEF NobodySleepsOnWork, ExitedMeansDrained, JoinedMeansClosed
<1>3. ReturnedMeansExited
  BY DEF ReturnedMeansExited
<1>4. StartedInOrder
  BY DEF StartedInOrder
<1> QED
  BY <1>1, <1>2, <1>3, <1>4 DEF IInv

LEMMA StutterHolds == IInv /\ UNCHANGED vars => IInv'
  BY DEF IInv, vars, TypeOK, NobodySleepsOnWork, StartedInOrder, In,
         ExitedMeansDrained, JoinedMeansClosed, ReturnedMeansExited

\* A new task brings a worker of its own along if anybody sleeps.
LEMMA SubmitHolds ==
  ASSUME IInv, NEW t \in Tasks, Submit(t)
  PROVE  IInv'
<1> USE DEF IInv
<1>1. worker' \in [Workers -> {"ready", "waiting", "running", "exited"}]
  BY DEF TypeOK, Submit, Signal
<1>2. queue' \in Seq(Tasks) /\ accepted' \in Seq(Tasks) /\ Len(queue') = Len(queue) + 1
  BY AppendProperties DEF TypeOK, Submit
<1>3. TypeOK'
  BY <1>1, <1>2 DEF TypeOK, Submit
<1>4. In("exited") = {} /\ In("exited")' = {}
  BY DEF ExitedMeansDrained, TypeOK, Submit, Signal, In
<1>5. NobodySleepsOnWork'
  <2> SUFFICES ASSUME In("waiting")' # {}
               PROVE  Len(queue') <= Cardinality(In("ready")')
    BY DEF NobodySleepsOnWork
  <2>1. In("waiting") # {}
    BY DEF TypeOK, Submit, Signal, In
  <2>2. PICK w \in In("waiting") : worker' = [worker EXCEPT ![w] = "ready"]
    BY <2>1 DEF Submit, Signal
  <2>3. Cardinality(In("ready")') = Cardinality(In("ready")) + 1
    BY <2>2, OneMoreReady DEF TypeOK, In
  <2>4. Len(queue) <= Cardinality(In("ready")) /\ Len(queue) \in Nat
    BY <2>1, LenProperties DEF NobodySleepsOnWork, TypeOK
  <2> QED
    BY <1>2, <2>3, <2>4, InIsFinite
<1>6. StartedInOrder'
  <2>1. Append(started \o queue, t) = started \o Append(queue, t)
    <3>1. started \in Seq(Tasks) /\ queue \in Seq(Tasks)
      BY DEF TypeOK
    <3> QED
      BY <3>1, AppendToConcat
  <2> QED
    BY <2>1 DEF StartedInOrder, Submit
<1>7. ExitedMeansDrained'
  BY <1>4 DEF ExitedMeansDrained
<1>8. JoinedMeansClosed' /\ ReturnedMeansExited'
  BY <1>4, PoolAssumption DEF JoinedMeansClosed, ReturnedMeansExited, Submit
<1> QED
  BY <1>3, <1>5, <1>6, <1>7, <1>8

\* Taking a task uses up one worker and one task.
LEMMA TakeHolds ==
  ASSUME IInv, NEW w \in Workers, Take(w)
  PROVE  IInv'
<1> USE DEF IInv
<1>1. worker' \in [Workers -> {"ready", "waiting", "running", "exited"}]
  BY DEF TypeOK, Take
<1>2. /\ Head(queue) \in Tasks /\ queue' \in Seq(Tasks) /\ Len(queue') = Len(queue) - 1
      /\ Len(queue) \in Nat
  BY HeadTailProperties, LenProperties DEF TypeOK, Take
<1>3. started' \in Seq(Tasks)
  BY <1>2, AppendProperties DEF TypeOK, Take, NextTask
<1>4. In("waiting")' = In("waiting") /\ In("exited")' = In("exited")
  BY DEF TypeOK, Take, In
<1>5. TypeOK'
  BY <1>1, <1>2, <1>3, <1>4 DEF TypeOK, Take
<1>6. NobodySleepsOnWork'
  <2>1. Cardinality(In("ready")') = Cardinality(In("ready")) - 1
    BY OneLessReady DEF TypeOK, Take
  <2> QED
    BY <1>2, <1>4, <2>1, InIsFinite DEF NobodySleepsOnWork
<1>7. StartedInOrder'
  <2>1. Append(started, Head(queue)) \o Tail(queue) = started \o queue
    BY MoveHead DEF TypeOK, Take
  <2> QED
    BY <2>1 DEF StartedInOrder, Take, NextTask
<1>8. In("exited") = {}
  BY DEF ExitedMeansDrained, Take
<1>9. ExitedMeansDrained' /\ JoinedMeansClosed' /\ ReturnedMeansExited'
  BY <1>4, <1>8, PoolAssumption
  DEF ExitedMeansDrained, JoinedMeansClosed, ReturnedMeansExited, Take
<1> QED
  BY <1>5, <1>6, <1>7, <1>9

\* A worker sleeps only over an empty queue, and not in a closed pool.
LEMMA WaitHolds ==
  ASSUME IInv, NEW w \in Workers, Wait(w)
  PROVE  IInv'
<1> USE DEF IInv, Wait
<1>1. TypeOK'
  BY DEF TypeOK
<1>2. In("exited")' = In("exited")
  BY DEF TypeOK, In
<1>3. Cardinality(In("ready")') \in Nat
  <2>1. Cardinality(In("ready")') = Cardinality(In("ready")) - 1
    BY OneLessReady DEF TypeOK
  <2>2. In("ready") # {} /\ IsFiniteSet(In("ready")) /\ Cardinality(In("ready")) \in Nat
    BY InIsFinite DEF In
  <2>3. Cardinality(In("ready")) # 0
    BY <2>2, FS_EmptySet
  <2> QED
    BY <2>1, <2>2, <2>3
<1>4. NobodySleepsOnWork'
  BY <1>3, EmptySeq DEF NobodySleepsOnWork, TypeOK
<1>5. StartedInOrder' /\ ExitedMeansDrained' /\ JoinedMeansClosed' /\ ReturnedMeansExited'
  BY <1>2 DEF StartedInOrder, ExitedMeansDrained, JoinedMeansClosed, ReturnedMeansExited
<1> QED
  BY <1>1, <1>4, <1>5

\* A worker leaves a closed pool, where nobody sleeps.
LEMMA WorkerExitHolds ==
  ASSUME IInv, NEW w \in Workers, WorkerExit(w)
  PROVE  IInv'
<1> USE DEF IInv, WorkerExit
<1>1. In("waiting")' = {}
  BY DEF TypeOK, In
<1>2. TypeOK'
  BY <1>1 DEF TypeOK
<1>3. NobodySleepsOnWork' /\ StartedInOrder' /\ ExitedMeansDrained' /\ JoinedMeansClosed'
  BY <1>1 DEF NobodySleepsOnWork, StartedInOrder, ExitedMeansDrained, JoinedMeansClosed,
              NothingLeft
<1>4. ReturnedMeansExited'
  BY DEF ReturnedMeansExited, In, TypeOK
<1> QED
  BY <1>2, <1>3, <1>4

\* A worker that is done comes back to look at the queue.
LEMMA FinishHolds ==
  ASSUME IInv, NEW w \in Workers, Finish(w)
  PROVE  IInv'
<1> USE DEF IInv, Finish
<1>1. In("waiting")' = In("waiting") /\ In("exited")' = In("exited")
  BY DEF TypeOK, In
<1>2. TypeOK'
  BY <1>1 DEF TypeOK
<1>3. NobodySleepsOnWork'
  <2>1. Cardinality(In("ready")') = Cardinality(In("ready")) + 1
    BY OneMoreReady DEF TypeOK
  <2> QED
    BY <1>1, <2>1, InIsFinite, LenProperties DEF NobodySleepsOnWork, TypeOK
<1>4. StartedInOrder' /\ ExitedMeansDrained' /\ JoinedMeansClosed' /\ ReturnedMeansExited'
  BY <1>1 DEF StartedInOrder, ExitedMeansDrained, JoinedMeansClosed, ReturnedMeansExited
<1> QED
  BY <1>2, <1>3, <1>4

\* The first close wakes everybody; a later one finds nobody asleep.
LEMMA CloseHolds ==
  ASSUME IInv, NEW c \in Closers, Close(c)
  PROVE  IInv'
<1> USE DEF IInv, Close
<1>1. worker' \in [Workers -> {"ready", "waiting", "running", "exited"}]
  BY DEF TypeOK, Broadcast
<1>2. In("waiting")' = {} /\ In("exited")' = In("exited")
  <2>1. CASE closed
    BY <2>1 DEF TypeOK, In
  <2>2. CASE ~closed
    BY <2>2 DEF TypeOK, Broadcast, In
  <2> QED
    BY <2>1, <2>2
<1>3. TypeOK'
  BY <1>1, <1>2 DEF TypeOK
<1>4. NobodySleepsOnWork' /\ StartedInOrder' /\ ExitedMeansDrained'
  BY <1>2 DEF NobodySleepsOnWork, StartedInOrder, ExitedMeansDrained
<1>5. JoinedMeansClosed' /\ ReturnedMeansExited'
  BY <1>2 DEF JoinedMeansClosed, ReturnedMeansExited, TypeOK
<1> QED
  BY <1>3, <1>4, <1>5

\* close returns when every worker has left.
LEMMA CloseReturnsHolds ==
  ASSUME IInv, NEW c \in Closers, CloseReturns(c)
  PROVE  IInv'
<1> USE DEF IInv, CloseReturns
<1>1. TypeOK' /\ NobodySleepsOnWork' /\ StartedInOrder' /\ ExitedMeansDrained'
  BY DEF TypeOK, NobodySleepsOnWork, StartedInOrder, ExitedMeansDrained, In
<1>2. JoinedMeansClosed'
  BY DEF JoinedMeansClosed, TypeOK
<1>3. ReturnedMeansExited'
  BY DEF ReturnedMeansExited, TypeOK, AllExited, In
<1> QED
  BY <1>1, <1>2, <1>3

LEMMA StepHolds == IInv /\ [Next]_vars => IInv'
<1> SUFFICES ASSUME IInv, [Next]_vars PROVE IInv'
  OBVIOUS
<1>1. CASE UNCHANGED vars
  BY <1>1, StutterHolds
<1>2. ASSUME NEW t \in Tasks, Submit(t) PROVE IInv'
  BY <1>2, SubmitHolds
<1>3. ASSUME NEW w \in Workers, Take(w) \/ Wait(w) \/ WorkerExit(w) \/ Finish(w) PROVE IInv'
  BY <1>3, TakeHolds, WaitHolds, WorkerExitHolds, FinishHolds
<1>4. ASSUME NEW c \in Closers, Close(c) \/ CloseReturns(c) PROVE IInv'
  BY <1>4, CloseHolds, CloseReturnsHolds
<1> QED
  BY <1>1, <1>2, <1>3, <1>4 DEF Next

(* The strengthened invariant holds throughout: submit, the worker loop and *)
(* close preserve it in any overlap.                                        *)
THEOREM Inductive == Spec => []IInv
  BY InitHolds, StepHolds, PTL DEF Spec

-----------------------------------------------------------------------------
(* Every variable keeps its type, and nobody sleeps in a closed pool: the   *)
(* broadcast of close reaches every sleeper and no worker falls asleep      *)
(* after it.                                                                *)
THEOREM TypeCorrect == Spec => []TypeOK
<1>1. IInv => TypeOK
  BY DEF IInv
<1> QED
  BY <1>1, Inductive, PTL

(* No wakeup of the condition variable is lost, however many workers steal  *)
(* each other's tasks.                                                      *)
THEOREM NoWakeupIsLost == Spec => []NobodySleepsOnWork
<1>1. IInv => NobodySleepsOnWork
  BY DEF IInv
<1> QED
  BY <1>1, Inductive, PTL

(* Tasks start in the order submit accepted them, each exactly once.        *)
THEOREM TasksStartInOrder == Spec => []StartedInOrder
<1>1. IInv => StartedInOrder
  BY DEF IInv
<1> QED
  BY <1>1, Inductive, PTL

(* A close that has returned has run everything submit ever accepted.       *)
THEOREM CloseRunsEverything == Spec => []CloseDrains
<1>1. IInv => CloseDrains
  <2> SUFFICES ASSUME IInv, NEW c \in Closers, closer[c] = "returned"
               PROVE  started = accepted /\ In("running") = {}
    BY DEF CloseDrains
  <2>1. In("exited") = Workers /\ queue = <<>>
    BY PoolAssumption DEF IInv, ReturnedMeansExited, ExitedMeansDrained
  <2>2. started = accepted
    BY <2>1, ConcatEmptySeq DEF IInv, StartedInOrder, TypeOK
  <2>3. In("running") = {}
    BY <2>1 DEF In
  <2> QED
    BY <2>2, <2>3
<1> QED
  BY <1>1, Inductive, PTL

-----------------------------------------------------------------------------
(* The pool implements PoolPromise.                                         *)

LEMMA OneMoreRunning ==
  ASSUME TypeOK, NEW w \in Workers, worker[w] = "ready",
         worker' = [worker EXCEPT ![w] = "running"]
  PROVE  /\ Cardinality(In("running")) < Cardinality(Workers)
         /\ Cardinality(In("running")') = Cardinality(In("running")) + 1
<1>1. /\ In("running")' = In("running") \cup {w} /\ w \notin In("running")
      /\ In("running") \subseteq Workers /\ In("running") # Workers
  BY DEF TypeOK, In
<1>2. Cardinality(In("running")) < Cardinality(Workers)
  <2>1. Cardinality(In("running")) <= Cardinality(Workers) /\ Cardinality(Workers) \in Nat
    BY <1>1, PoolAssumption, FS_Subset, FS_CardinalityType
  <2>2. Cardinality(In("running")) # Cardinality(Workers)
    BY <1>1, PoolAssumption, FS_Subset
  <2> QED
    BY <2>1, <2>2, InIsFinite
<1> QED
  BY <1>1, <1>2, InIsFinite, FS_AddElement

LEMMA OneLessRunning ==
  ASSUME TypeOK, NEW w \in Workers, worker[w] = "running",
         worker' = [worker EXCEPT ![w] = "ready"]
  PROVE  /\ Cardinality(In("running")) > 0
         /\ Cardinality(In("running")') = Cardinality(In("running")) - 1
<1>1. In("running")' = In("running") \ {w} /\ w \in In("running")
  BY DEF TypeOK, In
<1>2. Cardinality(In("running")) # 0
  BY <1>1, InIsFinite, FS_EmptySet
<1> QED
  BY <1>1, <1>2, InIsFinite, FS_RemoveElement

\* Whom a signal or the broadcast wakes was not running a task.
LEMMA WakingStartsNothing ==
  ASSUME TypeOK, Signal \/ Broadcast
  PROVE  In("running")' = In("running")
<1>1. CASE Signal
  BY <1>1 DEF TypeOK, Signal, In
<1>2. CASE Broadcast
  BY <1>2 DEF TypeOK, Broadcast, In
<1> QED
  BY <1>1, <1>2

LEMMA StepKeepsPoolPromise ==
  ASSUME IInv, [Next]_vars
  PROVE  [Promise!Next]_Promise!vars
<1> USE DEF IInv
<1>1. ASSUME NEW t \in Tasks, Submit(t) PROVE Promise!Accept(t)
  <2>1. In("running")' = In("running")
    BY <1>1, WakingStartsNothing DEF Submit
  <2> QED
    BY <1>1, <2>1 DEF Submit, Promise!Accept
<1>2. ASSUME NEW w \in Workers, Take(w) PROVE Promise!Start
  <2>1. /\ Cardinality(In("running")) < Cardinality(Workers)
        /\ Cardinality(In("running")') = Cardinality(In("running")) + 1
    BY <1>2, OneMoreRunning DEF Take
  <2> QED
    BY <1>2, <2>1 DEF Take, NextTask, Promise!Start
<1>3. ASSUME NEW w \in Workers, Wait(w) \/ WorkerExit(w) PROVE UNCHANGED Promise!vars
  <2>1. In("running")' = In("running")
    BY <1>3 DEF Wait, WorkerExit, TypeOK, In
  <2> QED
    BY <1>3, <2>1 DEF Wait, WorkerExit, Promise!vars
<1>4. ASSUME NEW w \in Workers, Finish(w) PROVE Promise!End
  <2>1. /\ Cardinality(In("running")) > 0
        /\ Cardinality(In("running")') = Cardinality(In("running")) - 1
    BY <1>4, OneLessRunning DEF Finish
  <2> QED
    BY <1>4, <2>1 DEF Finish, Promise!End
<1>5. ASSUME NEW c \in Closers, Close(c) PROVE Promise!Close(c)
  <2>1. In("running")' = In("running")
    <3>1. CASE closed
      BY <1>5, <3>1 DEF Close, In
    <3>2. CASE ~closed
      BY <1>5, <3>2, WakingStartsNothing DEF Close
    <3> QED
      BY <3>1, <3>2
  <2> QED
    BY <1>5, <2>1 DEF Close, Promise!Close
<1>6. ASSUME NEW c \in Closers, CloseReturns(c) PROVE Promise!CloseReturns(c)
  <2>1. queue = <<>> /\ In("running") = {}
    BY <1>6, PoolAssumption DEF CloseReturns, AllExited, ExitedMeansDrained, In
  <2>2. In("running")' = In("running") /\ Cardinality(In("running")) = 0
    BY <1>6, <2>1, FS_EmptySet DEF CloseReturns, In
  <2> QED
    BY <1>6, <2>1, <2>2 DEF CloseReturns, Promise!CloseReturns
<1>7. CASE UNCHANGED vars
  BY <1>7 DEF vars, Promise!vars, In
<1> QED
  BY <1>1, <1>2, <1>3, <1>4, <1>5, <1>6, <1>7 DEF Next, Promise!Next

(* Goroutines, mutex and condition variable keep what the pool promises:    *)
(* tasks start in the order submit accepted them, never more at a time than *)
(* there are workers, and a close returns only on an empty, idle pool.      *)
THEOREM PoolKeepsItsPromise == Spec => KeepsPoolPromise
<1>1. Init => Promise!Init
  <2> SUFFICES ASSUME Init PROVE Promise!Init
    OBVIOUS
  <2>1. In("running") = {}
    BY DEF Init, In
  <2>2. Cardinality(In("running")) = 0
    BY <2>1, FS_EmptySet
  <2> QED
    BY <2>2 DEF Init, Promise!Init
<1>2. IInv /\ [Next]_vars => [Promise!Next]_Promise!vars
  BY StepKeepsPoolPromise
<1> QED
  BY <1>1, <1>2, Inductive, PTL DEF Spec, KeepsPoolPromise, Promise!Spec

-----------------------------------------------------------------------------
(* The dispatcher's intake is a BoundedExecutor.                            *)

LEMMA StepIsPoolStep == [DispatcherNext]_dispatcherVars => [Next]_vars
<1> SUFFICES ASSUME [DispatcherNext]_dispatcherVars PROVE [Next]_vars
  OBVIOUS
<1> USE DEF intakeVars
<1>1. CASE UNCHANGED dispatcherVars
  BY <1>1 DEF dispatcherVars
<1>2. ASSUME NEW j \in Tasks, Commit(j) \/ SignalAfterCommit(j) \/ BecomesClaimable(j)
      PROVE  UNCHANGED vars
  BY <1>2 DEF Commit, SignalAfterCommit, BecomesClaimable
<1>3. CASE Poll
  <2>1. CASE RetireExhausted \/ Drain \/ Claim \/ ClaimFails \/ SelectWake
    BY <2>1 DEF RetireExhausted, Drain, Claim, ClaimFails, SelectWake
  <2>2. ASSUME NEW j \in Tasks, Dispatch(j) PROVE Submit(j) \/ UNCHANGED vars
    BY <2>2 DEF Dispatch
  <2> QED
    BY <1>3, <2>1, <2>2 DEF Poll, Next
<1>4. CASE SelectStop \/ SelectTick
  BY <1>4 DEF SelectStop, SelectTick
<1>5. ASSUME NEW w \in Workers, IntakeStep(w)
      PROVE  Take(w) \/ Wait(w) \/ WorkerExit(w) \/ Finish(w) \/ UNCHANGED vars
  BY <1>5 DEF IntakeStep, TakeJob, IdleIntake, Resolve, Route, Settle, Leaves, SignalAfterJob
<1>6. CASE Generate
  BY <1>6 DEF Generate, StartGenerate, FinishGenerate
<1>7. ASSUME NEW s \in Closers, CloseStopCh(s) \/ StopStep(s)
      PROVE  Close(s) \/ CloseReturns(s) \/ UNCHANGED vars
  BY <1>7 DEF CloseStopCh, StopStep, CloseIntake, CloseExecutors, StopReturns
<1> QED
  BY <1>1, <1>2, <1>3, <1>4, <1>5, <1>6, <1>7 DEF DispatcherNext, Next

(* What the dispatcher does to its intake, a pool may do: jobs are          *)
(* submitted, taken, finished and joined through the pool's operations.     *)
THEOREM DispatcherRunsThePool == DispatcherSpec => Spec
<1>1. DispatcherInit => Init
  BY DEF DispatcherInit
<1> QED
  BY <1>1, StepIsPoolStep, PTL DEF DispatcherSpec, Spec

(* So the intake wakes its workers for every job, and a Stop whose intake   *)
(* close has returned has run every job that was accepted.                  *)
THEOREM IntakeDrains == DispatcherSpec => []NobodySleepsOnWork /\ []CloseDrains
  BY DispatcherRunsThePool, NoWakeupIsLost, CloseRunsEverything, PTL

(* And the dispatcher's intake is such a pool: the poller accepts, the      *)
(* intake workers start and end, Stop closes.                               *)
THEOREM IntakeKeepsItsPromise == DispatcherSpec => KeepsPoolPromise
  BY DispatcherRunsThePool, PoolKeepsItsPromise, PTL

-----------------------------------------------------------------------------
\* The types of the dispatcher, and which jobs its intake workers run.

JobsRun == \A w \in Workers : stage[w] # "none" <=> worker[w] = "running"

CurrentIsOpen == current # 0 => ~execs[current].closed

\* A job that was submitted to an executor waits for it, and stands in one queue
\* or runs on one executor.
JobsAwait ==
  \A k \in DOMAIN execs :
    /\ \A i \in 1..Len(execs[k].queue) : stage[execs[k].queue[i]] = "await"
    /\ \A w \in execs[k].running : stage[w] = "await"

QueuedOnce ==
  \A k, n \in DOMAIN execs : \A i \in 1..Len(execs[k].queue) :
    /\ \A j \in 1..Len(execs[n].queue) : execs[k].queue[i] = execs[n].queue[j] => k = n /\ i = j
    /\ execs[k].queue[i] \notin execs[n].running

RunOnce ==
  \A k, n \in DOMAIN execs : \A w \in execs[k].running : w \in execs[n].running => k = n

Holders == JobsAwait /\ QueuedOnce /\ RunOnce

Book == IInv /\ DispatcherTypeOK /\ JobsRun /\ CurrentIsOpen /\ Holders

LEMMA SizesAreNatural ==
  ASSUME TypeOK
  PROVE  /\ Size \in Nat
         /\ IsFiniteSet(RunningJobs) /\ Cardinality(RunningJobs) \in Nat
         /\ Len(queue) \in Nat
<1>1. RunningJobs \subseteq Workers
  BY DEF RunningJobs
<1> QED
  BY <1>1, PoolAssumption, FS_Subset, FS_CardinalityType, LenProperties DEF TypeOK, Size

\* Steps that leave the intake and the stages of its jobs alone.
LEMMA TableTypes ==
  ASSUME Book, NEW j \in Tasks, Commit(j) \/ SignalAfterCommit(j) \/ BecomesClaimable(j)
  PROVE  DispatcherTypeOK' /\ JobsRun'
<1> USE DEF intakeVars, vars, rowVars, pollerVars, jobVars, execVars, stopVars, observed
<1>1. UNCHANGED <<vars, stage, inFlight>>
  BY DEF Commit, SignalAfterCommit, BecomesClaimable
<1>2. TypeOK' /\ RunningJobs' = RunningJobs /\ JobsRun'
  BY <1>1 DEF Book, DispatcherTypeOK, TypeOK, In, RunningJobs, JobsRun
<1>3. CASE Commit(j)
  BY <1>1, <1>2, <1>3 DEF Book, DispatcherTypeOK, Commit
<1>4. CASE SignalAfterCommit(j)
  BY <1>1, <1>2, <1>4 DEF Book, DispatcherTypeOK, SignalAfterCommit
<1>5. CASE BecomesClaimable(j)
  BY <1>1, <1>2, <1>5 DEF Book, DispatcherTypeOK, BecomesClaimable
<1> QED
  BY <1>3, <1>4, <1>5

LEMMA PollerTypes ==
  ASSUME Book, RetireExhausted \/ Drain \/ Claim \/ ClaimFails \/ SelectWake \/ SelectStop \/ SelectTick
  PROVE  DispatcherTypeOK' /\ JobsRun'
<1> USE DEF intakeVars, vars, rowVars, pollerVars, jobVars, execVars, stopVars, observed
<1>1. UNCHANGED <<vars, job, stage, inFlight, execs, current, stopper, taken, caller>>
  BY DEF RetireExhausted, Drain, Claim, ClaimFails, SelectWake, SelectStop, SelectTick
<1>2. TypeOK' /\ RunningJobs' = RunningJobs /\ JobsRun'
  BY <1>1 DEF Book, DispatcherTypeOK, TypeOK, In, RunningJobs, JobsRun
<1>3. CASE RetireExhausted
  BY <1>1, <1>2, <1>3 DEF Book, DispatcherTypeOK, RetireExhausted
<1>4. CASE Drain
  <2>1. inFlight \in Nat /\ Size \in Nat
    BY SizesAreNatural DEF Book, DispatcherTypeOK
  <2>2. limit' \in 0..Size
    BY <1>4, <2>1, DispatcherAssumption DEF Drain, Capacity, Book, DispatcherTypeOK
  <2> QED
    BY <1>1, <1>2, <1>4, <2>2 DEF Book, DispatcherTypeOK, Drain
<1>5. CASE Claim
  <2>1. PICK ids \in SUBSET ClaimableRows :
          /\ row' = [j \in Tasks |-> IF j \in ids THEN "claimed" ELSE row[j]]
          /\ attempts' = [j \in Tasks |-> IF j \in ids THEN attempts[j] + 1 ELSE attempts[j]]
          /\ batch' = ids
          /\ poller' = IF ids = {} THEN "select" ELSE "dispatch"
          /\ timerOnly' = timerOnly \ ids
    BY <1>5 DEF Claim
  <2>2. attempts' \in [Tasks -> 0..MaxAttempts]
    BY <2>1, DispatcherAssumption DEF Book, DispatcherTypeOK, ClaimableRows
  <2>3. row' \in [Tasks -> {"absent", "claimable", "backoff", "claimed", "settled"}]
    BY <2>1 DEF Book, DispatcherTypeOK
  <2>4. ids \subseteq Tasks
    BY DEF ClaimableRows
  <2> QED
    BY <1>1, <1>2, <1>5, <2>1, <2>2, <2>3, <2>4 DEF Book, DispatcherTypeOK, Claim
<1>6. CASE ClaimFails
  <2>1. PICK lost \in SUBSET ClaimableRows :
          /\ row' = [j \in Tasks |-> IF j \in lost THEN "backoff" ELSE row[j]]
          /\ attempts' = [j \in Tasks |-> IF j \in lost THEN attempts[j] + 1 ELSE attempts[j]]
          /\ timerOnly' = timerOnly \cup ClaimableRows
    BY <1>6 DEF ClaimFails
  <2>2. attempts' \in [Tasks -> 0..MaxAttempts]
    BY <2>1, DispatcherAssumption DEF Book, DispatcherTypeOK, ClaimableRows
  <2>3. row' \in [Tasks -> {"absent", "claimable", "backoff", "claimed", "settled"}]
    BY <2>1 DEF Book, DispatcherTypeOK
  <2>4. timerOnly' \subseteq Tasks
    BY <2>1 DEF Book, DispatcherTypeOK, ClaimableRows
  <2> QED
    BY <1>1, <1>2, <1>6, <2>2, <2>3, <2>4 DEF Book, DispatcherTypeOK, ClaimFails
<1>7. CASE SelectWake \/ SelectStop \/ SelectTick
  BY <1>1, <1>2, <1>7 DEF Book, DispatcherTypeOK, SelectWake, SelectStop, SelectTick
<1> QED
  BY <1>3, <1>4, <1>5, <1>6, <1>7

LEMMA DispatchTypes ==
  ASSUME Book, NEW j \in Tasks, Dispatch(j), TypeOK'
  PROVE  DispatcherTypeOK' /\ JobsRun'
<1> USE DEF intakeVars, rowVars, pollerVars, jobVars, execVars, stopVars, observed
<1>1. RunningJobs' = RunningJobs
  BY DEF Dispatch, RunningJobs
<1>2. inFlight' = Len(queue') + Cardinality(RunningJobs')
  <2>1. CASE closed
    BY <1>1, <2>1 DEF Dispatch, Book, DispatcherTypeOK, vars
  <2>2. CASE ~closed
    <3>1. queue' = Append(queue, j) /\ inFlight' = inFlight + 1
      BY <2>2 DEF Dispatch, Submit
    <3>2. queue \in Seq(Tasks)
      BY DEF Book, DispatcherTypeOK, TypeOK
    <3>3. Len(queue') = Len(queue) + 1
      BY <3>1, <3>2, AppendProperties
    <3> QED
      BY <1>1, <3>1, <3>3, SizesAreNatural DEF Book, DispatcherTypeOK
  <2> QED
    BY <2>1, <2>2
<1>3. JobsRun'
  <2>1. UNCHANGED stage /\ worker \in [Workers -> {"ready", "waiting", "running", "exited"}]
    BY DEF Dispatch, Book, DispatcherTypeOK, TypeOK
  <2>2. \/ UNCHANGED worker
        \/ \E w \in Workers : worker[w] = "waiting" /\ worker' = [worker EXCEPT ![w] = "ready"]
    BY DEF Dispatch, Submit, Signal, In, vars
  <2> QED
    BY <2>1, <2>2 DEF Book, JobsRun
<1>4. /\ row' \in [Tasks -> {"absent", "claimable", "backoff", "claimed", "settled"}]
      /\ timerOnly' \subseteq Tasks /\ refused' \in BOOLEAN /\ batch' \subseteq Tasks
      /\ poller' \in {"drain", "dispatch"}
  BY DEF Dispatch, Book, DispatcherTypeOK
<1>5. UNCHANGED <<attempts, caller, wake, stopped, limit, job, stage, execs, current, stopper, taken>>
  BY DEF Dispatch
<1> QED
  BY <1>2, <1>3, <1>4, <1>5 DEF Book, DispatcherTypeOK

\* A worker goes on with its job, within the stages that count as running.
LEMMA RunsOn ==
  ASSUME Book, NEW w \in Workers, stage[w] \notin {"none", "signal"},
         NEW next \in Stages \ {"none", "signal"},
         stage' = [stage EXCEPT ![w] = next], UNCHANGED worker
  PROVE  stage' \in [Workers -> Stages] /\ RunningJobs' = RunningJobs /\ JobsRun'
<1>1. stage \in [Workers -> Stages]
  BY DEF Book, DispatcherTypeOK
<1> QED
  BY <1>1 DEF RunningJobs, JobsRun, Book

\* An executor's fields, and what changing one of them leaves.
LEMMA ExecutorFields ==
  ASSUME NEW e \in ExecutorTypes
  PROVE  e.queue \in Seq(Workers) /\ e.running \subseteq Workers
  BY DEF ExecutorTypes

LEMMA WithClosed ==
  ASSUME NEW e \in ExecutorTypes
  PROVE  /\ [e EXCEPT !.closed = TRUE] \in ExecutorTypes
         /\ [e EXCEPT !.closed = TRUE].queue = e.queue
         /\ [e EXCEPT !.closed = TRUE].running = e.running
<1> DEFINE T == Seq(Workers)
<1> HIDE DEF T
<1> USE DEF ExecutorTypes
<1>1. e \in [size : Nat \ {0}, closed : BOOLEAN, queue : T, running : SUBSET Workers]
  BY DEF T
<1>2. [e EXCEPT !.closed = TRUE] \in [size : Nat \ {0}, closed : BOOLEAN, queue : T, running : SUBSET Workers]
  BY <1>1
<1> QED
  BY <1>1, <1>2 DEF T

LEMMA WithQueue ==
  ASSUME NEW e \in ExecutorTypes, NEW q \in Seq(Workers)
  PROVE  /\ [e EXCEPT !.queue = q] \in ExecutorTypes
         /\ [e EXCEPT !.queue = q].queue = q
         /\ [e EXCEPT !.queue = q].running = e.running
         /\ [e EXCEPT !.queue = q].closed = e.closed
<1> DEFINE T == Seq(Workers)
<1> HIDE DEF T
<1> USE DEF ExecutorTypes
<1>1. e \in [size : Nat \ {0}, closed : BOOLEAN, queue : T, running : SUBSET Workers] /\ q \in T
  BY DEF T
<1>2. [e EXCEPT !.queue = q] \in [size : Nat \ {0}, closed : BOOLEAN, queue : T, running : SUBSET Workers]
  BY <1>1
<1> QED
  BY <1>1, <1>2 DEF T

LEMMA WithRunning ==
  ASSUME NEW e \in ExecutorTypes, NEW r \in SUBSET Workers
  PROVE  /\ [e EXCEPT !.running = r] \in ExecutorTypes
         /\ [e EXCEPT !.running = r].queue = e.queue
         /\ [e EXCEPT !.running = r].running = r
         /\ [e EXCEPT !.running = r].closed = e.closed
<1> DEFINE T == Seq(Workers)
<1> HIDE DEF T
<1> USE DEF ExecutorTypes
<1>1. e \in [size : Nat \ {0}, closed : BOOLEAN, queue : T, running : SUBSET Workers]
  BY DEF T
<1>2. [e EXCEPT !.running = r] \in [size : Nat \ {0}, closed : BOOLEAN, queue : T, running : SUBSET Workers]
  BY <1>1
<1> QED
  BY <1>1, <1>2 DEF T

\* The executors after a job has been routed: the one it went to, if it was
\* accepted, has it at the end of its queue, and the others are as they were.
RoutedTo(t, w) ==
  /\ DOMAIN execs \subseteq DOMAIN execs' /\ DOMAIN execs' \subseteq DOMAIN execs \cup {t}
  /\ t \in DOMAIN execs'
  /\ \A k \in DOMAIN execs \ {t} :
       execs'[k].queue = execs[k].queue /\ execs'[k].running = execs[k].running
  /\ t \in DOMAIN execs =>
       execs'[t].queue = Append(execs[t].queue, w) /\ execs'[t].running = execs[t].running
  /\ t \notin DOMAIN execs => execs'[t].queue = <<w>> /\ execs'[t].running = {}

LEMMA RouteEffect ==
  ASSUME Book, NEW w \in Workers, Route(w)
  PROVE  /\ execs' \in Seq(ExecutorTypes) /\ current' \in 1..Len(execs')
         /\ ~execs'[current'].closed
         /\ UNCHANGED refused /\ stage' = [stage EXCEPT ![w] = "await"]
         /\ RoutedTo(current', w)
<1> DEFINE Retired(c) == IF current # 0 /\ execs[current].size # c
                         THEN [execs EXCEPT ![current].closed = TRUE] ELSE execs
           Live(c) == IF NeedsNew(c) THEN Append(Retired(c), NewExecutor(c)) ELSE Retired(c)
           Target(c) == IF NeedsNew(c) THEN Len(Live(c)) ELSE current
<1>1. PICK c \in Concurrencies :
        /\ current' = Target(c)
        /\ IF Live(c)[Target(c)].closed
           THEN /\ execs' = Live(c)
                /\ refused' = TRUE
                /\ stage' = [stage EXCEPT ![w] = "release"]
           ELSE /\ execs' = [Live(c) EXCEPT ![Target(c)].queue = Append(@, w)]
                /\ stage' = [stage EXCEPT ![w] = "await"]
                /\ UNCHANGED refused
  BY DEF Route
<1>2. execs \in Seq(ExecutorTypes) /\ current \in 0..Len(execs) /\ Len(execs) \in Nat
      /\ DOMAIN execs = 1..Len(execs)
  BY LenProperties DEF Book, DispatcherTypeOK
<1> DEFINE old == Retired(c)
<1>3. /\ old \in Seq(ExecutorTypes) /\ Len(old) = Len(execs)
      /\ \A k \in 1..Len(execs) : old[k].queue = execs[k].queue /\ old[k].running = execs[k].running
      /\ ~NeedsNew(c) => old = execs
  <2>1. CASE current # 0 /\ execs[current].size # c
    <3>1. old = [execs EXCEPT ![current].closed = TRUE] /\ NeedsNew(c)
      BY <2>1 DEF NeedsNew
    <3>2. current \in 1..Len(execs)
      BY <1>2, <2>1
    <3> HIDE DEF old
    <3>3. [execs[current] EXCEPT !.closed = TRUE] \in ExecutorTypes
      <4>1. execs[current] \in ExecutorTypes
        BY <1>2, <3>2
      <4> QED
        BY <4>1, WithClosed
    <3>4. old = [execs EXCEPT ![current] = [execs[current] EXCEPT !.closed = TRUE]]
      BY <1>2, <3>1
    <3>5. old \in Seq(ExecutorTypes) /\ Len(old) = Len(execs)
      BY <1>2, <3>2, <3>3, <3>4, ExceptSeq
    <3>6. \A k \in 1..Len(execs) : execs[k] \in ExecutorTypes
      BY <1>2
    <3>7. ASSUME NEW k \in 1..Len(execs)
          PROVE  old[k].queue = execs[k].queue /\ old[k].running = execs[k].running
      <4>1. old[k] = IF k = current THEN [execs[current] EXCEPT !.closed = TRUE] ELSE execs[k]
        BY <1>2, <3>2, <3>3, <3>4, ExceptSeq
      <4> QED
        BY <3>2, <3>6, <4>1, WithClosed
    <3> QED
      BY <3>1, <3>5, <3>7
  <2>2. CASE ~(current # 0 /\ execs[current].size # c)
    BY <1>2, <2>2
  <2> QED
    BY <2>1, <2>2
<1> HIDE DEF old
<1> DEFINE live == Live(c)
           t == Target(c)
<1>4. NewExecutor(c) \in ExecutorTypes
  <2>1. <<>> \in Seq(Workers) /\ c \in Nat \ {0}
    BY EmptySeq, DispatcherAssumption
  <2> QED
    BY <2>1 DEF NewExecutor, ExecutorTypes
<1>5. CASE NeedsNew(c)
  <2>1. live = Append(old, NewExecutor(c)) /\ t = Len(live)
    BY <1>5 DEF old
  <2> HIDE DEF live, t
  <2>2. /\ live \in Seq(ExecutorTypes) /\ Len(live) = Len(execs) + 1 /\ t = Len(execs) + 1
        /\ live[t] = NewExecutor(c)
        /\ \A k \in 1..Len(execs) : live[k] = old[k]
    <3>1. old \in Seq(ExecutorTypes) /\ Len(old) = Len(execs)
      BY <1>3
    <3>2. /\ live \in Seq(ExecutorTypes) /\ Len(live) = Len(old) + 1
          /\ \A k \in 1..Len(old) : live[k] = old[k]
          /\ live[Len(old) + 1] = NewExecutor(c)
      BY <1>4, <2>1, <3>1, AppendProperties
    <3> QED
      BY <1>2, <2>1, <3>1, <3>2
  <2>3. ~live[t].closed /\ live[t].queue = <<>> /\ live[t].running = {}
    BY <2>2 DEF NewExecutor
  <2>4. /\ execs' = [live EXCEPT ![t].queue = Append(@, w)]
        /\ stage' = [stage EXCEPT ![w] = "await"]
        /\ UNCHANGED refused /\ current' = t
    BY <1>1, <2>3 DEF live, t
  <2>5. [live[t] EXCEPT !.queue = Append(live[t].queue, w)] \in ExecutorTypes
    <3>1. Append(live[t].queue, w) \in Seq(Workers)
      BY <2>3
    <3> QED
      BY <1>4, <2>2, <3>1, WithQueue
  <2>6. execs' = [live EXCEPT ![t] = [live[t] EXCEPT !.queue = Append(live[t].queue, w)]]
    BY <2>2, <2>4
  <2>7. /\ execs' \in Seq(ExecutorTypes) /\ Len(execs') = Len(live)
        /\ \A k \in 1..Len(live) : execs'[k] = IF k = t THEN [live[t] EXCEPT !.queue = Append(live[t].queue, w)]
                                               ELSE live[k]
    BY <1>2, <2>2, <2>5, <2>6, ExceptSeq
  <2>8. execs'[t].queue = <<w>> /\ execs'[t].running = {} /\ ~execs'[t].closed
    <3>1. Append(<<>>, w) = <<w>>
      OBVIOUS
    <3>2. <<w>> \in Seq(Workers) /\ live[t] \in ExecutorTypes /\ t \in 1..Len(live)
      BY <1>2, <1>4, <2>2
    <3>3. execs'[t] = [live[t] EXCEPT !.queue = <<w>>]
      BY <2>3, <2>7, <3>1, <3>2
    <3> QED
      BY <2>3, <3>2, <3>3, WithQueue
  <2>9. RoutedTo(t, w)
    <3>1. DOMAIN execs' = 1..(Len(execs) + 1) /\ t \notin DOMAIN execs /\ t \in DOMAIN execs'
      BY <1>2, <2>2, <2>7, LenProperties
    <3>2. \A k \in DOMAIN execs : execs'[k].queue = execs[k].queue /\ execs'[k].running = execs[k].running
      <4>1. \A k \in DOMAIN execs : execs'[k] = old[k]
        BY <1>2, <2>2, <2>7
      <4>2. \A k \in DOMAIN execs : old[k].queue = execs[k].queue /\ old[k].running = execs[k].running
        BY <1>2, <1>3
      <4> QED
        BY <4>1, <4>2
    <3> QED
      BY <1>2, <2>2, <2>8, <3>1, <3>2 DEF RoutedTo
  <2> QED
    BY <1>2, <2>2, <2>4, <2>7, <2>8, <2>9
<1>6. CASE ~NeedsNew(c)
  <2>1. live = execs /\ t = current /\ current \in 1..Len(execs) /\ ~execs[current].closed
    BY <1>2, <1>3, <1>6 DEF Book, CurrentIsOpen, NeedsNew
  <2> HIDE DEF live, t
  <2>2. /\ execs' = [execs EXCEPT ![t].queue = Append(@, w)]
        /\ stage' = [stage EXCEPT ![w] = "await"]
        /\ UNCHANGED refused /\ current' = t
    BY <1>1, <2>1 DEF live, t
  <2>3. [execs[t] EXCEPT !.queue = Append(execs[t].queue, w)] \in ExecutorTypes
    <3>1. execs[t] \in ExecutorTypes
      BY <1>2, <2>1
    <3>2. Append(execs[t].queue, w) \in Seq(Workers)
      <4>1. execs[t].queue \in Seq(Workers)
        BY <3>1, ExecutorFields
      <4> QED
        BY <4>1, AppendProperties
    <3> QED
      BY <3>1, <3>2, WithQueue
  <2>4. execs' = [execs EXCEPT ![t] = [execs[t] EXCEPT !.queue = Append(execs[t].queue, w)]]
    BY <1>2, <2>1, <2>2
  <2>5. /\ execs' \in Seq(ExecutorTypes) /\ Len(execs') = Len(execs)
        /\ \A k \in 1..Len(execs) : execs'[k] = IF k = t THEN [execs[t] EXCEPT !.queue = Append(execs[t].queue, w)]
                                                ELSE execs[k]
    BY <1>2, <2>1, <2>3, <2>4, ExceptSeq
  <2>6. execs'[t].queue = Append(execs[t].queue, w) /\ execs'[t].running = execs[t].running
        /\ ~execs'[t].closed
    <3>1. execs[t] \in ExecutorTypes
      BY <1>2, <2>1
    <3>2. Append(execs[t].queue, w) \in Seq(Workers)
      <4>1. execs[t].queue \in Seq(Workers)
        BY <3>1, ExecutorFields
      <4> QED
        BY <4>1, AppendProperties
    <3>3. execs'[t] = [execs[t] EXCEPT !.queue = Append(execs[t].queue, w)] /\ ~execs[t].closed
      BY <2>1, <2>5
    <3> QED
      BY <3>1, <3>2, <3>3, WithQueue
  <2>7. DOMAIN execs' = DOMAIN execs
    BY <1>2, <2>5, LenProperties
  <2> QED
    BY <1>2, <2>1, <2>2, <2>5, <2>6, <2>7 DEF RoutedTo
<1> QED
  BY <1>5, <1>6

LEMMA OneExecutorChanges ==
  ASSUME execs \in Seq(ExecutorTypes), NEW k \in DOMAIN execs, NEW e \in ExecutorTypes,
         execs' = [execs EXCEPT ![k] = e]
  PROVE  /\ execs' \in Seq(ExecutorTypes) /\ Len(execs') = Len(execs)
         /\ DOMAIN execs' = DOMAIN execs
         /\ execs'[k] = e /\ \A n \in DOMAIN execs \ {k} : execs'[n] = execs[n]
<1>1. DOMAIN execs = 1..Len(execs) /\ Len(execs) \in Nat
  BY LenProperties
<1>2. execs' \in Seq(ExecutorTypes) /\ Len(execs') = Len(execs)
  BY <1>1, ExceptSeq
<1>3. DOMAIN execs' = 1..Len(execs')
  BY <1>2, LenProperties
<1> QED
  BY <1>1, <1>2, <1>3

\* A worker of an executor takes its next job, or is done with one.
LEMMA StartEffect ==
  ASSUME DispatcherTypeOK, NEW k \in DOMAIN execs, StartGenerate(k)
  PROVE  /\ execs' \in Seq(ExecutorTypes) /\ DOMAIN execs' = DOMAIN execs
         /\ Len(execs') = Len(execs)
         /\ \A n \in DOMAIN execs \ {k} : execs'[n] = execs[n]
         /\ execs[k].queue \in Seq(Workers) /\ execs[k].queue # <<>>
         /\ execs'[k].queue = Tail(execs[k].queue)
         /\ execs'[k].running = execs[k].running \cup {Head(execs[k].queue)}
         /\ execs'[k].closed = execs[k].closed
<1> DEFINE e == execs[k]
           r == e.running \cup {Head(e.queue)}
<1>1. execs \in Seq(ExecutorTypes)
  BY DEF DispatcherTypeOK
<1>2. e \in ExecutorTypes
  BY <1>1, ElementOfSeq, LenProperties
<1>3. e.queue \in Seq(Workers) /\ e.running \subseteq Workers /\ e.queue # <<>>
  BY <1>2, ExecutorFields DEF StartGenerate
<1>4. Tail(e.queue) \in Seq(Workers) /\ r \in SUBSET Workers
  BY <1>3, HeadTailProperties
<1> DEFINE m == [e EXCEPT !.queue = Tail(e.queue)]
           n == [m EXCEPT !.running = m.running \cup {Head(e.queue)}]
<1>5. execs' = [execs EXCEPT ![k] = n]
  BY <1>1 DEF StartGenerate
<1>6. m \in ExecutorTypes /\ m.queue = Tail(e.queue) /\ m.running = e.running /\ m.closed = e.closed
  BY <1>2, <1>4, WithQueue
<1> HIDE DEF m
<1>7. n \in ExecutorTypes /\ n.queue = Tail(e.queue) /\ n.running = r /\ n.closed = e.closed
  BY <1>4, <1>6, WithRunning
<1> HIDE DEF n
<1> QED
  BY <1>1, <1>3, <1>5, <1>7, OneExecutorChanges

LEMMA FinishEffect ==
  ASSUME DispatcherTypeOK, NEW k \in DOMAIN execs, NEW w \in Workers, FinishGenerate(k, w)
  PROVE  /\ execs' \in Seq(ExecutorTypes) /\ DOMAIN execs' = DOMAIN execs
         /\ Len(execs') = Len(execs)
         /\ \A n \in DOMAIN execs \ {k} : execs'[n] = execs[n]
         /\ execs'[k].queue = execs[k].queue
         /\ execs'[k].running = execs[k].running \ {w}
         /\ execs'[k].closed = execs[k].closed
<1> DEFINE e == execs[k]
           r == e.running \ {w}
           n == [e EXCEPT !.running = r]
<1>1. execs \in Seq(ExecutorTypes)
  BY DEF DispatcherTypeOK
<1>2. e \in ExecutorTypes
  BY <1>1, ElementOfSeq, LenProperties
<1>3. e.queue \in Seq(Workers) /\ r \in SUBSET Workers
  BY <1>2, ExecutorFields
<1>4. n \in ExecutorTypes /\ n.queue = e.queue /\ n.running = r /\ n.closed = e.closed
  BY <1>2, <1>3, WithRunning
<1>5. execs' = [execs EXCEPT ![k] = n]
  BY <1>1 DEF FinishGenerate
<1> HIDE DEF n
<1> QED
  BY <1>1, <1>4, <1>5, OneExecutorChanges

\* Stop closes the executor it takes out of the map.
LEMMA CloseExecutorsEffect ==
  ASSUME DispatcherTypeOK, NEW s \in Closers, CloseExecutors(s)
  PROVE  /\ execs' \in Seq(ExecutorTypes) /\ DOMAIN execs' = DOMAIN execs
         /\ \A k \in DOMAIN execs :
              execs'[k].queue = execs[k].queue /\ execs'[k].running = execs[k].running
<1>1. execs \in Seq(ExecutorTypes) /\ current \in 0..Len(execs) /\ DOMAIN execs = 1..Len(execs)
  BY LenProperties DEF DispatcherTypeOK
<1>2. CASE current = 0
  BY <1>1, <1>2 DEF CloseExecutors
<1>3. CASE current # 0
  <2> DEFINE e == execs[current]
             n == [e EXCEPT !.closed = TRUE]
  <2>1. current \in DOMAIN execs
    BY <1>1, <1>3
  <2>2. e \in ExecutorTypes
    BY <1>1, <2>1, ElementOfSeq
  <2>3. n \in ExecutorTypes /\ n.queue = e.queue /\ n.running = e.running
    BY <2>2, WithClosed
  <2>4. execs' = [execs EXCEPT ![current] = n]
    BY <1>1, <1>3 DEF CloseExecutors
  <2> HIDE DEF n
  <2> QED
    BY <1>1, <2>1, <2>3, <2>4, OneExecutorChanges
<1> QED
  BY <1>2, <1>3

LEMMA TakeJobTypes ==
  ASSUME Book, NEW w \in Workers, TakeJob(w), TypeOK'
  PROVE  DispatcherTypeOK' /\ JobsRun'
<1> USE DEF rowVars, pollerVars, execVars, stopVars, observed
<1>1. worker[w] = "ready" /\ stage[w] = "none" /\ worker' = [worker EXCEPT ![w] = "running"]
      /\ stage' = [stage EXCEPT ![w] = "resolve"]
  BY DEF Book, JobsRun, TakeJob, Take
<1>2. RunningJobs' = RunningJobs \cup {w} /\ w \notin RunningJobs
  BY <1>1 DEF RunningJobs, Book, DispatcherTypeOK
<1>3. queue # <<>> /\ queue' = Tail(queue) /\ queue \in Seq(Tasks)
  BY DEF TakeJob, Take, Book, DispatcherTypeOK, TypeOK
<1>4. Len(queue') = Len(queue) - 1 /\ Head(queue) \in Tasks
  BY <1>3, HeadTailProperties
<1>5. inFlight' = Len(queue') + Cardinality(RunningJobs')
  <2>1. Cardinality(RunningJobs') = Cardinality(RunningJobs) + 1
    BY <1>2, SizesAreNatural, FS_AddElement DEF Book, DispatcherTypeOK
  <2> QED
    BY <1>4, <2>1, SizesAreNatural DEF Book, DispatcherTypeOK, TakeJob
<1>6. JobsRun'
  BY <1>1 DEF JobsRun, Book, DispatcherTypeOK, TypeOK
<1>7. stage' \in [Workers -> Stages] /\ job' \in [Workers -> Tasks \cup {NoJob}]
  BY <1>1, <1>4 DEF Book, DispatcherTypeOK, TakeJob, Stages
<1>8. UNCHANGED <<row, attempts, caller, wake, stopped, poller, limit, batch, execs, current, stopper,
                  taken, timerOnly, refused>>
  BY DEF TakeJob
<1> QED
  BY <1>5, <1>6, <1>7, <1>8 DEF Book, DispatcherTypeOK

LEMMA IntakeTypes ==
  ASSUME Book, NEW w \in Workers, IntakeStep(w), TypeOK'
  PROVE  DispatcherTypeOK' /\ JobsRun'
<1> USE DEF intakeVars, vars, rowVars, pollerVars, jobVars, execVars, stopVars, observed
<1>1. CASE TakeJob(w)
  BY <1>1, TakeJobTypes
<1>2. CASE IdleIntake(w)
  <2>1. UNCHANGED <<row, attempts, caller, wake, stopped, poller, limit, batch, inFlight, job, stage,
                    execs, current, stopper, taken, timerOnly, refused, queue>>
    BY <1>2 DEF IdleIntake, Wait, WorkerExit
  <2>2. JobsRun'
    BY <1>2, <2>1 DEF JobsRun, Book, DispatcherTypeOK, TypeOK, IdleIntake, Wait, WorkerExit
  <2>3. RunningJobs' = RunningJobs
    BY <2>1 DEF RunningJobs
  <2> QED
    BY <2>1, <2>2, <2>3 DEF Book, DispatcherTypeOK
<1>3. CASE Resolve(w)
  <2>1. PICK next \in {"route", "ack", "release"} : stage' = [stage EXCEPT ![w] = next]
    BY <1>3 DEF Resolve
  <2>2. stage' \in [Workers -> Stages] /\ RunningJobs' = RunningJobs /\ JobsRun'
    BY <1>3, <2>1, RunsOn DEF Resolve, Stages
  <2> QED
    BY <1>3, <2>2 DEF Resolve, Book, DispatcherTypeOK
<1>4. CASE Route(w)
  <2>1. /\ execs' \in Seq(ExecutorTypes) /\ current' \in 1..Len(execs')
        /\ UNCHANGED refused /\ stage' = [stage EXCEPT ![w] = "await"]
    BY <1>4, RouteEffect DEF Book
  <2>2. stage' \in [Workers -> Stages] /\ RunningJobs' = RunningJobs /\ JobsRun'
    BY <1>4, <2>1, RunsOn DEF Route, Stages
  <2>3. UNCHANGED <<row, attempts, caller, wake, stopped, poller, limit, batch, inFlight, vars, job,
                    stopper, taken, timerOnly>>
    BY <1>4 DEF Route
  <2>4. current' \in 0..Len(execs')
    BY <2>1, LenProperties
  <2> QED
    BY <2>1, <2>2, <2>3, <2>4 DEF Book, DispatcherTypeOK
<1>5. CASE Settle(w)
  <2>1. stage' \in [Workers -> Stages] /\ RunningJobs' = RunningJobs /\ JobsRun'
    BY <1>5, RunsOn DEF Settle, Stages
  <2>2. row' \in [Tasks -> {"absent", "claimable", "backoff", "claimed", "settled"}]
    BY <1>5 DEF Settle, Book, DispatcherTypeOK
  <2> QED
    BY <1>5, <2>1, <2>2 DEF Settle, Book, DispatcherTypeOK
<1>6. CASE Leaves(w)
  <2>1. RunningJobs' = RunningJobs \ {w} /\ w \in RunningJobs
    BY <1>6 DEF Leaves, RunningJobs, Book, DispatcherTypeOK
  <2>2. inFlight' = Len(queue') + Cardinality(RunningJobs')
    <3>1. Cardinality(RunningJobs') = Cardinality(RunningJobs) - 1
      BY <2>1, SizesAreNatural, FS_RemoveElement DEF Book, DispatcherTypeOK
    <3> QED
      BY <1>6, <3>1, SizesAreNatural DEF Leaves, Book, DispatcherTypeOK
  <2>3. stage' \in [Workers -> Stages] /\ JobsRun'
    BY <1>6 DEF Leaves, JobsRun, Book, DispatcherTypeOK, Stages
  <2> QED
    BY <1>6, <2>2, <2>3 DEF Leaves, Book, DispatcherTypeOK
<1>7. CASE SignalAfterJob(w)
  <2>1. RunningJobs' = RunningJobs
    BY <1>7 DEF SignalAfterJob, RunningJobs, Book, DispatcherTypeOK
  <2>2. stage' \in [Workers -> Stages] /\ job' \in [Workers -> Tasks \cup {NoJob}]
    BY <1>7 DEF SignalAfterJob, Book, DispatcherTypeOK, Stages
  <2>3. JobsRun'
    BY <1>7 DEF SignalAfterJob, Finish, JobsRun, Book, DispatcherTypeOK, TypeOK
  <2>4. UNCHANGED <<row, attempts, caller, stopped, poller, limit, batch, inFlight, queue, execs,
                    current, stopper, taken, timerOnly, refused>> /\ wake' = TRUE
    BY <1>7 DEF SignalAfterJob, Finish
  <2> QED
    BY <2>1, <2>2, <2>3, <2>4 DEF Book, DispatcherTypeOK
<1> QED
  BY <1>1, <1>2, <1>3, <1>4, <1>5, <1>6, <1>7 DEF IntakeStep

\* The queues and running jobs stay, and who awaits goes on awaiting.
LEMMA HoldersStand ==
  ASSUME Holders, DOMAIN execs' = DOMAIN execs,
         \A k \in DOMAIN execs :
           execs'[k].queue = execs[k].queue /\ execs'[k].running = execs[k].running,
         \A k \in DOMAIN execs :
           /\ \A i \in 1..Len(execs[k].queue) :
                stage[execs[k].queue[i]] = "await" => stage'[execs[k].queue[i]] = "await"
           /\ \A w \in execs[k].running : stage[w] = "await" => stage'[w] = "await"
  PROVE  Holders'
<1>1. JobsAwait'
  BY DEF Holders, JobsAwait
<1>2. QueuedOnce'
  BY DEF Holders, QueuedOnce
<1>3. RunOnce'
  BY DEF Holders, RunOnce
<1> QED
  BY <1>1, <1>2, <1>3 DEF Holders

LEMMA ExecutorsAreTyped ==
  ASSUME DispatcherTypeOK, NEW k \in DOMAIN execs
  PROVE  /\ execs[k].queue \in Seq(Workers) /\ execs[k].running \subseteq Workers
         /\ Len(execs[k].queue) \in Nat
         /\ \A i \in 1..Len(execs[k].queue) : execs[k].queue[i] \in Workers
<1>1. execs[k] \in ExecutorTypes
  BY ElementOfSeq, LenProperties DEF DispatcherTypeOK
<1>2. execs[k].queue \in Seq(Workers) /\ execs[k].running \subseteq Workers
  BY <1>1, ExecutorFields
<1> QED
  BY <1>2, ElementOfSeq, LenProperties

LEMMA OnePlace ==
  ASSUME QueuedOnce, NEW k \in DOMAIN execs, NEW n \in DOMAIN execs,
         NEW i \in 1..Len(execs[k].queue), NEW j \in 1..Len(execs[n].queue),
         execs[k].queue[i] = execs[n].queue[j]
  PROVE  k = n /\ i = j
  BY DEF QueuedOnce

\* A worker whose job is not awaited is in no queue and on no executor.
LEMMA RouteKeepsHolders ==
  ASSUME Book, NEW w \in Workers, Route(w)
  PROVE  Holders'
<1> DEFINE t == current'
           Q(k) == execs[k].queue
           R(k) == execs[k].running
<1>1. RoutedTo(t, w) /\ stage' = [stage EXCEPT ![w] = "await"]
  BY RouteEffect
<1>2. stage \in [Workers -> Stages] /\ stage[w] = "route"
  BY DEF Book, DispatcherTypeOK, Route
<1>3. \A k \in DOMAIN execs : /\ \A i \in 1..Len(Q(k)) : Q(k)[i] # w
                              /\ w \notin R(k)
  BY <1>2 DEF Book, Holders, JobsAwait
<1>4. \A k \in DOMAIN execs : /\ Q(k) \in Seq(Workers) /\ R(k) \subseteq Workers /\ Len(Q(k)) \in Nat
                              /\ \A i \in 1..Len(Q(k)) : Q(k)[i] \in Workers
  BY ExecutorsAreTyped DEF Book
\* Every place of the new executors is an old one or the end of t's queue.
<1> DEFINE Old(k, i) == k \in DOMAIN execs /\ i \in 1..Len(Q(k)) /\ execs'[k].queue[i] = Q(k)[i]
           New(k, i) == k = t /\ i = Len(execs'[t].queue) /\ execs'[k].queue[i] = w
<1>5. ASSUME NEW k \in DOMAIN execs', NEW i \in 1..Len(execs'[k].queue)
      PROVE  Old(k, i) \/ New(k, i)
  <2>1. CASE k # t
    BY <1>1, <2>1 DEF RoutedTo
  <2>2. CASE k = t /\ t \in DOMAIN execs
    <3>1. execs'[t].queue = Append(Q(t), w)
      BY <1>1, <2>2 DEF RoutedTo
    <3>2. Len(execs'[t].queue) = Len(Q(t)) + 1 /\ execs'[t].queue[Len(Q(t)) + 1] = w
          /\ \A n \in 1..Len(Q(t)) : execs'[t].queue[n] = Q(t)[n]
      BY <1>4, <2>2, <3>1, AppendProperties
    <3> QED
      BY <1>4, <1>5, <2>2, <3>2
  <2>3. CASE k = t /\ t \notin DOMAIN execs
    <3>1. execs'[t].queue = <<w>>
      BY <1>1, <2>3 DEF RoutedTo
    <3>2. Len(<<w>>) = 1 /\ <<w>>[1] = w
      OBVIOUS
    <3> QED
      BY <1>5, <2>3, <3>1, <3>2
  <2> QED
    BY <2>1, <2>2, <2>3
<1>6. ASSUME NEW k \in DOMAIN execs', NEW x \in execs'[k].running
      PROVE  k \in DOMAIN execs /\ x \in R(k)
  BY <1>1, <1>6 DEF RoutedTo
<1> HIDE DEF t, Q, R
<1>7. \A x \in Workers : stage[x] = "await" \/ x = w => stage'[x] = "await"
  BY <1>1, <1>2
<1>8. JobsAwait'
  BY <1>4, <1>5, <1>6, <1>7 DEF Book, Holders, JobsAwait, Q, R
<1>9. QueuedOnce'
  <2> SUFFICES ASSUME NEW k \in DOMAIN execs', NEW n \in DOMAIN execs',
                      NEW i \in 1..Len(execs'[k].queue)
               PROVE  /\ \A j \in 1..Len(execs'[n].queue) :
                           execs'[k].queue[i] = execs'[n].queue[j] => k = n /\ i = j
                      /\ execs'[k].queue[i] \notin execs'[n].running
    BY DEF QueuedOnce
  <2>1. execs'[k].queue[i] \notin execs'[n].running
    BY <1>3, <1>5, <1>6 DEF Book, Holders, QueuedOnce, Q, R
  <2>2. ASSUME NEW j \in 1..Len(execs'[n].queue), execs'[k].queue[i] = execs'[n].queue[j]
        PROVE  k = n /\ i = j
    <3>1. (Old(k, i) /\ Old(n, j)) \/ (New(k, i) /\ New(n, j))
      BY <1>3, <1>5, <2>2
    <3>2. CASE Old(k, i) /\ Old(n, j)
      <4>1. /\ k \in DOMAIN execs /\ i \in 1..Len(execs[k].queue)
            /\ n \in DOMAIN execs /\ j \in 1..Len(execs[n].queue)
            /\ execs[k].queue[i] = execs[n].queue[j]
        BY <2>2, <3>2 DEF Q
      <4> QED
        BY <4>1, OnePlace DEF Book, Holders
    <3> QED
      BY <3>1, <3>2
  <2> QED
    BY <2>1, <2>2
<1>10. RunOnce'
  BY <1>6 DEF Book, Holders, RunOnce, R
<1> QED
  BY <1>8, <1>9, <1>10 DEF Holders

\* The job at the head of a queue moves to the executor's running jobs.
LEMMA StartKeepsHolders ==
  ASSUME Book, NEW k \in DOMAIN execs, StartGenerate(k)
  PROVE  Holders'
<1> DEFINE q == execs[k].queue
           h == Head(q)
<1>1. /\ DOMAIN execs' = DOMAIN execs
      /\ \A n \in DOMAIN execs \ {k} : execs'[n] = execs[n]
      /\ q \in Seq(Workers) /\ q # <<>> /\ execs'[k].queue = Tail(q)
      /\ execs'[k].running = execs[k].running \cup {h}
  BY StartEffect DEF Book
<1>2. /\ h = q[1] /\ 1 \in 1..Len(q) /\ Len(q) \in Nat /\ Len(Tail(q)) = Len(q) - 1
      /\ \A i \in 1..Len(Tail(q)) : Tail(q)[i] = q[i + 1] /\ i + 1 \in 1..Len(q) /\ i + 1 # 1
  <2>1. Len(q) \in Nat /\ Len(q) # 0 /\ h = q[1]
    BY <1>1, EmptySeq, LenProperties
  <2>2. Len(Tail(q)) = Len(q) - 1 /\ \A i \in 1..Len(Tail(q)) : Tail(q)[i] = q[i + 1]
    BY <1>1, HeadTailProperties
  <2> QED
    BY <2>1, <2>2
<1>3. UNCHANGED stage
  BY DEF StartGenerate, jobVars
<1> HIDE DEF q, h
\* Every place of the new queues is an old one, and not the head of k's queue.
<1> DEFINE At(n, i) == IF n = k THEN i + 1 ELSE i
<1>4. ASSUME NEW n \in DOMAIN execs, NEW i \in 1..Len(execs'[n].queue)
      PROVE  /\ At(n, i) \in 1..Len(execs[n].queue)
             /\ execs'[n].queue[i] = execs[n].queue[At(n, i)]
             /\ n = k => At(n, i) # 1
  <2>1. CASE n = k
    <3>1. execs'[n].queue = Tail(q) /\ execs[n].queue = q /\ At(n, i) = i + 1
      BY <1>1, <2>1 DEF q
    <3>2. Tail(q)[i] = q[i + 1] /\ i + 1 \in 1..Len(q) /\ i + 1 # 1
      BY <1>2, <1>4, <3>1
    <3> QED
      BY <3>1, <3>2
  <2>2. CASE n # k
    BY <1>1, <2>2
  <2> QED
    BY <2>1, <2>2
<1>5. ASSUME NEW n \in DOMAIN execs, NEW x \in execs'[n].running
      PROVE  x \in execs[n].running \/ (n = k /\ x = execs[k].queue[1])
  BY <1>1, <1>2 DEF q
<1>6. 1 \in 1..Len(execs[k].queue)
  BY <1>2 DEF q
<1>7. JobsAwait'
  <2>1. \A n \in DOMAIN execs :
          /\ \A i \in 1..Len(execs[n].queue) : stage[execs[n].queue[i]] = "await"
          /\ \A x \in execs[n].running : stage[x] = "await"
    BY DEF Book, Holders, JobsAwait
  <2>2. ASSUME NEW n \in DOMAIN execs, NEW i \in 1..Len(execs'[n].queue)
        PROVE  stage[execs'[n].queue[i]] = "await"
    BY <1>4, <2>1
  <2>3. ASSUME NEW n \in DOMAIN execs, NEW x \in execs'[n].running PROVE stage[x] = "await"
    BY <1>5, <1>6, <2>1
  <2> QED
    BY <1>1, <1>3, <2>2, <2>3 DEF JobsAwait
<1>8. QueuedOnce'
  <2> SUFFICES ASSUME NEW n \in DOMAIN execs, NEW m \in DOMAIN execs,
                      NEW i \in 1..Len(execs'[n].queue)
               PROVE  /\ \A j \in 1..Len(execs'[m].queue) :
                           execs'[n].queue[i] = execs'[m].queue[j] => n = m /\ i = j
                      /\ execs'[n].queue[i] \notin execs'[m].running
    BY <1>1 DEF QueuedOnce
  <2>1. /\ At(n, i) \in 1..Len(execs[n].queue) /\ execs'[n].queue[i] = execs[n].queue[At(n, i)]
        /\ n = k => At(n, i) # 1
    BY <1>4
  <2>2. ASSUME NEW j \in 1..Len(execs'[m].queue), execs'[n].queue[i] = execs'[m].queue[j]
        PROVE  n = m /\ i = j
    <3>1. At(m, j) \in 1..Len(execs[m].queue) /\ execs'[m].queue[j] = execs[m].queue[At(m, j)]
      BY <1>4
    <3>2. n = m /\ At(n, i) = At(m, j)
      <4> DEFINE a == At(n, i)
                 b == At(m, j)
      <4>1. a \in 1..Len(execs[n].queue) /\ b \in 1..Len(execs[m].queue)
            /\ execs[n].queue[a] = execs[m].queue[b]
        BY <2>1, <2>2, <3>1
      <4> HIDE DEF a, b
      <4>2. n = m /\ a = b
        BY <4>1, OnePlace DEF Book, Holders
      <4> QED
        BY <4>2 DEF a, b
    <3>3. i \in Int /\ j \in Int
      OBVIOUS
    <3> QED
      BY <3>2, <3>3
  <2>3. ASSUME execs'[n].queue[i] \in execs'[m].running PROVE FALSE
    <3>1. execs[n].queue[At(n, i)] \in execs[m].running
          \/ (m = k /\ execs[n].queue[At(n, i)] = execs[k].queue[1])
      BY <1>5, <2>1, <2>3
    <3> QED
      BY <1>6, <2>1, <3>1 DEF Book, Holders, QueuedOnce
  <2> QED
    BY <2>2, <2>3
<1>9. RunOnce'
  <2> SUFFICES ASSUME NEW n \in DOMAIN execs, NEW m \in DOMAIN execs,
                      NEW x \in execs'[n].running, x \in execs'[m].running
               PROVE  n = m
    BY <1>1 DEF RunOnce
  <2> QED
    BY <1>5, <1>6 DEF Book, Holders, QueuedOnce, RunOnce
<1> QED
  BY <1>7, <1>8, <1>9 DEF Holders

LEMMA FinishKeepsHolders ==
  ASSUME Book, NEW k \in DOMAIN execs, NEW w \in Workers, FinishGenerate(k, w)
  PROVE  Holders' /\ stage[w] = "await"
<1>1. /\ DOMAIN execs' = DOMAIN execs
      /\ \A n \in DOMAIN execs \ {k} : execs'[n] = execs[n]
      /\ execs'[k].queue = execs[k].queue
      /\ execs'[k].running = execs[k].running \ {w}
  BY FinishEffect DEF Book
<1>2. w \in execs[k].running /\ \A x \in Workers \ {w} : stage'[x] = stage[x]
  BY DEF FinishGenerate, Book, DispatcherTypeOK
<1>3. \A n \in DOMAIN execs : execs'[n].queue = execs[n].queue
  BY <1>1
<1>4. \A n \in DOMAIN execs : execs'[n].running = execs[n].running \ {w}
  BY <1>1, <1>2 DEF Book, Holders, RunOnce
<1>5. \A n \in DOMAIN execs : \A i \in 1..Len(execs[n].queue) : execs[n].queue[i] \in Workers \ {w}
  BY <1>2, ExecutorsAreTyped DEF Book, Holders, QueuedOnce
<1>6. JobsAwait'
  BY <1>1, <1>2, <1>3, <1>4, <1>5, ExecutorsAreTyped DEF Book, Holders, JobsAwait
<1>7. QueuedOnce' /\ RunOnce'
  BY <1>1, <1>3, <1>4 DEF Book, Holders, QueuedOnce, RunOnce
<1> QED
  BY <1>2, <1>6, <1>7 DEF Holders, JobsAwait, Book

LEMMA GenerateTypes ==
  ASSUME Book, Generate
  PROVE  DispatcherTypeOK' /\ JobsRun' /\ CurrentIsOpen' /\ Holders'
<1> USE DEF intakeVars, vars, rowVars, pollerVars, jobVars, stopVars, observed
<1>1. current \in 0..Len(execs) /\ DOMAIN execs = 1..Len(execs) /\ Len(execs) \in Nat
  BY LenProperties DEF Book, DispatcherTypeOK
<1>2. ASSUME NEW k \in DOMAIN execs, StartGenerate(k)
      PROVE  DispatcherTypeOK' /\ JobsRun' /\ CurrentIsOpen' /\ Holders'
  <2>1. /\ execs' \in Seq(ExecutorTypes) /\ Len(execs') = Len(execs)
        /\ \A n \in DOMAIN execs : execs'[n].closed = execs[n].closed
    BY <1>2, StartEffect DEF Book
  <2>2. UNCHANGED <<row, attempts, caller, wake, stopped, poller, limit, batch, inFlight, vars, job,
                    stage, current, stopper, taken, timerOnly, refused>>
    BY <1>2 DEF StartGenerate
  <2>3. TypeOK' /\ RunningJobs' = RunningJobs /\ JobsRun'
    BY <2>2 DEF Book, DispatcherTypeOK, TypeOK, In, RunningJobs, JobsRun
  <2>4. CurrentIsOpen'
    BY <1>1, <2>1, <2>2 DEF Book, CurrentIsOpen
  <2> QED
    BY <1>2, <2>1, <2>2, <2>3, <2>4, StartKeepsHolders DEF Book, DispatcherTypeOK
<1>3. ASSUME NEW k \in DOMAIN execs, NEW w \in Workers, FinishGenerate(k, w)
      PROVE  DispatcherTypeOK' /\ JobsRun' /\ CurrentIsOpen' /\ Holders'
  <2>1. /\ execs' \in Seq(ExecutorTypes) /\ Len(execs') = Len(execs)
        /\ \A n \in DOMAIN execs : execs'[n].closed = execs[n].closed
    BY <1>3, FinishEffect DEF Book
  <2>2. UNCHANGED <<row, attempts, caller, wake, stopped, poller, limit, batch, inFlight, vars, job,
                    current, stopper, taken, timerOnly, refused>>
    BY <1>3 DEF FinishGenerate
  <2>3. PICK settle \in {"ack", "fail", "release"} : stage' = [stage EXCEPT ![w] = settle]
    BY <1>3 DEF FinishGenerate
  <2>4. stage' \in [Workers -> Stages] /\ RunningJobs' = RunningJobs /\ JobsRun'
    BY <1>3, <2>2, <2>3, RunsOn, FinishKeepsHolders DEF Stages
  <2>5. CurrentIsOpen'
    BY <1>1, <2>1, <2>2 DEF Book, CurrentIsOpen
  <2>6. TypeOK'
    BY <2>2 DEF Book, DispatcherTypeOK, TypeOK, In
  <2> QED
    BY <1>3, <2>1, <2>2, <2>4, <2>5, <2>6, FinishKeepsHolders DEF Book, DispatcherTypeOK
<1> QED
  BY <1>2, <1>3 DEF Generate
\* Steps that leave the executors alone, and the jobs that await one.
LEMMA ExecutorsStand ==
  ASSUME Book, UNCHANGED <<execs, current>>,
         \A w \in Workers : stage[w] = "await" => stage'[w] = "await"
  PROVE  CurrentIsOpen' /\ Holders'
<1>1. CurrentIsOpen'
  BY DEF Book, CurrentIsOpen
<1>2. \A k \in DOMAIN execs :
        /\ \A i \in 1..Len(execs[k].queue) : execs[k].queue[i] \in Workers
        /\ execs[k].running \subseteq Workers
  BY ExecutorsAreTyped DEF Book
<1> QED
  BY <1>1, <1>2, HoldersStand DEF Book

LEMMA StopTypes ==
  ASSUME Book, NEW s \in Closers, CloseStopCh(s) \/ StopStep(s), TypeOK'
  PROVE  DispatcherTypeOK' /\ JobsRun' /\ CurrentIsOpen' /\ Holders'
<1> USE DEF intakeVars, rowVars, pollerVars, jobVars, stopVars, observed
<1>1. UNCHANGED <<row, attempts, caller, wake, poller, limit, batch, inFlight, queue, job, stage,
                  timerOnly, refused>>
  BY DEF CloseStopCh, StopStep, CloseIntake, CloseExecutors, StopReturns, Close, CloseReturns, vars
<1>2. RunningJobs' = RunningJobs
  BY <1>1 DEF RunningJobs
<1>3. /\ stopped' \in BOOLEAN
      /\ stopper' \in [Closers -> {"idle", "join", "intake", "execs", "returned"}]
  BY DEF CloseStopCh, StopStep, CloseIntake, CloseExecutors, StopReturns, Book, DispatcherTypeOK
<1>4. CASE CloseStopCh(s) \/ CloseIntake(s) \/ StopReturns(s)
  <2>1. UNCHANGED <<execs, current, taken>>
    BY <1>4 DEF CloseStopCh, CloseIntake, StopReturns, execVars
  <2>2. CurrentIsOpen' /\ Holders'
    BY <1>1, <2>1, ExecutorsStand
  <2>3. \A w \in Workers : worker'[w] = "running" <=> worker[w] = "running"
    BY <1>4 DEF CloseStopCh, CloseIntake, StopReturns, Close, Broadcast, vars, Book,
                DispatcherTypeOK, TypeOK
  <2>4. JobsRun'
    BY <1>1, <2>3 DEF Book, JobsRun
  <2> QED
    BY <1>1, <1>2, <1>3, <2>1, <2>2, <2>4 DEF Book, DispatcherTypeOK
<1>5. CASE CloseExecutors(s)
  <2>1. /\ execs' \in Seq(ExecutorTypes) /\ DOMAIN execs' = DOMAIN execs
        /\ \A k \in DOMAIN execs :
             execs'[k].queue = execs[k].queue /\ execs'[k].running = execs[k].running
    BY <1>5, CloseExecutorsEffect DEF Book
  <2>2. current' = 0 /\ taken' = [taken EXCEPT ![s] = current] /\ UNCHANGED <<worker, stopped>>
    BY <1>5 DEF CloseExecutors, CloseReturns
  <2>3. current' \in 0..Len(execs') /\ taken' \in [Closers -> Nat]
    <3>1. current \in Nat /\ Len(execs') \in Nat
      BY <2>1, LenProperties DEF Book, DispatcherTypeOK
    <3> QED
      BY <2>2, <3>1 DEF Book, DispatcherTypeOK
  <2>4. CurrentIsOpen' /\ Holders' /\ JobsRun'
    BY <1>1, <2>1, <2>2, HoldersStand DEF Book, CurrentIsOpen, JobsRun
  <2> QED
    BY <1>1, <1>2, <1>3, <2>1, <2>2, <2>3, <2>4 DEF Book, DispatcherTypeOK
<1> QED
  BY <1>4, <1>5 DEF StopStep

LEMMA TableKeepsHolders ==
  ASSUME Book, NEW j \in Tasks,
         Commit(j) \/ SignalAfterCommit(j) \/ BecomesClaimable(j) \/ Dispatch(j)
  PROVE  CurrentIsOpen' /\ Holders'
<1>1. UNCHANGED <<execs, current, stage>>
  BY DEF Commit, SignalAfterCommit, BecomesClaimable, Dispatch, execVars, jobVars
<1> QED
  BY <1>1, ExecutorsStand

LEMMA PollerKeepsHolders ==
  ASSUME Book, RetireExhausted \/ Drain \/ Claim \/ ClaimFails \/ SelectWake \/ SelectStop \/ SelectTick
  PROVE  CurrentIsOpen' /\ Holders'
<1>1. UNCHANGED <<execs, current, stage>>
  BY DEF RetireExhausted, Drain, Claim, ClaimFails, SelectWake, SelectStop, SelectTick, execVars,
         jobVars
<1> QED
  BY <1>1, ExecutorsStand

LEMMA IntakeKeepsHolders ==
  ASSUME Book, NEW w \in Workers, IntakeStep(w)
  PROVE  CurrentIsOpen' /\ Holders'
<1>1. CASE Route(w)
  <2>1. CurrentIsOpen'
    BY <1>1, RouteEffect DEF CurrentIsOpen
  <2> QED
    BY <1>1, <2>1, RouteKeepsHolders
<1>2. CASE TakeJob(w)
  <2>1. stage[w] # "await"
    BY <1>2 DEF TakeJob, Take, Book, JobsRun
  <2>2. UNCHANGED <<execs, current>> /\ \A x \in Workers \ {w} : stage'[x] = stage[x]
    BY <1>2 DEF TakeJob, execVars, Book, DispatcherTypeOK
  <2> QED
    BY <2>1, <2>2, ExecutorsStand
<1>3. CASE IdleIntake(w) \/ Resolve(w) \/ Settle(w) \/ Leaves(w) \/ SignalAfterJob(w)
  <2>1. UNCHANGED <<execs, current>> /\ \A x \in Workers : stage[x] = "await" => stage'[x] = "await"
    BY <1>3 DEF IdleIntake, Resolve, Settle, Leaves, SignalAfterJob, execVars, jobVars, Book,
                DispatcherTypeOK
  <2> QED
    BY <2>1, ExecutorsStand
<1> QED
  BY <1>1, <1>2, <1>3 DEF IntakeStep

LEMMA InitBook == DispatcherInit => Book
<1> SUFFICES ASSUME DispatcherInit PROVE Book
  OBVIOUS
<1> USE DEF DispatcherInit
<1>1. IInv
  BY InitHolds
<1>2. queue = <<>> /\ RunningJobs = {}
  BY DEF Init, RunningJobs
<1>3. inFlight = Len(queue) + Cardinality(RunningJobs)
  BY <1>2, EmptySeq, FS_EmptySet
<1>4. execs \in Seq(ExecutorTypes) /\ Len(execs) = 0 /\ DOMAIN execs = {}
  BY EmptySeq
<1>5. limit \in 0..Size /\ MaxAttempts \in Nat
  BY <1>1, SizesAreNatural, DispatcherAssumption DEF IInv
<1>6. DispatcherTypeOK
  <2>1. attempts \in [Tasks -> 0..MaxAttempts] /\ current \in 0..Len(execs)
    BY <1>4, <1>5
  <2>2. taken \in [Closers -> Nat] /\ stage \in [Workers -> Stages]
    BY DEF Stages
  <2> QED
    BY <1>1, <1>3, <1>4, <1>5, <2>1, <2>2 DEF DispatcherTypeOK, IInv
<1>7. JobsRun /\ CurrentIsOpen
  BY DEF JobsRun, CurrentIsOpen, Init
<1>8. Holders
  BY <1>4 DEF Holders, JobsAwait, QueuedOnce, RunOnce
<1> QED
  BY <1>1, <1>6, <1>7, <1>8 DEF Book

LEMMA StepBook == Book /\ [DispatcherNext]_dispatcherVars => Book'
<1> SUFFICES ASSUME Book, [DispatcherNext]_dispatcherVars PROVE Book'
  OBVIOUS
<1>1. IInv' /\ TypeOK'
  BY StepIsPoolStep, StepHolds DEF Book, IInv
<1> DEFINE Kept == DispatcherTypeOK' /\ JobsRun' /\ CurrentIsOpen' /\ Holders'
<1>2. ASSUME UNCHANGED dispatcherVars PROVE Kept
  <2> USE <1>2 DEF dispatcherVars, intakeVars, vars, rowVars, pollerVars, jobVars, execVars, stopVars,
                   observed
  <2>1. CurrentIsOpen' /\ Holders'
    BY ExecutorsStand
  <2>2. RunningJobs' = RunningJobs /\ JobsRun'
    BY DEF Book, RunningJobs, JobsRun
  <2>3. DispatcherTypeOK'
    BY <1>1, <2>2 DEF Book, DispatcherTypeOK
  <2> QED
    BY <2>1, <2>2, <2>3
<1>3. ASSUME NEW j \in Tasks, Commit(j) \/ SignalAfterCommit(j) \/ BecomesClaimable(j) PROVE Kept
  BY <1>3, TableTypes, TableKeepsHolders
<1>4. ASSUME Poll \/ SelectStop \/ SelectTick PROVE Kept
  <2>1. ASSUME NEW j \in Tasks, Dispatch(j) PROVE Kept
    BY <1>1, <2>1, DispatchTypes, TableKeepsHolders
  <2>2. ASSUME RetireExhausted \/ Drain \/ Claim \/ ClaimFails \/ SelectWake \/ SelectStop \/ SelectTick
        PROVE  Kept
    BY <2>2, PollerTypes, PollerKeepsHolders
  <2> QED
    BY <1>4, <2>1, <2>2 DEF Poll
<1>5. ASSUME NEW w \in Workers, IntakeStep(w) PROVE Kept
  BY <1>1, <1>5, IntakeTypes, IntakeKeepsHolders
<1>6. ASSUME Generate PROVE Kept
  BY <1>6, GenerateTypes
<1>7. ASSUME NEW s \in Closers, CloseStopCh(s) \/ StopStep(s) PROVE Kept
  BY <1>1, <1>7, StopTypes
<1>8. Kept
  BY <1>2, <1>3, <1>4, <1>5, <1>6, <1>7 DEF DispatcherNext
<1> QED
  BY <1>1, <1>8 DEF Book

(* Every variable of the dispatcher keeps its type, the counter of jobs in  *)
(* flight counts the queued and the running ones exactly, a worker has a    *)
(* job exactly while its pool has it running, the executor in the map is    *)
(* open, and a job submitted to an executor waits in one place.             *)
THEOREM BookKept == DispatcherSpec => []Book
  BY InitBook, StepBook, PTL DEF DispatcherSpec

(* The dispatcher's own types, the exact count of jobs in flight among them. *)
THEOREM DispatcherTypesHold == DispatcherSpec => []DispatcherTypeOK
<1>1. Book => DispatcherTypeOK
  BY DEF Book
<1> QED
  BY <1>1, BookKept, PTL
-----------------------------------------------------------------------------
\* What the poller holds, and that it claims no more than the workers can take.

PollerHolds ==
  /\ poller # "dispatch" => batch = {}
  /\ closed => poller = "exited"

ClaimsFit ==
  /\ inFlight <= Size
  /\ poller = "claim" => inFlight + limit <= Size
  /\ poller = "dispatch" => inFlight + Cardinality(batch) <= Size

PollerStep ==
  RetireExhausted \/ Drain \/ Claim \/ ClaimFails \/ SelectWake \/ SelectStop \/ SelectTick

\* What the steps of the others leave to the poller.
LEMMA PollerIsAlone ==
  ASSUME [DispatcherNext]_dispatcherVars
  PROVE  \/ PollerStep \/ \E j \in Tasks : Dispatch(j)
         \/ UNCHANGED <<poller, batch, limit>>
<1> USE DEF pollerVars
<1>1. CASE UNCHANGED dispatcherVars
  BY <1>1 DEF dispatcherVars
<1>2. ASSUME NEW j \in Tasks, Commit(j) \/ SignalAfterCommit(j) \/ BecomesClaimable(j)
      PROVE  UNCHANGED <<poller, batch, limit>>
  BY <1>2 DEF Commit, SignalAfterCommit, BecomesClaimable
<1>3. ASSUME NEW w \in Workers, IntakeStep(w)
      PROVE  UNCHANGED <<poller, batch, limit>>
  BY <1>3 DEF IntakeStep, TakeJob, IdleIntake, Resolve, Route, Settle, Leaves, SignalAfterJob
<1>4. ASSUME Generate PROVE UNCHANGED <<poller, batch, limit>>
  BY <1>4 DEF Generate, StartGenerate, FinishGenerate
<1>5. ASSUME NEW s \in Closers, CloseStopCh(s) \/ StopStep(s)
      PROVE  UNCHANGED <<poller, batch, limit>>
  BY <1>5 DEF CloseStopCh, StopStep, CloseIntake, CloseExecutors, StopReturns
<1> QED
  BY <1>1, <1>2, <1>3, <1>4, <1>5 DEF DispatcherNext, Poll, PollerStep

\* Only Stop closes the intake, and only when the poller has exited.
LEMMA CloserWaits ==
  ASSUME [DispatcherNext]_dispatcherVars
  PROVE  UNCHANGED closed \/ (poller = "exited" /\ UNCHANGED poller)
<1> USE DEF intakeVars, vars
<1>1. CASE UNCHANGED dispatcherVars
  BY <1>1 DEF dispatcherVars
<1>2. ASSUME NEW j \in Tasks, Commit(j) \/ SignalAfterCommit(j) \/ BecomesClaimable(j) \/ Dispatch(j)
      PROVE  UNCHANGED closed
  BY <1>2 DEF Commit, SignalAfterCommit, BecomesClaimable, Dispatch, Submit
<1>3. ASSUME PollerStep PROVE UNCHANGED closed
  BY <1>3 DEF PollerStep, RetireExhausted, Drain, Claim, ClaimFails, SelectWake, SelectStop, SelectTick
<1>4. ASSUME NEW w \in Workers, IntakeStep(w) PROVE UNCHANGED closed
  BY <1>4 DEF IntakeStep, TakeJob, IdleIntake, Resolve, Route, Settle, Leaves, SignalAfterJob, Take,
              Wait, WorkerExit, Finish
<1>5. ASSUME Generate PROVE UNCHANGED closed
  BY <1>5 DEF Generate, StartGenerate, FinishGenerate
<1>6. ASSUME NEW s \in Closers, CloseStopCh(s) \/ StopStep(s)
      PROVE  UNCHANGED closed \/ (poller = "exited" /\ UNCHANGED poller)
  BY <1>6 DEF CloseStopCh, StopStep, CloseIntake, PollerDone, CloseExecutors, StopReturns, CloseReturns,
              pollerVars
<1> QED
  BY <1>1, <1>2, <1>3, <1>4, <1>5, <1>6 DEF DispatcherNext, Poll, PollerStep

LEMMA PollerKept ==
  ASSUME PollerHolds, [DispatcherNext]_dispatcherVars
  PROVE  PollerHolds'
<1>1. CASE UNCHANGED <<poller, batch, limit>>
  BY <1>1, CloserWaits DEF PollerHolds
<1>2. CASE PollerStep
  <2>1. poller # "exited" /\ poller # "dispatch" /\ ~closed
    BY <1>2 DEF PollerHolds, PollerStep, RetireExhausted, Drain, Claim, ClaimFails, SelectWake,
                SelectStop, SelectTick
  <2>2. ~closed'
    BY <2>1, CloserWaits
  <2>3. poller' # "dispatch" => batch' = {}
    BY <1>2, <2>1 DEF PollerHolds, PollerStep, RetireExhausted, Drain, Claim, ClaimFails, SelectWake,
                      SelectStop, SelectTick
  <2> QED
    BY <2>2, <2>3 DEF PollerHolds
<1>3. ASSUME NEW j \in Tasks, Dispatch(j) PROVE PollerHolds'
  BY <1>3, CloserWaits DEF PollerHolds, Dispatch
<1> QED
  BY <1>1, <1>2, <1>3, PollerIsAlone

LEMMA RefusedStays ==
  ASSUME Book, PollerHolds, NothingRefused, [DispatcherNext]_dispatcherVars
  PROVE  NothingRefused'
<1> USE DEF NothingRefused, observed
<1>1. CASE UNCHANGED dispatcherVars
  BY <1>1 DEF dispatcherVars
<1>2. ASSUME NEW j \in Tasks, Commit(j) \/ SignalAfterCommit(j) \/ BecomesClaimable(j)
      PROVE  UNCHANGED refused
  BY <1>2 DEF Commit, SignalAfterCommit, BecomesClaimable
<1>3. ASSUME NEW j \in Tasks, Dispatch(j) PROVE UNCHANGED refused
  BY <1>3 DEF Dispatch, PollerHolds
<1>4. ASSUME PollerStep PROVE UNCHANGED refused
  BY <1>4 DEF PollerStep, RetireExhausted, Drain, Claim, ClaimFails, SelectWake, SelectStop, SelectTick
<1>5. ASSUME NEW w \in Workers, IntakeStep(w) PROVE UNCHANGED refused
  <2>1. CASE Route(w)
    BY <2>1, RouteEffect
  <2>2. CASE ~Route(w)
    BY <1>5, <2>2 DEF IntakeStep, TakeJob, IdleIntake, Resolve, Settle, Leaves, SignalAfterJob
  <2> QED
    BY <2>1, <2>2
<1>6. ASSUME Generate PROVE UNCHANGED refused
  BY <1>6 DEF Generate, StartGenerate, FinishGenerate
<1>7. ASSUME NEW s \in Closers, CloseStopCh(s) \/ StopStep(s) PROVE UNCHANGED refused
  BY <1>7 DEF CloseStopCh, StopStep, CloseIntake, CloseExecutors, StopReturns
<1> QED
  BY <1>1, <1>2, <1>3, <1>4, <1>5, <1>6, <1>7 DEF DispatcherNext, Poll, PollerStep

\* Between claims inFlight only goes down.
LEMMA InFlightFalls ==
  ASSUME Book, [DispatcherNext]_dispatcherVars
  PROVE  \/ \E j \in Tasks : Dispatch(j)
         \/ UNCHANGED inFlight
         \/ inFlight' = inFlight - 1 /\ UNCHANGED <<poller, batch, limit>>
<1>1. CASE UNCHANGED dispatcherVars
  BY <1>1 DEF dispatcherVars
<1>2. ASSUME NEW j \in Tasks, Commit(j) \/ SignalAfterCommit(j) \/ BecomesClaimable(j)
      PROVE  UNCHANGED inFlight
  BY <1>2 DEF Commit, SignalAfterCommit, BecomesClaimable
<1>3. ASSUME PollerStep PROVE UNCHANGED inFlight
  BY <1>3 DEF PollerStep, RetireExhausted, Drain, Claim, ClaimFails, SelectWake, SelectStop, SelectTick
<1>4. ASSUME NEW w \in Workers, IntakeStep(w)
      PROVE  \/ UNCHANGED inFlight
             \/ inFlight' = inFlight - 1 /\ UNCHANGED <<poller, batch, limit>>
  BY <1>4 DEF IntakeStep, TakeJob, IdleIntake, Resolve, Route, Settle, Leaves, SignalAfterJob, pollerVars
<1>5. ASSUME Generate PROVE UNCHANGED inFlight
  BY <1>5 DEF Generate, StartGenerate, FinishGenerate
<1>6. ASSUME NEW s \in Closers, CloseStopCh(s) \/ StopStep(s) PROVE UNCHANGED inFlight
  BY <1>6 DEF CloseStopCh, StopStep, CloseIntake, CloseExecutors, StopReturns
<1> QED
  BY <1>1, <1>2, <1>3, <1>4, <1>5, <1>6 DEF DispatcherNext, Poll, PollerStep

LEMMA NumbersAreTyped ==
  ASSUME DispatcherTypeOK
  PROVE  Size \in Nat /\ inFlight \in Nat /\ limit \in Nat /\ IsFiniteSet(batch)
         /\ Cardinality(batch) \in Nat
<1>1. Size \in Nat /\ inFlight \in Nat
  BY SizesAreNatural DEF DispatcherTypeOK
<1>2. limit \in 0..Size /\ batch \subseteq Tasks
  BY DEF DispatcherTypeOK
<1> QED
  BY <1>1, <1>2, DispatcherAssumption, FS_Subset, FS_CardinalityType

LEMMA ClaimsKeepFitting ==
  ASSUME Book, PollerHolds, ClaimsFit, [DispatcherNext]_dispatcherVars
  PROVE  ClaimsFit'
<1>1. Size \in Nat /\ inFlight \in Nat /\ limit \in Nat /\ IsFiniteSet(batch)
      /\ Cardinality(batch) \in Nat /\ Size' = Size
  BY NumbersAreTyped DEF Book, Size
<1>2. CASE UNCHANGED <<poller, batch, limit>> /\ ~\E j \in Tasks : Dispatch(j)
  BY <1>1, <1>2, InFlightFalls DEF ClaimsFit
<1>3. CASE PollerStep
  <2>1. UNCHANGED inFlight
    BY <1>3 DEF PollerStep, RetireExhausted, Drain, Claim, ClaimFails, SelectWake, SelectStop, SelectTick
  <2>2. CASE Drain
    BY <1>1, <2>1, <2>2, DispatcherAssumption DEF Drain, Capacity, ClaimsFit
  <2>3. CASE Claim
    <3>1. PICK ids \in SUBSET ClaimableRows : Cardinality(ids) <= limit /\ batch' = ids
                                              /\ poller' \in {"select", "dispatch"}
      BY <2>3 DEF Claim
    <3>2. IsFiniteSet(ids) /\ Cardinality(ids) \in Nat
      BY DispatcherAssumption, FS_Subset, FS_CardinalityType DEF ClaimableRows
    <3>3. inFlight <= Size /\ inFlight + limit <= Size
      BY <2>3 DEF Claim, ClaimsFit
    <3> QED
      BY <1>1, <2>1, <3>1, <3>2, <3>3 DEF ClaimsFit
  <2>4. CASE ~Drain /\ ~Claim
    BY <1>1, <1>3, <2>1, <2>4
    DEF PollerStep, RetireExhausted, ClaimFails, SelectWake, SelectStop, SelectTick, ClaimsFit
  <2> QED
    BY <2>2, <2>3, <2>4
<1>4. ASSUME NEW j \in Tasks, Dispatch(j) PROVE ClaimsFit'
  <2>1. inFlight' = inFlight + 1 /\ j \in batch /\ batch' = batch \ {j}
        /\ poller = "dispatch" /\ poller' \in {"drain", "dispatch"}
    BY <1>4 DEF Dispatch, PollerHolds
  <2>2. Cardinality(batch') = Cardinality(batch) - 1 /\ Cardinality(batch') \in Nat
    <3>1. IsFiniteSet(batch')
      BY <1>1, <2>1, FS_RemoveElement
    <3> QED
      BY <1>1, <2>1, <3>1, FS_RemoveElement, FS_CardinalityType
  <2> QED
    BY <1>1, <2>1, <2>2 DEF ClaimsFit
<1> QED
  BY <1>2, <1>3, <1>4, PollerIsAlone
-----------------------------------------------------------------------------
\* Who owes the poller a wakeup.

LEMMA WakeupsStand ==
  ASSUME NoLostWakeup, UNCHANGED <<poller, wake, stopped, inFlight, caller, timerOnly>>,
         ClaimableRows' \subseteq ClaimableRows,
         \A w \in Workers : stage[w] = "signal" => stage'[w] = "signal"
  PROVE  NoLostWakeup'
  BY DEF NoLostWakeup, Size

LEMMA TableKeepsWakeups ==
  ASSUME Book, NoLostWakeup, NEW j \in Tasks,
         Commit(j) \/ SignalAfterCommit(j) \/ BecomesClaimable(j) \/ Dispatch(j)
  PROVE  NoLostWakeup'
<1>1. CASE Commit(j)
  BY <1>1 DEF Commit, NoLostWakeup, Book, DispatcherTypeOK
<1>2. CASE SignalAfterCommit(j)
  BY <1>2 DEF SignalAfterCommit, NoLostWakeup
<1>3. CASE BecomesClaimable(j)
  <2>1. ClaimableRows' \subseteq ClaimableRows \cup {j}
    BY <1>3 DEF BecomesClaimable, ClaimableRows, Book, DispatcherTypeOK
  <2> QED
    BY <1>3, <2>1 DEF BecomesClaimable, NoLostWakeup, Size, pollerVars, jobVars
<1>4. CASE Dispatch(j)
  BY <1>4 DEF Dispatch, NoLostWakeup
<1> QED
  BY <1>1, <1>2, <1>3, <1>4

LEMMA PollerKeepsWakeups ==
  ASSUME Book, NoLostWakeup, PollerStep
  PROVE  NoLostWakeup'
<1>1. CASE RetireExhausted \/ SelectWake \/ SelectStop \/ SelectTick
  BY <1>1 DEF RetireExhausted, SelectWake, SelectStop, SelectTick, NoLostWakeup
<1>2. CASE Drain
  BY <1>2, NumbersAreTyped DEF Drain, Capacity, NoLostWakeup, Size, Book
<1>3. CASE Claim
  <2> SUFFICES ASSUME poller' = "select" PROVE NoLostWakeup'
    BY DEF NoLostWakeup
  <2>1. ClaimableRows = {} /\ row' = [j \in Tasks |-> row[j]]
        /\ attempts' = [j \in Tasks |-> attempts[j]]
    BY <1>3 DEF Claim
  <2>2. ClaimableRows' = {}
    BY <2>1 DEF ClaimableRows, Book, DispatcherTypeOK
  <2> QED
    BY <2>2 DEF NoLostWakeup
<1>4. CASE ClaimFails
  <2>1. ClaimableRows' \subseteq ClaimableRows /\ timerOnly' = timerOnly \cup ClaimableRows
    BY <1>4 DEF ClaimFails, ClaimableRows
  <2> QED
    BY <2>1 DEF NoLostWakeup
<1> QED
  BY <1>1, <1>2, <1>3, <1>4 DEF PollerStep

LEMMA IntakeKeepsWakeups ==
  ASSUME Book, NoLostWakeup, NEW w \in Workers, IntakeStep(w)
  PROVE  NoLostWakeup'
<1> USE DEF rowVars, pollerVars, jobVars, observed
<1>1. CASE Leaves(w)
  BY <1>1 DEF Leaves, NoLostWakeup, Book, DispatcherTypeOK
<1>2. CASE SignalAfterJob(w)
  BY <1>2 DEF SignalAfterJob, NoLostWakeup
<1>3. CASE Route(w)
  BY <1>3, RouteEffect, WakeupsStand DEF Route, ClaimableRows, Book, DispatcherTypeOK
<1>4. CASE TakeJob(w)
  <2>1. stage[w] = "none"
    BY <1>4 DEF TakeJob, Take, Book, JobsRun
  <2> QED
    BY <1>4, <2>1, WakeupsStand DEF TakeJob, ClaimableRows, Book, DispatcherTypeOK
<1>5. CASE IdleIntake(w) \/ Resolve(w)
  BY <1>5, WakeupsStand DEF IdleIntake, Resolve, ClaimableRows, Book, DispatcherTypeOK
<1>6. CASE Settle(w)
  <2>1. \A j \in Tasks : row'[j] = row[j] \/ row'[j] \in {"backoff", "settled"}
    BY <1>6 DEF Settle, Book, DispatcherTypeOK
  <2>2. ClaimableRows' \subseteq ClaimableRows
    BY <1>6, <2>1 DEF Settle, ClaimableRows
  <2> QED
    BY <1>6, <2>2, WakeupsStand DEF Settle, Book, DispatcherTypeOK
<1> QED
  BY <1>1, <1>2, <1>3, <1>4, <1>5, <1>6 DEF IntakeStep

LEMMA WakeupsKept ==
  ASSUME Book, NoLostWakeup, [DispatcherNext]_dispatcherVars
  PROVE  NoLostWakeup'
<1> USE DEF rowVars, pollerVars, jobVars, observed
<1>1. CASE UNCHANGED dispatcherVars
  BY <1>1, WakeupsStand DEF dispatcherVars, ClaimableRows
<1>2. ASSUME Generate PROVE NoLostWakeup'
  <2>1. ASSUME NEW k \in DOMAIN execs, StartGenerate(k) PROVE NoLostWakeup'
    BY <2>1, WakeupsStand DEF StartGenerate, ClaimableRows
  <2>2. ASSUME NEW k \in DOMAIN execs, NEW w \in Workers, FinishGenerate(k, w) PROVE NoLostWakeup'
    <3>1. stage[w] # "signal"
      BY <2>2, FinishKeepsHolders
    <3> QED
      BY <2>2, <3>1, WakeupsStand DEF FinishGenerate, ClaimableRows, Book, DispatcherTypeOK
  <2> QED
    BY <1>2, <2>1, <2>2 DEF Generate
<1>3. ASSUME NEW s \in Closers, CloseStopCh(s) PROVE NoLostWakeup'
  BY <1>3 DEF CloseStopCh, NoLostWakeup
<1>4. ASSUME NEW s \in Closers, StopStep(s) PROVE NoLostWakeup'
  BY <1>4, WakeupsStand DEF StopStep, CloseIntake, CloseExecutors, StopReturns, ClaimableRows
<1> QED
  BY <1>1, <1>2, <1>3, <1>4, TableKeepsWakeups, PollerKeepsWakeups, IntakeKeepsWakeups
  DEF DispatcherNext, Poll, PollerStep

-----------------------------------------------------------------------------
\* Who still has a claimed row in hand, and what a Stop has waited for.

InHand(j) ==
  \/ j \in batch
  \/ \E i \in 1..Len(queue) : queue[i] = j
  \/ \E w \in Workers : job[w] = j /\ stage[w] \notin {"none", "leave", "signal"}

RowsInHand == \A j \in Tasks : row[j] = "claimed" => InHand(j)

StoppersJoined ==
  \A s \in Closers : stopper[s] \in {"execs", "returned"} => closer[s] = "returned"

\* A step that claims no row, and lets go of none.
LEMMA HandsStand ==
  ASSUME RowsInHand, \A j \in Tasks : row'[j] = "claimed" => row[j] = "claimed",
         UNCHANGED <<batch, queue, job>>,
         \A w \in Workers : \/ stage[w] \in {"none", "leave", "signal"}
                            \/ stage'[w] \notin {"none", "leave", "signal"}
  PROVE  RowsInHand'
  BY DEF RowsInHand, InHand

LEMMA PollerKeepsHands ==
  ASSUME Book, PollerHolds, RowsInHand, PollerStep
  PROVE  RowsInHand'
<1> USE DEF intakeVars, vars, rowVars, pollerVars, jobVars
<1>1. CASE Claim
  <2>1. PICK ids \in SUBSET ClaimableRows :
          row' = [j \in Tasks |-> IF j \in ids THEN "claimed" ELSE row[j]] /\ batch' = ids
    BY <1>1 DEF Claim
  <2>2. UNCHANGED <<queue, job, stage>> /\ batch = {}
    BY <1>1 DEF Claim, PollerHolds
  <2> QED
    BY <2>1, <2>2 DEF RowsInHand, InHand
<1>2. CASE ~Claim
  <2>1. UNCHANGED <<batch, queue, job, stage>>
    BY <1>2 DEF PollerStep, RetireExhausted, Drain, ClaimFails, SelectWake, SelectStop, SelectTick
  <2>2. \A j \in Tasks : row'[j] = "claimed" => row[j] = "claimed"
    BY <1>2 DEF PollerStep, RetireExhausted, Drain, ClaimFails, SelectWake, SelectStop, SelectTick,
                Book, DispatcherTypeOK
  <2> QED
    BY <2>1, <2>2, HandsStand
<1> QED
  BY <1>1, <1>2

LEMMA DispatchKeepsHands ==
  ASSUME Book, PollerHolds, RowsInHand, NEW j \in Tasks, Dispatch(j)
  PROVE  RowsInHand'
<1>1. ~closed /\ UNCHANGED <<row, job, stage>> /\ batch' = batch \ {j} /\ queue' = Append(queue, j)
  BY DEF Dispatch, PollerHolds, Submit, jobVars
<1>2. queue \in Seq(Tasks)
  BY DEF Book, DispatcherTypeOK, TypeOK
<1>3. /\ Len(queue) \in Nat /\ Len(queue') = Len(queue) + 1 /\ queue'[Len(queue) + 1] = j
      /\ \A i \in 1..Len(queue) : queue'[i] = queue[i]
  BY <1>1, <1>2, AppendProperties, LenProperties
<1>4. \A n \in Tasks : (\E i \in 1..Len(queue) : queue[i] = n) => \E i \in 1..Len(queue') : queue'[i] = n
  BY <1>3
<1>5. \E i \in 1..Len(queue') : queue'[i] = j
  BY <1>3
<1> QED
  BY <1>1, <1>4, <1>5 DEF RowsInHand, InHand

LEMMA TakeKeepsHands ==
  ASSUME Book, RowsInHand, NEW w \in Workers, TakeJob(w)
  PROVE  RowsInHand'
<1>1. /\ stage[w] = "none" /\ queue \in Seq(Tasks) /\ queue # <<>> /\ queue' = Tail(queue)
      /\ job' = [job EXCEPT ![w] = Head(queue)] /\ stage' = [stage EXCEPT ![w] = "resolve"]
      /\ UNCHANGED <<row, batch>>
  BY DEF Book, JobsRun, DispatcherTypeOK, TypeOK, TakeJob, Take, rowVars, pollerVars
<1>2. /\ Len(queue) \in Nat /\ Len(queue') = Len(queue) - 1 /\ Head(queue) = queue[1]
      /\ \A i \in 1..Len(queue') : queue'[i] = queue[i + 1]
  BY <1>1, HeadTailProperties, LenProperties
<1>3. job \in [Workers -> Tasks \cup {NoJob}] /\ stage \in [Workers -> Stages]
  BY DEF Book, DispatcherTypeOK
<1> SUFFICES ASSUME NEW j \in Tasks, row[j] = "claimed" PROVE InHand(j)'
  BY <1>1 DEF RowsInHand
<1>4. CASE j \in batch
  BY <1>1, <1>4 DEF InHand
<1>5. ASSUME NEW i \in 1..Len(queue), queue[i] = j PROVE InHand(j)'
  <2>1. CASE i = 1
    BY <1>1, <1>2, <1>3, <1>5, <2>1 DEF InHand
  <2>2. CASE i # 1
    <3>1. i - 1 \in 1..Len(queue') /\ (i - 1) + 1 = i
      BY <1>2, <2>2
    <3>2. queue'[i - 1] = j
      BY <1>2, <1>5, <3>1
    <3> QED
      BY <3>1, <3>2 DEF InHand
  <2> QED
    BY <2>1, <2>2
<1>6. ASSUME NEW v \in Workers, job[v] = j, stage[v] \notin {"none", "leave", "signal"} PROVE InHand(j)'
  BY <1>1, <1>3, <1>6 DEF InHand
<1> QED
  BY <1>4, <1>5, <1>6 DEF RowsInHand, InHand

LEMMA IntakeKeepsHands ==
  ASSUME Book, RowsInHand, NEW w \in Workers, IntakeStep(w)
  PROVE  RowsInHand'
<1> USE DEF intakeVars, vars, rowVars, pollerVars, jobVars
<1>1. CASE TakeJob(w)
  BY <1>1, TakeKeepsHands
<1>2. CASE Route(w)
  BY <1>2, RouteEffect, HandsStand DEF Route, Book, DispatcherTypeOK
<1>3. CASE IdleIntake(w)
  BY <1>3, HandsStand DEF IdleIntake, Wait, WorkerExit
<1>4. CASE Resolve(w)
  BY <1>4, HandsStand DEF Resolve, Book, DispatcherTypeOK
<1>5. CASE Settle(w)
  <2>1. \A j \in Tasks : row'[j] = "claimed" => row[j] = "claimed" /\ j # job[w]
    BY <1>5 DEF Settle, Book, DispatcherTypeOK
  <2>2. UNCHANGED <<batch, queue, job>> /\ \A v \in Workers \ {w} : stage'[v] = stage[v]
    BY <1>5 DEF Settle, Book, DispatcherTypeOK
  <2> QED
    BY <2>1, <2>2 DEF RowsInHand, InHand
<1>6. CASE Leaves(w)
  BY <1>6, HandsStand DEF Leaves, Book, DispatcherTypeOK
<1>7. CASE SignalAfterJob(w)
  <2>1. UNCHANGED <<row, batch, queue>> /\ stage[w] = "signal"
        /\ \A v \in Workers \ {w} : stage'[v] = stage[v] /\ job'[v] = job[v]
    BY <1>7 DEF SignalAfterJob, Finish, Book, DispatcherTypeOK
  <2> QED
    BY <2>1 DEF RowsInHand, InHand
<1> QED
  BY <1>1, <1>2, <1>3, <1>4, <1>5, <1>6, <1>7 DEF IntakeStep

LEMMA HandsKept ==
  ASSUME Book, PollerHolds, RowsInHand, [DispatcherNext]_dispatcherVars
  PROVE  RowsInHand'
<1> USE DEF intakeVars, vars, rowVars, pollerVars, jobVars
<1>1. CASE UNCHANGED dispatcherVars
  BY <1>1, HandsStand DEF dispatcherVars
<1>2. ASSUME NEW j \in Tasks, Commit(j) \/ SignalAfterCommit(j) \/ BecomesClaimable(j)
      PROVE  RowsInHand'
  <2>1. UNCHANGED <<batch, queue, job, stage>>
    BY <1>2 DEF Commit, SignalAfterCommit, BecomesClaimable
  <2>2. \A n \in Tasks : row'[n] = "claimed" => row[n] = "claimed"
    BY <1>2 DEF Commit, SignalAfterCommit, BecomesClaimable, Book, DispatcherTypeOK
  <2> QED
    BY <2>1, <2>2, HandsStand
<1>3. ASSUME Generate PROVE RowsInHand'
  <2>1. ASSUME NEW k \in DOMAIN execs, StartGenerate(k) PROVE RowsInHand'
    BY <2>1, HandsStand DEF StartGenerate
  <2>2. ASSUME NEW k \in DOMAIN execs, NEW w \in Workers, FinishGenerate(k, w) PROVE RowsInHand'
    BY <2>2, HandsStand DEF FinishGenerate, Book, DispatcherTypeOK
  <2> QED
    BY <1>3, <2>1, <2>2 DEF Generate
<1>4. ASSUME NEW s \in Closers, CloseStopCh(s) \/ StopStep(s) PROVE RowsInHand'
  BY <1>4, HandsStand
  DEF CloseStopCh, StopStep, CloseIntake, CloseExecutors, StopReturns, Close, CloseReturns
<1> QED
  BY <1>1, <1>2, <1>3, <1>4, PollerKeepsHands, DispatchKeepsHands, IntakeKeepsHands
  DEF DispatcherNext, Poll, PollerStep

LEMMA StoppersKept ==
  ASSUME Book, StoppersJoined, [DispatcherNext]_dispatcherVars
  PROVE  StoppersJoined'
<1> USE DEF intakeVars, vars, stopVars
<1>1. CASE UNCHANGED dispatcherVars
  BY <1>1 DEF dispatcherVars, StoppersJoined
<1>2. ASSUME NEW j \in Tasks, Commit(j) \/ SignalAfterCommit(j) \/ BecomesClaimable(j) \/ Dispatch(j)
      PROVE  UNCHANGED <<stopper, closer>>
  BY <1>2 DEF Commit, SignalAfterCommit, BecomesClaimable, Dispatch, Submit
<1>3. ASSUME PollerStep PROVE UNCHANGED <<stopper, closer>>
  BY <1>3 DEF PollerStep, RetireExhausted, Drain, Claim, ClaimFails, SelectWake, SelectStop, SelectTick
<1>4. ASSUME NEW w \in Workers, IntakeStep(w) PROVE UNCHANGED <<stopper, closer>>
  BY <1>4 DEF IntakeStep, TakeJob, IdleIntake, Resolve, Route, Settle, Leaves, SignalAfterJob, Take,
              Wait, WorkerExit, Finish
<1>5. ASSUME Generate PROVE UNCHANGED <<stopper, closer>>
  BY <1>5 DEF Generate, StartGenerate, FinishGenerate
<1>6. ASSUME NEW s \in Closers, CloseStopCh(s) \/ StopStep(s) PROVE StoppersJoined'
  BY <1>6 DEF CloseStopCh, StopStep, CloseIntake, CloseExecutors, StopReturns, Close, CloseReturns,
              StoppersJoined, Book, DispatcherTypeOK, TypeOK
<1> QED
  BY <1>1, <1>2, <1>3, <1>4, <1>5, <1>6 DEF DispatcherNext, Poll, PollerStep, StoppersJoined
-----------------------------------------------------------------------------
DInv ==
  /\ Book
  /\ PollerHolds /\ ClaimsFit /\ NothingRefused
  /\ NoLostWakeup
  /\ RowsInHand /\ StoppersJoined

LEMMA InitDInv == DispatcherInit => DInv
<1> SUFFICES ASSUME DispatcherInit PROVE DInv
  OBVIOUS
<1>1. Book
  BY InitBook
<1>2. Size \in Nat
  BY <1>1, NumbersAreTyped DEF Book
<1>3. PollerHolds /\ NothingRefused /\ NoLostWakeup /\ RowsInHand /\ StoppersJoined
  BY DEF DispatcherInit, Init, PollerHolds, NothingRefused, NoLostWakeup, RowsInHand, StoppersJoined
<1>4. ClaimsFit
  BY <1>2 DEF DispatcherInit, ClaimsFit
<1> QED
  BY <1>1, <1>3, <1>4 DEF DInv

LEMMA StepDInv == DInv /\ [DispatcherNext]_dispatcherVars => DInv'
  BY StepBook, PollerKept, RefusedStays, ClaimsKeepFitting, WakeupsKept, HandsKept, StoppersKept DEF DInv

(* The dispatcher's inductive invariant: what the poller has claimed fits   *)
(* the workers that are free, every claimed row is in somebody's hand, and  *)
(* a Stop past its join has seen the intake's workers leave.                *)
THEOREM DispatcherInductive == DispatcherSpec => []DInv
  BY InitDInv, StepDInv, PTL DEF DispatcherSpec

(* No wakeup of the poller is lost, whatever commits, finishes, fails or    *)
(* stops between two looks at the table.                                    *)
THEOREM WakeupsAreKept == DispatcherSpec => []NoLostWakeup
<1>1. DInv => NoLostWakeup
  BY DEF DInv
<1> QED
  BY <1>1, DispatcherInductive, PTL

(* No claim meets a closed intake and no job a retired executor: the two    *)
(* refusals the code guards against cannot happen.                          *)
THEOREM NothingIsRefused == DispatcherSpec => []NothingRefused
<1>1. DInv => NothingRefused
  BY DEF DInv
<1> QED
  BY <1>1, DispatcherInductive, PTL

(* The rows claimed, queued and running never outnumber the intake workers: *)
(* a claimed row does not let its lease run down behind another job.        *)
THEOREM ClaimsFitTheWorkers == DispatcherSpec => [](inFlight <= Size)
<1>1. DInv => inFlight <= Size
  BY DEF DInv, ClaimsFit
<1> QED
  BY <1>1, DispatcherInductive, PTL

(* A Stop that has returned leaves no job running or queued, on the intake  *)
(* or on an executor retired long before, and no row claimed.               *)
THEOREM StopDrainsTheProcess == DispatcherSpec => []StopLeavesNothing
<1>1. DInv => StopLeavesNothing
  <2> SUFFICES ASSUME DInv, NEW s \in Closers, stopper[s] = "returned"
               PROVE  /\ RunningJobs = {}
                      /\ \A k \in DOMAIN execs : execs[k].queue = <<>> /\ execs[k].running = {}
                      /\ \A j \in Tasks : row[j] # "claimed"
    BY DEF StopLeavesNothing
  <2>1. In("exited") = Workers
    BY DEF DInv, StoppersJoined, Book, IInv, ReturnedMeansExited
  <2>2. closed /\ queue = <<>>
    BY <2>1, PoolAssumption DEF DInv, Book, IInv, ExitedMeansDrained
  <2>3. batch = {}
    BY <2>2 DEF DInv, PollerHolds
  <2>4. \A w \in Workers : stage[w] = "none"
    BY <2>1 DEF In, DInv, Book, JobsRun
  <2>5. ASSUME NEW k \in DOMAIN execs PROVE execs[k].queue = <<>> /\ execs[k].running = {}
    <3>1. /\ execs[k].queue \in Seq(Workers) /\ execs[k].running \subseteq Workers
          /\ Len(execs[k].queue) \in Nat
          /\ \A i \in 1..Len(execs[k].queue) : execs[k].queue[i] \in Workers
      BY ExecutorsAreTyped DEF DInv, Book
    <3>2. Len(execs[k].queue) = 0 /\ execs[k].running = {}
      BY <2>4, <3>1 DEF DInv, Book, Holders, JobsAwait
    <3> QED
      BY <3>1, <3>2, EmptySeq
  <2>6. \A j \in Tasks : row[j] # "claimed"
    BY <2>2, <2>3, <2>4, EmptySeq DEF DInv, RowsInHand, InHand
  <2> QED
    BY <2>4, <2>5, <2>6 DEF RunningJobs
<1> QED
  BY <1>1, DispatcherInductive, PTL
=============================================================================
