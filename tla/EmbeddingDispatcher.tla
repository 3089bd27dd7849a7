------------------------- MODULE EmbeddingDispatcher -------------------------
(***************************************************************************)
(* One process of the embedding dispatcher in its durable mode: callers    *)
(* that commit rows and wake the poller, the poller that claims rows into  *)
(* free intake workers, the intake workers that route each job to a        *)
(* per-provider executor and wait for it, and Stop.                        *)
(*                                                                         *)
(* EmbeddingQueue models the table between processes; here a row is only   *)
(* claimable, claimed or settled, and the question is whether the process  *)
(* looks at the table when it should and shuts down in order.  The intake  *)
(* pool is the BoundedExecutor this module extends: its Tasks are the      *)
(* embedding_jobs rows, its Workers the goroutines that run them and its   *)
(* Closers the goroutines that call Stop.  The jobs of one team share an   *)
(* executor that is replaced when the provider's concurrency changes.      *)
(***************************************************************************)
EXTENDS BoundedExecutor

CONSTANTS
  NoJob,          \* an intake worker between jobs
  BatchSize,      \* queueCfg.BatchSize
  MaxAttempts,    \* queueCfg.MaxAttempts
  Concurrencies,  \* the settings of the provider's concurrency
  MaxExecutors    \* bound: executors created for the team

ASSUME DispatcherAssumption ==
  /\ NoJob \notin Tasks
  /\ IsFiniteSet(Tasks)
  /\ BatchSize \in Nat \ {0}
  /\ MaxAttempts \in Nat \ {0}
  /\ MaxTasks >= Cardinality(Tasks) * MaxAttempts  \* the pool's own bound is never met
  /\ Concurrencies \subseteq Nat \ {0}
  /\ MaxExecutors \in Nat \ {0}

VARIABLES
  row,       \* row[j]: "absent", "claimable", "backoff", "claimed" or "settled"
  attempts,  \* attempts[j]
  caller,    \* caller[j]: the ProcessEvent of j: "none", "committed" or "returned"
  wake,      \* the one-slot wake channel holds a signal
  stopped,   \* stopCh is closed
  poller,    \* "retire", "drain", "claim", "dispatch", "select" or "exited"
  limit,     \* what drainQueue will ask Claim for
  batch,     \* the claimed rows still to be dispatched
  inFlight,  \* d.inFlight
  job,       \* job[w]: the row intake worker w is running, or NoJob
  stage,     \* stage[w]: where in that job it is
  execs,     \* every executor created for the team, oldest first
  current,   \* the index of d.execs[team], 0 when absent
  stopper,   \* stopper[s]: where in Stop it is: "idle", "join", "intake", "execs" or "returned"
  taken,     \* taken[s]: the index of the executor s took out of the map, or 0
  \* observed, not part of the program:
  timerOnly, \* rows that became or stayed claimable without a signal being due
  refused    \* some executor refused a task

intakeVars == vars
jobVars == <<job, stage>>
pollerVars == <<poller, limit, batch>>
rowVars == <<row, attempts>>
execVars == <<execs, current>>
stopVars == <<stopper, taken>>
observed == <<timerOnly, refused>>
dispatcherVars == <<rowVars, caller, wake, stopped, pollerVars, inFlight, intakeVars, jobVars,
                    execVars, stopVars, observed>>

Size == Cardinality(Workers)

ClaimableRows == {j \in Tasks : row[j] = "claimable" /\ attempts[j] < MaxAttempts}
ExhaustedRows == {j \in Tasks : row[j] = "claimable" /\ attempts[j] >= MaxAttempts}

-----------------------------------------------------------------------------
DispatcherInit ==
  /\ row = [j \in Tasks |-> "absent"]
  /\ attempts = [j \in Tasks |-> 0]
  /\ caller = [j \in Tasks |-> "none"]
  /\ wake = FALSE
  /\ stopped = FALSE
  /\ poller = "retire" /\ limit = 0 /\ batch = {}
  /\ inFlight = 0
  /\ Init
  /\ job = [w \in Workers |-> NoJob]
  /\ stage = [w \in Workers |-> "none"]
  /\ execs = <<>> /\ current = 0
  /\ stopper = [s \in Closers |-> "idle"]
  /\ taken = [s \in Closers |-> 0]
  /\ timerOnly = {} /\ refused = FALSE

(* enqueueDurably: commit the row, then signalPoller. *)
Commit(j) ==
  /\ caller[j] = "none"
  /\ caller' = [caller EXCEPT ![j] = "committed"]
  /\ row' = [row EXCEPT ![j] = "claimable"]
  /\ UNCHANGED <<attempts, wake, stopped, pollerVars, inFlight, intakeVars, jobVars, execVars,
                 stopVars, observed>>

SignalAfterCommit(j) ==
  /\ caller[j] = "committed"
  /\ caller' = [caller EXCEPT ![j] = "returned"]
  /\ wake' = TRUE
  /\ UNCHANGED <<rowVars, stopped, pollerVars, inFlight, intakeVars, jobVars, execVars,
                 stopVars, observed>>

(* available_at passes for a released row, or the lease of a row whose      *)
(* settle failed: nobody signals that.                                      *)
BecomesClaimable(j) ==
  /\ row[j] = "backoff"
  /\ row' = [row EXCEPT ![j] = "claimable"]
  /\ timerOnly' = timerOnly \cup {j}
  /\ UNCHANGED <<attempts, caller, wake, stopped, pollerVars, inFlight, intakeVars, jobVars,
                 execVars, stopVars, refused>>

-----------------------------------------------------------------------------
(* The poller *)

RetireExhausted ==
  /\ poller = "retire"
  /\ poller' = "drain"
  /\ \/ row' = [j \in Tasks |-> IF j \in ExhaustedRows THEN "settled" ELSE row[j]]
     \/ UNCHANGED row   \* the sweep failed
  /\ UNCHANGED <<attempts, caller, wake, stopped, limit, batch, inFlight, intakeVars, jobVars,
                 execVars, stopVars, observed>>

Capacity == Size - inFlight

(* drainQueue's checks before a claim *)
Drain ==
  /\ poller = "drain"
  /\ IF stopped \/ Capacity < 1
     THEN poller' = "select" /\ UNCHANGED limit
     ELSE poller' = "claim" /\ limit' = IF Capacity < BatchSize THEN Capacity ELSE BatchSize
  /\ UNCHANGED <<rowVars, caller, wake, stopped, batch, inFlight, intakeVars, jobVars,
                 execVars, stopVars, observed>>

Claim ==
  /\ poller = "claim"
  /\ \E ids \in SUBSET ClaimableRows :
       /\ Cardinality(ids) <= limit
       /\ ids = {} => ClaimableRows = {}
       /\ row' = [j \in Tasks |-> IF j \in ids THEN "claimed" ELSE row[j]]
       /\ attempts' = [j \in Tasks |-> IF j \in ids THEN attempts[j] + 1 ELSE attempts[j]]
       /\ batch' = ids
       /\ poller' = IF ids = {} THEN "select" ELSE "dispatch"
       /\ timerOnly' = timerOnly \ ids
  /\ UNCHANGED <<caller, wake, stopped, limit, inFlight, intakeVars, jobVars, execVars,
                 stopVars, refused>>

(* Claim returns an error: the rows wait for the next signal or tick.  If   *)
(* the statement had committed, some rows are leased and nobody has them.   *)
ClaimFails ==
  /\ poller = "claim"
  /\ poller' = "select"
  /\ \E lost \in SUBSET ClaimableRows :
       /\ Cardinality(lost) <= limit
       /\ row' = [j \in Tasks |-> IF j \in lost THEN "backoff" ELSE row[j]]
       /\ attempts' = [j \in Tasks |-> IF j \in lost THEN attempts[j] + 1 ELSE attempts[j]]
       /\ timerOnly' = timerOnly \cup ClaimableRows
  /\ UNCHANGED <<caller, wake, stopped, limit, batch, inFlight, intakeVars, jobVars, execVars,
                 stopVars, refused>>

(* dispatchClaimed for one row of the batch: submit it to the intake, or    *)
(* give the claim back when the intake is closed.                           *)
Dispatch(j) ==
  /\ poller = "dispatch"
  /\ j \in batch
  /\ batch' = batch \ {j}
  /\ poller' = IF batch' = {} THEN "drain" ELSE "dispatch"
  /\ IF closed
     THEN /\ refused' = TRUE
          /\ row' = [row EXCEPT ![j] = "claimable"]
          /\ timerOnly' = timerOnly \cup {j}
          /\ UNCHANGED <<intakeVars, inFlight>>
     ELSE /\ Submit(j)
          /\ inFlight' = inFlight + 1
          /\ UNCHANGED <<row, timerOnly, refused>>
  /\ UNCHANGED <<attempts, caller, wake, stopped, limit, jobVars, execVars, stopVars>>

(* The select of pollQueue: whichever channel is ready. *)
SelectStop ==
  /\ poller = "select"
  /\ stopped
  /\ poller' = "exited"
  /\ UNCHANGED <<rowVars, caller, wake, stopped, limit, batch, inFlight, intakeVars, jobVars,
                 execVars, stopVars, observed>>

SelectWake ==
  /\ poller = "select"
  /\ wake
  /\ wake' = FALSE
  /\ poller' = "drain"
  /\ UNCHANGED <<rowVars, caller, stopped, limit, batch, inFlight, intakeVars, jobVars,
                 execVars, stopVars, observed>>

SelectTick ==
  /\ poller = "select"
  /\ poller' = "retire"
  /\ UNCHANGED <<rowVars, caller, wake, stopped, limit, batch, inFlight, intakeVars, jobVars,
                 execVars, stopVars, observed>>

-----------------------------------------------------------------------------
(* One intake worker running one job *)

TakeJob(w) ==
  /\ Take(w)
  /\ job' = [job EXCEPT ![w] = Head(queue)]
  /\ stage' = [stage EXCEPT ![w] = "resolve"]
  /\ UNCHANGED <<rowVars, caller, wake, stopped, pollerVars, inFlight, execVars, stopVars,
                 observed>>

IdleIntake(w) ==
  /\ Wait(w) \/ WorkerExit(w)
  /\ UNCHANGED <<rowVars, caller, wake, stopped, pollerVars, inFlight, jobVars, execVars,
                 stopVars, observed>>

(* resolveInput: an error releases, no provider acks, else generate. *)
Resolve(w) ==
  /\ stage[w] = "resolve"
  /\ \E next \in {"route", "ack", "release"} : stage' = [stage EXCEPT ![w] = next]
  /\ UNCHANGED <<rowVars, caller, wake, stopped, pollerVars, inFlight, intakeVars, job,
                 execVars, stopVars, observed>>

NewExecutor(c) == [size |-> c, closed |-> FALSE, queue |-> <<>>, running |-> {}]

\* Faulty variant: a replaced executor is closed but stays in the map.
NeedsNewByAbsence(c) == current = 0
NeedsNew(c) == current = 0 \/ execs[current].size # c

(* runGenerate under d.mu: get or create the team's executor for the        *)
(* concurrency this job resolved, close the one it replaces, and submit.    *)
Route(w) ==
  /\ stage[w] = "route"
  /\ \E c \in Concurrencies :
       LET retired == IF current # 0 /\ execs[current].size # c
                      THEN [execs EXCEPT ![current].closed = TRUE] ELSE execs
           live == IF NeedsNew(c) THEN Append(retired, NewExecutor(c)) ELSE retired
           target == IF NeedsNew(c) THEN Len(live) ELSE current
       IN /\ Len(live) <= MaxExecutors
          /\ current' = target
          /\ IF live[target].closed
             THEN /\ execs' = live
                  /\ refused' = TRUE
                  /\ stage' = [stage EXCEPT ![w] = "release"]
             ELSE /\ execs' = [live EXCEPT ![target].queue = Append(@, w)]
                  /\ stage' = [stage EXCEPT ![w] = "await"]
                  /\ UNCHANGED <<refused>>
  /\ UNCHANGED <<rowVars, caller, wake, stopped, pollerVars, inFlight, intakeVars, job,
                 stopVars, timerOnly>>

\* Faulty variant: off by one.
KeepsOneSpare(k) == Cardinality(execs[k].running) + 1 < execs[k].size
HasFreeWorker(k) == Cardinality(execs[k].running) < execs[k].size

(* A worker of executor k takes its next task. *)
StartGenerate(k) ==
  /\ execs[k].queue # <<>>
  /\ HasFreeWorker(k)
  /\ execs' = [execs EXCEPT ![k].queue = Tail(@), ![k].running = @ \cup {Head(execs[k].queue)}]
  /\ UNCHANGED <<rowVars, caller, wake, stopped, pollerVars, inFlight, intakeVars, jobVars,
                 current, stopVars, observed>>

(* generate reaches its outcome and closes done: the intake worker goes on  *)
(* to settle the row.                                                       *)
FinishGenerate(k, w) ==
  /\ w \in execs[k].running
  /\ execs' = [execs EXCEPT ![k].running = @ \ {w}]
  /\ \E settle \in {"ack", "fail", "release"} : stage' = [stage EXCEPT ![w] = settle]
  /\ UNCHANGED <<rowVars, caller, wake, stopped, pollerVars, inFlight, intakeVars, job,
                 current, stopVars, observed>>

(* The settle statement.  When it fails the row is left to its lease, which *)
(* is a backoff to this process.                                            *)
Settle(w) ==
  /\ stage[w] \in {"ack", "fail", "release"}
  /\ \/ row' = [row EXCEPT ![job[w]] = IF stage[w] = "release" THEN "backoff" ELSE "settled"]
     \/ row' = [row EXCEPT ![job[w]] = "backoff"]
  /\ stage' = [stage EXCEPT ![w] = "leave"]
  /\ UNCHANGED <<attempts, caller, wake, stopped, pollerVars, inFlight, intakeVars, job,
                 execVars, stopVars, observed>>

\* Faulty variant: a worker that frees up does not wake the poller.
LeavesQuietly(w) ==
  /\ stage[w] = "leave"
  /\ inFlight' = inFlight - 1
  /\ Finish(w)
  /\ stage' = [stage EXCEPT ![w] = "none"]
  /\ job' = [job EXCEPT ![w] = NoJob]
  /\ UNCHANGED <<rowVars, caller, wake, stopped, pollerVars, execVars, stopVars,
                 observed>>
(* The deferred bookkeeping of a job: inFlight.Add(-1), then signalPoller.  *)
Leaves(w) ==
  /\ stage[w] = "leave"
  /\ inFlight' = inFlight - 1
  /\ stage' = [stage EXCEPT ![w] = "signal"]
  /\ UNCHANGED <<rowVars, caller, wake, stopped, pollerVars, intakeVars, job, execVars,
                 stopVars, observed>>

SignalAfterJob(w) ==
  /\ stage[w] = "signal"
  /\ wake' = TRUE
  /\ Finish(w)
  /\ stage' = [stage EXCEPT ![w] = "none"]
  /\ job' = [job EXCEPT ![w] = NoJob]
  /\ UNCHANGED <<rowVars, caller, stopped, pollerVars, inFlight, execVars, stopVars,
                 observed>>

-----------------------------------------------------------------------------
(* Stop *)

PollerDone == poller = "exited"

CloseStopCh(s) ==
  /\ stopper[s] = "idle"
  /\ stopped' = TRUE
  /\ stopper' = [stopper EXCEPT ![s] = "join"]
  /\ UNCHANGED <<rowVars, caller, wake, pollerVars, inFlight, intakeVars, jobVars, execVars,
                 taken, observed>>

CloseIntake(s) ==
  /\ stopper[s] = "join"
  /\ PollerDone
  /\ Close(s)
  /\ stopper' = [stopper EXCEPT ![s] = "intake"]
  /\ UNCHANGED <<rowVars, caller, wake, stopped, pollerVars, inFlight, jobVars, execVars,
                 taken, observed>>

(* intake.close returns; the executor in the map is taken out and closed. *)
CloseExecutors(s) ==
  /\ stopper[s] = "intake"
  /\ CloseReturns(s)
  /\ execs' = IF current = 0 THEN execs ELSE [execs EXCEPT ![current].closed = TRUE]
  /\ taken' = [taken EXCEPT ![s] = current]
  /\ current' = 0
  /\ stopper' = [stopper EXCEPT ![s] = "execs"]
  /\ UNCHANGED <<rowVars, caller, wake, stopped, pollerVars, inFlight, jobVars,
                 observed>>

(* The taken executor's close returns. *)
StopReturns(s) ==
  /\ stopper[s] = "execs"
  /\ taken[s] # 0 => execs[taken[s]].queue = <<>> /\ execs[taken[s]].running = {}
  /\ stopper' = [stopper EXCEPT ![s] = "returned"]
  /\ UNCHANGED <<rowVars, caller, wake, stopped, pollerVars, inFlight, intakeVars, jobVars,
                 execVars, taken, observed>>

Poll ==
  \/ RetireExhausted
  \/ Drain
  \/ Claim
  \/ ClaimFails
  \/ \E j \in Tasks : Dispatch(j)
  \/ SelectWake

IntakeStep(w) ==
  \/ TakeJob(w)
  \/ IdleIntake(w)
  \/ Resolve(w)
  \/ Route(w)
  \/ Settle(w)
  \/ Leaves(w)
  \/ SignalAfterJob(w)

Generate ==
  \E k \in DOMAIN execs : StartGenerate(k) \/ \E w \in Workers : FinishGenerate(k, w)

StopStep(s) == CloseIntake(s) \/ CloseExecutors(s) \/ StopReturns(s)

DispatcherNext ==
  \/ \E j \in Tasks : Commit(j) \/ SignalAfterCommit(j) \/ BecomesClaimable(j)
  \/ Poll
  \/ SelectStop
  \/ SelectTick
  \/ \E w \in Workers : IntakeStep(w)
  \/ Generate
  \/ \E s \in Closers : CloseStopCh(s) \/ StopStep(s)

DispatcherSpec == DispatcherInit /\ [][DispatcherNext]_dispatcherVars

(* Goroutines run and database calls return; Go's select picks at random    *)
(* among ready channels, so a closed stopCh is not passed over for ever.    *)
(* The ticker is not assumed to fire.                                       *)
DispatcherFairness ==
  /\ WF_dispatcherVars(Poll)
  /\ SF_dispatcherVars(SelectStop)
  /\ \A j \in Tasks : WF_dispatcherVars(SignalAfterCommit(j))
  /\ \A w \in Workers : WF_dispatcherVars(IntakeStep(w))
  /\ WF_dispatcherVars(Generate)
  /\ \A s \in Closers : WF_dispatcherVars(StopStep(s))

DispatcherLiveSpec == DispatcherSpec /\ DispatcherFairness

-----------------------------------------------------------------------------
Stages == {"none", "resolve", "route", "await", "ack", "fail", "release", "leave", "signal"}
ExecutorTypes == [size : Nat \ {0}, closed : BOOLEAN, queue : Seq(Workers),
                  running : SUBSET Workers]
RunningJobs == {w \in Workers : stage[w] \notin {"none", "signal"}}

(* Every variable has its type; the counter of jobs in flight is exact.     *)
DispatcherTypeOK ==
  /\ row \in [Tasks -> {"absent", "claimable", "backoff", "claimed", "settled"}]
  /\ attempts \in [Tasks -> 0..MaxAttempts]
  /\ caller \in [Tasks -> {"none", "committed", "returned"}]
  /\ wake \in BOOLEAN /\ stopped \in BOOLEAN /\ refused \in BOOLEAN
  /\ poller \in {"retire", "drain", "claim", "dispatch", "select", "exited"}
  /\ limit \in 0..Size /\ batch \subseteq Tasks
  /\ inFlight = Len(queue) + Cardinality(RunningJobs)
  /\ TypeOK
  /\ job \in [Workers -> Tasks \cup {NoJob}] /\ stage \in [Workers -> Stages]
  /\ execs \in Seq(ExecutorTypes) /\ current \in 0..Len(execs)
  /\ stopper \in [Closers -> {"idle", "join", "intake", "execs", "returned"}]
  /\ taken \in [Closers -> Nat]
  /\ timerOnly \subseteq Tasks

(* No wakeup is lost: when the poller sleeps with an empty wake channel and *)
(* a free intake worker, every claimable row is one the clock owes, or a    *)
(* caller or a finishing worker is about to signal.                         *)
NoLostWakeup ==
  /\ poller = "select"
  /\ ~wake
  /\ ~stopped
  /\ inFlight < Size
  => \/ ClaimableRows \subseteq timerOnly
     \/ \E j \in Tasks : caller[j] = "committed"
     \/ \E w \in Workers : stage[w] = "signal"

(* The refusals the code calls unreachable are: no claim meets a closed     *)
(* intake, no job meets an executor that a concurrency change has closed.   *)
NothingRefused == ~refused

(* Stop drains: once it has returned no job runs, nothing is queued and no  *)
(* row is left claimed that a worker could still have settled.              *)
StopLeavesNothing ==
  (\E s \in Closers : stopper[s] = "returned") =>
    /\ RunningJobs = {}
    /\ \A k \in DOMAIN execs : execs[k].queue = <<>> /\ execs[k].running = {}
    /\ \A j \in Tasks : row[j] # "claimed"

(* No more requests are in flight to the provider than its largest          *)
(* concurrency setting.  It does not hold: an executor that was replaced     *)
(* drains on beside its successor.                                           *)
ProviderCap ==
  \E c \in Concurrencies :
    Cardinality({w \in Workers : \E k \in DOMAIN execs : w \in execs[k].running}) <= c

(* A committed row is claimed without the help of the timer, unless a claim *)
(* failed meanwhile or the dispatcher is stopped.                           *)
ClaimedWithoutTimer ==
  \A j \in Tasks : (j \in ClaimableRows /\ j \notin timerOnly) ~>
                    (row[j] # "claimable" \/ j \in timerOnly \/ stopped)

(* Stop returns, whatever is queued, running or committed meanwhile.        *)
StopTerminates ==
  \A s \in Closers : stopper[s] = "join" ~> stopper[s] = "returned"
=============================================================================
