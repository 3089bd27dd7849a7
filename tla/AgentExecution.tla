--------------------------- MODULE AgentExecution ---------------------------
(***************************************************************************)
(* One row of agent_executions and everybody who writes it: the invocation *)
(* of a streaming or a synchronous agent, cancel requests handled by the   *)
(* invoking process or by another one, and clients that report an outcome. *)
(*                                                                         *)
(* Some writes carry the version they read and raise it (Update), one only *)
(* matches a pending row and leaves the version alone (UpdateStatus), and  *)
(* the task columns are written without regard to either.  Every statement *)
(* is a step.  Artifacts, durations and the agent's statistics are left    *)
(* out: nothing reads them back.                                           *)
(***************************************************************************)
EXTENDS Integers, Sequences, FiniteSets

CONSTANTS
  Cancels,      \* cancel requests
  Clients,      \* requests that report an outcome
  Kinds,        \* how the execution came to be: "stream", "sync" or "reported"
  MaxEvents,    \* bound: events the agent streams
  MaxFaults,    \* bound: statements that fail
  MayBeCut      \* the process may die, the request's context may end

ASSUME AgentAssumption ==
  /\ Cancels \cap Clients = {}
  /\ Kinds \subseteq {"stream", "sync", "reported"}
  /\ MaxEvents \in Nat /\ MaxFaults \in Nat
  /\ MayBeCut \in BOOLEAN

VARIABLES
  kind,
  row,         \* the row's status, version, current_state, and whether task_id is set
  invoker,     \* the goroutine or request that calls the agent
  snapshot,    \* sync: the state the agent last answered with
  channel,     \* stream: events between producer and consumer
  consumer,    \* the stream processor
  final,       \* the terminal state the consumer has seen
  seq,         \* the consumer's next sequence number
  log,         \* the sequence numbers in agent_execution_events
  registered,  \* the stream's cancel func is in execCancels
  aborted,     \* it was called
  remote,      \* the agent's task
  cancel, client,
  seen,        \* the row as a cancel or client read it
  number,      \* the sequence number a cancel is about to use
  \* observed:
  recorder,    \* which write the status comes from
  broke,       \* the call of the agent failed
  cut,         \* the invocation was cut off
  faults

invocation == <<invoker, snapshot, channel, consumer, final, seq, registered, aborted>>
requests == <<cancel, client, seen, number>>
ghosts == <<broke, cut>>
vars == <<kind, row, invocation, log, remote, requests, recorder, ghosts, faults>>

TaskStates == {"none", "working", "completed", "failed", "canceled"}
Terminal(status) == status \in {"success", "error", "cancelled"}
Over(state) == state \in {"completed", "failed", "canceled"}

InitialStatus(k) == IF k = "stream" THEN "pending" ELSE "running"

Init ==
  /\ kind \in Kinds
  /\ row = [status |-> InitialStatus(kind), version |-> 1, state |-> "none", task |-> FALSE]
  /\ invoker = CASE kind = "stream" -> "starting" [] kind = "sync" -> "calling" [] OTHER -> "closed"
  /\ snapshot = "none" /\ channel = <<>>
  /\ consumer = IF kind = "stream" THEN "consuming" ELSE "done"
  /\ final = "none" /\ seq = 0 /\ log = {}
  /\ registered = FALSE /\ aborted = FALSE
  /\ remote = "none"
  /\ cancel = [c \in Cancels |-> "idle"] /\ client = [k \in Clients |-> "idle"]
  /\ seen = [a \in Cancels \cup Clients |-> row]
  /\ number = [c \in Cancels |-> 0]
  /\ recorder = "none" /\ broke = FALSE /\ cut = FALSE /\ faults = 0

-----------------------------------------------------------------------------
(* The statements.                                                         *)

Works == UNCHANGED faults
Fault == faults < MaxFaults /\ faults' = faults + 1

\* Faulty variant: whatever version the writer read.
AnyVersion(v) == TRUE

Matches(v) == row.version = v

\* UPDATE ... SET status, version = version + 1 WHERE version = v, when it matches.
Update(status, who) ==
  /\ row' = [row EXCEPT !.status = status, !.version = @ + 1]
  /\ recorder' = who

\* Faulty variant: the insert does not return the version.
NoVersion == 0

\* The version the invocation got from the insert.
CreatedVersion == 1

\* Faulty variant: the final status is stored whatever the row says.
AnyStatus == TRUE

Finalizable == row.status = "pending"

UpdateStatus(status) ==
  IF Finalizable
  THEN row' = [row EXCEPT !.status = status] /\ recorder' = "finalize"
  ELSE UNCHANGED <<row, recorder>>

UpdateTaskInfo(task, state) ==
  \/ Works /\ row' = [row EXCEPT !.task = task, !.state = state]
  \/ Fault /\ UNCHANGED row

\* The unique constraint on (execution_id, sequence_number).
Free(n) == n \notin log

StoreEvent(n) ==
  \/ Works /\ log' = IF Free(n) THEN log \cup {n} ELSE log
  \/ Fault /\ UNCHANGED log

-----------------------------------------------------------------------------
(* A streaming invocation: producer and consumer.                          *)

\* The status a stream that ended with a state gets; one that ended without says success.
StatusOf(state) ==
  CASE state = "failed" -> "error" [] state = "canceled" -> "cancelled" [] OTHER -> "success"

Register ==
  /\ invoker = "starting"
  /\ invoker' = "open" /\ registered' = TRUE
  /\ UNCHANGED <<kind, row, snapshot, channel, consumer, final, seq, aborted, log, remote,
                 requests, recorder, ghosts, faults>>

\* The agent's next event, put on the channel even if the context has just ended.
AgentSends(s) ==
  /\ invoker = "open" /\ seq + Len(channel) < MaxEvents
  /\ ~Over(remote) \/ (remote = "canceled" /\ s = "canceled")
  /\ remote' = s
  /\ channel' = Append(channel, s)
  /\ UNCHANGED <<kind, row, invoker, snapshot, consumer, final, seq, registered, aborted, log,
                 requests, recorder, ghosts, faults>>

\* The agent ends the stream, or the cancelled context does: the channel is closed.
StreamEnds ==
  /\ invoker = "open"
  /\ invoker' = "closed"
  /\ UNCHANGED <<kind, row, snapshot, channel, consumer, final, seq, registered, aborted, log,
                 remote, requests, recorder, ghosts, faults>>

\* A broken connection or the stream timeout.
StreamFails ==
  /\ invoker = "open"
  /\ invoker' = "failed" /\ broke' = TRUE
  /\ UNCHANGED <<kind, row, snapshot, channel, consumer, final, seq, registered, aborted, log,
                 remote, requests, recorder, cut, faults>>

\* Faulty variant: the channel stays open after a failure.
StaysOpen == "failed"
ClosesChannel == "closed"

\* handleStreamingError, with the stream's own context.
RecordStreamError ==
  /\ kind = "stream" /\ invoker = "failed"
  /\ invoker' = ClosesChannel
  /\ \/ ~aborted /\ Matches(CreatedVersion) /\ Works /\ Update("error", "update")
     \/ (aborted \/ ~Matches(CreatedVersion)) /\ Works /\ UNCHANGED <<row, recorder>>
     \/ ~aborted /\ Fault /\ UNCHANGED <<row, recorder>>
  /\ UNCHANGED <<kind, snapshot, channel, consumer, final, seq, registered, aborted, log, remote,
                 requests, ghosts>>

ConsumeEvent ==
  /\ consumer = "consuming" /\ channel # <<>>
  /\ StoreEvent(seq)
  /\ seq' = seq + 1
  /\ consumer' = "noting"
  /\ UNCHANGED <<kind, row, invoker, snapshot, channel, final, registered, aborted, remote,
                 requests, recorder, ghosts>>

NoteEvent ==
  /\ consumer = "noting"
  /\ UpdateTaskInfo(TRUE, Head(channel))
  /\ final' = IF Over(Head(channel)) THEN Head(channel) ELSE final
  /\ channel' = Tail(channel)
  /\ consumer' = "consuming"
  /\ UNCHANGED <<kind, invoker, snapshot, seq, registered, aborted, log, remote, requests,
                 recorder, ghosts>>

\* The channel is closed and empty.
FinalizeExecution ==
  /\ consumer = "consuming" /\ channel = <<>> /\ invoker = "closed"
  /\ \/ Works /\ UpdateStatus(StatusOf(final))
     \/ Fault /\ UNCHANGED <<row, recorder>>
  /\ consumer' = "leaving"
  /\ UNCHANGED <<kind, invoker, snapshot, channel, final, seq, registered, aborted, log, remote,
                 requests, ghosts>>

\* The stream processor returns and releases the cancel func.
ReleaseCancel ==
  /\ consumer = "leaving"
  /\ consumer' = "done" /\ registered' = FALSE
  /\ UNCHANGED <<kind, row, invoker, snapshot, channel, final, seq, aborted, log, remote, requests,
                 recorder, ghosts, faults>>

-----------------------------------------------------------------------------
(* A synchronous invocation: one request.                                  *)

syncOnly == <<kind, channel, consumer, final, seq, registered, aborted, log, requests, cut>>

\* The agent replies with a message, which counts as completed, or with a task.
AgentReplies ==
  /\ invoker = "calling"
  /\ snapshot' = "completed"
  /\ invoker' = "answered"
  /\ UNCHANGED <<syncOnly, row, remote, recorder, broke, faults>>

AgentAnswers(s) ==
  /\ invoker = "calling"
  /\ snapshot' = s
  /\ invoker' = IF Over(s) THEN "answered" ELSE "noting"
  /\ remote' = s
  /\ UNCHANGED <<syncOnly, row, recorder, broke, faults>>

AgentWorks(s) ==
  /\ kind = "sync" /\ remote = "working" /\ Over(s)
  /\ remote' = s
  /\ UNCHANGED <<syncOnly, row, invoker, snapshot, recorder, broke, faults>>

PersistProgress ==
  /\ invoker = "noting"
  /\ UpdateTaskInfo(TRUE, snapshot)
  /\ invoker' = IF Over(snapshot) THEN "answered" ELSE "polling"
  /\ UNCHANGED <<syncOnly, snapshot, remote, recorder, broke>>

PollTask ==
  /\ invoker = "polling"
  /\ snapshot' = remote
  /\ invoker' = "noting"
  /\ UNCHANGED <<syncOnly, row, remote, recorder, broke, faults>>

\* The call or a poll fails, or the poll deadline passes.
CallFails ==
  /\ invoker \in {"calling", "polling"}
  /\ invoker' = "failed" /\ broke' = TRUE
  /\ UNCHANGED <<syncOnly, row, snapshot, remote, recorder, faults>>

RecordSyncOutcome ==
  /\ kind = "sync" /\ invoker \in {"answered", "failed"}
  /\ LET status == IF invoker = "failed" THEN "error" ELSE StatusOf(snapshot) IN
     \/ /\ Matches(CreatedVersion) /\ Works /\ Update(status, "update")
        /\ invoker' = IF invoker = "answered" THEN "replying" ELSE "closed"
     \/ /\ (~Matches(CreatedVersion) /\ Works) \/ Fault
        /\ invoker' = "closed" /\ UNCHANGED <<row, recorder>>
  /\ UNCHANGED <<syncOnly, snapshot, remote, broke>>

PersistReply ==
  /\ invoker = "replying"
  /\ IF remote = "none" THEN Works /\ UNCHANGED row ELSE UpdateTaskInfo(TRUE, snapshot)
  /\ invoker' = "closed"
  /\ UNCHANGED <<syncOnly, snapshot, remote, recorder, broke>>

-----------------------------------------------------------------------------
(* A cancel request: GetByID in the handler, then CancelExecution.         *)

Busy(c) == cancel[c] \notin {"idle", "done", "refused", "failed"}
At(c, pc) == cancel' = [cancel EXCEPT ![c] = pc]
cancelOnly == <<kind, invoker, snapshot, channel, consumer, final, seq, client, ghosts>>

CancelReads(c) ==
  /\ cancel[c] = "idle"
  /\ seen' = [seen EXCEPT ![c] = row]
  /\ At(c, IF Terminal(row.status) THEN "refused" ELSE "read")
  /\ UNCHANGED <<cancelOnly, row, log, registered, aborted, remote, number, recorder, faults>>

\* The cancel func is found if it is registered and the request came to the invoking process.
AbortStream(c) ==
  /\ cancel[c] = "read"
  /\ \/ registered /\ aborted' = TRUE /\ registered' = FALSE
     \/ UNCHANGED <<aborted, registered>>
  /\ At(c, IF seen[c].task THEN "asking" ELSE "recording")
  /\ UNCHANGED <<cancelOnly, row, log, remote, seen, number, recorder, faults>>

\* The agent cancels its task, says the task cannot be cancelled, or the call fails.
CancelTask(c) ==
  /\ cancel[c] = "asking"
  /\ \/ remote = "working" /\ remote' = "canceled" /\ At(c, "recording")
     \/ At(c, "refused") /\ UNCHANGED remote
     \/ At(c, "recording") /\ UNCHANGED remote
  /\ UNCHANGED <<cancelOnly, row, log, registered, aborted, seen, number, recorder, faults>>

FinalizeCancelled(c) ==
  /\ cancel[c] = "recording"
  /\ \/ Matches(seen[c].version) /\ Works /\ Update("cancelled", "update") /\ At(c, "noting")
     \/ ((~Matches(seen[c].version) /\ Works) \/ Fault) /\ At(c, "failed") /\ UNCHANGED <<row, recorder>>
  /\ UNCHANGED <<cancelOnly, log, registered, aborted, remote, seen, number>>

NoteCancelled(c) ==
  /\ cancel[c] = "noting"
  /\ UpdateTaskInfo(seen[c].task, "canceled")
  /\ At(c, "counting")
  /\ UNCHANGED <<cancelOnly, log, registered, aborted, remote, seen, number, recorder>>

\* Faulty variant: numbers that start at one.
CountedFromOne == Cardinality(log) + 1

\* A cancel numbers its event by the count of the log.
NextNumber == Cardinality(log)

CountEvents(c) ==
  /\ cancel[c] = "counting"
  /\ \/ Works /\ number' = [number EXCEPT ![c] = NextNumber]
     \/ Fault /\ number' = [number EXCEPT ![c] = 0]
  /\ At(c, "emitting")
  /\ UNCHANGED <<cancelOnly, row, log, registered, aborted, remote, seen, recorder>>

EmitCancelled(c) ==
  /\ cancel[c] = "emitting"
  /\ StoreEvent(number[c])
  /\ At(c, "done")
  /\ UNCHANGED <<cancelOnly, row, registered, aborted, remote, seen, number, recorder>>

-----------------------------------------------------------------------------
(* A client that reports the outcome: CompleteExecution.                   *)

ClientReads(k) ==
  /\ client[k] = "idle"
  /\ client' = [client EXCEPT ![k] = "read"]
  /\ seen' = [seen EXCEPT ![k] = row]
  /\ UNCHANGED <<kind, row, invocation, log, remote, cancel, number, recorder, ghosts, faults>>

ClientRecords(k, status) ==
  /\ client[k] = "read"
  /\ \/ Matches(seen[k].version) /\ Works /\ Update(status, "client")
        /\ client' = [client EXCEPT ![k] = "done"]
     \/ ((~Matches(seen[k].version) /\ Works) \/ Fault) /\ UNCHANGED <<row, recorder>>
        /\ client' = [client EXCEPT ![k] = "failed"]
  /\ UNCHANGED <<kind, invocation, log, remote, cancel, seen, number, ghosts>>

-----------------------------------------------------------------------------
(* The invocation is cut off.                                              *)

\* The process dies with its goroutines and with some of the cancel requests.
Crash ==
  /\ MayBeCut /\ ~cut
  /\ invoker' = "closed" /\ consumer' = "done" /\ channel' = <<>> /\ registered' = FALSE
  /\ \E dead \in SUBSET {c \in Cancels : Busy(c)} :
       cancel' = [c \in Cancels |-> IF c \in dead THEN "failed" ELSE cancel[c]]
  /\ cut' = TRUE
  /\ UNCHANGED <<kind, row, snapshot, final, seq, aborted, log, remote, client, seen, number,
                 recorder, broke, faults>>

\* The server's timeout ends a synchronous request: the call fails, and so does recording that.
ContextEnds ==
  /\ MayBeCut /\ kind = "sync" /\ invoker # "closed"
  /\ invoker' = "closed"
  /\ cut' = TRUE
  /\ UNCHANGED <<kind, row, snapshot, channel, consumer, final, seq, registered, aborted, log,
                 remote, requests, recorder, broke, faults>>

-----------------------------------------------------------------------------
Stream ==
  \/ Register \/ StreamEnds \/ StreamFails \/ RecordStreamError
  \/ \E s \in TaskStates \ {"none"} : AgentSends(s)

Consumer == ConsumeEvent \/ NoteEvent \/ FinalizeExecution \/ ReleaseCancel

Sync ==
  \/ AgentReplies \/ PersistProgress \/ PollTask \/ CallFails \/ RecordSyncOutcome \/ PersistReply
  \/ \E s \in TaskStates \ {"none"} : AgentAnswers(s) \/ AgentWorks(s)

CancelExecution(c) ==
  \/ AbortStream(c) \/ CancelTask(c) \/ FinalizeCancelled(c) \/ NoteCancelled(c)
  \/ CountEvents(c) \/ EmitCancelled(c)

Next ==
  \/ Stream \/ Consumer \/ Sync
  \/ \E c \in Cancels : CancelReads(c) \/ CancelExecution(c)
  \/ \E k \in Clients : ClientReads(k) \/ \E s \in {"running", "success", "error"} : ClientRecords(k, s)
  \/ Crash
  \/ ContextEnds

Spec == Init /\ [][Next]_vars

\* Goroutines run, statements return, and the timeouts of the stream and of polling end what the
\* agent leaves open.
Fairness ==
  /\ WF_vars(Register) /\ WF_vars(StreamFails) /\ WF_vars(RecordStreamError) /\ WF_vars(Consumer)
  /\ SF_vars(CallFails)
  /\ WF_vars(PersistProgress) /\ WF_vars(RecordSyncOutcome)

FairSpec == Spec /\ Fairness

-----------------------------------------------------------------------------
(* Properties.                                                             *)

RowTypes == [status : {"pending", "running", "success", "error", "cancelled"}, version : Nat \ {0},
             state : TaskStates, task : BOOLEAN]

CancelPhases == {"idle", "read", "asking", "recording", "noting", "counting", "emitting", "done",
                 "refused", "failed"}

\* Types; and only a streaming execution that nobody has written a status for is pending.
TypeOK ==
  /\ kind \in {"stream", "sync", "reported"}
  /\ row \in RowTypes
  /\ row.status = "pending" => kind = "stream" /\ row.version = 1 /\ recorder = "none"
  /\ invoker \in {"starting", "open", "calling", "noting", "polling", "answered", "failed",
                  "replying", "closed"}
  /\ snapshot \in TaskStates /\ channel \in Seq(TaskStates) /\ final \in TaskStates
  /\ consumer \in {"consuming", "noting", "leaving", "done"}
  /\ consumer = "noting" => channel # <<>>
  /\ seq \in Nat /\ log \subseteq Nat /\ IsFiniteSet(log)
  /\ registered \in BOOLEAN /\ aborted \in BOOLEAN /\ broke \in BOOLEAN /\ cut \in BOOLEAN
  /\ remote \in TaskStates
  /\ cancel \in [Cancels -> CancelPhases]
  /\ client \in [Clients -> {"idle", "read", "done", "failed"}]
  /\ seen \in [Cancels \cup Clients -> RowTypes]
  /\ number \in [Cancels -> Nat]
  /\ recorder \in {"none", "finalize", "update", "client"}
  /\ faults \in Nat

\* A final status stands.  What was recorded with a version is replaced only by a client that had
\* read it; only the version-less end of a stream can be overwritten by somebody who read the row
\* while it was pending.
VerdictStands ==
  [][Terminal(row.status) /\ row'.status # row.status =>
       \/ recorder = "finalize"
       \/ \E k \in Clients : client[k] = "read" /\ client'[k] = "done" /\ seen[k].status = row.status]_vars

\* A poller that asks for what is behind the last number it saw misses nothing: events are
\* numbered upwards, whoever writes them, unless a statement failed.
NewEventsComeLast ==
  [][faults' = 0 => \A n \in log' \ log : \A m \in log : m < n]_vars

Quiet ==
  /\ invoker = "closed" /\ consumer = "done"
  /\ \A c \in Cancels : ~Busy(c)
  /\ \A k \in Clients : client[k] # "read"

\* If nobody interferes and nothing is cut off, the execution ends with the agent's verdict: an
\* error if the call broke, whatever had been streamed before, else what the last state says.
OutcomeIsTheAgents ==
  /\ Quiet /\ ~cut /\ faults = 0 /\ kind # "reported"
  /\ \A c \in Cancels : cancel[c] = "idle"
  /\ \A k \in Clients : client[k] = "idle"
  => /\ row.status = IF broke THEN "error" ELSE StatusOf(IF kind = "stream" THEN final ELSE snapshot)
     /\ Over(remote) /\ ~broke => row.state = remote

\* An execution whose invocation is not cut off comes to an end, unless a statement failed or a
\* client declared it running.
InvocationsEnd ==
  kind # "reported" ~> Terminal(row.status) \/ cut \/ faults > 0 \/ recorder = "client"

\* What the comment in handleStreamingError relies on: a stream is aborted by a cancel that goes
\* on to record the cancellation (agent_invocation.go:762-763).  It does not hold: the agent may
\* refuse to cancel after the stream was aborted, and the consumer then records a success.
AbortedIsCancelled == Quiet /\ aborted => row.status # "success"
=============================================================================
