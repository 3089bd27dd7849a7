------------------------ MODULE AgentExecutionProofs ------------------------
(***************************************************************************)
(* Proofs about an agent execution, for any number of cancel requests and  *)
(* clients, any number of streamed events and failing statements: types,   *)
(* that a recorded verdict stands, that events are numbered upwards, and   *)
(* that an execution left alone ends with the agent's verdict.             *)
(***************************************************************************)
EXTENDS AgentExecution, FiniteSetTheorems, TLAPS

Actors == Cancels \cup Clients

-----------------------------------------------------------------------------
\* Typing, one lemma per group of actions.

LEMMA UpdateTyped ==
  ASSUME row \in RowTypes, NEW status \in {"running", "success", "error", "cancelled"},
         NEW who \in {"update", "client"}, Update(status, who)
  PROVE  /\ row' \in RowTypes
         /\ row'.status = status /\ row'.version = row.version + 1
         /\ recorder' = who
<1>1. row.version \in Nat \ {0}
  BY DEF RowTypes
<1>2. row.version + 1 \in Nat \ {0}
  BY <1>1
<1>3. row' = [row EXCEPT !.status = status, !.version = row.version + 1] /\ recorder' = who
  BY DEF Update
<1> QED
  BY <1>2, <1>3 DEF RowTypes

LEMMA UpdateStatusTyped ==
  ASSUME TypeOK, NEW state \in TaskStates, UpdateStatus(StatusOf(state))
  PROVE  /\ row' \in RowTypes
         /\ row'.status = "pending" =>
              kind = "stream" /\ row'.version = 1 /\ recorder' = "none"
         /\ recorder' \in {"none", "finalize", "update", "client"}
  BY DEF TypeOK, UpdateStatus, Finalizable, StatusOf, RowTypes

LEMMA TaskInfoTyped ==
  ASSUME row \in RowTypes, faults \in Nat, NEW task \in BOOLEAN, NEW state \in TaskStates,
         UpdateTaskInfo(task, state)
  PROVE  /\ row' \in RowTypes
         /\ row'.status = row.status /\ row'.version = row.version
         /\ faults' \in Nat
<1>1. row' = row \/ row' = [row EXCEPT !.task = task, !.state = state]
  BY DEF UpdateTaskInfo
<1>2. faults' \in Nat
  BY DEF UpdateTaskInfo, Works, Fault
<1> QED
  BY <1>1, <1>2 DEF RowTypes

LEMMA StoreEventTyped ==
  ASSUME log \subseteq Nat, IsFiniteSet(log), faults \in Nat, NEW n \in Nat, StoreEvent(n)
  PROVE  log' \subseteq Nat /\ IsFiniteSet(log') /\ faults' \in Nat
<1>1. log' = log \/ log' = log \cup {n}
  BY DEF StoreEvent
<1>2. faults' \in Nat
  BY DEF StoreEvent, Works, Fault
<1>3. IsFiniteSet(log \cup {n})
  BY FS_AddElement
<1> QED
  BY <1>1, <1>2, <1>3

LEMMA TypeInit == Init => TypeOK
<1> SUFFICES ASSUME Init PROVE TypeOK
  OBVIOUS
<1>1. kind \in {"stream", "sync", "reported"}
  BY AgentAssumption DEF Init
<1>2. row \in RowTypes /\ (row.status = "pending" => kind = "stream" /\ row.version = 1)
  BY <1>1 DEF Init, InitialStatus, RowTypes, TaskStates
<1>3. invoker \in {"starting", "calling", "closed"}
  BY <1>1 DEF Init
<1>4. channel \in Seq(TaskStates)
  BY DEF Init
<1>5. IsFiniteSet(log)
  BY FS_EmptySet DEF Init
<1>6. seen \in [Cancels \cup Clients -> RowTypes]
  BY <1>2 DEF Init
<1> QED
  BY <1>1, <1>2, <1>3, <1>4, <1>5, <1>6 DEF Init, TypeOK, TaskStates, CancelPhases

LEMMA StreamTyped == TypeOK /\ Stream => TypeOK'
<1> SUFFICES ASSUME TypeOK, Stream PROVE TypeOK'
  OBVIOUS
<1>1. CASE Register
  BY <1>1 DEF TypeOK, Register, requests, ghosts
<1>2. CASE \E s \in TaskStates \ {"none"} : AgentSends(s)
  <2> PICK s \in TaskStates : AgentSends(s)
    BY <1>2
  <2>0. channel \in Seq(TaskStates) /\ channel' = Append(channel, s)
    BY DEF TypeOK, AgentSends
  <2>1. channel' \in Seq(TaskStates) /\ channel' # <<>>
    BY <2>0
  <2> QED
    BY <2>1 DEF TypeOK, AgentSends, requests, ghosts
<1>3. CASE StreamEnds
  BY <1>3 DEF TypeOK, StreamEnds, requests, ghosts
<1>4. CASE StreamFails
  BY <1>4 DEF TypeOK, StreamFails, requests
<1>5. CASE RecordStreamError
  <2>1. row' \in RowTypes /\ recorder' \in {"none", "finalize", "update", "client"}
    BY <1>5, UpdateTyped DEF TypeOK, RecordStreamError
  <2>2. row'.status = "pending" => row' = row /\ recorder' = recorder
    BY <1>5, UpdateTyped DEF TypeOK, RecordStreamError
  <2>3. faults' \in Nat
    BY <1>5 DEF TypeOK, RecordStreamError, Works, Fault
  <2> QED
    BY <1>5, <2>1, <2>2, <2>3 DEF TypeOK, RecordStreamError, ClosesChannel, requests, ghosts
<1> QED
  BY <1>1, <1>2, <1>3, <1>4, <1>5 DEF Stream

LEMMA ConsumerTyped == TypeOK /\ Consumer => TypeOK'
<1> SUFFICES ASSUME TypeOK, Consumer PROVE TypeOK'
  OBVIOUS
<1>1. CASE ConsumeEvent
  <2>1. log' \subseteq Nat /\ IsFiniteSet(log') /\ faults' \in Nat
    BY <1>1, StoreEventTyped DEF TypeOK, ConsumeEvent
  <2> QED
    BY <1>1, <2>1 DEF TypeOK, ConsumeEvent, requests, ghosts
<1>2. CASE NoteEvent
  <2>1. Head(channel) \in TaskStates /\ Tail(channel) \in Seq(TaskStates)
    BY <1>2 DEF TypeOK, NoteEvent
  <2>2. row' \in RowTypes /\ row'.status = row.status /\ row'.version = row.version /\ faults' \in Nat
    BY <1>2, <2>1, TaskInfoTyped DEF TypeOK, NoteEvent
  <2> QED
    BY <1>2, <2>1, <2>2 DEF TypeOK, NoteEvent, requests, ghosts
<1>3. CASE FinalizeExecution
  <2>1. /\ row' \in RowTypes
        /\ row'.status = "pending" => kind = "stream" /\ row'.version = 1 /\ recorder' = "none"
        /\ recorder' \in {"none", "finalize", "update", "client"}
    <3>1. CASE UpdateStatus(StatusOf(final))
      <4>1. final \in TaskStates
        BY DEF TypeOK
      <4> QED
        BY <3>1, <4>1, UpdateStatusTyped
    <3>2. CASE UNCHANGED <<row, recorder>>
      BY <3>2 DEF TypeOK
    <3> QED
      BY <1>3, <3>1, <3>2 DEF FinalizeExecution
  <2>2. faults' \in Nat
    BY <1>3 DEF TypeOK, FinalizeExecution, Works, Fault
  <2> QED
    BY <1>3, <2>1, <2>2 DEF TypeOK, FinalizeExecution, requests, ghosts
<1>4. CASE ReleaseCancel
  BY <1>4 DEF TypeOK, ReleaseCancel, requests, ghosts
<1> QED
  BY <1>1, <1>2, <1>3, <1>4 DEF Consumer

LEMMA SyncTyped == TypeOK /\ Sync => TypeOK'
<1> SUFFICES ASSUME TypeOK, Sync PROVE TypeOK'
  OBVIOUS
<1>1. CASE AgentReplies
  BY <1>1 DEF TypeOK, AgentReplies, syncOnly, requests, TaskStates
<1>2. CASE \E s \in TaskStates \ {"none"} : AgentAnswers(s) \/ AgentWorks(s)
  <2> PICK s \in TaskStates : AgentAnswers(s) \/ AgentWorks(s)
    BY <1>2
  <2>1. CASE AgentAnswers(s)
    BY <2>1 DEF TypeOK, AgentAnswers, syncOnly, requests
  <2>2. CASE AgentWorks(s)
    BY <2>2 DEF TypeOK, AgentWorks, syncOnly, requests
  <2> QED
    BY <2>1, <2>2
<1>3. CASE PersistProgress
  <2>1. row' \in RowTypes /\ row'.status = row.status /\ row'.version = row.version /\ faults' \in Nat
    BY <1>3, TaskInfoTyped DEF TypeOK, PersistProgress
  <2> QED
    BY <1>3, <2>1 DEF TypeOK, PersistProgress, syncOnly, requests
<1>4. CASE PollTask \/ CallFails
  <2>1. /\ UNCHANGED <<syncOnly, row, remote, recorder, faults>>
        /\ snapshot' \in {snapshot, remote} /\ broke' \in {broke, TRUE}
        /\ invoker' \in {"noting", "failed"}
    BY <1>4 DEF PollTask, CallFails
  <2>2. snapshot' \in TaskStates /\ broke' \in BOOLEAN
    BY <2>1 DEF TypeOK
  <2> QED
    BY <2>1, <2>2 DEF TypeOK, syncOnly, requests
<1>5. CASE RecordSyncOutcome
  <2> DEFINE status == IF invoker = "failed" THEN "error" ELSE StatusOf(snapshot)
  <2>1. status \in {"success", "error", "cancelled"}
    BY DEF StatusOf
  <2>2. \/ Update(status, "update")
        \/ UNCHANGED <<row, recorder>>
    BY <1>5 DEF RecordSyncOutcome
  <2> HIDE DEF status
  <2>3. row' \in RowTypes /\ recorder' \in {"none", "finalize", "update", "client"}
    BY <2>1, <2>2, UpdateTyped DEF TypeOK
  <2>4. row'.status = "pending" => row' = row /\ recorder' = recorder
    BY <2>1, <2>2, UpdateTyped DEF TypeOK
  <2>5. faults' \in Nat /\ invoker' \in {"replying", "closed"}
    BY <1>5 DEF TypeOK, RecordSyncOutcome, Works, Fault
  <2> QED
    BY <1>5, <2>3, <2>4, <2>5 DEF TypeOK, RecordSyncOutcome, syncOnly, requests
<1>6. CASE PersistReply
  <2>1. row' \in RowTypes /\ row'.status = row.status /\ row'.version = row.version /\ faults' \in Nat
    BY <1>6, TaskInfoTyped DEF TypeOK, PersistReply, Works
  <2> QED
    BY <1>6, <2>1 DEF TypeOK, PersistReply, syncOnly, requests
<1> QED
  BY <1>1, <1>2, <1>3, <1>4, <1>5, <1>6 DEF Sync

LEMMA CancelTyped ==
  ASSUME TypeOK, NEW c \in Cancels, CancelReads(c) \/ CancelExecution(c)
  PROVE  TypeOK'
<1>0. ASSUME NEW pc \in CancelPhases, At(c, pc)
      PROVE  cancel' \in [Cancels -> CancelPhases]
  BY <1>0 DEF TypeOK, At
<1>1. CASE CancelReads(c)
  <2>1. seen' \in [Cancels \cup Clients -> RowTypes]
    BY <1>1 DEF TypeOK, CancelReads
  <2>2. cancel' \in [Cancels -> CancelPhases]
    BY <1>0, <1>1 DEF CancelReads, CancelPhases
  <2> QED
    BY <1>1, <2>1, <2>2 DEF TypeOK, CancelReads, cancelOnly, ghosts
<1>2. CASE AbortStream(c)
  <2>1. cancel' \in [Cancels -> CancelPhases]
    BY <1>0, <1>2 DEF AbortStream, CancelPhases
  <2>2. registered' \in BOOLEAN /\ aborted' \in BOOLEAN
    BY <1>2, Zenon DEF TypeOK, AbortStream
  <2>3. UNCHANGED <<cancelOnly, row, log, remote, seen, number, recorder, faults>>
    BY <1>2 DEF AbortStream
  <2> QED
    BY <2>1, <2>2, <2>3 DEF TypeOK, cancelOnly, ghosts
<1>3. CASE CancelTask(c)
  <2>1. cancel' \in [Cancels -> CancelPhases]
    BY <1>0, <1>3 DEF CancelTask, CancelPhases
  <2> QED
    BY <1>3, <2>1 DEF TypeOK, CancelTask, cancelOnly, ghosts, TaskStates
<1>4. CASE FinalizeCancelled(c)
  <2>1. row' \in RowTypes /\ recorder' \in {"none", "finalize", "update", "client"}
    BY <1>4, UpdateTyped DEF TypeOK, FinalizeCancelled
  <2>2. row'.status = "pending" => row' = row /\ recorder' = recorder
    BY <1>4, UpdateTyped DEF TypeOK, FinalizeCancelled
  <2>3. faults' \in Nat
    BY <1>4 DEF TypeOK, FinalizeCancelled, Works, Fault
  <2>4. cancel' \in [Cancels -> CancelPhases]
    BY <1>0, <1>4 DEF FinalizeCancelled, CancelPhases
  <2> QED
    BY <1>4, <2>1, <2>2, <2>3, <2>4 DEF TypeOK, FinalizeCancelled, cancelOnly, ghosts
<1>5. CASE NoteCancelled(c)
  <2>1. seen[c].task \in BOOLEAN /\ "canceled" \in TaskStates
    BY DEF TypeOK, RowTypes, TaskStates
  <2>2. row' \in RowTypes /\ row'.status = row.status /\ row'.version = row.version /\ faults' \in Nat
    BY <1>5, <2>1, TaskInfoTyped DEF TypeOK, NoteCancelled
  <2>3. cancel' \in [Cancels -> CancelPhases]
    BY <1>0, <1>5 DEF NoteCancelled, CancelPhases
  <2> QED
    BY <1>5, <2>2, <2>3 DEF TypeOK, NoteCancelled, cancelOnly, ghosts
<1>6. CASE EmitCancelled(c)
  <2>1. log' \subseteq Nat /\ IsFiniteSet(log') /\ faults' \in Nat
    BY <1>6, StoreEventTyped DEF TypeOK, EmitCancelled
  <2>2. cancel' \in [Cancels -> CancelPhases]
    BY <1>0, <1>6 DEF EmitCancelled, CancelPhases
  <2> QED
    BY <1>6, <2>1, <2>2 DEF TypeOK, EmitCancelled, cancelOnly, ghosts
<1>7. CASE CountEvents(c)
  <2>1. faults' \in Nat
    BY <1>7 DEF TypeOK, CountEvents, Works, Fault
  <2>2. NextNumber \in Nat
    BY FS_CardinalityType DEF TypeOK, NextNumber
  <2>3. number' \in [Cancels -> Nat]
    BY <1>7, <2>2 DEF TypeOK, CountEvents
  <2>4. cancel' \in [Cancels -> CancelPhases]
    BY <1>0, <1>7 DEF CountEvents, CancelPhases
  <2> QED
    BY <1>7, <2>1, <2>3, <2>4 DEF TypeOK, CountEvents, cancelOnly, ghosts
<1> QED
  BY <1>1, <1>2, <1>3, <1>4, <1>5, <1>6, <1>7 DEF CancelExecution

LEMMA ClientTyped ==
  ASSUME TypeOK, NEW k \in Clients,
         ClientReads(k) \/ \E s \in {"running", "success", "error"} : ClientRecords(k, s)
  PROVE  TypeOK'
<1>1. CASE ClientReads(k)
  <2>1. seen' \in [Cancels \cup Clients -> RowTypes]
    BY <1>1 DEF TypeOK, ClientReads
  <2> QED
    BY <1>1, <2>1 DEF TypeOK, ClientReads, invocation, ghosts
<1>2. ASSUME NEW s \in {"running", "success", "error"}, ClientRecords(k, s)
      PROVE  TypeOK'
  <2>1. Update(s, "client") \/ UNCHANGED <<row, recorder>>
    BY <1>2 DEF ClientRecords
  <2>2. row' \in RowTypes /\ recorder' \in {"none", "finalize", "update", "client"}
    BY <2>1, UpdateTyped DEF TypeOK
  <2>3. row'.status = "pending" => row' = row /\ recorder' = recorder
    BY <2>1, UpdateTyped DEF TypeOK
  <2>4. faults' \in Nat
    BY <1>2 DEF TypeOK, ClientRecords, Works, Fault
  <2>5. client' \in [Clients -> {"idle", "read", "done", "failed"}]
    BY <1>2 DEF TypeOK, ClientRecords
  <2> QED
    BY <1>2, <2>2, <2>3, <2>4, <2>5 DEF TypeOK, ClientRecords, invocation, ghosts
<1> QED
  BY <1>1, <1>2

LEMMA CutTyped == TypeOK /\ (Crash \/ ContextEnds) => TypeOK'
<1> SUFFICES ASSUME TypeOK, Crash \/ ContextEnds PROVE TypeOK'
  OBVIOUS
<1>1. CASE Crash
  <2>1. cancel' \in [Cancels -> CancelPhases]
    BY <1>1 DEF TypeOK, Crash, CancelPhases
  <2>2. channel' \in Seq(TaskStates)
    BY <1>1 DEF Crash
  <2> QED
    BY <1>1, <2>1, <2>2 DEF TypeOK, Crash
<1>2. CASE ContextEnds
  BY <1>2 DEF TypeOK, ContextEnds, requests
<1> QED
  BY <1>1, <1>2

LEMMA TypeStep == TypeOK /\ [Next]_vars => TypeOK'
<1> SUFFICES ASSUME TypeOK, [Next]_vars PROVE TypeOK'
  OBVIOUS
<1>1. CASE UNCHANGED vars
  BY <1>1 DEF TypeOK, vars, invocation, requests, ghosts
<1> QED
  BY <1>1, StreamTyped, ConsumerTyped, SyncTyped, CancelTyped, ClientTyped, CutTyped DEF Next

\* Every reachable state is well typed, whoever reads, cancels, reports or fails: a pending row
\* has never been written with a version.
THEOREM TypeCorrect == Spec => []TypeOK
  BY TypeInit, TypeStep, PTL DEF Spec

-----------------------------------------------------------------------------
\* A recorded verdict stands.

\* What a request knows of a row whose version has not changed since it read it: its status,
\* unless the end of a stream replaced it.
KnownSince(old) == old.version = row.version => old.status = row.status \/ recorder = "finalize"

VersionInv ==
  /\ \A a \in Actors : seen[a].version <= row.version /\ KnownSince(seen[a])
  /\ row.version = 1 => ~Terminal(row.status) \/ recorder = "finalize"
  /\ \A c \in Cancels : Busy(c) => ~Terminal(seen[c].status)

\* How a step can write the status.
StatusWrites ==
  \/ row'.status = row.status /\ row'.version = row.version /\ recorder' = recorder
  \/ row'.version = row.version /\ recorder' = "finalize" /\ ~Terminal(row.status)
  \/ row'.version = row.version + 1
     /\ \/ row.version = 1
        \/ \E c \in Cancels : Busy(c) /\ seen[c].version = row.version
        \/ \E k \in Clients : client[k] = "read" /\ client'[k] = "done" /\ seen[k].version = row.version

LEMMA StatusWritten == TypeOK /\ [Next]_vars => StatusWrites
<1> SUFFICES ASSUME TypeOK, [Next]_vars PROVE StatusWrites
  OBVIOUS
<1>a. ASSUME NEW task \in BOOLEAN, NEW state \in TaskStates, UpdateTaskInfo(task, state),
             recorder' = recorder
      PROVE  StatusWrites
  BY <1>a, TaskInfoTyped DEF TypeOK, StatusWrites
<1>b. ASSUME UNCHANGED <<row, recorder>> PROVE StatusWrites
  BY <1>b DEF StatusWrites
<1>c. row \in RowTypes
  BY DEF TypeOK
<1>1. CASE Stream
  <2>1. CASE RecordStreamError
    <3>1. CASE Matches(CreatedVersion) /\ Update("error", "update")
      BY <1>c, <3>1, UpdateTyped DEF StatusWrites, Matches, CreatedVersion
    <3> QED
      BY <1>b, <2>1, <3>1 DEF RecordStreamError
  <2> QED
    BY <1>b, <1>1, <2>1 DEF Stream, Register, AgentSends, StreamEnds, StreamFails
<1>2. CASE Consumer
  <2>1. CASE ConsumeEvent
    BY <1>b, <2>1 DEF ConsumeEvent
  <2>2. CASE NoteEvent
    <3>1. Head(channel) \in TaskStates
      BY <2>2 DEF TypeOK, NoteEvent
    <3> QED
      BY <1>a, <2>2, <3>1 DEF NoteEvent
  <2>3. CASE FinalizeExecution
    <3>1. CASE UpdateStatus(StatusOf(final))
      BY <1>c, <3>1 DEF UpdateStatus, Finalizable, StatusWrites, Terminal, RowTypes
    <3> QED
      BY <1>b, <2>3, <3>1 DEF FinalizeExecution
  <2> QED
    BY <1>b, <1>2, <2>1, <2>2, <2>3 DEF Consumer, ReleaseCancel
<1>3. CASE Sync
  <2>1. CASE PersistProgress \/ PersistReply
    <3>1. snapshot \in TaskStates
      BY DEF TypeOK
    <3> QED
      BY <1>a, <1>b, <2>1, <3>1 DEF PersistProgress, PersistReply
  <2>2. CASE RecordSyncOutcome
    <3> DEFINE status == IF invoker = "failed" THEN "error" ELSE StatusOf(snapshot)
    <3>1. status \in {"success", "error", "cancelled"}
      BY DEF StatusOf
    <3>2. (Matches(CreatedVersion) /\ Update(status, "update")) \/ UNCHANGED <<row, recorder>>
      BY <2>2 DEF RecordSyncOutcome
    <3> HIDE DEF status
    <3> QED
      BY <1>b, <1>c, <3>1, <3>2, UpdateTyped DEF StatusWrites, Matches, CreatedVersion
  <2> QED
    BY <1>b, <1>3, <2>1, <2>2 DEF Sync, AgentReplies, AgentAnswers, AgentWorks, PollTask, CallFails
<1>4. ASSUME NEW c \in Cancels, CancelReads(c) \/ CancelExecution(c)
      PROVE  StatusWrites
  <2>1. CASE FinalizeCancelled(c)
    <3>1. CASE Matches(seen[c].version) /\ Update("cancelled", "update")
      BY <1>c, <2>1, <3>1, UpdateTyped DEF StatusWrites, Matches, FinalizeCancelled, Busy
    <3> QED
      BY <1>b, <2>1, <3>1 DEF FinalizeCancelled
  <2>2. CASE NoteCancelled(c)
    <3>1. seen[c].task \in BOOLEAN /\ "canceled" \in TaskStates
      BY DEF TypeOK, RowTypes, TaskStates
    <3> QED
      BY <1>a, <2>2, <3>1 DEF NoteCancelled
  <2> QED
    BY <1>b, <1>4, <2>1, <2>2 DEF CancelReads, CancelExecution, AbortStream, CancelTask, CountEvents,
                                  EmitCancelled
<1>5. ASSUME NEW k \in Clients,
             ClientReads(k) \/ \E s \in {"running", "success", "error"} : ClientRecords(k, s)
      PROVE  StatusWrites
  <2>1. ASSUME NEW s \in {"running", "success", "error"}, ClientRecords(k, s)
        PROVE  StatusWrites
    <3>1. CASE Matches(seen[k].version) /\ Update(s, "client") /\ client' = [client EXCEPT ![k] = "done"]
      <4>1. client[k] = "read" /\ client'[k] = "done"
        BY <2>1, <3>1 DEF ClientRecords, TypeOK
      <4> QED
        BY <1>c, <3>1, <4>1, UpdateTyped DEF StatusWrites, Matches
    <3> QED
      BY <1>b, <2>1, <3>1 DEF ClientRecords
  <2> QED
    BY <1>b, <1>5, <2>1 DEF ClientReads
<1>6. CASE Crash \/ ContextEnds
  BY <1>b, <1>6 DEF Crash, ContextEnds
<1>7. CASE UNCHANGED vars
  BY <1>b, <1>7 DEF vars
<1> QED
  BY <1>1, <1>2, <1>3, <1>4, <1>5, <1>6, <1>7 DEF Next

\* How a step can change what a request knows.
Knowledge ==
  /\ \A a \in Actors : seen'[a] = seen[a] \/ (seen'[a] = row /\ UNCHANGED <<row, recorder>>)
  /\ \A c \in Cancels : Busy(c)' =>
       \/ Busy(c) /\ seen'[c] = seen[c]
       \/ seen'[c] = row /\ ~Terminal(row.status)

LEMMA KnowledgeGained == TypeOK /\ [Next]_vars => Knowledge
<1> SUFFICES ASSUME TypeOK, [Next]_vars PROVE Knowledge
  OBVIOUS
<1>a. ASSUME seen' = seen, cancel' = cancel PROVE Knowledge
  BY <1>a DEF Knowledge, Busy
<1>b. ASSUME NEW c \in Cancels, Busy(c), seen' = seen, NEW pc, At(c, pc) PROVE Knowledge
  <2>1. ASSUME NEW d \in Cancels, Busy(d)' PROVE Busy(d)
    BY <1>b, <2>1 DEF Busy, At, TypeOK
  <2> QED
    BY <1>b, <2>1 DEF Knowledge
<1>1. ASSUME NEW c \in Cancels, CancelReads(c) PROVE Knowledge
  <2>1. ASSUME NEW a \in Actors
        PROVE  seen'[a] = seen[a] \/ (seen'[a] = row /\ UNCHANGED <<row, recorder>>)
    BY <1>1, <2>1 DEF CancelReads, TypeOK, Actors
  <2>2. ASSUME NEW d \in Cancels, Busy(d)', d # c PROVE Busy(d) /\ seen'[d] = seen[d]
    BY <1>1, <2>2 DEF CancelReads, At, Busy, TypeOK
  <2>3. ASSUME Busy(c)' PROVE seen'[c] = row /\ ~Terminal(row.status)
    BY <1>1, <2>3 DEF CancelReads, At, Busy, TypeOK
  <2> QED
    BY <2>1, <2>2, <2>3 DEF Knowledge
<1>2. ASSUME NEW c \in Cancels, CancelExecution(c) PROVE Knowledge
  <2>1. Busy(c) /\ seen' = seen
    BY <1>2 DEF CancelExecution, AbortStream, CancelTask, FinalizeCancelled, NoteCancelled, CountEvents,
                EmitCancelled, Busy
  <2>2. \E pc : At(c, pc)
    BY <1>2 DEF CancelExecution, AbortStream, CancelTask, FinalizeCancelled, NoteCancelled, CountEvents,
                EmitCancelled
  <2> QED
    BY <1>b, <2>1, <2>2
<1>3. ASSUME NEW k \in Clients,
             ClientReads(k) \/ \E s \in {"running", "success", "error"} : ClientRecords(k, s)
      PROVE  Knowledge
  <2>1. CASE ClientReads(k)
    <3>1. k \notin Cancels
      BY AgentAssumption
    <3> QED
      BY <2>1, <3>1 DEF ClientReads, Knowledge, Busy, TypeOK, Actors
  <2> QED
    BY <1>a, <1>3, <2>1 DEF ClientRecords
<1>4. CASE Crash
  BY <1>4 DEF Crash, Knowledge, Busy, TypeOK
<1>5. CASE Stream \/ Consumer \/ Sync \/ ContextEnds \/ UNCHANGED vars
  BY <1>a, <1>5 DEF Stream, Consumer, Sync, ContextEnds, vars, requests, syncOnly, Register, AgentSends,
     StreamEnds, StreamFails, RecordStreamError, ConsumeEvent, NoteEvent, FinalizeExecution,
     ReleaseCancel,
     AgentReplies, AgentAnswers, AgentWorks, PersistProgress, PollTask, CallFails,
     RecordSyncOutcome, PersistReply
<1> QED
  BY <1>1, <1>2, <1>3, <1>4, <1>5 DEF Next

LEMMA VersionInit == Init => VersionInv
<1> SUFFICES ASSUME Init PROVE VersionInv
  OBVIOUS
<1>1. row.version = 1 /\ ~Terminal(row.status)
  BY DEF Init, InitialStatus, Terminal
<1>2. \A a \in Actors : seen[a] = row
  BY DEF Init, Actors
<1>3. \A c \in Cancels : ~Busy(c)
  BY DEF Init, Busy
<1> QED
  BY <1>1, <1>2, <1>3 DEF VersionInv, KnownSince

LEMMA VersionStep == TypeOK /\ VersionInv /\ [Next]_vars => VersionInv'
<1> SUFFICES ASSUME TypeOK, VersionInv, [Next]_vars PROVE VersionInv'
  OBVIOUS
<1>1. StatusWrites /\ Knowledge
  BY StatusWritten, KnowledgeGained
<1>2. row.version \in Nat /\ row.version # 0 /\ \A a \in Actors : seen[a].version \in Nat
  BY DEF TypeOK, RowTypes, Actors
<1>3. ASSUME NEW a \in Actors PROVE (seen[a].version <= row.version /\ KnownSince(seen[a]))'
  <2>1. CASE seen'[a] = row /\ UNCHANGED <<row, recorder>>
    <3>1. seen'[a] = row' /\ row' = row
      BY <2>1
    <3> QED
      BY <1>2, <3>1 DEF KnownSince
  <2>2. CASE seen'[a] = seen[a]
    <3>1. seen[a].version <= row.version /\ KnownSince(seen[a])
      BY DEF VersionInv
    <3>2. seen[a].version \in Nat /\ row.version \in Nat
      BY <1>2
    <3>3. CASE row'.status = row.status /\ row'.version = row.version /\ recorder' = recorder
      BY <2>2, <3>1, <3>3 DEF KnownSince
    <3>4. CASE row'.version = row.version /\ recorder' = "finalize"
      BY <2>2, <3>1, <3>4 DEF KnownSince
    <3>5. CASE row'.version = row.version + 1
      <4>1. seen[a].version <= row'.version /\ seen[a].version # row'.version
        BY <3>1, <3>2, <3>5
      <4> QED
        BY <2>2, <4>1 DEF KnownSince
    <3> QED
      BY <1>1, <3>3, <3>4, <3>5 DEF StatusWrites
  <2> QED
    BY <1>1, <2>1, <2>2 DEF Knowledge
<1>4. (row.version = 1 => ~Terminal(row.status) \/ recorder = "finalize")'
  <2>1. CASE row'.version = row.version + 1
    BY <1>2, <2>1
  <2>2. CASE row'.version = row.version
    BY <1>1, <1>2, <2>2 DEF StatusWrites, VersionInv
  <2> QED
    BY <1>1, <2>1, <2>2 DEF StatusWrites
<1>5. ASSUME NEW c \in Cancels, Busy(c)' PROVE ~Terminal(seen'[c].status)
  BY <1>1, <1>5 DEF Knowledge, VersionInv
<1> QED
  BY <1>3, <1>4, <1>5 DEF VersionInv

\* A final status that was recorded with a version is replaced only by a client that had read it;
\* nobody else who still holds the row's version can have read anything older than it.
LEMMA StepKeepsVerdict ==
  ASSUME TypeOK, VersionInv, [Next]_vars, Terminal(row.status), row'.status # row.status
  PROVE  \/ recorder = "finalize"
         \/ \E k \in Clients : client[k] = "read" /\ client'[k] = "done" /\ seen[k].status = row.status
<1>1. StatusWrites
  BY StatusWritten
<1>2. ASSUME NEW c \in Cancels, Busy(c), seen[c].version = row.version PROVE recorder = "finalize"
  BY <1>2 DEF VersionInv, KnownSince, Actors
<1>3. ASSUME NEW k \in Clients, seen[k].version = row.version
      PROVE  seen[k].status = row.status \/ recorder = "finalize"
  BY <1>3 DEF VersionInv, KnownSince, Actors
<1>4. row.version = 1 => recorder = "finalize"
  BY DEF VersionInv
<1> QED
  BY <1>1, <1>2, <1>3, <1>4 DEF StatusWrites

(* A final status is replaced only where the end of a stream, which leaves  *)
(* the version alone, had set it, or by a client that had read that very    *)
(* status: for any number of cancels and clients (Update's version test,    *)
(* UpdateStatus's test for a pending row).                                  *)
THEOREM VerdictsStand == Spec => VerdictStands
<1>1. TypeOK /\ VersionInv /\ [Next]_vars =>
        [Terminal(row.status) /\ row'.status # row.status =>
           \/ recorder = "finalize"
           \/ \E k \in Clients : client[k] = "read" /\ client'[k] = "done"
                                /\ seen[k].status = row.status]_vars
  BY StepKeepsVerdict
<1> QED
  BY <1>1, TypeInit, TypeStep, VersionInit, VersionStep, PTL DEF Spec, VerdictStands

-----------------------------------------------------------------------------
\* Events are numbered upwards.

\* The log has no gap before any number somebody is about to use.
NumbersUpTo(n) ==
  /\ log = 0..(n - 1)
  /\ seq <= n
  /\ \A c \in Cancels : cancel[c] = "emitting" => number[c] <= n

EventInv == faults = 0 => \E n \in Nat : NumbersUpTo(n)

LEMMA StoreNext ==
  ASSUME faults \in Nat, NEW n \in Nat, NEW k \in Nat, k <= n, log = 0..(n - 1),
         StoreEvent(k), faults' = 0
  PROVE  /\ faults = 0
         /\ \E m \in Nat : m >= n /\ m >= k + 1 /\ log' = 0..(m - 1)
         /\ \A i \in log' \ log : \A j \in log : j < i
<1>1. faults = 0 /\ log' = IF k \notin log THEN log \cup {k} ELSE log
  BY DEF StoreEvent, Works, Fault, Free
<1>2. CASE k \in log
  <2>1. k <= n - 1 /\ log' = log
    BY <1>1, <1>2
  <2> QED
    BY <1>1, <2>1
<1>3. CASE k \notin log
  <2>1. k = n
    BY <1>3
  <2>2. log' = 0..n
    BY <1>1, <1>3, <2>1
  <2>3. n + 1 \in Nat /\ (n + 1) - 1 = n /\ n + 1 >= n /\ n + 1 >= k + 1
    BY <2>1
  <2>4. \E m \in Nat : m >= n /\ m >= k + 1 /\ log' = 0..(m - 1)
    BY <2>2, <2>3
  <2>5. \A i \in log' \ log : \A j \in log : j < i
    <3> SUFFICES ASSUME NEW i \in log' \ log, NEW j \in log PROVE j < i
      OBVIOUS
    <3>1. i \in 0..n /\ i \notin 0..(n - 1) /\ j \in 0..(n - 1)
      BY <2>2
    <3> QED
      BY <3>1
  <2> QED
    BY <1>1, <2>4, <2>5
<1> QED
  BY <1>2, <1>3

\* What a step does to the numbers.
LEMMA StepNumbers ==
  ASSUME TypeOK, EventInv, [Next]_vars, faults' = 0
  PROVE  /\ EventInv'
         /\ \A i \in log' \ log : \A j \in log : j < i
<1> DEFINE Goal == EventInv' /\ \A i \in log' \ log : \A j \in log : j < i
<1> SUFFICES Goal
  OBVIOUS
<1>t. seq \in Nat /\ faults \in Nat /\ \A c \in Cancels : number[c] \in Nat
  BY DEF TypeOK
<1>a. ASSUME faults = 0, UNCHANGED <<log, seq, number>>,
             \A c \in Cancels : cancel'[c] = "emitting" => cancel[c] = "emitting"
      PROVE  Goal
  BY <1>a DEF EventInv, NumbersUpTo
<1>b. ASSUME NEW task, NEW state, UpdateTaskInfo(task, state) PROVE faults = 0
  BY <1>b, <1>t DEF UpdateTaskInfo, Works, Fault
<1>c. ASSUME Works \/ Fault PROVE faults = 0
  BY <1>c, <1>t DEF Works, Fault
<1>1. CASE ConsumeEvent
  <2>0. faults = 0
    BY <1>1, <1>t DEF ConsumeEvent, StoreEvent, Works, Fault
  <2> PICK n \in Nat : NumbersUpTo(n)
    BY <2>0 DEF EventInv
  <2>1. /\ \E m \in Nat : m >= n /\ m >= seq + 1 /\ log' = 0..(m - 1)
        /\ \A i \in log' \ log : \A j \in log : j < i
    <3>1. log = 0..(n - 1) /\ seq <= n /\ seq \in Nat /\ faults \in Nat
      BY <1>t DEF NumbersUpTo
    <3>2. StoreEvent(seq)
      BY <1>1 DEF ConsumeEvent
    <3> QED
      BY <3>1, <3>2, StoreNext
  <2> PICK m \in Nat : m >= n /\ m >= seq + 1 /\ log' = 0..(m - 1)
    BY <2>1
  <2>2. seq' <= m
    BY <1>1, <1>t DEF ConsumeEvent
  <2>3. ASSUME NEW c \in Cancels, cancel'[c] = "emitting" PROVE number'[c] <= m
    <3>1. number'[c] = number[c] /\ number[c] <= n
      BY <1>1, <2>3 DEF ConsumeEvent, requests, NumbersUpTo
    <3> QED
      BY <3>1, <1>t
  <2> QED
    BY <2>1, <2>2, <2>3 DEF EventInv, NumbersUpTo
<1>2. ASSUME NEW c \in Cancels, EmitCancelled(c) PROVE Goal
  <2>0. faults = 0
    BY <1>2, <1>t DEF EmitCancelled, StoreEvent, Works, Fault
  <2> PICK n \in Nat : NumbersUpTo(n)
    BY <2>0 DEF EventInv
  <2>1. number[c] \in Nat /\ number[c] <= n
    BY <1>2, <1>t DEF EmitCancelled, NumbersUpTo
  <2>2. /\ \E m \in Nat : m >= n /\ m >= number[c] + 1 /\ log' = 0..(m - 1)
        /\ \A i \in log' \ log : \A j \in log : j < i
    BY <1>2, <1>t, <2>1, StoreNext DEF EmitCancelled, NumbersUpTo
  <2> PICK m \in Nat : m >= n /\ log' = 0..(m - 1)
    BY <2>2
  <2>3. seq' <= m
    BY <1>2, <1>t DEF EmitCancelled, cancelOnly, NumbersUpTo
  <2>4. ASSUME NEW d \in Cancels, cancel'[d] = "emitting" PROVE number'[d] <= m
    <3>1. number'[d] = number[d] /\ cancel[d] = "emitting"
      BY <1>2, <2>4 DEF EmitCancelled, At, TypeOK
    <3>2. number[d] <= n /\ number[d] \in Nat
      BY <1>t, <3>1 DEF NumbersUpTo
    <3> QED
      BY <3>1, <3>2
  <2> QED
    BY <2>2, <2>3, <2>4 DEF EventInv, NumbersUpTo
<1>3. ASSUME NEW c \in Cancels, CountEvents(c) PROVE Goal
  <2>0. faults = 0 /\ number' = [number EXCEPT ![c] = NextNumber]
    BY <1>3, <1>t DEF CountEvents, Works, Fault
  <2> PICK n \in Nat : NumbersUpTo(n)
    BY <2>0 DEF EventInv
  <2>1. NextNumber = n
    BY FS_Interval DEF NextNumber, NumbersUpTo
  <2>2. ASSUME NEW d \in Cancels, cancel'[d] = "emitting" PROVE number'[d] <= n
    BY <1>3, <2>0, <2>1, <2>2 DEF CountEvents, At, TypeOK, NumbersUpTo
  <2> QED
    BY <1>3, <2>2 DEF CountEvents, cancelOnly, EventInv, NumbersUpTo
<1>4. ASSUME NEW c \in Cancels,
             CancelReads(c) \/ AbortStream(c) \/ CancelTask(c) \/ FinalizeCancelled(c) \/ NoteCancelled(c)
      PROVE  Goal
  <2>1. UNCHANGED <<log, seq, number>>
    BY <1>4 DEF CancelReads, AbortStream, CancelTask, FinalizeCancelled, NoteCancelled, cancelOnly
  <2>2. \E pc \in {"read", "refused", "asking", "recording", "noting", "failed", "counting"} : At(c, pc)
    BY <1>4 DEF CancelReads, AbortStream, CancelTask, FinalizeCancelled, NoteCancelled
  <2>3. \A d \in Cancels : cancel'[d] = "emitting" => cancel[d] = "emitting"
    BY <2>2 DEF At, TypeOK
  <2>4. faults = 0
    BY <1>4, <1>b, <1>c DEF CancelReads, AbortStream, CancelTask, FinalizeCancelled, NoteCancelled
  <2> QED
    BY <1>a, <2>1, <2>3, <2>4
<1>5. ASSUME NEW k \in Clients,
             ClientReads(k) \/ \E s \in {"running", "success", "error"} : ClientRecords(k, s)
      PROVE  Goal
  <2>1. UNCHANGED <<log, seq, number, cancel>>
    BY <1>5 DEF ClientReads, ClientRecords, invocation
  <2>2. faults = 0
    BY <1>5, <1>c DEF ClientReads, ClientRecords
  <2> QED
    BY <1>a, <2>1, <2>2
<1>6. CASE Crash
  BY <1>6, <1>a DEF Crash, TypeOK
<1>7. CASE Stream \/ NoteEvent \/ FinalizeExecution \/ ReleaseCancel
  <2>1. UNCHANGED <<log, seq, number, cancel>>
    BY <1>7 DEF Stream, Register, AgentSends, StreamEnds, StreamFails, RecordStreamError, NoteEvent,
       FinalizeExecution, ReleaseCancel, requests
  <2>2. faults = 0
    BY <1>7, <1>b, <1>c DEF Stream, Register, AgentSends, StreamEnds, StreamFails, RecordStreamError,
       NoteEvent, FinalizeExecution, ReleaseCancel
  <2> QED
    BY <1>a, <2>1, <2>2
<1>8. CASE Sync \/ ContextEnds \/ UNCHANGED vars
  <2>1. UNCHANGED <<log, seq, number, cancel>>
    BY <1>8 DEF Sync, AgentReplies, AgentAnswers, AgentWorks, PersistProgress, PollTask, CallFails,
       RecordSyncOutcome, PersistReply, syncOnly, requests, ContextEnds, vars, invocation
  <2>2. faults = 0
    BY <1>8, <1>b, <1>c DEF Sync, AgentReplies, AgentAnswers, AgentWorks, PersistProgress, PollTask,
       CallFails, RecordSyncOutcome, PersistReply, ContextEnds, vars
  <2> QED
    BY <1>a, <2>1, <2>2
<1> QED
  BY <1>1, <1>2, <1>3, <1>4, <1>5, <1>6, <1>7, <1>8 DEF Next, Consumer, CancelExecution

LEMMA EventInit == Init => EventInv
<1> SUFFICES ASSUME Init PROVE NumbersUpTo(0)
  BY DEF EventInv
<1>1. log = 0..(0 - 1) /\ seq <= 0
  BY DEF Init
<1>2. \A c \in Cancels : cancel[c] # "emitting"
  BY DEF Init
<1> QED
  BY <1>1, <1>2 DEF NumbersUpTo

\* Unless a statement failed, a new event's number is larger than all numbers in the log, whether
\* the stream or a cancel wrote it: what a poller has not seen lies behind what it has seen.
THEOREM EventsComeInOrder == Spec => NewEventsComeLast
<1>1. TypeOK /\ EventInv /\ [Next]_vars => EventInv'
  BY StepNumbers DEF EventInv
<1>2. TypeOK /\ EventInv /\ [Next]_vars =>
        [faults' = 0 => \A n \in log' \ log : \A m \in log : m < n]_vars
  BY StepNumbers
<1> QED
  BY <1>1, <1>2, TypeInit, TypeStep, EventInit, PTL DEF Spec, NewEventsComeLast

-----------------------------------------------------------------------------
\* An execution that nobody interferes with ends with the agent's verdict.

Alone ==
  /\ faults = 0 /\ ~cut /\ kind # "reported"
  /\ \A c \in Cancels : cancel[c] = "idle"
  /\ \A k \in Clients : client[k] = "idle"

\* The consumer has ended the execution.
Ended == consumer \in {"leaving", "done"}

\* A stream: the row is the producer's once the stream broke, else it stays pending until the
\* consumer ends it; the agent's last state is the last on the channel, or in the row.
StreamAlone ==
  /\ invoker \in {"starting", "open", "failed", "closed"} /\ ~aborted
  /\ invoker \in {"starting", "open"} => ~broke
  /\ invoker = "failed" => broke
  /\ Ended => channel = <<>> /\ invoker = "closed"
  /\ IF broke /\ invoker = "closed" THEN row.status = "error"
     ELSE /\ row.version = 1
          /\ row.status = IF Ended THEN StatusOf(final) ELSE "pending"
  /\ IF channel = <<>> THEN row.state = remote ELSE channel[Len(channel)] = remote

\* A request: the row keeps the version of its insert until the outcome is recorded, and the
\* agent's task no longer moves once the request has seen it over.
SyncAlone ==
  /\ invoker \in {"calling", "noting", "polling", "answered", "failed", "replying", "closed"}
  /\ consumer = "done"
  /\ broke => invoker \in {"failed", "closed"}
  /\ invoker = "failed" => broke
  /\ invoker = "calling" => remote = "none"
  /\ invoker \notin {"replying", "closed"} => row.version = 1
  /\ invoker \in {"answered", "replying", "closed"} /\ ~broke => Over(snapshot)
  /\ Over(snapshot) => remote \in {snapshot, "none"}
  /\ invoker \in {"replying", "closed"} => row.status = IF broke THEN "error" ELSE StatusOf(snapshot)
  /\ invoker = "closed" /\ ~broke /\ Over(remote) => row.state = remote

AloneInv == Alone => (kind = "stream" => StreamAlone) /\ (kind = "sync" => SyncAlone)

\* Whoever is still alone after a step was so before, and the invocation itself took the step.
LEMMA StillAlone ==
  ASSUME TypeOK, [Next]_vars, Alone'
  PROVE  /\ Alone /\ kind' = kind /\ faults' = 0 /\ cut' = cut
         /\ Stream \/ Consumer \/ Sync \/ UNCHANGED vars
<1>1. faults = 0
  <2>1. faults \in Nat /\ faults' = 0
    BY DEF TypeOK, Alone
  <2>2. Works \/ Fault => faults = 0
    BY <2>1 DEF Works, Fault
  <2> QED
    BY <2>1, <2>2 DEF Next, Stream, Consumer, Sync, CancelExecution, vars, Register, AgentSends,
       StreamEnds, StreamFails, RecordStreamError, ConsumeEvent, StoreEvent, NoteEvent, UpdateTaskInfo,
       FinalizeExecution, ReleaseCancel, AgentReplies, AgentAnswers, AgentWorks, PersistProgress, PollTask, CallFails,
       RecordSyncOutcome, PersistReply, CancelReads, AbortStream, CancelTask, FinalizeCancelled,
       NoteCancelled, CountEvents, EmitCancelled, ClientReads, ClientRecords, Crash, ContextEnds
<1>2. ASSUME NEW c \in Cancels, CancelReads(c) \/ CancelExecution(c) PROVE FALSE
  <2>1. \E pc \in CancelPhases \ {"idle"} : At(c, pc)
    BY <1>2 DEF CancelReads, CancelExecution, AbortStream, CancelTask, FinalizeCancelled, NoteCancelled,
       CountEvents, EmitCancelled, CancelPhases
  <2>2. cancel'[c] # "idle"
    BY <2>1 DEF At, TypeOK
  <2> QED
    BY <2>2 DEF Alone
<1>3. ASSUME NEW k \in Clients,
             ClientReads(k) \/ \E s \in {"running", "success", "error"} : ClientRecords(k, s)
      PROVE  FALSE
  <2>1. client'[k] # "idle"
    BY <1>3 DEF ClientReads, ClientRecords, TypeOK
  <2> QED
    BY <2>1 DEF Alone
<1>4. ~Crash /\ ~ContextEnds
  BY DEF Alone, Crash, ContextEnds
<1>5. Stream \/ Consumer \/ Sync \/ UNCHANGED vars
  BY <1>2, <1>3, <1>4 DEF Next
<1>6. UNCHANGED <<kind, cancel, client, cut>>
  BY <1>5 DEF Stream, Consumer, Sync, vars, requests, ghosts, syncOnly, Register, AgentSends,
     StreamEnds, StreamFails, RecordStreamError, ConsumeEvent, NoteEvent, FinalizeExecution,
     ReleaseCancel,
     AgentReplies, AgentAnswers, AgentWorks, PersistProgress, PollTask, CallFails, RecordSyncOutcome,
     PersistReply
<1>7. Alone
  BY <1>1, <1>6 DEF Alone
<1> QED
  BY <1>5, <1>6, <1>7 DEF Alone

\* A write of the task columns that does not fail.
LEMMA NotedAlone ==
  ASSUME TypeOK, faults' = 0, NEW state \in TaskStates, UpdateTaskInfo(TRUE, state)
  PROVE  row'.state = state /\ row'.status = row.status /\ row'.version = row.version
<1>1. row' = [row EXCEPT !.task = TRUE, !.state = state]
  BY DEF UpdateTaskInfo, Fault, TypeOK
<1> QED
  BY <1>1 DEF TypeOK, RowTypes

LEMMA StreamStaysAlone ==
  ASSUME TypeOK, StreamAlone, kind = "stream", faults' = 0, Stream \/ Consumer \/ Sync
  PROVE  StreamAlone'
<1>t. row \in RowTypes /\ channel \in Seq(TaskStates) /\ faults \in Nat /\ remote \in TaskStates
  BY DEF TypeOK
<1>1. CASE Register
  BY <1>1 DEF Register, StreamAlone, Ended, ghosts
<1>2. ASSUME NEW s \in TaskStates, AgentSends(s) PROVE StreamAlone'
  <2>1. /\ channel' # <<>> /\ channel'[Len(channel')] = s /\ remote' = s
        /\ invoker = "open" /\ UNCHANGED <<row, invoker, consumer, final, aborted, broke>>
    <3>1. channel' = Append(channel, s) /\ Len(channel') = Len(channel) + 1
      BY <1>2, <1>t DEF AgentSends
    <3> QED
      BY <1>2, <1>t, <3>1 DEF AgentSends, ghosts
  <2> QED
    BY <2>1 DEF StreamAlone, Ended
<1>3. CASE StreamEnds
  BY <1>3 DEF StreamEnds, StreamAlone, Ended, ghosts
<1>4. CASE StreamFails
  BY <1>4 DEF StreamFails, StreamAlone, Ended
<1>5. CASE RecordStreamError
  <2>1. Matches(CreatedVersion) /\ broke /\ ~Ended
    BY <1>5 DEF RecordStreamError, StreamAlone, Ended, Matches, CreatedVersion
  <2>2. Update("error", "update")
    BY <1>5, <1>t, <2>1 DEF RecordStreamError, StreamAlone, Ended, Fault
  <2>3. row'.status = "error" /\ row'.state = row.state
    BY <1>t, <2>2 DEF Update, RowTypes
  <2> QED
    BY <1>5, <2>1, <2>3 DEF RecordStreamError, StreamAlone, Ended, ClosesChannel, ghosts
<1>6. CASE ConsumeEvent
  BY <1>6 DEF ConsumeEvent, StreamAlone, Ended, ghosts
<1>7. CASE NoteEvent
  <2>1. channel # <<>> /\ consumer = "noting" /\ consumer' = "consuming"
    BY <1>7 DEF NoteEvent, TypeOK
  <2>2. Head(channel) \in TaskStates
    BY <1>t, <2>1
  <2>3. row'.state = Head(channel) /\ row'.status = row.status /\ row'.version = row.version
    BY <1>7, <2>2, NotedAlone DEF NoteEvent
  <2>4. channel[Len(channel)] = remote
    BY <2>1 DEF StreamAlone, Ended
  <2>5. channel' = Tail(channel) /\ UNCHANGED <<invoker, aborted, remote, broke>>
    BY <1>7 DEF NoteEvent, ghosts
  <2>6. IF channel' = <<>> THEN row'.state = remote ELSE channel'[Len(channel')] = remote
    <3>1. CASE Len(channel) = 1
      <4>1. channel' = <<>> /\ channel[Len(channel)] = Head(channel)
        BY <1>t, <2>1, <2>5, <3>1
      <4> QED
        BY <2>3, <2>4, <4>1
    <3>2. CASE Len(channel) # 1
      <4>1. channel' # <<>> /\ channel'[Len(channel')] = channel[Len(channel)]
        <5>1. /\ Len(channel) \in Nat /\ Len(channel') = Len(channel) - 1
              /\ \A i \in 1..Len(channel') : channel'[i] = channel[i + 1]
          BY <1>t, <2>1, <2>5
        <5>2. Len(channel) # 0
          BY <1>t, <2>1
        <5>3. Len(channel') \in 1..Len(channel')
          BY <3>2, <5>1, <5>2
        <5> QED
          BY <5>1, <5>3
      <4> QED
        BY <2>4, <4>1
    <3> QED
      BY <3>1, <3>2
  <2> QED
    BY <2>1, <2>3, <2>5, <2>6 DEF StreamAlone, Ended
<1>8. CASE FinalizeExecution
  <2>1. UpdateStatus(StatusOf(final))
    BY <1>8, <1>t DEF FinalizeExecution, Fault
  <2>2. /\ invoker = "closed" /\ channel = <<>> /\ consumer = "consuming" /\ consumer' = "leaving"
        /\ UNCHANGED <<invoker, channel, final, aborted, remote, broke>>
    BY <1>8 DEF FinalizeExecution, ghosts
  <2>3. CASE broke
    BY <2>1, <2>2, <2>3 DEF StreamAlone, Ended, UpdateStatus, Finalizable
  <2>4. CASE ~broke
    <3>1. row' = [row EXCEPT !.status = StatusOf(final)]
      BY <2>1, <2>2, <2>4 DEF StreamAlone, Ended, UpdateStatus, Finalizable
    <3>2. row'.status = StatusOf(final) /\ row'.version = row.version /\ row'.state = row.state
      BY <1>t, <3>1 DEF RowTypes
    <3> QED
      BY <2>2, <2>4, <3>2 DEF StreamAlone, Ended
  <2> QED
    BY <2>3, <2>4
<1>9. CASE ReleaseCancel
  BY <1>9 DEF ReleaseCancel, StreamAlone, Ended, ghosts
<1>10. ~Sync
  BY DEF StreamAlone, Sync, AgentReplies, AgentAnswers, AgentWorks, PersistProgress, PollTask, CallFails,
     RecordSyncOutcome, PersistReply
<1> QED
  BY <1>1, <1>2, <1>3, <1>4, <1>5, <1>6, <1>7, <1>8, <1>9, <1>10 DEF Stream, Consumer

LEMMA SyncStaysAlone ==
  ASSUME TypeOK, SyncAlone, kind = "sync", faults' = 0, Stream \/ Consumer \/ Sync
  PROVE  SyncAlone'
<1>t. row \in RowTypes /\ faults \in Nat /\ remote \in TaskStates /\ snapshot \in TaskStates
  BY DEF TypeOK
<1>o. Over("completed") /\ ~Over("none") /\ ~Over("working")
  BY DEF Over
<1>1. ~Stream /\ ~Consumer
  BY DEF SyncAlone, Stream, Consumer, Register, AgentSends, StreamEnds, StreamFails, RecordStreamError,
     ConsumeEvent, NoteEvent, FinalizeExecution, ReleaseCancel
<1>2. CASE AgentReplies
  BY <1>2, <1>o DEF AgentReplies, SyncAlone, syncOnly
<1>3. ASSUME NEW s \in TaskStates, AgentAnswers(s) PROVE SyncAlone'
  BY <1>3 DEF AgentAnswers, SyncAlone, syncOnly
<1>4. ASSUME NEW s \in TaskStates, AgentWorks(s) PROVE SyncAlone'
  <2>1. ~Over(snapshot) /\ invoker # "calling" /\ (invoker = "closed" => broke)
    BY <1>4, <1>o DEF AgentWorks, SyncAlone
  <2> QED
    BY <1>4, <2>1 DEF AgentWorks, SyncAlone, syncOnly
<1>5. CASE PersistProgress
  <2>1. row'.status = row.status /\ row'.version = row.version
    BY <1>5, <1>t, NotedAlone DEF PersistProgress
  <2> QED
    BY <1>5, <2>1 DEF PersistProgress, SyncAlone, syncOnly
<1>6. CASE PollTask
  BY <1>6 DEF PollTask, SyncAlone, syncOnly
<1>7. CASE CallFails
  BY <1>7 DEF CallFails, SyncAlone, syncOnly
<1>8. CASE RecordSyncOutcome
  <2> DEFINE status == IF invoker = "failed" THEN "error" ELSE StatusOf(snapshot)
  <2>1. Matches(CreatedVersion)
    BY <1>8 DEF RecordSyncOutcome, SyncAlone, Matches, CreatedVersion
  <2>2. Update(status, "update") /\ invoker' = IF invoker = "answered" THEN "replying" ELSE "closed"
    BY <1>8, <1>t, <2>1 DEF RecordSyncOutcome, Fault
  <2>3. row'.status = status
    BY <1>t, <2>2 DEF Update, RowTypes
  <2> HIDE DEF status
  <2>4. CASE invoker = "answered"
    BY <1>8, <2>2, <2>3, <2>4 DEF RecordSyncOutcome, SyncAlone, syncOnly, status
  <2>5. CASE invoker = "failed"
    BY <1>8, <2>2, <2>3, <2>5 DEF RecordSyncOutcome, SyncAlone, syncOnly, status
  <2> QED
    BY <1>8, <2>4, <2>5 DEF RecordSyncOutcome
<1>9. CASE PersistReply
  <2>1. row'.status = row.status /\ (remote # "none" => row'.state = snapshot)
    BY <1>9, <1>t, NotedAlone DEF PersistReply
  <2>2. Over(remote) => remote # "none"
    BY <1>o
  <2>3. /\ UNCHANGED <<consumer, snapshot, remote, broke>>
        /\ invoker = "replying" /\ invoker' = "closed"
    BY <1>9 DEF PersistReply, syncOnly
  <2> QED
    BY <2>1, <2>2, <2>3 DEF SyncAlone
<1> QED
  BY <1>1, <1>2, <1>3, <1>4, <1>5, <1>6, <1>7, <1>8, <1>9 DEF Sync

LEMMA AloneStep == TypeOK /\ AloneInv /\ [Next]_vars => AloneInv'
<1> SUFFICES ASSUME TypeOK, AloneInv, [Next]_vars, Alone'
             PROVE  (kind = "stream" => StreamAlone)' /\ (kind = "sync" => SyncAlone)'
  BY DEF AloneInv
<1>1. /\ Alone /\ kind' = kind /\ faults' = 0
      /\ Stream \/ Consumer \/ Sync \/ UNCHANGED vars
  BY StillAlone
<1>2. (kind = "stream" => StreamAlone) /\ (kind = "sync" => SyncAlone)
  BY <1>1 DEF AloneInv
<1>3. CASE UNCHANGED vars
  BY <1>2, <1>3 DEF vars, invocation, ghosts, StreamAlone, SyncAlone, Ended
<1>4. CASE Stream \/ Consumer \/ Sync
  <2>1. CASE kind = "stream"
    BY <1>1, <1>2, <1>4, <2>1, StreamStaysAlone
  <2>2. CASE kind = "sync"
    BY <1>1, <1>2, <1>4, <2>2, SyncStaysAlone
  <2> QED
    BY <1>1, <2>1, <2>2
<1> QED
  BY <1>1, <1>3, <1>4

LEMMA AloneInit == Init => AloneInv
<1> SUFFICES ASSUME Init, Alone
             PROVE  (kind = "stream" => StreamAlone) /\ (kind = "sync" => SyncAlone)
  BY DEF AloneInv
<1> QED
  BY DEF Init, InitialStatus, StreamAlone, SyncAlone, Ended, Over

(* If nobody interferes and nothing is cut off or fails, a finished         *)
(* execution has the agent's verdict and last state, for streams of any     *)
(* length: nothing the producer and the consumer do to the row overtakes    *)
(* what they know.                                                          *)
THEOREM VerdictIsTheAgents == Spec => []OutcomeIsTheAgents
<1>1. TypeOK /\ AloneInv => OutcomeIsTheAgents
  <2> SUFFICES ASSUME TypeOK, AloneInv, Quiet, Alone
               PROVE  /\ row.status = IF broke THEN "error"
                                      ELSE StatusOf(IF kind = "stream" THEN final ELSE snapshot)
                      /\ Over(remote) /\ ~broke => row.state = remote
    BY DEF OutcomeIsTheAgents, Alone
  <2>1. invoker = "closed" /\ consumer = "done"
    BY DEF Quiet
  <2>2. CASE kind = "stream"
    BY <2>1, <2>2 DEF AloneInv, StreamAlone, Ended
  <2>3. CASE kind = "sync"
    BY <2>1, <2>3 DEF AloneInv, SyncAlone
  <2> QED
    BY <2>2, <2>3 DEF TypeOK, Alone
<1> QED
  BY <1>1, AloneInit, AloneStep, TypeInit, TypeStep, PTL DEF Spec
=============================================================================
