--------------------------- MODULE EmbeddingQueue ---------------------------
(***************************************************************************)
(* The durable embedding queue of the backend: the embedding_jobs table,   *)
(* the dispatcher processes that lease rows out of it, and the embeddings  *)
(* table their jobs write to.                                              *)
(*                                                                         *)
(* A domain event becomes one row (Enqueue); a dispatcher leases rows      *)
(* (Claim), resolves the entity's provider, generates and saves (delete,   *)
(* then insert), and settles the row (ack, release or fail).  Processes    *)
(* are killed, leases run out, settle statements fail, and an entity is    *)
(* edited again while its job runs.                                        *)
(*                                                                         *)
(* One SQL statement is one step.  Time is abstracted to the two facts the *)
(* statements test: available (available_at <= now()) and leased           *)
(* (lease_expires_at >= now()); each flips when its deadline passes.       *)
(***************************************************************************)
EXTENDS Integers, Sequences, FiniteSets

CONSTANTS
  Entities,       \* the (entity_type, entity_id) pairs that are embedded
  Workers,        \* dispatcher instances; a restarted process is a new one
  Survivors,      \* the instances that are never stopped or killed
  NoWorker,       \* claimed_by = NULL
  MaxAttempts,    \* queueCfg.MaxAttempts: claims before a job is retired
  IntakeWorkers,  \* IntakeWorkers[w]: jobs process w runs at once (event_bus.worker_count)
  BatchSize,      \* queueCfg.BatchSize: rows one claim leases at most
  MaxRetries,     \* retry.MaxRetries: generate attempts within one job
  Chunks,         \* the chunks a text is split into
  MaxVersion      \* bound: how many times each entity is edited

ASSUME WorkersAssumption ==
  /\ NoWorker \notin Workers
  /\ Survivors \subseteq Workers

ASSUME KnobsAssumption ==
  /\ MaxAttempts \in Nat \ {0}
  /\ IntakeWorkers \in [Workers -> Nat \ {0}]
  /\ BatchSize \in Nat \ {0}
  /\ MaxRetries \in Nat \ {0}
  /\ Chunks \in Nat \ {0}
  /\ MaxVersion \in Nat

VARIABLES
  jobs,    \* embedding_jobs in creation order; a row's index is its id
  proc,    \* proc[w]: "new", "up", "stopping" or "gone"
  runs,    \* the claimed jobs the live processes hold
  stored,  \* stored[e][v]: the chunks of version v in embeddings
  \* observed, not part of the program:
  newest,  \* newest[e]: the latest version of e's text that was accepted
  judged,  \* the <<e, v, verdict>> some job has reached
  crossed  \* the rows last claimed by a process still at work on an older text of theirs

vars == <<jobs, proc, runs, stored, newest, judged, crossed>>

Versions == 1..MaxVersion
Verdicts == {"saved", "nothing", "rejected"}
Stages == {"resolve", "generate", "insert", "ack", "release", "fail"}

Job == [entity : Entities, payload : Versions,
        state : {"pending", "claimed", "done", "failed"},
        attempts : 0..MaxAttempts,
        available : BOOLEAN,
        claimed_by : Workers \cup {NoWorker},
        leased : BOOLEAN]

Run == [worker : Workers, id : Nat \ {0}, attempt : 1..MaxAttempts,
        entity : Entities, text : Versions,
        stage : Stages, tries : 0..MaxRetries, inserted : 0..Chunks]

-----------------------------------------------------------------------------
(* Rows *)

NewJob(e, v) ==
  [entity |-> e, payload |-> v, state |-> "pending", attempts |-> 0,
   available |-> TRUE, claimed_by |-> NoWorker, leased |-> FALSE]

Outstanding(job) == job.state \in {"pending", "claimed"}

OutstandingIds(e) == {i \in DOMAIN jobs : jobs[i].entity = e /\ Outstanding(jobs[i])}

\* Faulty variant: an edit grants fresh attempts.
RefreshResettingAttempts(job, v) ==
  [job EXCEPT !.payload = v, !.state = "pending", !.attempts = 0, !.available = TRUE,
              !.claimed_by = NoWorker, !.leased = FALSE]
(* ON CONFLICT DO UPDATE: the claim is cleared, attempts are kept. *)
Refresh(job, v) ==
  [job EXCEPT !.payload = v, !.state = "pending", !.available = TRUE,
              !.claimed_by = NoWorker, !.leased = FALSE]

(* state = 'pending' OR lease_expires_at < now() *)
Unleased(job) == job.state = "pending" \/ (job.state = "claimed" /\ ~job.leased)

\* Faulty variant: a running lease may be claimed.
ClaimableRunning(job) == Outstanding(job) /\ job.available /\ job.attempts < MaxAttempts
Claimable(job) ==
  /\ Outstanding(job)
  /\ job.available
  /\ job.attempts < MaxAttempts
  /\ Unleased(job)

\* Faulty variant: a row whose worker died on its last attempt is skipped.
ExhaustedPending(job) == job.state = "pending" /\ job.attempts >= MaxAttempts
Exhausted(job) ==
  /\ Outstanding(job)
  /\ job.attempts >= MaxAttempts
  /\ Unleased(job)

Leased(job, w) ==
  [job EXCEPT !.state = "claimed", !.attempts = @ + 1,
              !.claimed_by = w, !.leased = TRUE]

\* Faulty variant: any claim will do.
AnyClaim(job, w) == job.state = "claimed"
(* The WHERE clause of Ack, Release and Fail. *)
Owns(job, w) == job.state = "claimed" /\ job.claimed_by = w

Acked(job) == [job EXCEPT !.state = "done", !.claimed_by = NoWorker, !.leased = FALSE]
Failed(job) == [job EXCEPT !.state = "failed", !.claimed_by = NoWorker, !.leased = FALSE]
Released(job) ==
  [job EXCEPT !.state = "pending", !.available = FALSE,
              !.claimed_by = NoWorker, !.leased = FALSE]

Settled(job, stage) ==
  CASE stage = "ack"     -> Acked(job)
    [] stage = "fail"    -> Failed(job)
    [] stage = "release" -> Released(job)

-----------------------------------------------------------------------------
Init ==
  /\ jobs = <<>>
  /\ proc = [w \in Workers |-> "new"]
  /\ runs = {}
  /\ stored = [e \in Entities |-> [v \in Versions |-> 0]]
  /\ newest = [e \in Entities |-> 0]
  /\ judged = {}
  /\ crossed = {}

Start(w) ==
  /\ proc[w] = "new"
  /\ proc' = [proc EXCEPT ![w] = "up"]
  /\ UNCHANGED <<jobs, runs, stored, newest, judged, crossed>>

(* A live process accepts the next version of e's text. *)
Enqueue(e) ==
  /\ \E w \in Workers : proc[w] \in {"up", "stopping"}
  /\ newest[e] < MaxVersion
  /\ LET v == newest[e] + 1
     IN /\ newest' = [newest EXCEPT ![e] = v]
        /\ jobs' = IF OutstandingIds(e) = {}
                   THEN Append(jobs, NewJob(e, v))
                   ELSE [i \in DOMAIN jobs |->
                           IF i \in OutstandingIds(e) THEN Refresh(jobs[i], v) ELSE jobs[i]]
  /\ UNCHANGED <<proc, runs, stored, judged, crossed>>

RunsOf(w) == {r \in runs : r.worker = w}

Capacity(w) ==
  LET free == IntakeWorkers[w] - Cardinality(RunsOf(w))
  IN IF free < BatchSize THEN free ELSE BatchSize

ClaimedRun(w, i) ==
  [worker |-> w, id |-> i, attempt |-> jobs[i].attempts + 1,
   entity |-> jobs[i].entity, text |-> jobs[i].payload,
   stage |-> "resolve", tries |-> 0, inserted |-> 0]

(* The claimer runs a job of this row about a text that an edit replaced. *)
Crosses(w, i) == \E r \in RunsOf(w) : r.id = i /\ r.text # jobs[i].payload

(* One Claim statement and the dispatch of the rows it returns.  SKIP LOCKED *)
(* passes over rows another statement holds, so ids may be any few of the    *)
(* claimable ones.  If the statement commits but its answer is lost, nothing *)
(* is dispatched and the rows stay leased until their leases run out.        *)
Claim(w) ==
  /\ proc[w] = "up"
  /\ \E ids \in SUBSET {i \in DOMAIN jobs : Claimable(jobs[i])} :
       /\ ids # {}
       /\ Cardinality(ids) <= Capacity(w)
       /\ jobs' = [i \in DOMAIN jobs |-> IF i \in ids THEN Leased(jobs[i], w) ELSE jobs[i]]
       /\ \/ runs' = runs \cup {ClaimedRun(w, i) : i \in ids}
          \/ UNCHANGED runs
       /\ crossed' = (crossed \ ids) \cup {i \in ids : Crosses(w, i)}
  /\ UNCHANGED <<proc, stored, newest, judged>>

-----------------------------------------------------------------------------
(* The steps of one running job *)

Advance(r, stage) == runs' = (runs \ {r}) \cup {[r EXCEPT !.stage = stage]}

Judge(r, verdict) == judged' = judged \cup {<<r.entity, r.text, verdict>>}

(* resolveInput: an error releases, no provider acks, else generate. *)
Resolve(r) ==
  /\ r.stage = "resolve"
  /\ \/ /\ Advance(r, "generate")
        /\ UNCHANGED judged
     \/ /\ Advance(r, "release")
        /\ UNCHANGED judged
     \/ /\ Advance(r, "ack")
        /\ Judge(r, "nothing")
  /\ UNCHANGED <<jobs, proc, stored, newest, crossed>>

(* A retryable failure of one generateAndSave: try again while the retry    *)
(* bound and the job's deadline allow it, else release the row.             *)
Retry(r) ==
  /\ r.stage \in {"generate", "insert"}
  /\ \/ /\ r.tries + 1 < MaxRetries
        /\ runs' = (runs \ {r}) \cup {[r EXCEPT !.stage = "generate", !.tries = @ + 1]}
     \/ Advance(r, "release")
  /\ UNCHANGED <<jobs, proc, stored, newest, judged, crossed>>

(* A 4xx from the provider: an identical retry cannot succeed. *)
Reject(r) ==
  /\ r.stage = "generate"
  /\ Advance(r, "fail")
  /\ Judge(r, "rejected")
  /\ UNCHANGED <<jobs, proc, stored, newest, crossed>>

(* The vectors are there: DeleteByEntity. *)
DeleteStored(r) ==
  /\ r.stage = "generate"
  /\ stored' = [stored EXCEPT ![r.entity] = [v \in Versions |-> 0]]
  /\ runs' = (runs \ {r}) \cup {[r EXCEPT !.stage = "insert", !.inserted = 0]}
  /\ UNCHANGED <<jobs, proc, newest, judged, crossed>>

(* Create, chunk by chunk; the text is saved with the last one. *)
InsertStored(r) ==
  /\ r.stage = "insert"
  /\ stored' = [stored EXCEPT ![r.entity][r.text] = @ + 1]
  /\ \/ /\ r.inserted + 1 < Chunks
        /\ runs' = (runs \ {r}) \cup {[r EXCEPT !.inserted = @ + 1]}
        /\ UNCHANGED judged
     \/ /\ r.inserted + 1 = Chunks
        /\ Advance(r, "ack")
        /\ Judge(r, "saved")
  /\ UNCHANGED <<jobs, proc, newest, crossed>>

(* The job's settle statement, which the database may refuse; either way    *)
(* the intake worker is free again.                                         *)
Settle(r) ==
  /\ r.stage \in {"ack", "release", "fail"}
  /\ \/ jobs' = [i \in DOMAIN jobs |->
                   IF i = r.id /\ Owns(jobs[i], r.worker) THEN Settled(jobs[i], r.stage) ELSE jobs[i]]
     \/ UNCHANGED jobs
  /\ runs' = runs \ {r}
  /\ UNCHANGED <<proc, stored, newest, judged, crossed>>

JobStep(r) ==
  \/ Resolve(r)
  \/ Retry(r)
  \/ Reject(r)
  \/ DeleteStored(r)
  \/ InsertStored(r)
  \/ Settle(r)

-----------------------------------------------------------------------------
(* Deadlines, the poison-pill sweep, and the life of a process *)

BackoffElapses(i) ==
  /\ jobs[i].state = "pending"
  /\ ~jobs[i].available
  /\ jobs' = [jobs EXCEPT ![i].available = TRUE]
  /\ UNCHANGED <<proc, runs, stored, newest, judged, crossed>>

LeaseExpires(i) ==
  /\ jobs[i].state = "claimed"
  /\ jobs[i].leased
  /\ jobs' = [jobs EXCEPT ![i].leased = FALSE]
  /\ UNCHANGED <<proc, runs, stored, newest, judged, crossed>>

FailExhausted(w) ==
  /\ proc[w] = "up"
  /\ \E i \in DOMAIN jobs : Exhausted(jobs[i])
  /\ jobs' = [i \in DOMAIN jobs |-> IF Exhausted(jobs[i]) THEN Failed(jobs[i]) ELSE jobs[i]]
  /\ UNCHANGED <<proc, runs, stored, newest, judged, crossed>>

(* close(stopCh): nothing new is claimed, what runs is drained. *)
Stop(w) ==
  /\ w \notin Survivors
  /\ proc[w] = "up"
  /\ proc' = [proc EXCEPT ![w] = "stopping"]
  /\ UNCHANGED <<jobs, runs, stored, newest, judged, crossed>>

Exit(w) ==
  /\ proc[w] = "stopping"
  /\ RunsOf(w) = {}
  /\ proc' = [proc EXCEPT ![w] = "gone"]
  /\ UNCHANGED <<jobs, runs, stored, newest, judged, crossed>>

Crash(w) ==
  /\ w \notin Survivors
  /\ proc[w] \in {"up", "stopping"}
  /\ proc' = [proc EXCEPT ![w] = "gone"]
  /\ runs' = runs \ RunsOf(w)
  /\ UNCHANGED <<jobs, stored, newest, judged, crossed>>

Next ==
  \/ \E e \in Entities : Enqueue(e)
  \/ \E w \in Workers : Start(w) \/ Claim(w) \/ FailExhausted(w) \/ Stop(w) \/ Exit(w) \/ Crash(w)
  \/ \E r \in runs : JobStep(r)
  \/ \E i \in DOMAIN jobs : BackoffElapses(i) \/ LeaseExpires(i)

Spec == Init /\ [][Next]_vars

(* Surviving processes are scheduled, jobs run under embeddingJobTimeout,   *)
(* and deadlines pass.  Nothing is assumed of the other processes.          *)
Fairness ==
  /\ \A w \in Survivors : WF_vars(Start(w)) /\ WF_vars(Claim(w)) /\ WF_vars(FailExhausted(w))
  /\ WF_vars(\E r \in runs : r.worker \in Survivors /\ JobStep(r))
  /\ WF_vars(\E i \in DOMAIN jobs : BackoffElapses(i))
  /\ WF_vars(\E i \in DOMAIN jobs : LeaseExpires(i))

LiveSpec == Spec /\ Fairness

-----------------------------------------------------------------------------
(* The queue as its callers see it *)

owedBy == [e \in Entities |->
  IF OutstandingIds(e) = {} THEN [text |-> 0, tries |-> 0, crossed |-> FALSE]
  ELSE LET i == CHOOSE i \in OutstandingIds(e) : TRUE
       IN [text |-> jobs[i].payload, tries |-> jobs[i].attempts, crossed |-> i \in crossed]]

Promise == INSTANCE EmbeddingPromise WITH accepted <- newest, owed <- owedBy

(* The table, its leases and its workers keep the promise: an accepted text *)
(* leaves the queue only by a verdict on itself, a newer text, or after     *)
(* MaxAttempts tries that edits do not reset; a verdict on an older text    *)
(* does it only if the process at work on that one has claimed the row anew. *)
KeepsPromise == Promise!Spec

-----------------------------------------------------------------------------
(* Every variable has its type, and a run is of a row that exists. *)
TypeOK ==
  /\ jobs \in Seq(Job)
  /\ proc \in [Workers -> {"new", "up", "stopping", "gone"}]
  /\ runs \subseteq Run
  /\ \A r \in runs : r.id \in DOMAIN jobs
  /\ stored \in [Entities -> [Versions -> Nat]]
  /\ newest \in [Entities -> 0..MaxVersion]
  /\ judged \subseteq Entities \X Versions \X Verdicts
  /\ crossed \subseteq DOMAIN jobs

(* idx_embedding_jobs_outstanding_entity: however edits, claims, settles    *)
(* and sweeps interleave, an entity never has two outstanding rows, so      *)
(* Enqueue always finds the one to coalesce onto.                           *)
OneOutstanding ==
  \A i, j \in DOMAIN jobs :
    /\ Outstanding(jobs[i])
    /\ Outstanding(jobs[j])
    /\ jobs[i].entity = jobs[j].entity
    => i = j

(* Newest content wins: whatever was claimed, released or retired meanwhile, *)
(* an outstanding row carries the newest accepted text of its entity, and    *)
(* that text is always on some row.                                          *)
NewestTextQueued ==
  /\ \A i \in DOMAIN jobs : Outstanding(jobs[i]) => jobs[i].payload = newest[jobs[i].entity]
  /\ \A e \in Entities : newest[e] > 0 =>
       \E i \in DOMAIN jobs : jobs[i].entity = e /\ jobs[i].payload = newest[e]

(* A row is settled by an outcome of its own text: a done row's payload was *)
(* saved (or had nothing to embed), a failed row's payload was rejected, or *)
(* the row used up its attempts.                                            *)
SettledByItself(i) ==
  LET reached(verdict) == <<jobs[i].entity, jobs[i].payload, verdict>> \in judged
  IN /\ jobs[i].state = "done" => reached("saved") \/ reached("nothing")
     /\ jobs[i].state = "failed" => reached("rejected") \/ jobs[i].attempts = MaxAttempts

(* What the comment on Enqueue says: so it is with every row.  It does not   *)
(* hold: Owns cannot tell two claims of one process apart.                   *)
SettledByItsText == \A i \in DOMAIN jobs : SettledByItself(i)

(* What does hold, however many jobs a process runs at once: only a row that *)
(* a process has claimed anew, while it still worked on an older text of the *)
(* row, may be settled by another text's outcome.                            *)
SettledUnlessCrossed == \A i \in DOMAIN jobs \ crossed : SettledByItself(i)

(* A claim is identified by its row and its attempt number: no two live     *)
(* jobs share both, and no live job is of a claim the row has not counted.  *)
ClaimsAreCounted ==
  /\ \A r \in runs : r.attempt <= jobs[r.id].attempts
  /\ \A r, s \in runs : r.id = s.id /\ r.attempt = s.attempt => r = s

(* When an entity is at rest and its last job saved, the embeddings table   *)
(* holds exactly the chunks of the newest text.  It does not hold: jobs of    *)
(* the entity that overlap interleave their saves.                          *)
AtRest(e) == OutstandingIds(e) = {} /\ \A r \in runs : r.entity # e

StoredIsNewest ==
  \A e \in Entities :
    /\ AtRest(e)
    /\ \E i \in DOMAIN jobs :
         jobs[i].entity = e /\ jobs[i].payload = newest[e] /\ jobs[i].state = "done"
    /\ <<e, newest[e], "nothing">> \notin judged
    => stored[e] = [v \in Versions |-> IF v = newest[e] THEN Chunks ELSE 0]

(* A lease is respected: while it runs, a row leaves its claimer's hands    *)
(* only when a job of that claimer settles it or its text is replaced.      *)
LeaseRespected ==
  [][\A i \in DOMAIN jobs :
       /\ jobs[i].state = "claimed"
       /\ jobs[i].leased
       /\ jobs'[i].claimed_by # jobs[i].claimed_by
       => \/ jobs'[i].payload # jobs[i].payload
          \/ \E r \in runs \ runs' : r.id = i /\ r.worker = jobs[i].claimed_by]_vars

(* A done or failed row is history: no late settle, edit or sweep touches it. *)
TerminalIsFinal ==
  [][\A i \in DOMAIN jobs : ~Outstanding(jobs[i]) => jobs'[i] = jobs[i]]_vars

(* As long as one process survives, an entity's outstanding work is settled *)
(* sooner or later, whatever is killed and whatever the provider answers.   *)
OutstandingIsSettled ==
  \A e \in Entities : OutstandingIds(e) # {} ~> OutstandingIds(e) = {}
=============================================================================
