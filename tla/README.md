# VibeXP backend: TLA+ models and proofs

VibeXP keeps a team's prompts, artifacts, blueprints, memories and feeds, embeds them for semantic search, marks what
has gone stale, runs agents against them, and serves it all over HTTP and MCP. The backend is one Go binary that may
run as several replicas over one PostgreSQL database. Almost everything it coordinates goes through that database:
leases, advisory locks, conditional updates, version counters and unique indexes; within a process it uses a handful of
goroutines, mutexes and channels.

This directory models the parts where those mechanisms interact, checks them with TLC on small instances, and proves
the most important properties with TLAPS for instances of any size.

1. [Inventory](#inventory) — the system's parts, and what makes each correct
2. [Modules](#modules) — what is modelled, and how it corresponds to the code
3. [Runs](#runs) — what each model-checking run asks and shows, its bounds
4. [Disagreements](#disagreements-between-code-and-documentation) — where the code does not do what its comments say
5. [Fairness](#fairness) — what the liveness properties assume
6. [Theorems](#theorems) — what is proved, and by which argument
7. [Not modelled](#not-modelled) and the [plan](#plan)

Paths below are relative to `src/backend/internal/` unless they start with `src/`, `cmd/` or `pkg/` (the last two under
`src/backend/`).

## Inventory

### The concurrent core

| component | code | state | operations | what is hard | what makes it correct |
|---|---|---|---|---|---|
| durable embedding queue | `repositories/postgres/embedding_job.go`, `services/embedding_queue.go`, `services/embedding.go` | `embedding_jobs` (state, attempts, `available_at`, `claimed_by`, lease), `embeddings` | enqueue (upsert), claim, ack, release, fail, sweep of exhausted rows, delete-then-insert save | several processes claim; leases run out under a running job; an entity is edited while its job runs; processes die anywhere | one outstanding row per entity; the newest text is queued or settled by its own verdict; leases are respected; everything outstanding is settled |
| bounded executor | `services/embedding_executor.go` | FIFO queue, mutex, condition variable, workers | submit, worker loop, close | stolen wakeups, close against submit | no lost wakeup, FIFO, close drains and returns |
| embedding dispatcher | `services/embedding_dispatcher.go`, `services/embedding_queue.go` | wake channel, stop channel, `inFlight`, poller, intake executor, one executor per team's provider | enqueue and signal, poll, claim, dispatch, route, replace an executor, stop | signal lost between the last look and the select; executors replaced under waiting jobs; shutdown order | a claimable row is claimed without waiting for the timer; no task meets a closed executor; stop drains and returns |
| job scheduler | `scheduler/scheduler.go`, `repositories/postgres/schedule.go` | `schedules`, session advisory locks | list due rows, try lock, handler, advance, unlock, close; upsert and delete of rows | replicas list the same rows; a replica dies or loses its session with a handler in flight; close in mid-tick | one run per row at a time; no lock left behind; a due row is run |
| freshness engine | `services/freshness/`, `services/freshness.go`, `repositories/postgres/resource_freshness.go` | `resource_freshness` (which rules mark a resource), `resource_freshness_audit`, `freshness_rules`, the team's schedule row | evaluation run, reversal on access or edit, rule create/update/delete, hourly sweep | no common transaction: runs, reversals and deletions interleave statement by statement and fail between two of them | a run reconciles what nobody else touches; quiet runs write nothing; state and log converge |
| notification digest | `services/notifications/digest.go`, `repositories/postgres/notification_digest_queue.go` | digest queue, session advisory lock taken through the connection pool | lock, fetch, per user and team: render, send, mark; unlock | the lock belongs to a pooled connection, not to the run; marking can fail after the mail; the request's context ends | rows are retired only after a mail, repeated only after an unrecorded one; one team's failure stays its own; healthy teams are served |
| agent executions | `services/agent_invocation.go`, `services/a2a_stream_processor.go`, `repositories/postgres/agent_execution.go` | `agent_executions` (status, version, task state), its event log, stream channels | invoke, poll, stream, cancel, finalise, report | three kinds of update of one row, only one of them versioned; two numberings of one log | a recorded verdict stands; the outcome is the agent's; events come in order; every execution ends |
| event bus | `pkg/events/` | bounded channel, dispatch goroutine, worker pool, circuit breakers, the manager's lock | publish, dispatch (inline or pooled), retry, trip, stop | publish against stop; a full channel; handlers that publish; panics on overflow goroutines | nothing is sent on a closed channel; stop loses nothing; inline order; a skip is earned; what is accepted is settled |
| background runner | `services/background_runner.go` | slots, abandoned count, wait group | admit, run, abandon, shut down | functions that ignore their deadline | hanging functions are bounded; shutdown returns |
| process shutdown | `server/server.go`, `cmd/root.go`, `container/wire_container.go` | the process's context, the server's grace, what `Close` has stopped | signal, `Shutdown`, deferred `Close` (bus, then runner), exit | requests, handlers and mails under way at the signal | the process ends; nothing accepted is lost |
| authentication settings | `services/instance_auth_settings.go`, `auth_way_in.go`, `root_admin_password.go`, `auth_policy_resolver.go`, `access_allowlist_resolver.go`, `identity_provider_resolver.go` | allowlist, policy and provider rows, one shared version; per process a snapshot with version, generation and probe time, single-flight refreshes, a provider registry | guarded writes, read, refresh, invalidate, rebuild | a guard's reads, then the write; version and content read in two statements; refreshes that overlap an invalidation | own writes are seen at once, others' within a probe interval and a refresh; the registry never goes back; a guarded provider change leaves a way to sign in |
| schedule provisioning | `services/freshness.go` (`syncSchedule`, `provisionSchedule`, `ReconcileSchedules`), `scheduler/reconcile.go` | `schedules`, team settings | write-path sync, hourly sweep under a lock | list and write are separate statements; two writers of one team | a team with a rule has a schedule, of the newest interval |
| OAuth signing keys | `auth/oauthserver/keys.go`, `repositories/postgres/oauth_signing_key.go` | key rows, cached active key, pinned advisory lock | rotate, load, publish, prune | replicas sign with cached keys after a rotation elsewhere | one active key; every live token's key is published |
| resource locks | `services/resource_lock.go` | lock columns of a resource, lock history | lock (conditional update), unlock (check, then clear), append history | window between check and clear; history written afterwards | at most one holder; only the entitled unlock |

The last three are not modelled yet; `Freshness` takes the schedule writes as single steps.

### The rest

| component | what it keeps and does | why it is not a candidate |
|---|---|---|
| retention and purge jobs | batched deletes under a pooled advisory lock | deletion by age is idempotent; the lock handling is the digest's (`PooledLock`) |
| sign-in, sessions, accounts, OAuth flows | password, link and grant rows | short transactions whose single-use guards are conditional updates |
| teams, invitations, authorization | membership rows, a permission matrix | per-request look-ups and row-level CRUD |
| content services | prompts, artifacts, blueprints, memories, feeds, comments, relations, attachments | CRUD; "a write commits" is an input of the modelled parts |
| search and embedding generation | vectors, chunking, ranking | numeric and textual computation |
| providers, other instance settings, GitHub, administration | settings rows, external calls, aggregation queries | validation and I/O |
| HTTP and MCP servers, storage, clients, configuration, frontend | none that the core relies on | I/O and presentation |

### How they interact

    content write --commit--> Publish --channel--> dispatch --inline--> EmbeddingDispatcher.Enqueue --row--> embedding_jobs
                                                      |                       |  wake                           ^ claim, settle
                                                      |                       +--> poller --> intake executor --+
                                                      |                                         |  Submit and wait
                                                      |                                         +--> executor of the team's provider --> embeddings
                                                      +--pooled--> handler, retries, breaker (notifications, team creation --Publish-->)

    rule write --> syncSchedule --> schedules <--list, lock, advance-- Scheduler --handler--> freshness run
    access / edit --> reversal (ClearIfStale) ------> resource_freshness, audit <--clear, mark, repair--+

    notification --> digest queue <--lock, fetch, mark-- digest request (any process) --mail--> the team's provider
    invocation --> agent --events / answers--> producer --channel--> consumer --> agent_executions, events <-- cancel, client
    admin write --guard, transaction--> settings rows, version <--probe, read-- cached setting, provider registry <-- requests, sign-ins
    signal --> Shutdown (8 s grace) ; Close: event bus Stop, then background runner Shutdown --> exit

## Modules

| module | what it models | lines |
|---|---|---|
| `EmbeddingQueue` | the `embedding_jobs` and `embeddings` tables, every statement on them, the processes' claimed jobs | 414 |
| `EmbeddingPromise` | what the queue promises its callers, without rows, leases or processes | 73 |
| `BoundedExecutor` | one worker pool | 175 |
| `PoolPromise` | what a pool promises, without goroutines, lock or wakeups | 65 |
| `EmbeddingDispatcher` | one process: callers, poller, intake pool (the `BoundedExecutor` it extends), provider executors, `Stop` | 450 |
| `Scheduler` | the run loop of every replica, the `schedules` table, the session locks | 339 |
| `Freshness` | one team's freshness state, its log, and everybody who writes them | 502 |
| `PooledLock` | a session advisory lock taken and released through a connection pool | 36 |
| `NotificationDigest` | the digest queue and every step of the digest runs of all processes, over `PooledLock` | 302 |
| `AgentExecution` | one execution row, its event log, and everybody who writes them | 455 |
| `EventBus` | one process's event bus | 388 |
| `BackgroundRunner` | one background runner | 141 |
| `ProcessShutdown` | the end of a process: requests, `EventBus` and `BackgroundRunner` composed under signal, grace and `Close` | 111 |
| `AuthSettings` | the stored authentication settings, their shared version, and the writers with their guards | 218 |
| `SettingsCache` | a process's cached allowlist or policy | 192 |
| `ProviderRegistry` | a process's registry of sign-in providers | 153 |
| `AuthSystem` | writers, cache and registry composed over the one version | 127 |
| `MC...` | symmetry sets, rule definitions, subscriptions and loads of the TLC instances | |
| `EmbeddingQueueProofs`, `EmbeddingDispatcherProofs` (with the pool), `SchedulerProofs`, `FreshnessProofs`, `NotificationDigestProofs`, `AgentExecutionProofs`, `ProcessShutdownProofs` (with the bus and the runner), `AuthSystemProofs` (with cache, registry and writers) | the theorems | |

One convention holds in all of them: a step is one SQL statement, one transaction, one critical section or one call, the
unit at which the processes really interleave. Variables marked "observed" are not state of the program: they record
history that a property speaks of, and a guard reads one only to bound an instance (how many texts or tasks are accepted,
`still` in `Freshness`, after which nothing happens outside). Operators commented "Faulty variant" are not used by the
specification either: each stands for one plausible bug (a dropped guard, a missing reset) and is there so that one can
see the properties fail when it replaces the definition that follows it. A property whose comment says "It does not hold"
is kept to document a limit of the code; see [the divergences](#known-limits-without-a-run).

### EmbeddingQueue

A row's index in `jobs` is its id. Its fields are the columns; text is a version number, so "the newest text" is a
comparison. The columns `available_at` and `lease_expires_at` are kept as the two tests the statements make
(`available`, `leased`), and a test flips when its deadline passes (`BackoffElapses`, `LeaseExpires`), at any moment:
nothing relies on how long a job takes, since a job is not killed by the end of its lease.

`Enqueue` is the upsert on the partial unique index, `Claim` the `FOR UPDATE SKIP LOCKED` update, `FailExhausted` the
sweep before each drain. A claimed job goes through `Resolve`, `Retry`/`Reject` (the provider's answer and the retries within one
job), `DeleteStored`, `InsertStored` (one step per chunk) and `Settle`, whose statement may match no row or fail. Each process runs
`IntakeWorkers[w]` jobs at once. `crossed` observes which rows were last claimed by a process that was then still at work on an older
text of theirs. `Stop`, `Exit` and `Crash` end a process;
a restarted one is a new member of `Workers`. `Survivors` are the processes that neither stop nor crash; liveness
needs one of them.

`KeepsPromise` is the refinement: under the mapping `owed <- owedBy` (the payload and attempts of an entity's
outstanding row, and whether it is crossed) and `accepted <- newest` every step of the queue is a step of `EmbeddingPromise` or a stutter. An
accepted text stays owed until that very text has a verdict, a newer one replaces it, or the entity has been tried
`MaxAttempts` times, which edits do not reset. The code does not keep more than that: when tries cross, a verdict on an older text may
settle the newer one, and the promise says so (`MaySettle`).

### BoundedExecutor

`worker[w]` says whether a goroutine is "ready" to lock the mutex, "waiting" in `cond.Wait`, "running" a task or
"exited". A signalled worker is only "ready": it has to take the mutex again, and another worker may be faster.
`Close` and `CloseReturns` are the two halves of `close`, so that several closes, submits and tasks overlap.
`KeepsPoolPromise` is the refinement: with `backlog <- queue`, `shut <- closed` and `busy` the number of running workers, `Submit` accepts,
`Take` starts, `Finish` ends, closes are closes, and what is about the condition variable (`Wait`, `WorkerExit`) stutters.

### EmbeddingDispatcher

Rows are reduced to what the process asks of the table (absent, claimable, in backoff, claimed, settled), because the
questions here are local: does the poller look when it should, and does everything stop in order. `wake` is the
one-slot channel; `Drain` reads the capacity, `Claim` uses it later; the three `Select` actions are the branches of the
poller's select. `Route` is `runGenerate` with its lookup, replacement and submit under the mutex; `execs` keeps
replaced executors, which drain beside their successor. The module extends `BoundedExecutor`, which is the
intake pool: its tasks are the claimed rows, its closers the goroutines in `Stop`, and its actions are conjuncts of the dispatcher's, so that a
step of the dispatcher is a step of the pool or leaves the pool alone. One team is modelled: executors of different teams share nothing but the intake.

### Scheduler

A replica's tick lists due rows once (`ListDue`), then works them off one by one: `Claim` or `Skip`,
`StartHandler`, `HandlerReturns`, `MarkRun`, `Unlock`. Nothing is looked at between the lock and the handler: a loop that Close
cancels after `Claim` still starts its handler (with a context that has ended). Locks are keyed by row id and belong to a session; `Crash` and `LoseSession` free
them. `Upsert` keeps a row's id and re-arms it, `Delete` and a new `Upsert` give the team another id. The order of the
list (most overdue first) and its limit are modelled, since rows without a handler take up places in it: they are never advanced,
so they stay the most overdue. The table outlives the processes: rows of the teams in `Stored` are there, and due, at the start.

### Freshness

One team, resources of one type (one candidate query per rule). Abstractions:

- Timestamps: `recent[x]` holds the columns of `x` younger than the threshold. A touch puts a column in, `TimePasses` takes it out.
- The audit log is the newest entry per resource, which is all `ListStaleResourcesMissingMark` looks at.
- `ev[e]` is what a run holds in memory: the rules still to be queried, the match sets, the planned clears and marks, and
  the audit entry due for the statement just executed (`debt`). `Abort` may cut it short between any two statements.
- `clr[c]` is a reversal between its statements, `deleting` the rules whose ids have been stripped and whose row is still there.
- The schedule row is `scheduled`; a run starts only while it is there, but one that was claimed may begin after it went.
  Rule writes bring it in line in the same step or fail to (`SyncSchedule`), the hourly sweep repairs it.
- Left out: deletion of resources and projects, read-only metrics, settings CRUD. A reversal that dies before its
  "cleared" entry leaves the log without that entry for ever; the code repairs marks only, and so does the model.

### NotificationDigest and PooledLock

`PooledLock` is the advisory lock as code sees it that goes through `sql.DB`: `TryLock(c)` succeeds on a connection whose
session has the lock already, `Unlock(c)` on any other does nothing, and a session that ends frees it.
`NotificationDigest` runs it under the job. A run is a request (`Start`, `FetchPending`, then for each user `ProcessUser`
with the look-ups, `DrainRows`, and for each of the user's teams `SendTeamDigest` and `RecordSent`, at the end
`Release`), and every step that calls out may fail (`Fails`); once the request's context has ended (`ContextEnds`) every
call fails, the deferred unlock included. `ConnectionExpires` is the pool's `ConnMaxLifetime`. `mails` and `unrecorded` count,
per row, the mails it was in and those whose sending or marking was not seen to succeed. A load says which rows there are and which
of the `Requests[p]` requests a process can serve at once do come.

### AgentExecution

One row with the columns that are read back: status, version, task id and state. The three statements that write it differ in
what they match: `Update` the version its writer read, `UpdateStatus` a pending row (and it leaves the version alone),
`UpdateTaskInfo` nothing. A streaming invocation is a producer (`Register`, `AgentSends`, `StreamEnds`, `StreamFails`,
`RecordStreamError`) and a consumer (`ConsumeEvent`, `NoteEvent`, `FinalizeExecution`,
`ReleaseCancel`) joined by a channel; a synchronous
one a call with polling. A cancel goes from `CancelReads` to `EmitCancelled` in seven steps, in the invoking process
(where it finds the stream's cancel function) or another one; a client that reports an outcome reads and records.
`Crash` and `ContextEnds` cut the invocation off. `log` is the set of sequence numbers stored, since the unique index on them decides
whose event is dropped.

### EventBus, BackgroundRunner, ProcessShutdown

An event goes from "new" through "sending" (a publisher between the bus's look at `running` and its send, with the
manager's read lock) to "accepted" or "dropped". `current` are the deliveries of the event in `processEvent`; `Submit` hands
one to the pool, on a worker or, when the pool is saturated, on a goroutine of its own. A breaker has a generation:
`Record` is `Allow`, `Done` the callback, and a change of mode in between voids what was admitted. `Stop` holds the
manager's write lock while it joins the dispatcher and releases the pool, so a handler that publishes waits for it
until `ReleaseTimesOut`.

`BackgroundRunner` counts tasks by where they are, because they are alike; `Abandon` and `AbandonFreesSlot` are the two halves
of `abandon`, with the count raised before the slot is free.

`ProcessShutdown` extends both. A load says which events the requests in flight publish and whether they mail; several loads in
one instance are alternatives chosen in the initial state. `ServeReturns` is the moment `ListenAndServe` comes back: as soon as
`Shutdown` is called. `CloseBegins` then stops the bus and `CloseDrains` shuts the runner down; `Exit` ends whatever still runs.

### AuthSettings, SettingsCache, ProviderRegistry, AuthSystem

`AuthSettings`: the contents of a setting are identified by the shared version its last write bumped to. A writer goes through
its guard's reads one by one (`BeginTakeAway`, `ListForTakeAway`, `JudgeTakeAway`; `BeginSave`, `ListForSave`, `JudgeSave`;
`BeginSwitchOn`) and then its transaction: `WriteProvider` is compared with the shared version, `WritePolicy` with
the policy's own row or not at all, list writes with nothing. A confirmed change skips the guard.

`SettingsCache` is the algorithm the allowlist's and the policy's resolver share; they part where a refresh fails
(`AfterFailure`). A request serves the snapshot if it is fresh, or joins the flight of its generation; a flight rechecks,
probes the version, keeps the content if the version is unchanged or reads it, and stores it. `Invalidate` raises the generation.
`Served` records of each answer whether it was as new as this process's own writes and how long ago it was replaced.

`ProviderRegistry` has no generation and no probe interval: every sign-in reads the version, and all that find the snapshot stale
share one rebuild, whatever version they read. A failed build of a provider is remembered and retried after a backoff.

`AuthSystem` composes them. A load names the operations in use and the readers, so that an instance can search the guards, each
cache and the registry as alternatives: readers of one take no part in another, and writers see none of them.

## Runs

All with two TLC workers, each under four minutes. States are distinct states of the complete search.

| run | instance | states | what it shows |
|---|---|---|---|
| `EmbeddingQueue` | one entity, two processes, one of them with two intake workers (the other may stop or crash), two attempts, two texts of two chunks | 621,638 | rows are settled by an outcome of their own text unless claims crossed, leases are respected, every outstanding row is settled; the queue implements its promise |
| `EmbeddingQueueSameProcess` | one process with two intake workers | violation | an older job settles the row of a newer text |
| `BoundedExecutor` | three workers, two overlapping closes, five submissions | 13,219 | no lost wakeup, the refinement of `PoolPromise` (order, draining), tasks start, closes return |
| `EmbeddingDispatcherStop` | two rows, two intake workers, two concurrent stops, concurrency changing between 1 and 2 | 1,077,105 | no task meets a closed executor; stop leaves nothing running or claimed |
| `EmbeddingDispatcherLive` | two rows, one intake worker, two attempts, the ticker never due to fire | 522,452 | no lost wakeup; claimed without the timer; stop returns |
| `Scheduler` | two replicas (one is shut down), three teams (one without a handler) and lists of two, one fault of any kind, clock to 1 | 556,352 | mutual exclusion, no lock left behind, own spacing, due rows are run |
| `Freshness` | one resource; a rule for any access (on or off) and one for web access; one run and one reversal at a time | 1,029,432 | runs reconcile, quiet runs write nothing, state and log converge |
| `NotificationDigest` | two processes, one of which serves two digest requests at a time over two connections; four loads: two rows of a user, one of them of a team with a broken provider, met by runs of two processes or of one, and a row due later or of an unreachable user met by all runs; one fault: a failed call, an ended context or a crash | 377,597 | runs of two processes overlap only after a lost session; rows are retired only after a mail and mailed again only after an unrecorded one; the healthy team is served |
| `AgentExecution` | a streaming, a synchronous or a reported execution; one cancel, one client, two streamed events, one failing statement, and a crash or an ended request | 635,372 | verdicts stand; the outcome is the agent's; events come last; invocations end |
| `ProcessShutdown` | four events, a team-creation, a notifying and an inline listener; channel of two, one worker, two attempts, breakers that trip at once, one runner slot; three loads: a sign-up whose handler publishes, two events that exceed the worker, a request that mails | 78,562 | nothing sent on a closed channel; stop loses nothing; inline order; skips are earned; hanging tasks are bounded; what is accepted is settled; the process ends |
| `ProcessShutdownGrace` | the same | violation | the bus is stopped while requests are within their grace |
| `AuthSystem` | two writers (one on another replica), two providers, two requests or two sign-ins, probe interval and refresh timeout of one tick, clock to 2, two writes; seven loads: guards over one and over two providers, allowlist writes (one write in two ticks, two writes in one), policy saves, resets, provider writes under sign-ins | 2,163,498 | own writes are seen at once, others' in time; sign-ins keep up; the registry never goes back; a guarded provider change leaves a way in |

Why these bounds are enough for the questions:

- *Queue.* Rows of different entities meet only in the batch of one claim or sweep, and no statement relates two
  entities, so one entity is searched; batches of several rows are covered by the theorems. The critical events are an edit during a job, the end of a lease, the last attempt and a crash: two
  texts, two attempts and two processes let each happen before, between and after the others. One process has two
  intake workers, so it can meet itself on a row (there `SettledByItsText` fails, the first disagreement below) as well as another process.
  Nothing reads the `embeddings` table, so the cfg's `VIEW` leaves it out of the states that are told apart.
- *Executor.* A wakeup can be stolen only if one worker is busy, one is woken and one more sleeps: three workers.
- *Dispatcher.* More rows than intake workers (`Live`) makes capacity reach zero; two workers and two concurrencies
  (`Stop`) make them replace each other's executor. `MaxExecutors` bounds the executors created.
- *Scheduler.* Two replicas to race; three due rows and lists of two, so that a list outlives its first item, the limit leaves
  a due row out and an unhandled row holds a place; a clock of one so that a row becomes due again, one fault at every place. Two rows
  are there at the start, the third is inserted, re-armed and deleted; a recreated row, longer clocks and other intervals are in the
  theorems only.
- *Freshness.* No statement relates two resources, apart from a rule's candidate query, which takes each on its own. Two rules are needed: a row named
  by one of them or by both, a deletion that leaves the other.
- *Digest.* Two connections are what makes an unlock miss; two requests in a process take the lock twice, a second process competes for it. One user with two teams has one
  provider fail before or after the other; another user is drained. One fault is enough to leave a mail unrecorded, and the run after it
  repeats it. The loads are alternatives, so that three runs need not be combined with two rows. That two runs of one process overlap at once is
  `OneRunAtATime` below.
- *Agent execution.* Two events put one on the channel while the other is noted; one cancel and one client can both
  hold what they read across every other write; the version has no bound.
- *Shutdown.* Channel and pool are full with the second and third delivery, so drops and overflow goroutines occur. `MaxFailures = 1` trips a breaker
  with one failed event; two attempts let one be retried. The loads are alternatives, so their state spaces add up instead of
  multiplying, and each has the actors of one question.
- *Authentication.* A guard race needs two writers; a stale read needs one write between two reads and one invalidation
  (`MaxGen`) between a request's look and its flight's store; the second write comes while the first one's refresh runs.
  Interval and timeout of one tick with a clock of two let a snapshot expire and its successor run out of time.

`CHECK_DEADLOCK FALSE` stands in every cfg because each system may really stop: counters reach their bounds, processes
are shut down, all tasks are done.

## Disagreements between code and documentation

### With a run

1. **An older job can settle a newer text** (`EmbeddingQueueSameProcess`). The comment on `Enqueue`
   (`embedding_job.go:44-46`) says that clearing the claim makes an in-flight worker's later settle a no-op, since all of
   them match on `claimed_by`. `claimed_by` names the process: when the process itself claims the refreshed row for another of its
   intake workers, the older job's ack matches, the row is done and nothing remembers that the newer text
   has no embedding if the newer job then fails or the process dies.
2. **The bus is stopped at the start of the grace, not at its end** (`ProcessShutdownGrace`). `server.go:1812` says that 8 seconds allow
   requests "to complete and publish events before Container.Close() drains the event bus". `Server.Start` returns what `ListenAndServe` returns
   (`server.go:1838`), and that comes back as soon as `Shutdown` is called; `cmd/root.go` then closes the container and the process ends.
   A request still at work finds the bus stopped: its write is committed, its event refused, and its connection is cut.

### Known limits without a run

Those with a name are stated in their module as a property marked "It does not hold": put into the cfg of the module's run,
TLC finds each violated within seconds (`ProviderCap` needs three rows, three intake workers and two executors, and half a
minute). The others follow from an action of the model, as described.

- *A repeated job is not harmless* (`StoredIsNewest`). `embedding_queue.go:22-25` calls a duplicate embed "wasted work rather than
  wrong data (generation is delete-then-insert per entity)". The two statements are not one transaction and do not look at the queue: two
  jobs of an entity can delete, delete, insert, insert, or the older text's job can save last.
- *A provider's limit can be exceeded* (`ProviderCap`). `embedding_dispatcher.go:52-55` bounds the requests in
  flight by the provider's concurrency; after a change the replaced executor drains beside the new one.
- *Rows nobody handles can stop the scheduler.* `runDue` returns without advancing a row whose job type has no handler
  (`scheduler.go:164-168`), so it stays first in the order of `schedule.go:105`; as many of them as `due_limit` (any number from 1) fill
  every list, and no other row is run again. `DueIsRun` is stated, and holds, while there are fewer.
- *A due time can be run twice* (`RunsAreSpaced`). `scheduler/registry.go:6-7`: "at most one runs a given schedule
  per due-time"; a replica does not look at the row again after it got the lock.
- *The last rule's deletion can strand a stale flag* (`LastRuleLeavesNothing`). `freshness.go:429-431` says that by then "there is nothing left
  to clear"; a run that loaded the rule before writes the id back after the strip, and with the schedule gone no later run clears it.
- *Digest runs can overlap* (`OneRunAtATime`). `digest.go:71-73`: "Only one Run invocation may proceed at a time". The session
  lock is re-entrant on the connection that holds it, which the pool may hand to a second request of the process, and is
  freed when the pool retires that connection after five minutes.
- *An aborted stream need not be cancelled* (`AbortedIsCancelled`). `agent_invocation.go:761-762` relies on `CancelExecution` to own the final status after aborting the
  stream; when the agent answers that the task cannot be cancelled, `CancelExecution` returns without recording anything, and
  the consumer records a success for the stream it cut.
- *A policy save can take the last way in* (`PolicyWritesLeaveAWayIn`). `instance_auth_settings.go:668-671`: the guard "refuses it while password login is the only
  working way in". It reads the providers, but the write is compared with the policy's own row only, so a provider disabled in between is not
  noticed. (Provider writes are compared with the shared version; for them the property holds and is proved.)
- *"On the next sign-in"* (`identity_provider_resolver.go:61-62`): a sign-in that read the newer version joins a rebuild under way for
  the older one (`DoChan("rebuild")`, line 209) and is answered with its providers. `SignInsKeepUp` states what does hold.
- *"A removal takes effect within this interval, on every replica"* (`access_allowlist_resolver.go:28-30`): a snapshot is stamped when it is stored,
  so the time the refresh takes comes on top. `WritesTakeEffect` states the sum.
- *"At most 4\*limit abandoned tasks"* (`background_runner.go:18-22`): the tasks admitted below that count may all be abandoned later; the bound that holds
  is fewer than five times the limit (`OutstandingIsBounded`).
- *The pool's fallback.* `worker_pool.go:36-37` says that a panicking task cannot crash the process, and line 56 that `Stop` waits for
  in-flight tasks; neither holds of the goroutines of a saturated pool (`go task()`, line 80).
- *Half-open breakers.* `circuit_breaker.go:24-26` speaks of one trial request; `CanExecute` admits every event while half-open, and only the
  records are limited to one.
- *A refused enqueue is not retried.* `embedding_queue.go:115-116` counts on the bus to retry a failed handler; the dispatcher is called inline, and
  `bus.go:311-319` only logs its error. A full channel likewise drops the event with an error its publisher logs.
- *Smaller ones.* An access through one medium clears a row that a rule for another medium marks again (`clear.go:246-261`). Attempts survive an
  edit, by intent (`embedding_job.go:47-48`), so a much-edited entity can reach the bound through a provider's bad hours. A schedule deleted and
  recreated while its handler runs has another id, hence another lock, and can run beside it.

## Fairness

- *EmbeddingQueue*: surviving processes poll and sweep (their loop has a timer), jobs run on (every job has
  `embeddingJobTimeout`, so the provider answers or the call ends), deadlines pass. Nobody has to edit or crash.
- *BoundedExecutor*: goroutines are scheduled and tasks return.
- *EmbeddingDispatcher*: goroutines run, database calls return. Strong fairness for the stop branch of the select: Go picks among
  ready branches at random, so a closed channel is not passed over for ever. The ticker is *not* fair, and that is the
  point: `ClaimedWithoutTimer` shows that signals alone suffice.
- *Scheduler*: each replica's loop is scheduled, its ticker fires, and a handler returns (it gets a deadline). Faults are
  bounded; with infinitely many nothing could be shown.
- *Freshness*: a run is started and goes on (that is the scheduler's `DueIsRun`), a reversal finishes or gives up, the hourly sweep
  happens. The second half of a rule deletion may be late for ever. `still` says that from some moment on nothing
  happens outside: no access, edit, rule write or failure; `Converges` is about what follows then.
- *NotificationDigest*: an external scheduler triggers the job again and again, a run's calls return, and a connection that holds the lock is
  retired at the end of its lifetime. Without the last a missed unlock would stop the digest for good.
- *AgentExecution*: goroutines run and statements return; the stream's timeout ends a stream the agent leaves open, and the poll deadline
  a call. The latter is strong fairness: polling and noting alternate, so the deadline's step is enabled again and again. The agent itself owes nothing.
- *ProcessShutdown*: the goroutines of the bus, of the runner and of main run, handlers return or fail, contexts and timers end. Requests may take for
  ever and so may the functions of the runner; nobody has to send the signal.
- *AuthSystem*: none; its properties are safety properties, with time as a clock that waits for no-one but a refresh at its timeout.

## Theorems

Every theorem holds for all values of the constants that satisfy the modules' assumptions, which name only what the
code guarantees (finite sets of workers, positive knobs, special values outside the sets they are added to).
`tlapm M.tla` checks each module to the last leaf. Bounds of the models (`MaxTasks`, `MaxVersion`, `MaxClock`,
`MaxFaults`, `MaxWrites` and the like) are arbitrary naturals there.

| module | theorem | property |
|---|---|---|
| `EmbeddingQueueProofs` | `TypeCorrect`, `AtMostOneOutstanding`, `NewestTextIsQueued`, `TerminalRowsAreFinal` | `TypeOK`, `OneOutstanding`, `NewestTextQueued`, `TerminalIsFinal` |
| | `LeasesAreRespected` | `LeaseRespected` |
| | `RowsAreSettledByTheirText` | `SettledUnlessCrossed` |
| | `QueueKeepsItsPromise` | `KeepsPromise` (the refinement of `EmbeddingPromise`) |
| `EmbeddingDispatcherProofs` | `TypeCorrect`, `NoWakeupIsLost`, `TasksStartInOrder`, `CloseRunsEverything` | `TypeOK`, `NobodySleepsOnWork`, `StartedInOrder`, `CloseDrains`, of any pool |
| | `PoolKeepsItsPromise`, `IntakeKeepsItsPromise` | `KeepsPoolPromise` (the refinement of `PoolPromise`), of any pool and of the dispatcher's intake |
| | `DispatcherRunsThePool`, `IntakeDrains` | the dispatcher implements its intake pool, which therefore keeps the pool's properties |
| | `BookKept`, `DispatcherTypesHold`, `DispatcherInductive` | `DispatcherTypeOK` and the inductive invariant |
| | `WakeupsAreKept`, `NothingIsRefused`, `ClaimsFitTheWorkers`, `StopDrainsTheProcess` | `NoLostWakeup`, `NothingRefused`, `inFlight <= Size`, `StopLeavesNothing` |
| `SchedulerProofs` | `TypeCorrect`, `RowsRunAlone`, `NoLockIsLeftBehind` | `TypeOK`, `OneRunPerRow`, `LocksAreInUse` |
| | `ReplicasSpaceTheirRuns` | `OwnRunsAreSpaced` |
| `FreshnessProofs` | `TypeCorrect`, `RunsReconcile`, `QuietRunsStayQuiet` | `TypeOK`, `RunReconciles`, `QuietRunsWriteNothing` |
| `NotificationDigestProofs` | `TypeCorrect`, `ProcessesAreApart` | `TypeOK`, `ProcessesStayApart` |
| | `RetiredRowsWereMailed`, `RepeatsAreOfUnrecordedMails` | `RetiredWasMailed`, `RepeatsAreUnrecorded` |
| `AgentExecutionProofs` | `TypeCorrect`, `VerdictsStand`, `EventsComeInOrder` | `TypeOK`, `VerdictStands`, `NewEventsComeLast` |
| | `VerdictIsTheAgents` | `OutcomeIsTheAgents` |
| `ProcessShutdownProofs` | `TypeCorrect`, `NobodySendsOnClosed`, `StopLosesNothing` | `TypeOK`, `NeverSendsOnClosed`, `StopDrains`, of the bus |
| | `InlineSeesTheOrder`, `SkippingIsEarned` | `InlineInOrder`, `SkipsAreEarned`, of the bus |
| | `HangingIsBounded`, `DrainIsFinal` | `OutstandingIsBounded`, `NothingOutlivesDrain`, of the runner |
| | `SystemRunsTheBus`, `SystemRunsTheRunner` | the process implements both |
| | `SystemStopsTheBus`, `SystemDeliversInOrder`, `SystemDrainsTheRunner` | the six properties, of the process |
| `AuthSystemProofs` | `TypeCorrect`, `OwnWritesAreServed`, `WritesReachEveryReplica` | `TypeOK`, `OwnWritesAreSeen`, `WritesTakeEffect` |
| | `SignInsAreKeptUp`, `RegistryOnlyAdvances` | `SignInsKeepUp`, `RegistryNeverGoesBack` |
| | `ProviderWritesKeepAWayIn`, `SwitchesKeepTheMode` | `ProviderWritesLeaveAWayIn`, `SwitchKeepsTheMode` |

The arguments:

- *Queue.* `OneOutstanding` and `NewestTextQueued` are inductive together with the types: `Enqueue` refreshes the one outstanding row
  there is or appends the only one; no other statement makes a row outstanding. `SettledUnlessCrossed` is not inductive. It
  needs to know that a job ready to settle has reached its verdict (`VerdictReached`), that a job is about the text its
  row carries as long as its process owns the row and the row is not crossed (`RunIsAboutItsRow`), and that a row with a job has been
  claimed (`RunsWereCounted`, so that a row's first claim crosses nothing); together they are `SettleInv`. A re-claim keeps `RunIsAboutItsRow`
  because it puts the row into `crossed` exactly when the claimer still has a job of it about another text.
- *Promise.* The refinement adds that every job is about an accepted text (`TextsWereAccepted`). Each statement is then matched with
  a step of `EmbeddingPromise` by what it does to the entity's outstanding row: an upsert accepts, a claim tries, a settle with a
  verdict or the sweep of an exhausted row discharges, all else stutters.
- *Executor.* `NobodySleepsOnWork` says that while anybody sleeps, the queue is no longer than the number of workers on their way to the
  lock. A submission adds one to each, a worker that takes a task (woken for it or not) takes one from each, and nobody falls asleep over a non-empty queue.
  The invariant `IInv` adds what an exited worker (closed, queue empty) and a returned close (all exited) tell; draining then follows from the order.
  For `PoolPromise` each step is matched by what it does to queue and number of running workers; a worker that takes a task was not running, so there was a slot.
- *Dispatcher.* `StepIsPoolStep` first: the pool's theorems then hold of the intake. `Book` says who holds what: a worker has a job exactly while the
  pool has it running, a worker that waits for an executor is in exactly one queue or running set of one executor, and the executor in
  the map is open. `NothingRefused` needs the latter, and that the intake is closed only after the poller has left (`PollerHolds`).
  `NoLostWakeup` is inductive given the types: the poller goes to its select only when the intake is full, the table is empty, a claim failed or it is
  stopping, and whatever makes a row claimable or a worker free afterwards still has its signal to give. `ClaimsFit`: only the poller
  raises `inFlight`, so a claim still fits what `Drain` computed before it. `RowsInHand` follows each claimed row through batch, intake queue and worker, and `StoppersJoined` the order of `Stop`;
  together they give `StopLeavesNothing`. Nothing here depends on the numbers of rows, workers or stops; `MaxTasks` has only to be large
  enough for every attempt of every row, so that the pool's own bound is no limit.
- *Scheduler.* `LockInv` ties each lock to the replica at work on its row, in both directions, except for a session that
  was dropped. Spacing needs `ListInv`: what is left of a list was due by the minimum interval when it was read, and a row
  that the replica itself advanced since then is no longer on the list.
- *Freshness.* `RunInv` says, phase by phase, what is known of the resources nobody else has touched since the run began
  (`calm`): the match sets collected so far are what the rules want of them, the stored row differs from that exactly
  where a clear or mark is planned, and the entries due are those the log lacks. `KeptRun` deals with all other actors once: a step
  of anybody else either leaves a resource alone or makes it no longer calm.
- *Digest.* `LockInv`: at most one session holds the lock, and a process with active runs has one that holds it as often as it has runs, unless one was
  retired meanwhile. Hence the end of one run, whose unlock may hit or miss, never frees the lock under another one. `MailInv`: rows waiting to be marked were mailed, rows to be drained belong to an
  unreachable user or are gone. `Repeats` counts mails against unrecorded ones under `WorkInv` (what a run holds is disjoint)
  and `Alone` (without an overlap only one run holds anything).
- *Agent execution.* `VersionInv`: whoever read the row's present version knows its present status, unless the stream's end, which leaves the
  version alone, came in between; `StatusWrites` lists the three ways a step can write a status. `EventInv`: while no statement failed the log is
  an initial segment, and a number about to be used is at most its length, so the unique index drops it or it is the next.
  `AloneInv` follows an execution nobody interferes with: a stream's row stays pending until the consumer ends it unless the producer has recorded that it broke,
  a request's keeps the version of its insert until the outcome is recorded, and the agent's last state is the last on the channel, else in the row.
- *Bus.* `LockInv` is the manager's lock: no publisher is in its critical section once `Stop` is. `Custody` follows an accepted event: it is on the channel,
  among the deliveries at hand, or has reached the listener; `StopOrder` says that the channel is closed only when the dispatcher has emptied both.
  `InlineInv` splits what was accepted for an inline listener into what it was called with, the event at hand and what is on the channel, in this order.
  `EventsFor` is a recursive function, about which the prover knows nothing: `EventsForTable` shows that its value is the last of a table of
  values, and an induction over the length of the sequence (by the least counterexample, `Induction`) gives what appending an event and taking the head off do to it.
  `BreakersEarned`: a closed breaker has counted no more failures than events its listener gave up on, one that is not closed was
  opened by at least `MaxFailures` of them. It needs that no task is begun twice (`AcceptedOnce`, `Untouched`), so that what was given up stays given up.
- *Runner.* `RunnerInv` bounds slots and abandoned tasks together: a task is admitted below `4 * Limit` abandoned ones and into one of `Limit` slots, and `abandon`
  raises the count before it frees the slot.
- *Process.* Every step of `ProcessShutdown` is a step of the bus or a stutter, and a step of the runner or a stutter (`SystemRunsTheBus`,
  `SystemRunsTheRunner`), so what is proved of the parts holds of the whole, whatever the loads.
- *Writers.* `WritesInv`: a verdict that is still compared with the current shared version speaks of the providers as they are, and a switch still
  compared with the current policy carries its mode. The guard's verdict therefore holds at the write or the write is refused.
- *Cache.* `SeenInv`: what is kept, or about to be stored, for a version is no older than any write up to that version that the process, one of its
  requests or the table knows of; a snapshot of an older generation is not fresh. It rests on the order of reads: version first, content second. `TimeInv` adds that nothing a refresh keeps
  or reads was replaced before it began.
- *Registry.* `RegistryInv`: providers kept for a version are no older than any stored by that version, and a rebuild that lists is for no older version
  than the registry holds; without the second look (`LookAgain`) the latter fails.

Only model-checked:

- all liveness properties (`OutstandingIsSettled`, `AcceptedIsStarted`, `CloseTerminates`, `ClaimedWithoutTimer`, `StopTerminates`,
  `DueIsRun`, `Converges`, `HealthyTeamsAreServed`, `InvocationsEnd`, `AcceptedIsSettled`, `ExitIsReached`): fairness and `ENABLED` are outside what the provers handle;
- the two runs that end in a counterexample.

## Not modelled

Within the modelled parts:

- the dispatcher's in-memory mode (no database queue), starting it again after `Stop`, statistics; several teams' executors; text extraction and chunking;
- the scheduler's registration of handlers, which ends before it starts;
- deletion of resources and projects under freshness; settings CRUD; the separate statements of the schedule writes and of the sweep;
- artifacts, durations and statistics of agent executions, messages instead of task events in a stream, conversation columns;
- (un)subscribing and a second start or stop of the bus, backoff lengths, which errors are transient; a second `Shutdown` of the runner; the resource-access
  pool, the tracer and the metrics in the process's end; the dispatcher's and the scheduler's stop inside `Close`, which have modules of their own;
- of the authentication settings the import at start-up, admin grants and credentials, setup mode, `Health` and `TestProvider`, audit entries, and
  usable admin passwords that come and go while a writer is at work.

Whole components, with the reason each has in `PROJECT.json`: the scheduler's reconcile loop and the freshness schedules, OAuth signing keys, resource locks,
and everything in the second inventory table. Two places in them deserve attention: a replica keeps signing with its cached key after a rotation
elsewhere (`keys.go:173`), so the retired key has to stay published until no replica signs with it and its last token has run out; and unlocking a resource checks the
holder in one statement and clears the lock in another (`resource_lock.go:215-229`), so it may clear a lock taken in between.

## Plan

Done: every module above, in the order of the table, and the theorems above.

What is left, in this order:

1. `FreshnessSchedule`: `syncSchedule`, `provisionSchedule`, the settings writes and the sweep in separate steps, refining what `Freshness` takes as
   one step; a team with a rule has a schedule within a sweep.
2. `SigningKeys` and `ResourceLock`, each small, each with one question of its own (above).
3. An abstract register with bounded staleness that `SettingsCache` and `ProviderRegistry` implement, and an at-most-one-holder specification for the
   advisory locks of scheduler, digest and key rotation.
