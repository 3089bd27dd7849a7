------------------------------ MODULE Scheduler ------------------------------
(***************************************************************************)
(* The in-process job scheduler: every replica polls one schedules table,  *)
(* claims each due row under a Postgres session lock keyed by the row's id *)
(* and runs the handler of its job type, then advances the row.            *)
(*                                                                         *)
(* A statement, a lock call and a handler are steps of their own; the list *)
(* of due rows a tick read is worked off afterwards, while other replicas  *)
(* and the writers of schedules go on.  One job type: a row per team.      *)
(***************************************************************************)
EXTENDS Integers, Sequences, FiniteSets

CONSTANTS
  Replicas,     \* the processes that run the scheduler
  NoReplica,
  Teams,
  Registered,   \* the teams whose schedule has a handler (stands for job types)
  Intervals,    \* the intervals a schedule may be given
  MinInterval,  \* the CHECK of migration 012: no interval is shorter
  DueLimit,     \* cfg.DueLimit
  NoRow,
  Never,        \* last_run_at IS NULL
  Stored,       \* the teams whose row is in the table at the start
  Written,      \* the teams whose row is written meanwhile
  Writers,      \* which writes happen: a subset of {"upsert", "delete"}
  Closing,      \* the replicas that may be shut down
  MaxClock,     \* bound: the database clock
  MaxIds,       \* bound: rows ever inserted
  MaxFaults     \* bound: failed statements, crashes and lost sessions
CONSTANT
  Faults        \* which faults happen: a subset of {"statement", "crash", "session"}

ASSUME SchedulerAssumption ==
  /\ NoReplica \notin Replicas
  /\ IsFiniteSet(Teams)
  /\ Registered \subseteq Teams
  /\ MinInterval \in Nat \ {0}
  /\ Intervals \subseteq {i \in Nat : i >= MinInterval}
  /\ DueLimit \in Nat \ {0}
  /\ Never \notin Nat
  /\ MaxClock \in Nat /\ MaxIds \in Nat /\ MaxFaults \in Nat
  /\ Stored \subseteq Teams /\ Cardinality(Stored) <= MaxIds

Ids == 1..MaxIds
Rows == [id : Ids, interval : Intervals, last : Nat \cup {Never}, next : Nat]

ASSUME NoRowAssumption == NoRow \notin Rows

VARIABLES
  clock,      \* now() of the database, shared by all replicas
  row,        \* row[t]: the schedules row of team t
  nextId,     \* the next id gen_random_uuid would give
  lock,       \* lock[i]: whose session holds the advisory lock of row i
  pc,         \* pc[r]: where replica r's loop is
  due,        \* due[r]: what is left of the list the tick read
  cancelled,  \* cancelled[r]: Close has cancelled r's context
  faults,     \* faults so far
  \* observed, not part of the program:
  dropped,    \* dropped[r]: r's lock session is gone and its run goes on
  ranBy       \* ranBy[t]: who recorded the last run of team t

vars == <<clock, row, nextId, lock, pc, due, cancelled, faults, dropped, ranBy>>

(* The table outlives the processes: rows may be due when they start. *)
Init ==
  /\ clock = 0
  /\ \E ids \in [Stored -> 1..Cardinality(Stored)], i \in Intervals :
       /\ \A t, u \in Stored : ids[t] = ids[u] => t = u
       /\ row = [t \in Teams |->
            IF t \in Stored THEN [id |-> ids[t], interval |-> i, last |-> Never, next |-> 0] ELSE NoRow]
  /\ nextId = Cardinality(Stored) + 1
  /\ lock = [i \in Ids |-> NoReplica]
  /\ pc = [r \in Replicas |-> "waiting"]
  /\ due = [r \in Replicas |-> <<>>]
  /\ cancelled = [r \in Replicas |-> FALSE]
  /\ faults = 0
  /\ dropped = [r \in Replicas |-> FALSE]
  /\ ranBy = [t \in Teams |-> NoReplica]

Fault(kind) ==
  /\ kind \in Faults
  /\ faults < MaxFaults
  /\ faults' = faults + 1

-----------------------------------------------------------------------------
(* The clock and the writers of schedules. *)

ClockTick ==
  /\ clock < MaxClock
  /\ clock' = clock + 1
  /\ UNCHANGED <<row, nextId, lock, pc, due, cancelled, faults, dropped, ranBy>>

(* INSERT .. ON CONFLICT DO UPDATE: a new row gets a new id and has never   *)
(* run, an old one keeps its id and its last run; both are due at once.     *)
Upsert(t, i) ==
  /\ t \in Written /\ "upsert" \in Writers
  /\ IF row[t] = NoRow
     THEN /\ nextId \in Ids
          /\ row' = [row EXCEPT ![t] = [id |-> nextId, interval |-> i, last |-> Never, next |-> clock]]
          /\ nextId' = nextId + 1
     ELSE /\ row' = [row EXCEPT ![t] = [id |-> row[t].id, interval |-> i, last |-> row[t].last, next |-> clock]]
          /\ UNCHANGED nextId
  /\ UNCHANGED <<clock, lock, pc, due, cancelled, faults, dropped, ranBy>>

Delete(t) ==
  /\ t \in Written /\ "delete" \in Writers
  /\ row[t] # NoRow
  /\ row' = [row EXCEPT ![t] = NoRow]
  /\ UNCHANGED <<clock, nextId, lock, pc, due, cancelled, faults, dropped, ranBy>>

-----------------------------------------------------------------------------
(* The loop of one replica. *)

\* Faulty variant: next_run_at alone decides.
DueByNextOnly(t) == row[t] # NoRow /\ row[t].next <= clock
(* The WHERE of ListDue: due, and an interval after the last run. *)
Due(t) ==
  /\ row[t] # NoRow
  /\ row[t].next <= clock
  /\ row[t].last = Never \/ row[t].last + row[t].interval <= clock

DueTeams == {t \in Teams : Due(t)}

(* ORDER BY next_run_at, id LIMIT: ids are random, so they break ties any way. *)
MostOverdueFirst(s) ==
  /\ \A i, j \in DOMAIN s : i < j => row[s[i]].next <= row[s[j]].next
  /\ \A i \in DOMAIN s, t \in DueTeams \ {s[j] : j \in DOMAIN s} : row[s[i]].next <= row[t].next

\* Faulty variant: a full list is one row short.
ListingsOneShort ==
  LET n == IF Cardinality(DueTeams) < DueLimit THEN Cardinality(DueTeams) ELSE DueLimit - 1
  IN  {s \in [1..n -> DueTeams] : (\A i, j \in 1..n : s[i] = s[j] => i = j) /\ MostOverdueFirst(s)}
Listings ==
  LET n == IF Cardinality(DueTeams) < DueLimit THEN Cardinality(DueTeams) ELSE DueLimit
  IN  {s \in [1..n -> DueTeams] : (\A i, j \in 1..n : s[i] = s[j] => i = j) /\ MostOverdueFirst(s)}

(* A tick fires and reads the due rows; a failed read changes nothing. *)
ListDue(r) ==
  /\ pc[r] = "waiting"
  /\ ~cancelled[r]
  /\ DueTeams # {}
  /\ \E s \in Listings :
       due' = [due EXCEPT ![r] = [i \in DOMAIN s |-> [team |-> s[i], id |-> row[s[i]].id]]]
  /\ pc' = [pc EXCEPT ![r] = "listed"]
  /\ UNCHANGED <<clock, row, nextId, lock, cancelled, faults, dropped, ranBy>>

Sched(r) == Head(due[r])
Turn(r) == pc[r] = "listed" /\ due[r] # <<>>

EndTick(r) ==
  /\ pc[r] = "listed"
  /\ due[r] = <<>>
  /\ pc' = [pc EXCEPT ![r] = "waiting"]
  /\ UNCHANGED <<clock, row, nextId, lock, due, cancelled, faults, dropped, ranBy>>

\* Faulty variant: the answer of pg_try_advisory_lock is not looked at.
AnyAnswer(i) == i \in Ids
Lockable(i) == lock[i] = NoReplica

MayConnect(r) == ~cancelled[r]

(* runDue returns before the handler: no handler, no connection, no answer  *)
(* or the lock is another session's.  The row stays due.                    *)
Skip(r) ==
  /\ Turn(r)
  /\ \/ /\ \/ Sched(r).team \notin Registered
           \/ ~MayConnect(r)
           \/ ~Lockable(Sched(r).id)
        /\ UNCHANGED faults
     \/ Fault("statement")
  /\ due' = [due EXCEPT ![r] = Tail(due[r])]
  /\ UNCHANGED <<clock, row, nextId, lock, pc, cancelled, dropped, ranBy>>

(* pg_try_advisory_lock on the pinned connection. *)
Claim(r) ==
  /\ Turn(r)
  /\ Sched(r).team \in Registered
  /\ MayConnect(r)
  /\ Lockable(Sched(r).id)
  /\ lock' = [lock EXCEPT ![Sched(r).id] = r]
  /\ pc' = [pc EXCEPT ![r] = "locked"]
  /\ UNCHANGED <<clock, row, nextId, due, cancelled, faults, dropped, ranBy>>

(* The handler starts without another look at the context or the row: Close *)
(* may have cancelled the loop since, and the row may be gone.              *)
StartHandler(r) ==
  /\ pc[r] = "locked"
  /\ pc' = [pc EXCEPT ![r] = "running"]
  /\ UNCHANGED <<clock, row, nextId, lock, due, cancelled, faults, dropped, ranBy>>

(* The handler returns, fails, panics or times out: all the same here. *)
HandlerReturns(r) ==
  /\ pc[r] = "running"
  /\ pc' = [pc EXCEPT ![r] = "returned"]
  /\ UNCHANGED <<clock, row, nextId, lock, due, cancelled, faults, dropped, ranBy>>

Advanced(old) == [id |-> old.id, interval |-> old.interval, last |-> clock, next |-> clock + old.interval]

(* UPDATE by id: it fails when the context is cancelled or the row is gone. *)
MarkRun(r) ==
  /\ pc[r] = "returned"
  /\ LET t == Sched(r).team
         found == row[t] # NoRow /\ row[t].id = Sched(r).id
     IN  \/ /\ ~cancelled[r] /\ found
            /\ row' = [row EXCEPT ![t] = Advanced(row[t])]
            /\ ranBy' = [ranBy EXCEPT ![t] = r]
            /\ UNCHANGED faults
         \/ /\ cancelled[r] \/ ~found
            /\ UNCHANGED <<row, ranBy, faults>>
         \/ /\ Fault("statement")
            /\ UNCHANGED <<row, ranBy>>
  /\ pc' = [pc EXCEPT ![r] = "marked"]
  /\ UNCHANGED <<clock, nextId, lock, due, cancelled, dropped>>

\* Faulty variant: the unlock runs on the loop's context.
UnlockedUnlessCancelled(r) ==
  [lock EXCEPT ![Sched(r).id] = IF lock[Sched(r).id] = r /\ ~cancelled[r] THEN NoReplica ELSE lock[Sched(r).id]]
(* The unlock runs on a background context; without the session it fails. *)
Unlocked(r) ==
  [lock EXCEPT ![Sched(r).id] = IF lock[Sched(r).id] = r THEN NoReplica ELSE lock[Sched(r).id]]

Unlock(r) ==
  /\ pc[r] = "marked"
  /\ lock' = Unlocked(r)
  /\ due' = [due EXCEPT ![r] = Tail(due[r])]
  /\ pc' = [pc EXCEPT ![r] = "listed"]
  /\ dropped' = [dropped EXCEPT ![r] = FALSE]
  /\ UNCHANGED <<clock, row, nextId, cancelled, faults, ranBy>>

(* Close: cancel, then wait for the loop to return. *)
Cancel(r) ==
  /\ r \in Closing
  /\ ~cancelled[r]
  /\ cancelled' = [cancelled EXCEPT ![r] = TRUE]
  /\ UNCHANGED <<clock, row, nextId, lock, pc, due, faults, dropped, ranBy>>

LoopReturns(r) ==
  /\ pc[r] = "waiting"
  /\ cancelled[r]
  /\ pc' = [pc EXCEPT ![r] = "closed"]
  /\ UNCHANGED <<clock, row, nextId, lock, due, cancelled, faults, dropped, ranBy>>

-----------------------------------------------------------------------------
(* Failures outside the program. *)

Released(r) == [i \in Ids |-> IF lock[i] = r THEN NoReplica ELSE lock[i]]

(* The process dies and starts again: its sessions are gone. *)
Crash(r) ==
  /\ Fault("crash")
  /\ pc[r] # "closed"
  /\ lock' = Released(r)
  /\ pc' = [pc EXCEPT ![r] = "waiting"]
  /\ due' = [due EXCEPT ![r] = <<>>]
  /\ cancelled' = [cancelled EXCEPT ![r] = FALSE]
  /\ dropped' = [dropped EXCEPT ![r] = FALSE]
  /\ UNCHANGED <<clock, row, nextId, ranBy>>

(* The pinned connection drops; the handler does not notice. *)
LoseSession(r) ==
  /\ Fault("session")
  /\ \E i \in Ids : lock[i] = r
  /\ lock' = Released(r)
  /\ dropped' = [dropped EXCEPT ![r] = TRUE]
  /\ UNCHANGED <<clock, row, nextId, pc, due, cancelled, ranBy>>

RunDue(r) == Skip(r) \/ Claim(r) \/ StartHandler(r) \/ HandlerReturns(r) \/ MarkRun(r) \/ Unlock(r)
Loop(r) == ListDue(r) \/ RunDue(r) \/ EndTick(r) \/ LoopReturns(r)

Next ==
  \/ ClockTick
  \/ \E t \in Teams : Delete(t) \/ \E i \in Intervals : Upsert(t, i)
  \/ \E r \in Replicas : Loop(r) \/ Cancel(r) \/ Crash(r) \/ LoseSession(r)

Spec == Init /\ [][Next]_vars

(* The loop's goroutine is scheduled, its ticker fires and handlers return  *)
(* (they get a deadline).  Nothing has to fail, to write or to shut down.   *)
LiveSpec == Spec /\ \A r \in Replicas : WF_vars(Loop(r))

-----------------------------------------------------------------------------
Working == {r \in Replicas : pc[r] \in {"locked", "running", "returned", "marked"}}

(* Every variable has its type; a stored row has an id of its own and has    *)
(* not run in the future, whatever replica advanced it.                      *)
RowOK(t) ==
  /\ row[t].id < nextId
  /\ row[t].last # Never => row[t].last <= clock
  /\ \A u \in Teams \ {t} : row[u] # NoRow => row[u].id # row[t].id

TypeOK ==
  /\ clock \in Nat
  /\ row \in [Teams -> Rows \cup {NoRow}]
  /\ \A t \in Teams : row[t] # NoRow => RowOK(t)
  /\ nextId \in Nat \ {0}
  /\ lock \in [Ids -> Replicas \cup {NoReplica}]
  /\ pc \in [Replicas -> {"waiting", "listed", "locked", "running", "returned", "marked", "closed"}]
  /\ due \in [Replicas -> Seq([team : Teams, id : Ids])]
  /\ \A r \in Working : due[r] # <<>>
  /\ cancelled \in [Replicas -> BOOLEAN]
  /\ faults \in Nat
  /\ dropped \in [Replicas -> BOOLEAN]
  /\ ranBy \in [Teams -> Replicas \cup {NoReplica}]

(* A row is worked on by one replica at a time, from claim to unlock, across *)
(* crashes and restarts; only a run whose session has dropped may overlap.   *)
OneRunPerRow ==
  \A r, q \in Working :
    Sched(r).id = Sched(q).id /\ ~dropped[r] /\ ~dropped[q] => r = q

(* A lock is held only by a replica at work on its row: an error path, a     *)
(* shutdown or a crash leaves no schedule locked for ever.                   *)
LocksAreInUse ==
  \A i \in Ids : lock[i] # NoReplica => lock[i] \in Working /\ Sched(lock[i]).id = i

Starts(r) == pc[r] = "locked" /\ pc'[r] = "running"

(* The interval since the run last recorded in the listed row is over. *)
IntervalPassed(sched) ==
  LET now == row[sched.team]
  IN  now # NoRow /\ now.id = sched.id /\ now.last # Never => now.last + MinInterval <= clock

(* A replica starts a row's handler at least the minimum interval after the  *)
(* last run that it has itself recorded for the row, however often the row   *)
(* was re-armed in between and however old the list it works off.            *)
OwnRunsAreSpaced ==
  [][\A r \in Replicas :
       Starts(r) /\ ranBy[Sched(r).team] = r => IntervalPassed(Sched(r))]_vars

(* The same, whoever recorded the last run.  It does not hold: a replica runs *)
(* a row off a list older than the run another one has recorded.             *)
RunsAreSpaced == [][\A r \in Replicas : Starts(r) => IntervalPassed(Sched(r))]_vars

(* As long as the rows nobody handles do not fill the list, a due row with a *)
(* handler does not stay due.  Such a row is never advanced: it keeps its    *)
(* place at the head of every list, and DueLimit of them hold back the rest. *)
DueIsRun ==
  Cardinality(Teams \ Registered) < DueLimit => \A t \in Registered : Due(t) ~> ~Due(t)
=============================================================================
