------------------------- MODULE NotificationDigest -------------------------
(***************************************************************************)
(* The digest job: queue rows whose time has come are fetched under an     *)
(* advisory lock, grouped by user and team, mailed group by group through  *)
(* the team's provider, and marked sent.  The job is an HTTP request that  *)
(* a scheduler delivers at least once to any process; its context ends     *)
(* after the server's timeout, whereupon every further call fails.         *)
(*                                                                         *)
(* Every statement and every mail is a step.  Rows not yet due are absent. *)
(* Users and teams are looked at in no particular order: the code sorts    *)
(* them, and nothing depends on it.                                        *)
(***************************************************************************)
EXTENDS Integers, FiniteSets

CONSTANTS
  Processes,
  PoolSize,      \* PoolSize[p]: connections in the pool of process p
  Requests,      \* Requests[p]: digest requests process p serves at a time
  Rows, Users, Teams,
  Loads,         \* what happens outside: the rows there are, and the requests that come
  UserOf, TeamOf,
  Unreachable,   \* users without an address or with the email channel off
  BrokenTeams,   \* teams whose provider fails every mail
  MaxHeld,
  Faults,        \* which faults happen: a subset of {"call", "context", "crash"}
  MaxFaults      \* bound

ASSUME DigestAssumption ==
  /\ PoolSize \in [Processes -> Nat \ {0}] /\ Requests \in [Processes -> Nat \ {0}]
  /\ UserOf \in [Rows -> Users] /\ TeamOf \in [Rows -> Teams]
  /\ MaxHeld \in Nat \ {0} /\ MaxFaults \in Nat

Runs == UNION {{p} \X (1..Requests[p]) : p \in Processes}
Connections == UNION {{p} \X (1..PoolSize[p]) : p \in Processes}
Pool(p) == {c \in Connections : c[1] = p}

\* A row is pending, due later ("absent") or does not exist ("gone").
ASSUME LoadsAssumption ==
  Loads \subseteq [rows : [Rows -> {"absent", "pending", "gone"}], requests : SUBSET Runs]

VARIABLES
  requests,    \* the runs some request asks for, again and again
  row,         \* notification_digest_queue: absent, pending, sent, or gone with its notification
  held,        \* the advisory lock
  pc,          \* idle, locked, working or unlocking
  batch,       \* rows a run fetched and whose user's turn has not come
  drain,       \* of the user at hand: rows to be marked without a mail
  groups,      \* of the user at hand: rows of the teams not mailed yet
  unmarked,    \* rows of the group just mailed
  cancelled,   \* the run's context has ended
  faults,
  mails,       \* observed: mails sent that contained the row
  unrecorded,  \* observed: those of them whose send or MarkSent was not seen to succeed
  overlapped,  \* observed: a run started while another one was under way
  recycled     \* observed: processes that lost a lock-holding session under their present runs

vars == <<requests, row, held, pc, batch, drain, groups, unmarked, cancelled, faults, mails, unrecorded,
          overlapped, recycled>>
work == <<batch, drain, groups, unmarked>>
seen == <<mails, unrecorded, overlapped, recycled>>

Lock == INSTANCE PooledLock

Active(r) == pc[r] # "idle"

ActiveIn(p) == {r \in Runs : r[1] = p /\ Active(r)}

TypeOK ==
  /\ requests \subseteq Runs
  /\ row \in [Rows -> {"absent", "pending", "sent", "gone"}]
  /\ Lock!LockType
  /\ pc \in [Runs -> {"idle", "locked", "working", "unlocking"}]
  /\ batch \in [Runs -> SUBSET Rows] /\ drain \in [Runs -> SUBSET Rows]
  /\ groups \in [Runs -> SUBSET Rows] /\ unmarked \in [Runs -> SUBSET Rows]
  /\ cancelled \in [Runs -> BOOLEAN]
  /\ faults \in Nat
  /\ mails \in [Rows -> Nat] /\ unrecorded \in [Rows -> Nat]
  /\ overlapped \in BOOLEAN
  /\ recycled \subseteq Processes

Init ==
  /\ \E load \in Loads : requests = load.requests /\ row = load.rows
  /\ Lock!LockInit
  /\ pc = [r \in Runs |-> "idle"]
  /\ batch = [r \in Runs |-> {}] /\ drain = [r \in Runs |-> {}]
  /\ groups = [r \in Runs |-> {}] /\ unmarked = [r \in Runs |-> {}]
  /\ cancelled = [r \in Runs |-> FALSE]
  /\ faults = 0
  /\ mails = [x \in Rows |-> 0] /\ unrecorded = [x \in Rows |-> 0]
  /\ overlapped = FALSE
  /\ recycled = {}

-----------------------------------------------------------------------------
(* A run.                                                                  *)

Fault(kind) ==
  /\ kind \in Faults
  /\ faults < MaxFaults
  /\ faults' = faults + 1

\* A call of run r that works, and one that does not.
Works(r) == ~cancelled[r] /\ UNCHANGED faults
Fails(r) == IF cancelled[r] THEN UNCHANGED faults ELSE Fault("call")

\* The run starts only if the lock is obtained; otherwise the request ends at once.
Start(r) ==
  /\ r \in requests
  /\ pc[r] = "idle"
  /\ \E c \in Pool(r[1]) : Lock!TryLock(c)
  /\ pc' = [pc EXCEPT ![r] = "locked"]
  /\ overlapped' = (overlapped \/ \E q \in Runs : Active(q))
  /\ UNCHANGED <<requests, row, work, cancelled, faults, mails, unrecorded, recycled>>

\* Faulty variant: rows marked sent are fetched again.
NotGone == {x \in Rows : row[x] \in {"pending", "sent"}}

Pending == {x \in Rows : row[x] = "pending"}

FetchPending(r) ==
  /\ pc[r] = "locked"
  /\ \/ Works(r) /\ pc' = [pc EXCEPT ![r] = "working"]
                 /\ batch' = [batch EXCEPT ![r] = Pending]
     \/ Fails(r) /\ pc' = [pc EXCEPT ![r] = "unlocking"] /\ UNCHANGED batch
  /\ UNCHANGED <<requests, row, held, drain, groups, unmarked, cancelled, seen>>

BetweenUsers(r) == pc[r] = "working" /\ drain[r] = {} /\ groups[r] = {} /\ unmarked[r] = {}

Orphans(items) == {x \in items : row[x] = "gone"}

\* Look the user, the channel and the notifications up.  An unknown preference counts as "on".
ProcessUser(r) ==
  /\ BetweenUsers(r)
  /\ \E u \in {UserOf[x] : x \in batch[r]} :
       LET items == {x \in batch[r] : UserOf[x] = u} IN
       /\ batch' = [batch EXCEPT ![r] = @ \ items]
       /\ \/ Fails(r) /\ UNCHANGED <<drain, groups>>
          \/ /\ u \in Unreachable /\ Works(r)
             /\ drain' = [drain EXCEPT ![r] = items] /\ UNCHANGED groups
          \/ /\ IF u \in Unreachable THEN ~cancelled[r] /\ Fault("call") ELSE Works(r)
             /\ drain' = [drain EXCEPT ![r] = Orphans(items)]
             /\ groups' = [groups EXCEPT ![r] = items \ Orphans(items)]
  /\ UNCHANGED <<requests, row, held, pc, unmarked, cancelled, seen>>

MarkSent(ids) == [x \in Rows |-> IF x \in ids /\ row[x] = "pending" THEN "sent" ELSE row[x]]

DrainRows(r) ==
  /\ pc[r] = "working" /\ drain[r] # {}
  /\ \/ Works(r) /\ row' = MarkSent(drain[r])
     \/ Fails(r) /\ UNCHANGED row
  /\ drain' = [drain EXCEPT ![r] = {}]
  /\ UNCHANGED <<requests, held, pc, batch, groups, unmarked, cancelled, seen>>

Mailed(g) == [x \in Rows |-> IF x \in g THEN mails[x] + 1 ELSE mails[x]]

Unrecorded(ids) == [x \in Rows |-> IF x \in ids THEN unrecorded[x] + 1 ELSE unrecorded[x]]

\* The rows one mail is about.
GroupRows(r, t) == {x \in groups[r] : TeamOf[x] = t}

\* Faulty variant: a team that fails ends the user's digest.
NothingLeft(r, g) == {}

\* What is left of the user's digest when one team's mail fails.
AfterFailure(r, g) == groups[r] \ g

\* The provider takes the mail, takes it but its answer is lost, or fails.
SendTeamDigest(r) ==
  /\ pc[r] = "working" /\ drain[r] = {} /\ unmarked[r] = {}
  /\ \E t \in {TeamOf[x] : x \in groups[r]} :
       LET g == GroupRows(r, t) IN
       \/ /\ t \notin BrokenTeams /\ Works(r)
          /\ mails' = Mailed(g)
          /\ unmarked' = [unmarked EXCEPT ![r] = g]
          /\ groups' = [groups EXCEPT ![r] = @ \ g]
          /\ UNCHANGED unrecorded
       \/ /\ t \notin BrokenTeams /\ ~cancelled[r] /\ Fault("call")
          /\ mails' = Mailed(g) /\ unrecorded' = Unrecorded(g)
          /\ groups' = [groups EXCEPT ![r] = AfterFailure(r, g)]
          /\ UNCHANGED unmarked
       \/ /\ IF t \in BrokenTeams THEN UNCHANGED faults ELSE Fails(r)
          /\ groups' = [groups EXCEPT ![r] = AfterFailure(r, g)]
          /\ UNCHANGED <<mails, unmarked, unrecorded>>
  /\ UNCHANGED <<requests, row, held, pc, batch, drain, cancelled, overlapped, recycled>>

\* Faulty variant: one team's mail marks the rows of all the user's teams.
RecordUsersRows(r) ==
  /\ unmarked[r] # {}
  /\ \/ Works(r) /\ row' = MarkSent(unmarked[r] \cup groups[r]) /\ UNCHANGED unrecorded
     \/ Fails(r) /\ unrecorded' = Unrecorded(unmarked[r]) /\ UNCHANGED row
  /\ unmarked' = [unmarked EXCEPT ![r] = {}]
  /\ UNCHANGED <<requests, held, pc, batch, drain, groups, cancelled, mails, overlapped, recycled>>

RecordSent(r) ==
  /\ unmarked[r] # {}
  /\ \/ Works(r) /\ row' = MarkSent(unmarked[r]) /\ UNCHANGED unrecorded
     \/ Fails(r) /\ unrecorded' = Unrecorded(unmarked[r]) /\ UNCHANGED row
  /\ unmarked' = [unmarked EXCEPT ![r] = {}]
  /\ UNCHANGED <<requests, held, pc, batch, drain, groups, cancelled, mails, overlapped, recycled>>

EndOfBatch(r) ==
  /\ BetweenUsers(r) /\ batch[r] = {}
  /\ pc' = [pc EXCEPT ![r] = "unlocking"]
  /\ UNCHANGED <<requests, row, held, work, cancelled, faults, seen>>

\* The deferred unlock runs on any connection of the pool, with the request's own context.
Release(r) ==
  /\ pc[r] = "unlocking"
  /\ \/ Works(r) /\ \E c \in Pool(r[1]) : Lock!Unlock(c)
     \/ Fails(r) /\ UNCHANGED held
  /\ pc' = [pc EXCEPT ![r] = "idle"]
  /\ cancelled' = [cancelled EXCEPT ![r] = FALSE]
  /\ recycled' = IF ActiveIn(r[1]) = {r} THEN recycled \ {r[1]} ELSE recycled
  /\ UNCHANGED <<requests, row, work, mails, unrecorded, overlapped>>

-----------------------------------------------------------------------------
(* Everything else.                                                        *)

\* A queued notification's time comes.
Enqueue(x) ==
  /\ row[x] = "absent"
  /\ row' = [row EXCEPT ![x] = "pending"]
  /\ UNCHANGED <<requests, held, pc, work, cancelled, faults, seen>>

\* The notification is deleted, its row with it (ON DELETE CASCADE).
DeleteNotification(x) ==
  /\ row[x] \in {"pending", "sent"}
  /\ row' = [row EXCEPT ![x] = "gone"]
  /\ UNCHANGED <<requests, held, pc, work, cancelled, faults, seen>>

\* The server's request timeout, or a client that hung up.
ContextEnds(r) ==
  /\ Active(r) /\ ~cancelled[r]
  /\ Fault("context")
  /\ cancelled' = [cancelled EXCEPT ![r] = TRUE]
  /\ UNCHANGED <<requests, row, held, pc, work, seen>>

\* The pool retires a connection at the end of its lifetime; its session's locks are freed.
ConnectionExpires(c) ==
  /\ held[c] > 0
  /\ Lock!EndSessions({c})
  /\ recycled' = IF ActiveIn(c[1]) = {} THEN recycled ELSE recycled \cup {c[1]}
  /\ UNCHANGED <<requests, row, pc, work, cancelled, faults, mails, unrecorded, overlapped>>

Crash(p) ==
  /\ ActiveIn(p) # {}
  /\ Fault("crash")
  /\ Lock!EndSessions(Pool(p))
  /\ pc' = [r \in Runs |-> IF r[1] = p THEN "idle" ELSE pc[r]]
  /\ batch' = [r \in Runs |-> IF r[1] = p THEN {} ELSE batch[r]]
  /\ drain' = [r \in Runs |-> IF r[1] = p THEN {} ELSE drain[r]]
  /\ groups' = [r \in Runs |-> IF r[1] = p THEN {} ELSE groups[r]]
  /\ unmarked' = [r \in Runs |-> IF r[1] = p THEN {} ELSE unmarked[r]]
  /\ cancelled' = [r \in Runs |-> r[1] # p /\ cancelled[r]]
  /\ recycled' = recycled \ {p}
  /\ unrecorded' = Unrecorded(UNION {unmarked[r] : r \in ActiveIn(p)})
  /\ UNCHANGED <<requests, row, mails, overlapped>>

RunStep(r) ==
  \/ FetchPending(r) \/ ProcessUser(r) \/ DrainRows(r) \/ SendTeamDigest(r)
  \/ RecordSent(r) \/ EndOfBatch(r) \/ Release(r)

Next ==
  \/ \E r \in Runs : Start(r) \/ RunStep(r) \/ ContextEnds(r)
  \/ \E x \in Rows : Enqueue(x) \/ DeleteNotification(x)
  \/ \E c \in Connections : ConnectionExpires(c)
  \/ \E p \in Processes : Crash(p)

Spec == Init /\ [][Next]_vars

\* The job is triggered again and again, its steps are taken, and connections have a lifetime.
Fairness ==
  /\ \A r \in Runs : WF_vars(Start(r)) /\ WF_vars(RunStep(r))
  /\ \A c \in Connections : WF_vars(ConnectionExpires(c))

FairSpec == Spec /\ Fairness

-----------------------------------------------------------------------------
(* Properties.                                                             *)

\* What the comment on the lock's key says: one run at a time (digest.go:70-74).  It does not hold
\* with two requests in a process, the second may be handed the session that has the lock.
OneRunAtATime == \A r, q \in Runs : Active(r) /\ Active(q) => r = q

\* What the pooled lock does give, however many runs a process has and wherever their unlocks go:
\* runs of two processes overlap only after the pool retired the session that held the lock of one.
ProcessesStayApart ==
  \A r, q \in Runs : Active(r) /\ Active(q) /\ r[1] # q[1] => r[1] \in recycled \/ q[1] \in recycled

\* No row of a reachable user is retired without having been in a mail, whichever teams, calls
\* and runs failed before.
RetiredWasMailed ==
  \A x \in Rows : row[x] = "sent" /\ UserOf[x] \notin Unreachable => mails[x] > 0

\* As long as runs did not overlap, a row is in a second mail only because the first could not be
\* recorded: one mail more than the unrecorded ones, at most.
RepeatsAreUnrecorded == ~overlapped => \A x \in Rows : mails[x] <= unrecorded[x] + 1

\* A pending row of a team whose provider works is mailed or drained in the end, whatever other
\* teams' providers do and wherever unlocks went.
HealthyTeamsAreServed ==
  \A x \in Rows : TeamOf[x] \notin BrokenTeams => (row[x] = "pending" ~> row[x] # "pending")
=============================================================================
