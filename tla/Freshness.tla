----------------------------- MODULE Freshness -----------------------------
(***************************************************************************)
(* The freshness state of one team: which of its resources are stale and   *)
(* by which rules (table resource_freshness), and the log of the marks and *)
(* clears (resource_freshness_audit).  Three kinds of actors write them,   *)
(* one statement at a time and without a common transaction:               *)
(*   - evaluation runs (services/freshness/evaluate.go): load the enabled  *)
(*     rules, query what each of them matches, read the stored rows, clear,*)
(*     mark, and at last repair the log; the scheduler starts them;        *)
(*   - clearers (services/freshness/clear.go): after an access or an edit  *)
(*     of a resource they take its row away;                               *)
(*   - administrators (services/freshness.go): create, update and delete   *)
(*     rules, and switch reversibility; each write also brings the team's  *)
(*     row of the schedules table in line, which is there while the team   *)
(*     has a rule and without which no run is started.                     *)
(* A run may be cut short at any point: a statement fails, the job times   *)
(* out or the process dies.  So may a clearer or the deletion of a rule.   *)
(*                                                                         *)
(* Of a timestamp only this matters: whether it is younger than the        *)
(* threshold.  recent[x] holds the columns of x that are; a medium stands  *)
(* for its last_accessed column and Edit for updated_at.  Of an audit log  *)
(* only the newest entry of each resource is kept, the one that            *)
(* ListStaleResourcesMissingMark looks at.                                 *)
(***************************************************************************)
EXTENDS Naturals

CONSTANTS Resources,   \* the team's resources
          Rules,       \* rule ids; a deleted id is not used again
          Mediums,     \* access mediums
          Forms,       \* Forms[u]: the definitions that may be saved for rule u
          Evaluators,  \* evaluation runs that may be under way at once
          Clearers,    \* accesses and edits that may be under way at once
          Edit,        \* the touch that is no access
          NoRow,       \* the resource has no row: it is not stale
          NoRule,      \* the rule was not created yet
          Deleted      \* the rule was deleted

RuleForms == [enabled: BOOLEAN, mediums: SUBSET Mediums, scope: SUBSET Resources]

ASSUME EditIsNoMedium == Edit \notin Mediums
ASSUME FormsAreRules  == Forms \in [Rules -> SUBSET RuleForms]
ASSUME NoRowIsNoSet   == \A S \in SUBSET Rules : NoRow # S
ASSUME NoFormIsNoRule == NoRule # Deleted /\ \A f \in RuleForms : f # NoRule /\ f # Deleted

VARIABLES
  rule,        \* rule[u]: freshness_rules
  deleting,    \* rules whose ids were stripped and whose row is about to go
  reversible,  \* the team's reversibility setting
  scheduled,   \* the team has its row in the schedules table
  recent,      \* recent[x]: timestamps of x younger than the threshold
  row,         \* row[x]: matched_rule_ids of the row of x, NoRow without one
  newest,      \* newest[x]: action of the newest audit entry of x
  ev,          \* ev[e]: the local state of an evaluation run
  clr,         \* clr[c]: the local state of a clearer
  still,       \* observed: no outside event and no failure from here on
  calm,        \* observed: calm[e], what only run e changed since it started
  agreed       \* observed: agreed[e], calm and in order when the run started

tables   == <<row, newest>>
settings == <<rule, deleting, reversible, scheduled>>
observed == <<still, calm, agreed>>
vars     == <<settings, recent, tables, ev, clr, observed>>

Touches == Mediums \cup {Edit}
Actions == {"none", "marked", "cleared"}

(***************************************************************************)
(* What the rules say.                                                     *)
(***************************************************************************)
Watched(f) == IF f.mediums = {} THEN Mediums ELSE f.mediums

\* ListStaleCandidates: GREATEST(updated_at, the watched columns) is older
\* than the threshold, i.e. none of these columns is recent.
Matches(f, x) == x \in f.scope /\ recent[x] \cap (Watched(f) \cup {Edit}) = {}

Exists(rs, u) == rs[u] \notin {NoRule, Deleted}
Enabled(rs) == {u \in Rules : Exists(rs, u) /\ rs[u].enabled}

\* The rules that make x stale now, and the row they ask for.
Wanted(x) == {u \in Enabled(rule) : Matches(rule[u], x)}
WantedRow(x) == IF Wanted(x) = {} THEN NoRow ELSE Wanted(x)

Live(x)      == row[x] # NoRow
LogAgrees(x) == Live(x) => newest[x] = "marked"
InOrder(x)   == row[x] = WantedRow(x) /\ LogAgrees(x)

\* ListStaleResourcesMissingMark.
Missing(x)   == Live(x) /\ newest[x] # "marked"

(***************************************************************************)
(* An evaluation run.  forms: the definitions loaded and not yet queried,  *)
(* and which rules were deleted by then; clears and marks: what is left to *)
(* write; repairs: entries left to write; debt: the audit entry due for the*)
(* statement just executed.                                                *)
(***************************************************************************)
NoDesire == [x \in Resources |-> {}]
NoRun == [phase |-> "idle", forms |-> [u \in Rules |-> NoRule],
          desired |-> NoDesire, clears |-> {}, marks |-> {}, repairs |-> {},
          debt |-> {}]

Phases == {"idle", "due", "match", "write", "repair"}
Runs == [phase: Phases, forms: [Rules -> RuleForms \cup {NoRule, Deleted}],
         desired: [Resources -> SUBSET Rules],
         clears: SUBSET Resources, marks: SUBSET Resources,
         repairs: SUBSET Resources,
         debt: SUBSET (Resources \X {"marked", "cleared"})]

NoCall == [at |-> "idle"]
Calls == {NoCall}
  \cup [at: {"look"}, x: Resources, by: Touches]
  \cup [at: {"rules"}, x: Resources, by: Mediums, matched: SUBSET Rules]
  \cup [at: {"settings", "delete", "record"}, x: Resources]

TypeOK ==
  /\ rule \in [Rules -> RuleForms \cup {NoRule, Deleted}]
  /\ deleting \subseteq Rules
  /\ reversible \in BOOLEAN
  /\ scheduled \in BOOLEAN
  /\ recent \in [Resources -> SUBSET Touches]
  /\ row \in [Resources -> {NoRow} \cup {S \in SUBSET Rules : S # {}}]
  /\ newest \in [Resources -> Actions]
  /\ ev \in [Evaluators -> Runs]
  /\ clr \in [Clearers -> Calls]
  /\ still \in BOOLEAN
  /\ calm \in [Evaluators -> SUBSET Resources]
  /\ agreed \in [Evaluators -> SUBSET Resources]

Init ==
  /\ rule = [u \in Rules |-> NoRule]
  /\ deleting = {}
  /\ reversible \in BOOLEAN
  /\ scheduled = FALSE
  /\ recent = [x \in Resources |-> Touches]
  /\ row = [x \in Resources |-> NoRow]
  /\ newest = [x \in Resources |-> "none"]
  /\ ev = [e \in Evaluators |-> NoRun]
  /\ clr = [c \in Clearers |-> NoCall]
  /\ still = FALSE
  /\ calm = [e \in Evaluators |-> {}]
  /\ agreed = [e \in Evaluators |-> {}]

\* Somebody other than run e changed what concerns the resources X.
Disturbed(watch, X, e) ==
  [f \in Evaluators |-> IF f = e THEN watch[f] ELSE watch[f] \ X]
DisturbOthers(X, e) ==
  /\ calm' = Disturbed(calm, X, e)
  /\ agreed' = Disturbed(agreed, X, e)
  /\ still' = still
Disturb(X) ==
  /\ calm' = [f \in Evaluators |-> calm[f] \ X]
  /\ agreed' = [f \in Evaluators |-> agreed[f] \ X]
  /\ still' = still

Becomes(e, run) == ev' = [ev EXCEPT ![e] = run]

-----------------------------------------------------------------------------
\* The scheduler lists the team's row; the run starts somewhat later.
BecomeDue(e) ==
  /\ ev[e].phase = "idle"
  /\ scheduled
  /\ Becomes(e, [NoRun EXCEPT !.phase = "due"])
  /\ UNCHANGED <<settings, recent, tables, clr, observed>>

Loaded == [u \in Rules |->
  IF u \in Enabled(rule) \/ rule[u] = Deleted THEN rule[u] ELSE NoRule]

\* Evaluate: load the enabled rules; no enabled rule is no early exit.
LoadRules(e) ==
  /\ ev[e].phase = "due"
  /\ Becomes(e, [NoRun EXCEPT !.phase = "match", !.forms = Loaded])
  /\ calm' = [calm EXCEPT ![e] = Resources]
  /\ agreed' = [agreed EXCEPT ![e] = {x \in Resources : InOrder(x)}]
  /\ UNCHANGED <<settings, recent, tables, clr, still>>

\* collectRuleMatches: one query, with the definition loaded at the start.
CollectRuleMatches(e, u) ==
  /\ ev[e].phase = "match"
  /\ u \in Enabled(ev[e].forms)
  /\ LET hit == {x \in Resources : Matches(ev[e].forms[u], x)}
     IN  Becomes(e, [ev[e] EXCEPT
           !.forms = [ev[e].forms EXCEPT ![u] = NoRule],
           !.desired = [x \in Resources |->
              IF x \in hit THEN ev[e].desired[x] \cup {u} ELSE ev[e].desired[x]]])
  /\ UNCHANGED <<settings, recent, tables, clr, observed>>

\* ListAllByTeam, and from that snapshot the clears and marks of the run: a
\* row nothing matches is cleared, a row with the right rules left alone.
EmptyDesireClearsNothing(stored, desired) ==          \* fault: an early exit
  IF desired = NoDesire THEN {}
  ELSE {x \in Resources : stored[x] # NoRow /\ desired[x] = {}}
ToClear(stored, desired) ==
  {x \in Resources : stored[x] # NoRow /\ desired[x] = {}}
EveryStaleRowAgain(stored, desired) ==                \* fault: no comparison
  {x \in Resources : desired[x] # {}}
ToMark(stored, desired) ==
  {x \in Resources : desired[x] # {} /\ stored[x] # desired[x]}

ListAllByTeam(e) ==
  /\ ev[e].phase = "match"
  /\ Enabled(ev[e].forms) = {}
  /\ Becomes(e, [ev[e] EXCEPT !.phase = "write",
                   !.clears = ToClear(row, ev[e].desired),
                   !.marks = ToMark(row, ev[e].desired)])
  /\ UNCHANGED <<settings, recent, tables, clr, observed>>

\* clearStale: an audit entry is due only if a row was there to be deleted.
ClearStale(e, x) ==
  /\ ev[e].phase = "write"
  /\ ev[e].debt = {}
  /\ x \in ev[e].clears
  /\ row' = [row EXCEPT ![x] = NoRow]
  /\ Becomes(e, [ev[e] EXCEPT !.clears = ev[e].clears \ {x},
                   !.debt = IF Live(x) THEN {<<x, "cleared">>} ELSE {}])
  /\ DisturbOthers(IF Live(x) THEN {x} ELSE {}, e)
  /\ UNCHANGED <<settings, recent, newest, clr>>

\* markStale, after every clear: the upsert tells whether it inserted, and
\* only then an audit entry is due.
MarkStale(e, x) ==
  /\ ev[e].phase = "write"
  /\ ev[e].debt = {}
  /\ ev[e].clears = {}
  /\ x \in ev[e].marks
  /\ row' = [row EXCEPT ![x] = ev[e].desired[x]]
  /\ Becomes(e, [ev[e] EXCEPT !.marks = ev[e].marks \ {x},
                   !.debt = IF Live(x) THEN {} ELSE {<<x, "marked">>}])
  /\ DisturbOthers({x}, e)
  /\ UNCHANGED <<settings, recent, newest, clr>>

\* recordAudit for the row just inserted or deleted.
RecordAudit(e) ==
  \E entry \in ev[e].debt :
    /\ newest' = [newest EXCEPT ![entry[1]] = entry[2]]
    /\ Becomes(e, [ev[e] EXCEPT !.debt = {}])
    /\ DisturbOthers({entry[1]}, e)
    /\ UNCHANGED <<settings, recent, row, clr>>

\* repairMissingMarks asks for the live rows whose newest entry is no mark,
\* and skips those this run knows nothing about.
ListMissingMarks(e) ==
  /\ ev[e].phase = "write"
  /\ ev[e].debt = {}
  /\ ev[e].clears = {} /\ ev[e].marks = {}
  /\ Becomes(e, [ev[e] EXCEPT !.phase = "repair",
                   !.repairs = {x \in Resources : Missing(x) /\ ev[e].desired[x] # {}}])
  /\ UNCHANGED <<settings, recent, tables, clr, observed>>

RepairMark(e, x) ==
  /\ ev[e].phase = "repair"
  /\ x \in ev[e].repairs
  /\ newest' = [newest EXCEPT ![x] = "marked"]
  /\ Becomes(e, [ev[e] EXCEPT !.repairs = ev[e].repairs \ {x}])
  /\ DisturbOthers({x}, e)
  /\ UNCHANGED <<settings, recent, row, clr>>

Finished(e) == ev[e].phase = "repair" /\ ev[e].repairs = {}

RunEnds(e) ==
  /\ Becomes(e, NoRun)
  /\ calm' = [calm EXCEPT ![e] = {}]
  /\ agreed' = [agreed EXCEPT ![e] = {}]
  /\ UNCHANGED <<settings, recent, tables, clr, still>>

Finish(e) == Finished(e) /\ RunEnds(e)

\* A statement fails, the job times out or the process dies.
Abort(e) == ~still /\ ev[e].phase # "idle" /\ RunEnds(e)

Evaluate(e) ==
  \/ BecomeDue(e) \/ LoadRules(e)
  \/ \E u \in Rules : CollectRuleMatches(e, u)
  \/ ListAllByTeam(e)
  \/ \E x \in Resources : ClearStale(e, x) \/ MarkStale(e, x) \/ RepairMark(e, x)
  \/ RecordAudit(e)
  \/ ListMissingMarks(e)
  \/ Finish(e)

-----------------------------------------------------------------------------
(***************************************************************************)
(* A clearer.  The touch is on record before ClearIfStale starts, except   *)
(* that an access whose last_accessed column could not be written is logged*)
(* and goes on (denormalizeLastAccessed).                                  *)
(***************************************************************************)
Calling(c, call) == clr' = [clr EXCEPT ![c] = call]

Touch(c, x, by, landed) ==
  /\ ~still
  /\ clr[c] = NoCall
  /\ landed \/ by # Edit
  /\ recent' = IF landed THEN [recent EXCEPT ![x] = recent[x] \cup {by}] ELSE recent
  /\ Calling(c, [at |-> "look", x |-> x, by |-> by])
  /\ Disturb(IF landed THEN {x} ELSE {})
  /\ UNCHANGED <<settings, tables, ev>>

At(c, at) == clr[c].at = at
GoOn(c, at) == Calling(c, [at |-> at, x |-> clr[c].x])

\* GetByResource; an edit skips the medium check.
Look(c) ==
  /\ At(c, "look")
  /\ LET x == clr[c].x
     IN  IF ~Live(x) THEN Calling(c, NoCall)
         ELSE IF clr[c].by = Edit THEN GoOn(c, "settings")
         ELSE Calling(c, [at |-> "rules", x |-> x, by |-> clr[c].by, matched |-> row[x]])
  /\ UNCHANGED <<settings, recent, tables, ev, observed>>

\* mediumMatchesRules: of the rules named by the row that are still enabled,
\* one watches the medium, or there are none.
MediumMatches(by, matched) ==
  LET resolved == matched \cap Enabled(rule)
  IN  resolved = {} \/ \E u \in resolved : by \in Watched(rule[u])

ReadRules(c) ==
  /\ At(c, "rules")
  /\ IF MediumMatches(clr[c].by, clr[c].matched)
       THEN GoOn(c, "settings")
       ELSE Calling(c, NoCall)
  /\ UNCHANGED <<settings, recent, tables, ev, observed>>

ReadSettings(c) ==
  /\ At(c, "settings")
  /\ IF reversible THEN GoOn(c, "delete") ELSE Calling(c, NoCall)
  /\ UNCHANGED <<settings, recent, tables, ev, observed>>

\* deleteAndRecord: the delete says whether it removed a row.
DeleteByResource(c) ==
  /\ At(c, "delete")
  /\ LET x == clr[c].x
     IN  /\ row' = [row EXCEPT ![x] = NoRow]
         /\ IF Live(x) THEN GoOn(c, "record") ELSE Calling(c, NoCall)
         /\ Disturb(IF Live(x) THEN {x} ELSE {})
  /\ UNCHANGED <<settings, recent, newest, ev>>

RecordReversal(c) ==
  /\ At(c, "record")
  /\ newest' = [newest EXCEPT ![clr[c].x] = "cleared"]
  /\ Calling(c, NoCall)
  /\ Disturb({clr[c].x})
  /\ UNCHANGED <<settings, recent, row, ev>>

\* An error is logged and the call is over.
GiveUp(c) ==
  /\ ~still
  /\ clr[c] # NoCall
  /\ Calling(c, NoCall)
  /\ UNCHANGED <<settings, recent, tables, ev, observed>>

ClearIfStale(c) ==
  Look(c) \/ ReadRules(c) \/ ReadSettings(c) \/ DeleteByResource(c) \/ RecordReversal(c)

-----------------------------------------------------------------------------
(***************************************************************************)
(* Administrators.  syncSchedule, at the end of every write, gives the     *)
(* team its schedule row if it has a rule and takes it away otherwise; it  *)
(* may fail without failing the write.                                     *)
(***************************************************************************)
HasRules(rs) == \E u \in Rules : Exists(rs, u)
SyncSchedule == scheduled' \in {scheduled, HasRules(rule')}

CreateRule(u, f) ==
  /\ ~still
  /\ rule[u] = NoRule
  /\ rule' = [rule EXCEPT ![u] = f]
  /\ SyncSchedule
  /\ Disturb(Resources)
  /\ UNCHANGED <<deleting, reversible, recent, tables, ev, clr>>

UpdateRule(u, f) ==
  /\ ~still
  /\ Exists(rule, u)
  /\ rule' = [rule EXCEPT ![u] = f]
  /\ SyncSchedule
  /\ Disturb(Resources)
  /\ UNCHANGED <<deleting, reversible, recent, tables, ev, clr>>

\* DeleteRule, first half.  RemoveRule strips the id from every row and
\* deletes the rows left empty, in one transaction and without audit entries.
RemoveRule(u) ==
  LET named == {x \in Resources : Live(x) /\ u \in row[x]}
  IN  /\ ~still
      /\ Exists(rule, u)
      /\ row' = [x \in Resources |->
                   IF x \notin named THEN row[x]
                   ELSE IF row[x] = {u} THEN NoRow
                   ELSE row[x] \ {u}]
      /\ deleting' = deleting \cup {u}
      /\ Disturb(named)
      /\ UNCHANGED <<rule, reversible, scheduled, recent, newest, ev, clr>>

\* DeleteRule, second half, in a statement of its own ...
DeleteRule(u) ==
  /\ u \in deleting
  /\ rule' = [rule EXCEPT ![u] = Deleted]
  /\ deleting' = deleting \ {u}
  /\ SyncSchedule
  /\ Disturb(Resources)
  /\ UNCHANGED <<reversible, recent, tables, ev, clr>>

\* ... which may never come.
LeaveRule(u) ==
  /\ ~still
  /\ u \in deleting
  /\ deleting' = deleting \ {u}
  /\ UNCHANGED <<rule, reversible, scheduled, recent, tables, ev, clr, observed>>

SetReversible ==
  /\ ~still
  /\ reversible' = ~reversible
  /\ UNCHANGED rule
  /\ SyncSchedule
  /\ UNCHANGED <<deleting, recent, tables, ev, clr, observed>>

\* ReconcileSchedules, the hourly sweep: a team that has a rule and no
\* schedule row gets one.
ReconcileSchedules ==
  /\ ~scheduled /\ HasRules(rule)
  /\ scheduled' = TRUE
  /\ UNCHANGED <<rule, deleting, reversible, recent, tables, ev, clr, observed>>

Administer(u) ==
  \/ \E f \in Forms[u] : CreateRule(u, f) \/ UpdateRule(u, f)
  \/ RemoveRule(u) \/ DeleteRule(u) \/ LeaveRule(u)

-----------------------------------------------------------------------------
\* A timestamp of x passes the threshold.
TimePasses(x, t) ==
  /\ ~still
  /\ t \in recent[x]
  /\ recent' = [recent EXCEPT ![x] = recent[x] \ {t}]
  /\ Disturb({x})
  /\ UNCHANGED <<settings, tables, ev, clr>>

\* From here on nothing happens but what is under way and further runs.
BecomeStill ==
  /\ ~still
  /\ still' = TRUE
  /\ UNCHANGED <<settings, recent, tables, ev, clr, calm, agreed>>

Next ==
  \/ \E e \in Evaluators : Evaluate(e) \/ Abort(e)
  \/ \E c \in Clearers :
       \/ ClearIfStale(c) \/ GiveUp(c)
       \/ \E x \in Resources, by \in Touches, landed \in BOOLEAN : Touch(c, x, by, landed)
  \/ \E u \in Rules : Administer(u)
  \/ SetReversible
  \/ ReconcileSchedules
  \/ \E x \in Resources, t \in Touches : TimePasses(x, t)
  \/ BecomeStill

Spec == Init /\ [][Next]_vars

(***************************************************************************)
(* The scheduler keeps starting runs of a team with a schedule row         *)
(* (DueIsRun of module Scheduler) and sweeping for teams that lack it, and *)
(* a run and a reversal go on unless they fail.  The second half of a      *)
(* rule's deletion may be late for ever.                                   *)
(***************************************************************************)
Fairness ==
  /\ \A e \in Evaluators : WF_vars(Evaluate(e))
  /\ \A c \in Clearers : WF_vars(ClearIfStale(c))
  /\ WF_vars(ReconcileSchedules)

LiveSpec == Spec /\ Fairness

-----------------------------------------------------------------------------
(***************************************************************************)
(* A run that comes to its end leaves every resource nobody else touched   *)
(* meanwhile as the rules want it, and a stale one with a mark as its      *)
(* newest entry, whatever earlier runs, clearers and failures left behind  *)
(* (reconcile, repairMissingMarks).                                        *)
(***************************************************************************)
RunReconciles ==
  \A e \in Evaluators : Finished(e) => \A x \in calm[e] : InOrder(x)

(***************************************************************************)
(* A run writes nothing for a resource that was in order when it started   *)
(* and that nobody else touches: no upsert, no audit entry per run ("the   *)
(* single most likely source of log spam", evaluate.go).                   *)
(***************************************************************************)
Writes(e) == ev[e].clears \cup ev[e].marks \cup ev[e].repairs
               \cup {entry[1] : entry \in ev[e].debt}
QuietRunsWriteNothing ==
  \A e \in Evaluators : agreed[e] \cap Writes(e) = {}

(***************************************************************************)
(* Through interrupted runs, late reversals, half deleted rules and failed *)
(* schedule writes: once the outside is still, a team with a rule sees     *)
(* every resource become what the rules say, and every live row get a mark *)
(* as its newest log entry ("the log converges on the state", evaluate.go).*)
(***************************************************************************)
Converges == still ~> (~HasRules(rule) \/ \A x \in Resources : InOrder(x))

(***************************************************************************)
(* What syncSchedule says of a team's last rule: "DeleteRule strips the    *)
(* rule from freshness state first, so by then there is nothing left to    *)
(* clear" (services/freshness.go).  It does not hold: a run that loaded    *)
(* the rule before its deletion marks a resource after the strip.          *)
(***************************************************************************)
LastRuleLeavesNothing ==
  ~HasRules(rule) /\ ~scheduled /\ (\A e \in Evaluators : ev[e] = NoRun)
    => \A x \in Resources : ~Live(x)
=============================================================================
