--------------------------- MODULE FreshnessProofs ---------------------------
(***************************************************************************)
(* Proofs about the freshness engine, for any number of resources, rules,  *)
(* mediums, overlapping runs and clearers: the types, that a run which     *)
(* comes to its end has put what nobody else touched in order, and that it *)
(* writes nothing for what was in order.  The inductive invariant RunInv   *)
(* says of each phase of a run what is known of the resources that are     *)
(* still calm.  What other actors do is dealt with once, in KeptRun.       *)
(***************************************************************************)
EXTENDS Freshness, TLAPS

-----------------------------------------------------------------------------
\* Typing.

LEMMA NoRunIsRun == NoRun \in Runs
  BY DEF NoRun, Runs, Phases, NoDesire

LEMMA BecomesTyped ==
  ASSUME ev \in [Evaluators -> Runs], NEW e \in Evaluators, NEW run \in Runs,
         Becomes(e, run)
  PROVE  ev' \in [Evaluators -> Runs]
  BY DEF Becomes

LEMMA DisturbTyped ==
  ASSUME calm \in [Evaluators -> SUBSET Resources],
         agreed \in [Evaluators -> SUBSET Resources], still \in BOOLEAN,
         NEW X, Disturb(X)
  PROVE  /\ calm' \in [Evaluators -> SUBSET Resources]
         /\ agreed' \in [Evaluators -> SUBSET Resources]
         /\ still' \in BOOLEAN
  BY DEF Disturb

LEMMA DisturbOthersTyped ==
  ASSUME calm \in [Evaluators -> SUBSET Resources],
         agreed \in [Evaluators -> SUBSET Resources], still \in BOOLEAN,
         NEW X, NEW e, DisturbOthers(X, e)
  PROVE  /\ calm' \in [Evaluators -> SUBSET Resources]
         /\ agreed' \in [Evaluators -> SUBSET Resources]
         /\ still' \in BOOLEAN
  BY DEF DisturbOthers, Disturbed

LEMMA CallTyped ==
  ASSUME clr \in [Clearers -> Calls], NEW c \in Clearers, NEW call \in Calls,
         Calling(c, call)
  PROVE  clr' \in [Clearers -> Calls]
  BY DEF Calling

LEMMA GoOnTyped ==
  ASSUME clr \in [Clearers -> Calls], NEW c \in Clearers, clr[c].x \in Resources,
         NEW at \in {"settings", "delete", "record"}, GoOn(c, at)
  PROVE  clr' \in [Clearers -> Calls]
<1>1. [at |-> at, x |-> clr[c].x] \in Calls
  BY DEF Calls
<1> QED
  BY <1>1, CallTyped DEF GoOn

LEMMA CallFields ==
  ASSUME clr \in [Clearers -> Calls], NEW c \in Clearers, clr[c].at # "idle"
  PROVE  /\ clr[c].x \in Resources
         /\ clr[c].at = "look" => clr[c].by \in Touches
         /\ clr[c].at = "rules" => clr[c].by \in Mediums /\ clr[c].matched \subseteq Rules
  BY DEF Calls, NoCall

LEMMA RunFields ==
  ASSUME ev \in [Evaluators -> Runs], NEW e \in Evaluators
  PROVE  /\ ev[e].phase \in Phases
         /\ ev[e].forms \in [Rules -> RuleForms \cup {NoRule, Deleted}]
         /\ ev[e].desired \in [Resources -> SUBSET Rules]
         /\ ev[e].clears \subseteq Resources
         /\ ev[e].marks \subseteq Resources
         /\ ev[e].repairs \subseteq Resources
         /\ ev[e].debt \subseteq Resources \X {"marked", "cleared"}
         /\ ev[e] \in Runs
  BY DEF Runs

-----------------------------------------------------------------------------
\* What is known of a run at each of its phases.

Resting(e) == ev[e].phase \in {"idle", "due"} => calm[e] = {}
Lists(e) ==
  /\ ev[e].phase # "write" => ev[e].clears = {} /\ ev[e].marks = {} /\ ev[e].debt = {}
  /\ ev[e].phase # "repair" => ev[e].repairs = {}
  /\ \A x \in ev[e].clears : ev[e].desired[x] = {}
  /\ \A x \in ev[e].marks : ev[e].desired[x] # {}

\* The rules left to query are as they were loaded, and what was queried of
\* them is still so.
Matching(e) ==
  ev[e].phase = "match" => \A x \in calm[e] :
    /\ \A u \in Enabled(ev[e].forms) : u \in Enabled(rule) /\ ev[e].forms[u] = rule[u]
    /\ ev[e].desired[x] \subseteq Wanted(x)
    /\ Wanted(x) \subseteq ev[e].desired[x] \cup Enabled(ev[e].forms)

\* A row that is not on a list any more is as the rules want it.
Writing(e) ==
  ev[e].phase \in {"write", "repair"} => \A x \in calm[e] :
    /\ ev[e].desired[x] = Wanted(x)
    /\ x \notin ev[e].clears \cup ev[e].marks => row[x] = WantedRow(x)

Repairing(e) ==
  ev[e].phase = "repair" => \A x \in calm[e] : x \in ev[e].repairs \/ LogAgrees(x)

Agreeing(e) ==
  /\ agreed[e] \subseteq calm[e]
  /\ \A x \in agreed[e] : InOrder(x) /\ x \notin Writes(e)

RunInv(e) ==
  /\ Resting(e) /\ Lists(e) /\ Matching(e) /\ Writing(e) /\ Repairing(e) /\ Agreeing(e)

IInv == TypeOK /\ \A e \in Evaluators : RunInv(e)

-----------------------------------------------------------------------------
(***************************************************************************)
(* A step that leaves a run alone, and of the tables and rules leaves alone*)
(* whatever concerns the resources that stay calm for it.                  *)
(***************************************************************************)
Undisturbed(e) ==
  /\ ev'[e] = ev[e]
  /\ calm'[e] \subseteq calm[e]
  /\ agreed'[e] \subseteq agreed[e] \cap calm'[e]
  /\ calm'[e] = {} \/ rule' = rule
  /\ \A x \in calm'[e] :
       row'[x] = row[x] /\ newest'[x] = newest[x] /\ recent'[x] = recent[x]

LEMMA WantedKept ==
  ASSUME NEW x \in Resources, rule' = rule, recent'[x] = recent[x]
  PROVE  Wanted(x)' = Wanted(x) /\ WantedRow(x)' = WantedRow(x)
<1>1. Wanted(x)' = Wanted(x)
  BY DEF Wanted, Enabled, Exists, Matches, Watched
<1> QED
  BY <1>1 DEF WantedRow

LEMMA KeptRun ==
  ASSUME TypeOK, TypeOK', NEW e \in Evaluators, RunInv(e), Undisturbed(e)
  PROVE  RunInv(e)'
<1>1. ASSUME NEW x \in calm'[e]
      PROVE  /\ x \in Resources /\ x \in calm[e] /\ rule' = rule
             /\ Wanted(x)' = Wanted(x) /\ WantedRow(x)' = WantedRow(x)
             /\ InOrder(x)' <=> InOrder(x)
             /\ LogAgrees(x)' <=> LogAgrees(x)
  <2>1. x \in Resources /\ x \in calm[e] /\ rule' = rule /\ recent'[x] = recent[x]
        /\ row'[x] = row[x] /\ newest'[x] = newest[x]
    BY <1>1 DEF Undisturbed, TypeOK
  <2>2. Wanted(x)' = Wanted(x) /\ WantedRow(x)' = WantedRow(x)
    BY <2>1, WantedKept
  <2> QED
    BY <2>1, <2>2 DEF InOrder, LogAgrees, Live
<1>2. ev'[e] = ev[e] /\ calm'[e] \subseteq calm[e]
  BY DEF Undisturbed
<1>3. Resting(e)' /\ Lists(e)'
  BY <1>2 DEF RunInv, Resting, Lists
<1>4. Matching(e)'
  BY <1>1, <1>2 DEF RunInv, Matching, Enabled, Exists
<1>5. Writing(e)'
  <2>1. SUFFICES ASSUME ev[e].phase \in {"write", "repair"}, NEW x \in calm'[e]
                 PROVE  /\ ev[e].desired[x] = Wanted(x)'
                        /\ x \notin ev[e].clears \cup ev[e].marks
                             => row'[x] = WantedRow(x)'
    BY <1>2 DEF Writing
  <2>2. row'[x] = row[x]
    BY DEF Undisturbed
  <2>3. Writing(e) /\ x \in calm[e]
    BY <1>2 DEF RunInv
  <2>4. /\ ev[e].desired[x] = Wanted(x)
        /\ x \notin ev[e].clears \cup ev[e].marks => row[x] = WantedRow(x)
    BY <2>1, <2>3 DEF Writing
  <2> QED
    BY <1>1, <2>2, <2>4
<1>6. Repairing(e)'
  BY <1>1, <1>2 DEF RunInv, Repairing
<1>7. Agreeing(e)'
  BY <1>1, <1>2 DEF RunInv, Agreeing, Writes, Undisturbed
<1> QED
  BY <1>3, <1>4, <1>5, <1>6, <1>7 DEF RunInv

\* Disturbing the resources whose row, log, recency or rule changed leaves a
\* run undisturbed.
LEMMA DisturbKeeps ==
  ASSUME TypeOK, NEW e \in Evaluators, Agreeing(e), ev'[e] = ev[e],
         NEW X, Disturb(X),
         \A x \in Resources \ X :
           row'[x] = row[x] /\ newest'[x] = newest[x] /\ recent'[x] = recent[x],
         rule' = rule \/ Resources \subseteq X
  PROVE  Undisturbed(e)
  BY DEF Disturb, Undisturbed, TypeOK, Agreeing

LEMMA DisturbOthersKeeps ==
  ASSUME TypeOK, NEW e \in Evaluators, Agreeing(e), NEW f \in Evaluators, e # f,
         ev'[e] = ev[e], rule' = rule,
         NEW X, DisturbOthers(X, f),
         \A x \in Resources \ X :
           row'[x] = row[x] /\ newest'[x] = newest[x] /\ recent'[x] = recent[x]
  PROVE  Undisturbed(e)
  BY DEF DisturbOthers, Disturbed, Undisturbed, TypeOK, Agreeing

LEMMA QuietKeeps ==
  ASSUME TypeOK, NEW e \in Evaluators, Agreeing(e), ev'[e] = ev[e],
         calm'[e] = calm[e], agreed'[e] = agreed[e], rule' = rule,
         UNCHANGED <<tables, recent>>
  PROVE  Undisturbed(e)
  BY DEF Undisturbed, TypeOK, Agreeing, tables

-----------------------------------------------------------------------------
\* The steps of a run, for the run itself.

LEMMA RunEndsInv ==
  ASSUME TypeOK, NEW e \in Evaluators, RunEnds(e)
  PROVE  RunInv(e)'
<1>1. ev'[e] = NoRun /\ calm'[e] = {} /\ agreed'[e] = {}
  BY DEF RunEnds, Becomes, TypeOK
<1> QED
  BY <1>1 DEF RunInv, Resting, Lists, Matching, Writing, Repairing, Agreeing, NoRun

LEMMA BecomeDueInv ==
  ASSUME TypeOK, NEW e \in Evaluators, RunInv(e), BecomeDue(e)
  PROVE  RunInv(e)'
<1>1. ev'[e] = [NoRun EXCEPT !.phase = "due"]
  BY DEF BecomeDue, Becomes, TypeOK
<1>2. calm'[e] = {}
  BY DEF BecomeDue, observed, RunInv, Resting
<1>3. agreed'[e] = {}
  BY DEF BecomeDue, observed, RunInv, Resting, Agreeing
<1> QED
  BY <1>1, <1>2, <1>3
  DEF RunInv, Resting, Lists, Matching, Writing, Repairing, Agreeing, NoRun

LEMMA LoadedEnabled ==
  ASSUME TypeOK
  PROVE  /\ Enabled(Loaded) = Enabled(rule)
         /\ \A u \in Enabled(rule) : Loaded[u] = rule[u]
<1>1. \A u \in Enabled(rule) : Loaded[u] = rule[u] /\ u \in Enabled(Loaded)
  BY DEF Loaded, Enabled, Exists
<1>2. \A u \in Enabled(Loaded) : u \in Enabled(rule)
  BY DEF Loaded, Enabled, Exists
<1> QED
  BY <1>1, <1>2

LEMMA LoadRulesInv ==
  ASSUME TypeOK, TypeOK', NEW e \in Evaluators, RunInv(e), LoadRules(e)
  PROVE  RunInv(e)'
<1>1. ev'[e] = [NoRun EXCEPT !.phase = "match", !.forms = Loaded]
  BY DEF LoadRules, Becomes, TypeOK
<1>2. /\ ev'[e].phase = "match" /\ ev'[e].forms = Loaded /\ ev'[e].desired = NoDesire
      /\ ev'[e].clears = {} /\ ev'[e].marks = {} /\ ev'[e].repairs = {} /\ ev'[e].debt = {}
  BY <1>1 DEF NoRun
<1>3. /\ calm'[e] = Resources
      /\ agreed'[e] = {x \in Resources : InOrder(x)}
      /\ rule' = rule /\ recent' = recent /\ row' = row /\ newest' = newest
  BY DEF LoadRules, TypeOK, settings, tables
<1>4. Resting(e)' /\ Lists(e)' /\ Writing(e)' /\ Repairing(e)'
  BY <1>2 DEF Resting, Lists, Writing, Repairing
<1>5. Matching(e)'
  <2>1. ASSUME NEW x \in Resources
        PROVE  /\ \A u \in Enabled(ev'[e].forms) :
                    u \in Enabled(rule') /\ ev'[e].forms[u] = rule'[u]
               /\ ev'[e].desired[x] \subseteq Wanted(x)'
               /\ Wanted(x)' \subseteq ev'[e].desired[x] \cup Enabled(ev'[e].forms)
    <3>1. Enabled(ev'[e].forms) = Enabled(rule')
      BY <1>2, <1>3, LoadedEnabled
    <3>2. \A u \in Enabled(rule') : ev'[e].forms[u] = rule'[u]
      BY <1>2, <1>3, LoadedEnabled
    <3>3. ev'[e].desired[x] = {}
      BY <1>2 DEF NoDesire
    <3>4. Wanted(x)' \subseteq Enabled(rule')
      BY DEF Wanted
    <3> QED
      BY <3>1, <3>2, <3>3, <3>4
  <2> QED
    BY <2>1, <1>3 DEF Matching, Enabled, Exists
<1>6. Agreeing(e)'
  <2>1. ASSUME NEW x \in agreed'[e]
        PROVE  InOrder(x)' /\ x \notin Writes(e)'
    <3>1. x \in Resources /\ InOrder(x)
      BY <1>3
    <3>2. WantedRow(x)' = WantedRow(x)
      BY <1>3, <3>1, WantedKept
    <3> QED
      BY <1>2, <1>3, <3>1, <3>2 DEF InOrder, LogAgrees, Live, Writes
  <2> QED
    BY <2>1, <1>3 DEF Agreeing
<1> QED
  BY <1>4, <1>5, <1>6 DEF RunInv

\* A step of run e that writes no table and no rule.
LEMMA SameTables ==
  ASSUME TypeOK, NEW e \in Evaluators,
         UNCHANGED <<settings, recent, tables, clr, observed>>
  PROVE  /\ calm'[e] = calm[e] /\ agreed'[e] = agreed[e] /\ rule' = rule
         /\ \A x \in Resources :
              /\ row'[x] = row[x] /\ newest'[x] = newest[x]
              /\ Wanted(x)' = Wanted(x) /\ WantedRow(x)' = WantedRow(x)
              /\ InOrder(x)' <=> InOrder(x)
              /\ LogAgrees(x)' <=> LogAgrees(x)
<1>1. rule' = rule /\ recent' = recent /\ row' = row /\ newest' = newest
      /\ calm' = calm /\ agreed' = agreed
  BY DEF settings, tables, observed
<1>2. \A x \in Resources : Wanted(x)' = Wanted(x) /\ WantedRow(x)' = WantedRow(x)
  BY <1>1, WantedKept
<1> QED
  BY <1>1, <1>2 DEF InOrder, LogAgrees, Live

LEMMA CollectInv ==
  ASSUME TypeOK, NEW e \in Evaluators, RunInv(e), NEW u \in Rules, CollectRuleMatches(e, u)
  PROVE  RunInv(e)'
<1> DEFINE hit == {x \in Resources : Matches(ev[e].forms[u], x)}
           desire == [x \in Resources |->
              IF x \in hit THEN ev[e].desired[x] \cup {u} ELSE ev[e].desired[x]]
<1>1. /\ ev[e].phase = "match" /\ u \in Enabled(ev[e].forms)
      /\ ev'[e] = [ev[e] EXCEPT !.forms = [ev[e].forms EXCEPT ![u] = NoRule],
                                !.desired = desire]
  BY DEF CollectRuleMatches, Becomes, TypeOK
<1>2. ev[e] \in Runs /\ ev[e].forms \in [Rules -> RuleForms \cup {NoRule, Deleted}]
  BY RunFields DEF TypeOK
<1> HIDE DEF desire
<1>3. /\ ev'[e].phase = "match" /\ ev'[e].desired = desire
      /\ ev'[e].forms = [ev[e].forms EXCEPT ![u] = NoRule]
      /\ ev'[e].clears = ev[e].clears /\ ev'[e].marks = ev[e].marks
      /\ ev'[e].repairs = ev[e].repairs /\ ev'[e].debt = ev[e].debt
  BY <1>1, <1>2 DEF Runs
<1>4. /\ calm'[e] = calm[e] /\ agreed'[e] = agreed[e] /\ rule' = rule
      /\ \A x \in Resources : /\ Wanted(x)' = Wanted(x)
                              /\ InOrder(x)' <=> InOrder(x)
  BY SameTables DEF CollectRuleMatches
<1>5. ev[e].clears = {} /\ ev[e].marks = {} /\ ev[e].repairs = {} /\ ev[e].debt = {}
  BY <1>1 DEF RunInv, Lists
<1>6. Resting(e)' /\ Lists(e)' /\ Writing(e)' /\ Repairing(e)'
  BY <1>3, <1>5 DEF Resting, Lists, Writing, Repairing
<1>7. Enabled(ev'[e].forms) = Enabled(ev[e].forms) \ {u}
  BY <1>2, <1>3 DEF Enabled, Exists
<1>8. ASSUME NEW x \in calm[e]
      PROVE  /\ \A v \in Enabled(ev'[e].forms) :
                  v \in Enabled(rule) /\ ev'[e].forms[v] = rule[v]
             /\ desire[x] \subseteq Wanted(x)
             /\ Wanted(x) \subseteq desire[x] \cup Enabled(ev'[e].forms)
  <2>1. x \in Resources
    BY DEF TypeOK
  <2>2. /\ \A v \in Enabled(ev[e].forms) : v \in Enabled(rule) /\ ev[e].forms[v] = rule[v]
        /\ ev[e].desired[x] \subseteq Wanted(x)
        /\ Wanted(x) \subseteq ev[e].desired[x] \cup Enabled(ev[e].forms)
    BY <1>1 DEF RunInv, Matching
  <2>3. \A v \in Enabled(ev'[e].forms) : v \in Rules /\ v # u /\ v \in Enabled(ev[e].forms)
    BY <1>7 DEF Enabled
  <2>4. \A v \in Enabled(ev'[e].forms) : v \in Enabled(rule) /\ ev'[e].forms[v] = rule[v]
    BY <1>2, <1>3, <2>2, <2>3
  <2>5. u \in Enabled(rule) /\ ev[e].forms[u] = rule[u]
    BY <1>1, <2>2
  <2>6. x \in hit <=> u \in Wanted(x)
    BY <2>1, <2>5 DEF Wanted
  <2>7. desire[x] = IF x \in hit THEN ev[e].desired[x] \cup {u} ELSE ev[e].desired[x]
    BY <2>1 DEF desire
  <2>8. desire[x] \subseteq Wanted(x)
    BY <2>2, <2>6, <2>7
  <2>9. Wanted(x) \subseteq desire[x] \cup Enabled(ev'[e].forms)
    BY <1>7, <2>2, <2>6, <2>7
  <2> QED
    BY <2>4, <2>8, <2>9
<1>9. Matching(e)'
  <2>1. Enabled(ev[e].forms)' = Enabled(ev'[e].forms) /\ Enabled(rule)' = Enabled(rule)
    BY <1>4 DEF Enabled, Exists
  <2>2. \A x \in calm[e] : x \in Resources
    BY DEF TypeOK
  <2> QED
    BY <1>3, <1>4, <1>8, <2>1, <2>2 DEF Matching
<1>10. Agreeing(e)'
  BY <1>3, <1>4, <1>5 DEF RunInv, Agreeing, Writes, TypeOK
<1> QED
  BY <1>6, <1>9, <1>10 DEF RunInv

LEMMA RowFields ==
  ASSUME TypeOK, NEW x \in Resources
  PROVE  /\ row[x] # {} /\ NoRow # {}
         /\ row[x] = NoRow \/ row[x] \subseteq Rules
         /\ Wanted(x) \subseteq Rules /\ Wanted(x) # NoRow
<1>1. row[x] = NoRow \/ (row[x] \in SUBSET Rules /\ row[x] # {})
  BY DEF TypeOK
<1>2. {} \in SUBSET Rules /\ NoRow # {}
  BY NoRowIsNoSet
<1>3. Wanted(x) \in SUBSET Rules
  BY DEF Wanted, Enabled
<1>4. Wanted(x) # NoRow
  BY <1>3, NoRowIsNoSet
<1>5. row[x] # {}
  BY <1>1, <1>2, Zenon
<1> QED
  BY <1>1, <1>2, <1>3, <1>4, <1>5

LEMMA ListAllInv ==
  ASSUME TypeOK, NEW e \in Evaluators, RunInv(e), ListAllByTeam(e)
  PROVE  RunInv(e)'
<1>1. /\ ev[e].phase = "match" /\ Enabled(ev[e].forms) = {}
      /\ ev'[e] = [ev[e] EXCEPT !.phase = "write",
                     !.clears = ToClear(row, ev[e].desired),
                     !.marks = ToMark(row, ev[e].desired)]
  BY DEF ListAllByTeam, Becomes, TypeOK
<1>2. ev[e] \in Runs
  BY RunFields DEF TypeOK
<1>3. /\ ev'[e].phase = "write" /\ ev'[e].desired = ev[e].desired
      /\ ev'[e].clears = ToClear(row, ev[e].desired)
      /\ ev'[e].marks = ToMark(row, ev[e].desired)
      /\ ev'[e].repairs = ev[e].repairs /\ ev'[e].debt = ev[e].debt
  BY <1>1, <1>2 DEF Runs
<1>4. /\ calm'[e] = calm[e] /\ agreed'[e] = agreed[e]
      /\ \A x \in Resources : /\ row'[x] = row[x]
                              /\ Wanted(x)' = Wanted(x) /\ WantedRow(x)' = WantedRow(x)
                              /\ InOrder(x)' <=> InOrder(x)
  BY SameTables DEF ListAllByTeam
<1>5. ev[e].repairs = {} /\ ev[e].debt = {}
  BY <1>1 DEF RunInv, Lists
<1>6. Resting(e)' /\ Lists(e)' /\ Matching(e)' /\ Repairing(e)'
  BY <1>3, <1>5 DEF Resting, Lists, Matching, Repairing, ToClear, ToMark
<1>7. ASSUME NEW x \in calm[e]
      PROVE  /\ x \in Resources
             /\ ev[e].desired[x] = Wanted(x)
             /\ x \notin ToClear(row, ev[e].desired) \cup ToMark(row, ev[e].desired)
                  <=> row[x] = WantedRow(x)
  <2>1. x \in Resources
    BY DEF TypeOK
  <2>2. ev[e].desired[x] = Wanted(x)
    BY <1>1 DEF RunInv, Matching
  <2>3. row[x] # {} /\ Wanted(x) # NoRow
    BY <2>1, RowFields
  <2> QED
    BY <2>1, <2>2, <2>3 DEF ToClear, ToMark, WantedRow
<1>8. Writing(e)'
  BY <1>3, <1>4, <1>7 DEF Writing
<1>9. Agreeing(e)'
  <2>1. ASSUME NEW x \in agreed[e]
        PROVE  InOrder(x)' /\ x \notin Writes(e)'
    <3>1. x \in calm[e] /\ InOrder(x) /\ row[x] = WantedRow(x)
      BY DEF RunInv, Agreeing, InOrder
    <3>2. x \notin ToClear(row, ev[e].desired) \cup ToMark(row, ev[e].desired)
      BY <1>7, <3>1
    <3> QED
      BY <1>3, <1>4, <1>5, <1>7, <3>1, <3>2 DEF Writes
  <2> QED
    BY <2>1, <1>4 DEF Agreeing, RunInv
<1> QED
  BY <1>6, <1>8, <1>9 DEF RunInv

\* A resource of which run e writes the row or the log: nothing changes for
\* the others, and nothing but row and log changes.
LEMMA OthersSame ==
  ASSUME TypeOK, NEW e \in Evaluators, NEW X, DisturbOthers(X, e),
         UNCHANGED <<settings, recent>>
  PROVE  /\ calm'[e] = calm[e] /\ agreed'[e] = agreed[e] /\ rule' = rule
         /\ \A y \in Resources :
              Wanted(y)' = Wanted(y) /\ WantedRow(y)' = WantedRow(y)
<1>1. rule' = rule /\ recent' = recent
  BY DEF settings
<1>2. \A y \in Resources : Wanted(y)' = Wanted(y) /\ WantedRow(y)' = WantedRow(y)
  BY <1>1, WantedKept
<1>3. calm'[e] = calm[e] /\ agreed'[e] = agreed[e]
  BY DEF DisturbOthers, Disturbed
<1> QED
  BY <1>1, <1>2, <1>3

LEMMA ClearStaleInv ==
  ASSUME TypeOK, NEW e \in Evaluators, RunInv(e), NEW x \in Resources, ClearStale(e, x)
  PROVE  RunInv(e)'
<1> DEFINE due == IF Live(x) THEN {<<x, "cleared">>} ELSE {}
<1>1. /\ ev[e].phase = "write" /\ ev[e].debt = {} /\ x \in ev[e].clears
      /\ ev'[e] = [ev[e] EXCEPT !.clears = ev[e].clears \ {x}, !.debt = due]
      /\ row' = [row EXCEPT ![x] = NoRow] /\ newest' = newest
  BY DEF ClearStale, Becomes, TypeOK
<1>2. ev[e] \in Runs
  BY RunFields DEF TypeOK
<1> HIDE DEF due
<1>3. /\ ev'[e].phase = "write" /\ ev'[e].desired = ev[e].desired
      /\ ev'[e].clears = ev[e].clears \ {x} /\ ev'[e].marks = ev[e].marks
      /\ ev'[e].repairs = ev[e].repairs /\ ev'[e].debt = due
  BY <1>1, <1>2 DEF Runs
<1>4. /\ calm'[e] = calm[e] /\ agreed'[e] = agreed[e]
      /\ \A y \in Resources :
           Wanted(y)' = Wanted(y) /\ WantedRow(y)' = WantedRow(y)
  BY OthersSame DEF ClearStale
<1>5. row'[x] = NoRow /\ \A y \in Resources \ {x} : row'[y] = row[y]
  BY <1>1 DEF TypeOK
<1>6. calm[e] \subseteq Resources /\ agreed[e] \subseteq calm[e]
  BY DEF RunInv, Agreeing, TypeOK
<1>7. Resting(e)' /\ Lists(e)' /\ Matching(e)' /\ Repairing(e)'
  BY <1>1, <1>3 DEF RunInv, Resting, Lists, Matching, Repairing
<1>8. ASSUME NEW y \in calm[e]
      PROVE  /\ ev[e].desired[y] = Wanted(y)'
             /\ y \notin (ev[e].clears \ {x}) \cup ev[e].marks => row'[y] = WantedRow(y)'
  <2>1. /\ ev[e].desired[y] = Wanted(y)
        /\ y \notin ev[e].clears \cup ev[e].marks => row[y] = WantedRow(y)
    BY <1>1 DEF RunInv, Writing
  <2>2. ev[e].desired[x] = {}
    BY <1>1 DEF RunInv, Lists
  <2>3. y = x => WantedRow(y) = NoRow
    BY <2>1, <2>2 DEF WantedRow
  <2> QED
    BY <1>4, <1>5, <1>6, <2>1, <2>3
<1>9. Writing(e)'
  BY <1>3, <1>4, <1>8 DEF Writing
<1>10. Agreeing(e)'
  <2>1. ASSUME NEW y \in agreed[e]
        PROVE  InOrder(y)' /\ y \notin Writes(e)'
    <3>1. InOrder(y) /\ y \notin Writes(e) /\ y \in Resources
      BY <1>6 DEF RunInv, Agreeing
    <3>2. y # x
      BY <1>1, <3>1 DEF Writes
    <3>3. \A entry \in due : entry[1] = x
      BY DEF due
    <3>4. y \notin Writes(e)'
      BY <1>3, <3>1, <3>2, <3>3 DEF Writes
    <3>5. InOrder(y)'
      BY <1>1, <1>4, <1>5, <3>1, <3>2 DEF InOrder, LogAgrees, Live
    <3> QED
      BY <3>4, <3>5
  <2> QED
    BY <2>1, <1>4, <1>6 DEF Agreeing
<1> QED
  BY <1>7, <1>9, <1>10 DEF RunInv

LEMMA MarkStaleInv ==
  ASSUME TypeOK, NEW e \in Evaluators, RunInv(e), NEW x \in Resources, MarkStale(e, x)
  PROVE  RunInv(e)'
<1> DEFINE due == IF Live(x) THEN {} ELSE {<<x, "marked">>}
<1>1. /\ ev[e].phase = "write" /\ ev[e].debt = {} /\ x \in ev[e].marks
      /\ ev'[e] = [ev[e] EXCEPT !.marks = ev[e].marks \ {x}, !.debt = due]
      /\ row' = [row EXCEPT ![x] = ev[e].desired[x]] /\ newest' = newest
  BY DEF MarkStale, Becomes, TypeOK
<1>2. ev[e] \in Runs
  BY RunFields DEF TypeOK
<1> HIDE DEF due
<1>3. /\ ev'[e].phase = "write" /\ ev'[e].desired = ev[e].desired
      /\ ev'[e].clears = ev[e].clears /\ ev'[e].marks = ev[e].marks \ {x}
      /\ ev'[e].repairs = ev[e].repairs /\ ev'[e].debt = due
  BY <1>1, <1>2 DEF Runs
<1>4. /\ calm'[e] = calm[e] /\ agreed'[e] = agreed[e]
      /\ \A y \in Resources :
           Wanted(y)' = Wanted(y) /\ WantedRow(y)' = WantedRow(y)
  BY OthersSame DEF MarkStale
<1>5. row'[x] = ev[e].desired[x] /\ \A y \in Resources \ {x} : row'[y] = row[y]
  BY <1>1 DEF TypeOK
<1>6. calm[e] \subseteq Resources /\ agreed[e] \subseteq calm[e]
  BY DEF RunInv, Agreeing, TypeOK
<1>7. Resting(e)' /\ Lists(e)' /\ Matching(e)' /\ Repairing(e)'
  BY <1>1, <1>3 DEF RunInv, Resting, Lists, Matching, Repairing
<1>8. ASSUME NEW y \in calm[e]
      PROVE  /\ ev[e].desired[y] = Wanted(y)'
             /\ y \notin ev[e].clears \cup (ev[e].marks \ {x}) => row'[y] = WantedRow(y)'
  <2>1. /\ ev[e].desired[y] = Wanted(y)
        /\ y \notin ev[e].clears \cup ev[e].marks => row[y] = WantedRow(y)
    BY <1>1 DEF RunInv, Writing
  <2>2. ev[e].desired[x] # {}
    BY <1>1 DEF RunInv, Lists
  <2>3. y = x => WantedRow(y) = ev[e].desired[x]
    BY <2>1, <2>2 DEF WantedRow
  <2> QED
    BY <1>4, <1>5, <1>6, <2>1, <2>3
<1>9. Writing(e)'
  BY <1>3, <1>4, <1>8 DEF Writing
<1>10. Agreeing(e)'
  <2>1. ASSUME NEW y \in agreed[e]
        PROVE  InOrder(y)' /\ y \notin Writes(e)'
    <3>1. InOrder(y) /\ y \notin Writes(e) /\ y \in Resources
      BY <1>6 DEF RunInv, Agreeing
    <3>2. y # x
      BY <1>1, <3>1 DEF Writes
    <3>3. \A entry \in due : entry[1] = x
      BY DEF due
    <3>4. y \notin Writes(e)'
      BY <1>3, <3>1, <3>2, <3>3 DEF Writes
    <3>5. InOrder(y)'
      BY <1>1, <1>4, <1>5, <3>1, <3>2 DEF InOrder, LogAgrees, Live
    <3> QED
      BY <3>4, <3>5
  <2> QED
    BY <2>1, <1>4, <1>6 DEF Agreeing
<1> QED
  BY <1>7, <1>9, <1>10 DEF RunInv

LEMMA RecordAuditInv ==
  ASSUME TypeOK, NEW e \in Evaluators, RunInv(e), RecordAudit(e)
  PROVE  RunInv(e)'
<1>1. PICK entry \in ev[e].debt :
        /\ newest' = [newest EXCEPT ![entry[1]] = entry[2]]
        /\ Becomes(e, [ev[e] EXCEPT !.debt = {}])
        /\ DisturbOthers({entry[1]}, e)
        /\ UNCHANGED <<settings, recent, row, clr>>
  BY DEF RecordAudit
<1>2. ev[e] \in Runs
  BY RunFields DEF TypeOK
<1>3. /\ ev'[e].phase = ev[e].phase /\ ev'[e].desired = ev[e].desired
      /\ ev'[e].clears = ev[e].clears /\ ev'[e].marks = ev[e].marks
      /\ ev'[e].repairs = ev[e].repairs /\ ev'[e].debt = {}
  BY <1>1, <1>2 DEF Becomes, TypeOK, Runs
<1>4. /\ calm'[e] = calm[e] /\ agreed'[e] = agreed[e]
      /\ \A y \in Resources :
           Wanted(y)' = Wanted(y) /\ WantedRow(y)' = WantedRow(y)
  <2> DEFINE X == {entry[1]}
  <2>1. DisturbOthers(X, e) /\ UNCHANGED <<settings, recent>>
    BY <1>1
  <2> HIDE DEF X
  <2> QED
    BY <2>1, OthersSame
<1>5. row' = row /\ ev[e].phase = "write"
  BY <1>1 DEF RunInv, Lists
<1>6. calm[e] \subseteq Resources /\ agreed[e] \subseteq calm[e]
  BY DEF RunInv, Agreeing, TypeOK
<1>7. Resting(e)' /\ Lists(e)' /\ Matching(e)' /\ Repairing(e)'
  BY <1>3, <1>5 DEF RunInv, Resting, Lists, Matching, Repairing
<1>8. Writing(e)'
  <2>1. \A y \in calm[e] :
          /\ y \in Resources
          /\ ev[e].desired[y] = Wanted(y)
          /\ y \notin ev[e].clears \cup ev[e].marks => row[y] = WantedRow(y)
    BY <1>5, <1>6 DEF RunInv, Writing
  <2> QED
    BY <2>1, <1>3, <1>4, <1>5 DEF Writing
<1>9. Agreeing(e)'
  <2>1. ASSUME NEW y \in agreed[e]
        PROVE  InOrder(y)' /\ y \notin Writes(e)'
    <3>1. InOrder(y) /\ y \notin Writes(e) /\ y \in Resources
      BY <1>6 DEF RunInv, Agreeing
    <3>2. y # entry[1]
      BY <3>1 DEF Writes
    <3>3. newest'[y] = newest[y]
      BY <1>1, <3>1, <3>2 DEF TypeOK
    <3>4. y \notin Writes(e)'
      BY <1>3, <3>1 DEF Writes
    <3>5. InOrder(y)'
      BY <1>4, <1>5, <3>1, <3>3 DEF InOrder, LogAgrees, Live
    <3> QED
      BY <3>4, <3>5
  <2> QED
    BY <2>1, <1>4, <1>6 DEF Agreeing
<1> QED
  BY <1>7, <1>8, <1>9 DEF RunInv

LEMMA ListMissingMarksInv ==
  ASSUME TypeOK, NEW e \in Evaluators, RunInv(e), ListMissingMarks(e)
  PROVE  RunInv(e)'
<1> DEFINE todo == {x \in Resources : Missing(x) /\ ev[e].desired[x] # {}}
<1>1. /\ ev[e].phase = "write" /\ ev[e].debt = {}
      /\ ev[e].clears = {} /\ ev[e].marks = {}
      /\ ev'[e] = [ev[e] EXCEPT !.phase = "repair", !.repairs = todo]
  BY DEF ListMissingMarks, Becomes, TypeOK
<1>2. ev[e] \in Runs
  BY RunFields DEF TypeOK
<1> HIDE DEF todo
<1>3. /\ ev'[e].phase = "repair" /\ ev'[e].desired = ev[e].desired
      /\ ev'[e].clears = {} /\ ev'[e].marks = {}
      /\ ev'[e].repairs = todo /\ ev'[e].debt = {}
  BY <1>1, <1>2 DEF Runs
<1>4. /\ calm'[e] = calm[e] /\ agreed'[e] = agreed[e]
      /\ \A y \in Resources : /\ row'[y] = row[y]
                              /\ Wanted(y)' = Wanted(y) /\ WantedRow(y)' = WantedRow(y)
                              /\ InOrder(y)' <=> InOrder(y)
                              /\ LogAgrees(y)' <=> LogAgrees(y)
  BY SameTables DEF ListMissingMarks
<1>5. calm[e] \subseteq Resources /\ agreed[e] \subseteq calm[e]
  BY DEF RunInv, Agreeing, TypeOK
<1>6. Resting(e)' /\ Lists(e)' /\ Matching(e)'
  BY <1>3 DEF Resting, Lists, Matching
<1>7. ASSUME NEW y \in calm[e]
      PROVE  /\ y \in Resources
             /\ ev[e].desired[y] = Wanted(y) /\ row[y] = WantedRow(y)
             /\ y \in todo <=> ~LogAgrees(y)
  <2>1. y \in Resources /\ ev[e].desired[y] = Wanted(y) /\ row[y] = WantedRow(y)
    BY <1>1, <1>5 DEF RunInv, Writing
  <2>2. Live(y) => Wanted(y) # {}
    BY <2>1 DEF Live, WantedRow
  <2> QED
    BY <2>1, <2>2 DEF todo, Missing, LogAgrees
<1>8. Writing(e)'
  BY <1>3, <1>4, <1>7 DEF Writing
<1>9. Repairing(e)'
  BY <1>3, <1>4, <1>7 DEF Repairing
<1>10. Agreeing(e)'
  <2>1. ASSUME NEW y \in agreed[e]
        PROVE  InOrder(y)' /\ y \notin Writes(e)'
    <3>1. InOrder(y) /\ LogAgrees(y) /\ y \in Resources /\ y \in calm[e]
      BY <1>5 DEF RunInv, Agreeing, InOrder
    <3>2. y \notin todo
      BY <1>7, <3>1
    <3> QED
      BY <1>3, <1>4, <3>1, <3>2 DEF Writes
  <2> QED
    BY <2>1, <1>4, <1>5 DEF Agreeing
<1> QED
  BY <1>6, <1>8, <1>9, <1>10 DEF RunInv

LEMMA RepairMarkInv ==
  ASSUME TypeOK, NEW e \in Evaluators, RunInv(e), NEW x \in Resources, RepairMark(e, x)
  PROVE  RunInv(e)'
<1>1. /\ ev[e].phase = "repair" /\ x \in ev[e].repairs
      /\ ev'[e] = [ev[e] EXCEPT !.repairs = ev[e].repairs \ {x}]
      /\ newest' = [newest EXCEPT ![x] = "marked"] /\ row' = row
  BY DEF RepairMark, Becomes, TypeOK
<1>2. ev[e] \in Runs
  BY RunFields DEF TypeOK
<1>3. /\ ev'[e].phase = "repair" /\ ev'[e].desired = ev[e].desired
      /\ ev'[e].clears = ev[e].clears /\ ev'[e].marks = ev[e].marks
      /\ ev'[e].repairs = ev[e].repairs \ {x} /\ ev'[e].debt = ev[e].debt
  BY <1>1, <1>2 DEF Runs
<1>4. /\ calm'[e] = calm[e] /\ agreed'[e] = agreed[e]
      /\ \A y \in Resources :
           Wanted(y)' = Wanted(y) /\ WantedRow(y)' = WantedRow(y)
  BY OthersSame DEF RepairMark
<1>5. newest'[x] = "marked" /\ \A y \in Resources \ {x} : newest'[y] = newest[y]
  BY <1>1 DEF TypeOK
<1>6. calm[e] \subseteq Resources /\ agreed[e] \subseteq calm[e]
  BY DEF RunInv, Agreeing, TypeOK
<1>7. Resting(e)' /\ Lists(e)' /\ Matching(e)'
  BY <1>1, <1>3 DEF RunInv, Resting, Lists, Matching
<1>8. Writing(e)'
  <2>1. \A y \in calm[e] :
          /\ y \in Resources
          /\ ev[e].desired[y] = Wanted(y)
          /\ y \notin ev[e].clears \cup ev[e].marks => row[y] = WantedRow(y)
    BY <1>1, <1>6 DEF RunInv, Writing
  <2> QED
    BY <2>1, <1>1, <1>3, <1>4 DEF Writing
<1>9. \A y \in Resources : LogAgrees(y) \/ y = x => LogAgrees(y)'
  BY <1>1, <1>5 DEF LogAgrees, Live
<1>10. Repairing(e)'
  <2>1. \A y \in calm[e] : y \in Resources /\ (y \in ev[e].repairs \/ LogAgrees(y))
    BY <1>1, <1>6 DEF RunInv, Repairing
  <2> QED
    BY <2>1, <1>3, <1>4, <1>9 DEF Repairing
<1>11. Agreeing(e)'
  <2>1. ASSUME NEW y \in agreed[e]
        PROVE  InOrder(y)' /\ y \notin Writes(e)'
    <3>1. InOrder(y) /\ y \notin Writes(e) /\ y \in Resources
      BY <1>6 DEF RunInv, Agreeing
    <3>2. y \notin Writes(e)'
      BY <1>3, <3>1 DEF Writes
    <3>3. InOrder(y)'
      BY <1>1, <1>4, <1>9, <3>1 DEF InOrder
    <3> QED
      BY <3>2, <3>3
  <2> QED
    BY <2>1, <1>4, <1>6 DEF Agreeing
<1> QED
  BY <1>7, <1>8, <1>10, <1>11 DEF RunInv

-----------------------------------------------------------------------------
\* Every step preserves the types.

\* What a step changes of the tables when it is one of run e's.
LEMMA EvaluatorTyped ==
  ASSUME TypeOK, NEW e \in Evaluators, Lists(e), Evaluate(e) \/ RunEnds(e)
  PROVE  TypeOK'
<1> USE RunFields DEF TypeOK
<1>1. ASSUME NEW run \in Runs, Becomes(e, run), UNCHANGED <<settings, recent, tables, clr>>,
             UNCHANGED still,
             calm' \in [Evaluators -> SUBSET Resources],
             agreed' \in [Evaluators -> SUBSET Resources]
      PROVE  TypeOK'
  BY <1>1, BecomesTyped DEF settings, tables
<1>2. ASSUME UNCHANGED observed
      PROVE  /\ UNCHANGED still
             /\ calm' \in [Evaluators -> SUBSET Resources]
             /\ agreed' \in [Evaluators -> SUBSET Resources]
  BY <1>2 DEF observed
<1>3. CASE BecomeDue(e)
  <2>1. [NoRun EXCEPT !.phase = "due"] \in Runs
    BY NoRunIsRun DEF Runs, Phases
  <2> QED
    BY <1>1, <1>2, <1>3, <2>1 DEF BecomeDue
<1>4. CASE LoadRules(e)
  <2>1. Loaded \in [Rules -> RuleForms \cup {NoRule, Deleted}]
    BY DEF Loaded
  <2>2. [NoRun EXCEPT !.phase = "match", !.forms = Loaded] \in Runs
    BY <2>1, NoRunIsRun DEF Runs, Phases
  <2> QED
    BY <1>1, <1>4, <2>2 DEF LoadRules
<1>5. ASSUME NEW u \in Rules, CollectRuleMatches(e, u) PROVE TypeOK'
  <2> DEFINE hit == {x \in Resources : Matches(ev[e].forms[u], x)}
             desire == [x \in Resources |->
               IF x \in hit THEN ev[e].desired[x] \cup {u} ELSE ev[e].desired[x]]
             left == [ev[e].forms EXCEPT ![u] = NoRule]
             run == [ev[e] EXCEPT !.forms = left, !.desired = desire]
  <2>1. desire \in [Resources -> SUBSET Rules]
    OBVIOUS
  <2>2. left \in [Rules -> RuleForms \cup {NoRule, Deleted}]
    OBVIOUS
  <2>3. run \in Runs
    <3> HIDE DEF desire, left
    <3> QED
      BY <2>1, <2>2, ZenonT(60) DEF Runs
  <2>4. Becomes(e, run)
    BY <1>5 DEF CollectRuleMatches
  <2> HIDE DEF run
  <2> QED
    BY <1>1, <1>2, <1>5, <2>3, <2>4 DEF CollectRuleMatches
<1>6. CASE ListAllByTeam(e)
  <2> DEFINE toClear == ToClear(row, ev[e].desired)
             toMark == ToMark(row, ev[e].desired)
             run == [ev[e] EXCEPT !.phase = "write", !.clears = toClear, !.marks = toMark]
  <2>1. toClear \subseteq Resources /\ toMark \subseteq Resources
    BY DEF ToClear, ToMark
  <2>2. run \in Runs
    <3> HIDE DEF toClear, toMark
    <3> QED
      BY <2>1, ZenonT(60) DEF Runs, Phases
  <2>3. Becomes(e, run)
    BY <1>6 DEF ListAllByTeam
  <2> HIDE DEF run
  <2> QED
    BY <1>1, <1>2, <1>6, <2>2, <2>3 DEF ListAllByTeam
<1>7. ASSUME NEW x \in Resources, ClearStale(e, x) PROVE TypeOK'
  <2> DEFINE due == IF Live(x) THEN {<<x, "cleared">>} ELSE {}
             X == IF Live(x) THEN {x} ELSE {}
             run == [ev[e] EXCEPT !.clears = ev[e].clears \ {x}, !.debt = due]
  <2>1. due \in SUBSET (Resources \X {"marked", "cleared"})
    OBVIOUS
  <2>2. run \in Runs
    <3> HIDE DEF due
    <3> QED
      BY <2>1, ZenonT(60) DEF Runs
  <2>3. Becomes(e, run) /\ DisturbOthers(X, e)
    BY <1>7 DEF ClearStale
  <2>4. row' \in [Resources -> {NoRow} \cup {S \in SUBSET Rules : S # {}}]
    BY <1>7 DEF ClearStale
  <2> HIDE DEF run, X
  <2>5. ev' \in [Evaluators -> Runs]
    BY <2>2, <2>3, BecomesTyped
  <2>6. /\ calm' \in [Evaluators -> SUBSET Resources]
        /\ agreed' \in [Evaluators -> SUBSET Resources] /\ still' \in BOOLEAN
    BY <2>3, DisturbOthersTyped
  <2> QED
    BY <1>7, <2>4, <2>5, <2>6 DEF ClearStale, settings
<1>8. ASSUME NEW x \in Resources, MarkStale(e, x) PROVE TypeOK'
  <2> DEFINE due == IF Live(x) THEN {} ELSE {<<x, "marked">>}
             X == {x}
             run == [ev[e] EXCEPT !.marks = ev[e].marks \ {x}, !.debt = due]
  <2>1. due \in SUBSET (Resources \X {"marked", "cleared"})
    OBVIOUS
  <2>2. run \in Runs
    <3> HIDE DEF due
    <3> QED
      BY <2>1, ZenonT(60) DEF Runs
  <2>3. Becomes(e, run) /\ DisturbOthers(X, e)
    BY <1>8 DEF MarkStale
  <2>4. ev[e].desired[x] \in SUBSET Rules /\ ev[e].desired[x] # {}
    BY <1>8 DEF MarkStale, Lists
  <2>5. row' \in [Resources -> {NoRow} \cup {S \in SUBSET Rules : S # {}}]
    BY <1>8, <2>4 DEF MarkStale
  <2> HIDE DEF run, X
  <2>6. ev' \in [Evaluators -> Runs]
    BY <2>2, <2>3, BecomesTyped
  <2>7. /\ calm' \in [Evaluators -> SUBSET Resources]
        /\ agreed' \in [Evaluators -> SUBSET Resources] /\ still' \in BOOLEAN
    BY <2>3, DisturbOthersTyped
  <2> QED
    BY <1>8, <2>5, <2>6, <2>7 DEF MarkStale, settings
<1>9. CASE RecordAudit(e)
  <2>1. PICK entry \in ev[e].debt :
          /\ newest' = [newest EXCEPT ![entry[1]] = entry[2]]
          /\ Becomes(e, [ev[e] EXCEPT !.debt = {}])
          /\ DisturbOthers({entry[1]}, e)
          /\ UNCHANGED <<settings, recent, row, clr>>
    BY <1>9 DEF RecordAudit
  <2> DEFINE X == {entry[1]}
             run == [ev[e] EXCEPT !.debt = {}]
  <2>2. run \in Runs
    BY ZenonT(60) DEF Runs
  <2>3. entry[1] \in Resources /\ entry[2] \in Actions
    BY DEF Actions
  <2>4. newest' \in [Resources -> Actions]
    BY <2>1, <2>3
  <2>5. Becomes(e, run) /\ DisturbOthers(X, e)
    BY <2>1
  <2> HIDE DEF run, X
  <2>6. ev' \in [Evaluators -> Runs]
    BY <2>2, <2>5, BecomesTyped
  <2>7. /\ calm' \in [Evaluators -> SUBSET Resources]
        /\ agreed' \in [Evaluators -> SUBSET Resources] /\ still' \in BOOLEAN
    BY <2>5, DisturbOthersTyped
  <2> QED
    BY <2>1, <2>4, <2>6, <2>7 DEF settings
<1>10. CASE ListMissingMarks(e)
  <2> DEFINE todo == {x \in Resources : Missing(x) /\ ev[e].desired[x] # {}}
             run == [ev[e] EXCEPT !.phase = "repair", !.repairs = todo]
  <2>1. todo \subseteq Resources
    OBVIOUS
  <2>2. run \in Runs
    <3> HIDE DEF todo
    <3> QED
      BY <2>1, ZenonT(60) DEF Runs, Phases
  <2>3. Becomes(e, run)
    BY <1>10 DEF ListMissingMarks
  <2> HIDE DEF run
  <2> QED
    BY <1>1, <1>2, <1>10, <2>2, <2>3 DEF ListMissingMarks
<1>11. ASSUME NEW x \in Resources, RepairMark(e, x) PROVE TypeOK'
  <2> DEFINE X == {x}
             run == [ev[e] EXCEPT !.repairs = ev[e].repairs \ {x}]
  <2>1. run \in Runs
    BY ZenonT(60) DEF Runs
  <2>2. Becomes(e, run) /\ DisturbOthers(X, e)
    BY <1>11 DEF RepairMark
  <2>3. newest' \in [Resources -> Actions]
    BY <1>11 DEF RepairMark, Actions
  <2> HIDE DEF run, X
  <2>4. ev' \in [Evaluators -> Runs]
    BY <2>1, <2>2, BecomesTyped
  <2>5. /\ calm' \in [Evaluators -> SUBSET Resources]
        /\ agreed' \in [Evaluators -> SUBSET Resources] /\ still' \in BOOLEAN
    BY <2>2, DisturbOthersTyped
  <2> QED
    BY <1>11, <2>3, <2>4, <2>5 DEF RepairMark, settings
<1>12. CASE RunEnds(e)
  BY <1>1, <1>12, NoRunIsRun DEF RunEnds
<1> QED
  BY <1>3, <1>4, <1>5, <1>6, <1>7, <1>8, <1>9, <1>10, <1>11, <1>12
  DEF Evaluate, Finish

LEMMA ClearerTyped ==
  ASSUME TypeOK, NEW c \in Clearers,
         \/ ClearIfStale(c) \/ GiveUp(c)
         \/ \E x \in Resources, by \in Touches, landed \in BOOLEAN : Touch(c, x, by, landed)
  PROVE  TypeOK'
<1> USE DEF TypeOK
<1>1. NoCall \in Calls
  BY DEF Calls
<1>2. ASSUME UNCHANGED <<settings, recent, tables, ev, observed>>,
             clr' \in [Clearers -> Calls]
      PROVE  TypeOK'
  BY <1>2 DEF settings, tables, observed
<1>3. ASSUME NEW x \in Resources, NEW by \in Touches, NEW landed \in BOOLEAN,
             Touch(c, x, by, landed)
      PROVE  TypeOK'
  <2> DEFINE X == IF landed THEN {x} ELSE {}
             call == [at |-> "look", x |-> x, by |-> by]
  <2>1. call \in Calls
    BY DEF Calls
  <2>2. Calling(c, call) /\ Disturb(X)
    BY <1>3 DEF Touch
  <2>3. recent' \in [Resources -> SUBSET Touches]
    BY <1>3 DEF Touch
  <2> HIDE DEF call, X
  <2>4. clr' \in [Clearers -> Calls]
    BY <2>1, <2>2, CallTyped
  <2>5. /\ calm' \in [Evaluators -> SUBSET Resources]
        /\ agreed' \in [Evaluators -> SUBSET Resources] /\ still' \in BOOLEAN
    BY <2>2, DisturbTyped
  <2> QED
    BY <1>3, <2>3, <2>4, <2>5 DEF Touch, settings, tables
<1>4. CASE Look(c)
  <2>1. clr[c].x \in Resources /\ clr[c].by \in Touches
    BY <1>4, CallFields DEF Look, At
  <2> DEFINE call == [at |-> "rules", x |-> clr[c].x, by |-> clr[c].by,
                      matched |-> row[clr[c].x]]
  <2>2. \/ Calling(c, NoCall) \/ GoOn(c, "settings")
        \/ /\ Live(clr[c].x) /\ clr[c].by # Edit
           /\ Calling(c, call)
    BY <1>4 DEF Look
  <2>3. ASSUME Live(clr[c].x), clr[c].by # Edit PROVE call \in Calls
    <3>1. clr[c].by \in Mediums
      BY <2>1, <2>3 DEF Touches
    <3>2. row[clr[c].x] \in SUBSET Rules
      BY <2>1, <2>3, RowFields DEF Live
    <3> QED
      BY <2>1, <3>1, <3>2 DEF Calls
  <2> HIDE DEF call
  <2>4. clr' \in [Clearers -> Calls]
    BY <1>1, <2>1, <2>2, <2>3, CallTyped, GoOnTyped
  <2> QED
    BY <1>2, <1>4, <2>4 DEF Look
<1>5. CASE ReadRules(c)
  <2>1. clr[c].x \in Resources
    BY <1>5, CallFields DEF ReadRules, At
  <2>2. Calling(c, NoCall) \/ GoOn(c, "settings")
    BY <1>5 DEF ReadRules
  <2> QED
    BY <1>1, <1>2, <1>5, <2>1, <2>2, CallTyped, GoOnTyped DEF ReadRules
<1>6. CASE ReadSettings(c)
  <2>1. clr[c].x \in Resources
    BY <1>6, CallFields DEF ReadSettings, At
  <2>2. Calling(c, NoCall) \/ GoOn(c, "delete")
    BY <1>6 DEF ReadSettings
  <2> QED
    BY <1>1, <1>2, <1>6, <2>1, <2>2, CallTyped, GoOnTyped DEF ReadSettings
<1>7. CASE DeleteByResource(c)
  <2> DEFINE X == IF Live(clr[c].x) THEN {clr[c].x} ELSE {}
  <2>1. clr[c].x \in Resources
    BY <1>7, CallFields DEF DeleteByResource, At
  <2>2. /\ Calling(c, NoCall) \/ GoOn(c, "record")
        /\ Disturb(X)
    BY <1>7 DEF DeleteByResource
  <2>3. row' \in [Resources -> {NoRow} \cup {S \in SUBSET Rules : S # {}}]
    BY <1>7 DEF DeleteByResource
  <2> HIDE DEF X
  <2>4. clr' \in [Clearers -> Calls]
    BY <1>1, <2>1, <2>2, CallTyped, GoOnTyped
  <2>5. /\ calm' \in [Evaluators -> SUBSET Resources]
        /\ agreed' \in [Evaluators -> SUBSET Resources] /\ still' \in BOOLEAN
    BY <2>2, DisturbTyped
  <2> QED
    BY <1>7, <2>3, <2>4, <2>5 DEF DeleteByResource, settings
<1>8. CASE RecordReversal(c)
  <2> DEFINE X == {clr[c].x}
  <2>1. Calling(c, NoCall) /\ Disturb(X)
    BY <1>8 DEF RecordReversal
  <2>2. newest' \in [Resources -> Actions]
    BY <1>8 DEF RecordReversal, Actions
  <2> HIDE DEF X
  <2>3. clr' \in [Clearers -> Calls]
    BY <1>1, <2>1, CallTyped
  <2>4. /\ calm' \in [Evaluators -> SUBSET Resources]
        /\ agreed' \in [Evaluators -> SUBSET Resources] /\ still' \in BOOLEAN
    BY <2>1, DisturbTyped
  <2> QED
    BY <1>8, <2>2, <2>3, <2>4 DEF RecordReversal, settings
<1>9. CASE GiveUp(c)
  BY <1>1, <1>2, <1>9, CallTyped DEF GiveUp
<1> QED
  BY <1>3, <1>4, <1>5, <1>6, <1>7, <1>8, <1>9 DEF ClearIfStale

LEMMA OutsideTyped ==
  ASSUME TypeOK,
         \/ \E u \in Rules : Administer(u)
         \/ SetReversible \/ ReconcileSchedules \/ BecomeStill
         \/ \E x \in Resources, t \in Touches : TimePasses(x, t)
  PROVE  TypeOK'
<1> USE DEF TypeOK
<1>1. ASSUME scheduled' \in {scheduled, HasRules(rule')} PROVE scheduled' \in BOOLEAN
  BY <1>1 DEF HasRules
<1>2. ASSUME NEW u \in Rules, NEW f \in Forms[u], CreateRule(u, f) \/ UpdateRule(u, f)
      PROVE  TypeOK'
  <2>1. f \in RuleForms
    BY FormsAreRules
  <2>2. rule' \in [Rules -> RuleForms \cup {NoRule, Deleted}]
    BY <1>2, <2>1 DEF CreateRule, UpdateRule
  <2>3. scheduled' \in BOOLEAN
    BY <1>1, <1>2 DEF CreateRule, UpdateRule, SyncSchedule
  <2>4. Disturb(Resources)
    BY <1>2 DEF CreateRule, UpdateRule
  <2>5. /\ calm' \in [Evaluators -> SUBSET Resources]
        /\ agreed' \in [Evaluators -> SUBSET Resources] /\ still' \in BOOLEAN
    BY <2>4, DisturbTyped
  <2> QED
    BY <1>2, <2>2, <2>3, <2>5 DEF CreateRule, UpdateRule, tables
<1>3. ASSUME NEW u \in Rules, RemoveRule(u) PROVE TypeOK'
  <2> DEFINE named == {x \in Resources : Live(x) /\ u \in row[x]}
  <2>1. /\ row' = [x \in Resources |->
                     IF x \notin named THEN row[x]
                     ELSE IF row[x] = {u} THEN NoRow
                     ELSE row[x] \ {u}]
        /\ Disturb(named)
    BY <1>3 DEF RemoveRule
  <2>2. ASSUME NEW x \in Resources
        PROVE  \/ row'[x] = NoRow
               \/ row'[x] \in SUBSET Rules /\ row'[x] # {}
    <3>1. CASE x \notin named
      <4>1. row'[x] = row[x]
        BY <2>1, <3>1
      <4> QED
        BY <4>1, RowFields
    <3>2. CASE x \in named /\ row[x] = {u}
      BY <2>1, <3>2
    <3>3. CASE x \in named /\ row[x] # {u}
      <4>1. row'[x] = row[x] \ {u}
        BY <2>1, <3>3
      <4>2. row[x] \subseteq Rules /\ u \in row[x]
        BY <3>3, RowFields DEF Live
      <4>3. row[x] \ {u} # {}
        BY <4>2, <3>3
      <4> QED
        BY <4>1, <4>2, <4>3
    <3> QED
      BY <3>1, <3>2, <3>3
  <2>3. row' \in [Resources -> {NoRow} \cup {S \in SUBSET Rules : S # {}}]
    <3> HIDE DEF named
    <3> QED
      BY <2>1, <2>2
  <2> HIDE DEF named
  <2>4. /\ calm' \in [Evaluators -> SUBSET Resources]
        /\ agreed' \in [Evaluators -> SUBSET Resources] /\ still' \in BOOLEAN
    BY <2>1, DisturbTyped
  <2> QED
    BY <1>3, <2>3, <2>4 DEF RemoveRule
<1>4. ASSUME NEW u \in Rules, DeleteRule(u) PROVE TypeOK'
  <2>1. scheduled' \in BOOLEAN
    BY <1>1, <1>4 DEF DeleteRule, SyncSchedule
  <2>2. Disturb(Resources)
    BY <1>4 DEF DeleteRule
  <2>3. /\ calm' \in [Evaluators -> SUBSET Resources]
        /\ agreed' \in [Evaluators -> SUBSET Resources] /\ still' \in BOOLEAN
    BY <2>2, DisturbTyped
  <2> QED
    BY <1>4, <2>1, <2>3 DEF DeleteRule, tables
<1>5. ASSUME NEW u \in Rules, LeaveRule(u) PROVE TypeOK'
  BY <1>5 DEF LeaveRule, tables, observed
<1>6. CASE SetReversible
  <2>1. scheduled' \in BOOLEAN
    BY <1>1, <1>6 DEF SetReversible, SyncSchedule
  <2> QED
    BY <1>6, <2>1 DEF SetReversible, tables, observed
<1>7. CASE ReconcileSchedules
  BY <1>7 DEF ReconcileSchedules, tables, observed
<1>8. CASE BecomeStill
  BY <1>8 DEF BecomeStill, settings, tables
<1>9. ASSUME NEW x \in Resources, NEW t \in Touches, TimePasses(x, t) PROVE TypeOK'
  <2> DEFINE X == {x}
  <2>1. Disturb(X) /\ recent' \in [Resources -> SUBSET Touches]
    BY <1>9 DEF TimePasses
  <2> HIDE DEF X
  <2>2. /\ calm' \in [Evaluators -> SUBSET Resources]
        /\ agreed' \in [Evaluators -> SUBSET Resources] /\ still' \in BOOLEAN
    BY <2>1, DisturbTyped
  <2> QED
    BY <1>9, <2>1, <2>2 DEF TimePasses, settings, tables
<1> QED
  BY <1>2, <1>3, <1>4, <1>5, <1>6, <1>7, <1>8, <1>9 DEF Administer

-----------------------------------------------------------------------------
\* Every step preserves RunInv: of the run that takes it, and of all others.

LEMMA EvaluatorInv ==
  ASSUME TypeOK, TypeOK', NEW e \in Evaluators, Evaluate(e) \/ RunEnds(e),
         RunInv(e)
  PROVE  RunInv(e)'
  BY RunEndsInv, BecomeDueInv, LoadRulesInv, CollectInv, ListAllInv, ClearStaleInv,
     MarkStaleInv, RepairMarkInv, RecordAuditInv, ListMissingMarksInv
  DEF Evaluate, Finish

LEMMA EvaluatorLeavesOthers ==
  ASSUME TypeOK, NEW e \in Evaluators, Evaluate(e) \/ RunEnds(e),
         NEW f \in Evaluators, f # e, Agreeing(f)
  PROVE  Undisturbed(f)
<1>1. ASSUME NEW run, Becomes(e, run) PROVE ev'[f] = ev[f]
  BY <1>1 DEF Becomes, TypeOK
<1>2. ASSUME NEW run, Becomes(e, run), UNCHANGED <<settings, recent, tables>>,
             calm'[f] = calm[f], agreed'[f] = agreed[f]
      PROVE  Undisturbed(f)
  BY <1>1, <1>2, QuietKeeps DEF settings
<1>3. ASSUME NEW run, Becomes(e, run), NEW X, DisturbOthers(X, e),
             UNCHANGED <<settings, recent>>,
             \A x \in Resources \ X : row'[x] = row[x] /\ newest'[x] = newest[x]
      PROVE  Undisturbed(f)
  BY <1>1, <1>3, DisturbOthersKeeps DEF settings
<1>4. CASE BecomeDue(e)
  BY <1>2, <1>4 DEF BecomeDue, observed
<1>5. CASE LoadRules(e)
  BY <1>2, <1>5 DEF LoadRules, TypeOK
<1>6. ASSUME NEW u \in Rules, CollectRuleMatches(e, u) PROVE Undisturbed(f)
  <2>1. PICK run : Becomes(e, run)
    BY <1>6 DEF CollectRuleMatches
  <2> QED
    BY <1>2, <1>6, <2>1 DEF CollectRuleMatches, observed
<1>7. CASE ListAllByTeam(e)
  BY <1>2, <1>7 DEF ListAllByTeam, observed
<1>8. ASSUME NEW x \in Resources, ClearStale(e, x) PROVE Undisturbed(f)
  <2> DEFINE X == IF Live(x) THEN {x} ELSE {}
  <2>1. DisturbOthers(X, e) /\ UNCHANGED <<settings, recent>> /\ newest' = newest
    BY <1>8 DEF ClearStale
  <2>2. PICK run : Becomes(e, run)
    BY <1>8 DEF ClearStale
  <2>3. \A y \in Resources \ X : row'[y] = row[y]
    BY <1>8 DEF ClearStale, TypeOK, Live
  <2> HIDE DEF X
  <2> QED
    BY <1>3, <2>1, <2>2, <2>3
<1>9. ASSUME NEW x \in Resources, MarkStale(e, x) PROVE Undisturbed(f)
  <2> DEFINE X == {x}
  <2>1. DisturbOthers(X, e) /\ UNCHANGED <<settings, recent>> /\ newest' = newest
    BY <1>9 DEF MarkStale
  <2>2. PICK run : Becomes(e, run)
    BY <1>9 DEF MarkStale
  <2>3. \A y \in Resources \ X : row'[y] = row[y]
    BY <1>9 DEF MarkStale, TypeOK
  <2> HIDE DEF X
  <2> QED
    BY <1>3, <2>1, <2>2, <2>3
<1>10. ASSUME NEW x \in Resources, RepairMark(e, x) PROVE Undisturbed(f)
  <2> DEFINE X == {x}
  <2>1. DisturbOthers(X, e) /\ UNCHANGED <<settings, recent>> /\ row' = row
    BY <1>10 DEF RepairMark
  <2>2. PICK run : Becomes(e, run)
    BY <1>10 DEF RepairMark
  <2>3. \A y \in Resources \ X : newest'[y] = newest[y]
    BY <1>10 DEF RepairMark, TypeOK
  <2> HIDE DEF X
  <2> QED
    BY <1>3, <2>1, <2>2, <2>3
<1>11. CASE RecordAudit(e)
  <2>1. PICK entry \in ev[e].debt :
          /\ newest' = [newest EXCEPT ![entry[1]] = entry[2]]
          /\ Becomes(e, [ev[e] EXCEPT !.debt = {}])
          /\ DisturbOthers({entry[1]}, e)
          /\ UNCHANGED <<settings, recent, row, clr>>
    BY <1>11 DEF RecordAudit
  <2> DEFINE X == {entry[1]}
  <2>2. DisturbOthers(X, e) /\ UNCHANGED <<settings, recent>> /\ row' = row
    BY <2>1
  <2>3. PICK run : Becomes(e, run)
    BY <2>1
  <2>4. \A y \in Resources \ X : newest'[y] = newest[y]
    BY <2>1 DEF TypeOK
  <2> HIDE DEF X
  <2> QED
    BY <1>3, <2>2, <2>3, <2>4
<1>12. CASE ListMissingMarks(e)
  <2>1. PICK run : Becomes(e, run)
    BY <1>12 DEF ListMissingMarks
  <2> QED
    BY <1>2, <1>12, <2>1 DEF ListMissingMarks, observed
<1>13. CASE RunEnds(e)
  BY <1>2, <1>13 DEF RunEnds, TypeOK
<1> QED
  BY <1>4, <1>5, <1>6, <1>7, <1>8, <1>9, <1>10, <1>11, <1>12, <1>13
  DEF Evaluate, Finish

LEMMA ClearerLeavesRuns ==
  ASSUME TypeOK, NEW c \in Clearers, NEW f \in Evaluators, Agreeing(f),
         \/ ClearIfStale(c) \/ GiveUp(c)
         \/ \E x \in Resources, by \in Touches, landed \in BOOLEAN : Touch(c, x, by, landed)
  PROVE  Undisturbed(f)
<1>1. ASSUME UNCHANGED <<settings, recent, tables, ev, observed>> PROVE Undisturbed(f)
  BY <1>1, QuietKeeps DEF settings, observed
<1>2. ASSUME NEW x \in Resources, NEW by \in Touches, NEW landed \in BOOLEAN,
             Touch(c, x, by, landed)
      PROVE  Undisturbed(f)
  <2> DEFINE X == IF landed THEN {x} ELSE {}
  <2>1. Disturb(X) /\ \A y \in Resources \ X : recent'[y] = recent[y]
    BY <1>2 DEF Touch, TypeOK
  <2> HIDE DEF X
  <2> QED
    BY <1>2, <2>1, DisturbKeeps DEF Touch, settings, tables
<1>3. CASE DeleteByResource(c)
  <2> DEFINE X == IF Live(clr[c].x) THEN {clr[c].x} ELSE {}
  <2>1. Disturb(X)
    BY <1>3 DEF DeleteByResource
  <2>2. \A y \in Resources \ X : row'[y] = row[y]
    BY <1>3 DEF DeleteByResource, TypeOK, Live
  <2> HIDE DEF X
  <2> QED
    BY <1>3, <2>1, <2>2, DisturbKeeps DEF DeleteByResource, settings
<1>4. CASE RecordReversal(c)
  <2> DEFINE X == {clr[c].x}
  <2>1. Disturb(X) /\ \A y \in Resources \ X : newest'[y] = newest[y]
    BY <1>4 DEF RecordReversal, TypeOK
  <2> HIDE DEF X
  <2> QED
    BY <1>4, <2>1, DisturbKeeps DEF RecordReversal, settings
<1>5. CASE Look(c) \/ ReadRules(c) \/ ReadSettings(c) \/ GiveUp(c)
  BY <1>1, <1>5 DEF Look, ReadRules, ReadSettings, GiveUp
<1> QED
  BY <1>2, <1>3, <1>4, <1>5 DEF ClearIfStale

LEMMA OutsideLeavesRuns ==
  ASSUME TypeOK, NEW f \in Evaluators, Agreeing(f),
         \/ \E u \in Rules : Administer(u)
         \/ SetReversible \/ ReconcileSchedules \/ BecomeStill
         \/ \E x \in Resources, t \in Touches : TimePasses(x, t)
  PROVE  Undisturbed(f)
<1>1. ASSUME Disturb(Resources), UNCHANGED <<recent, tables, ev>> PROVE Undisturbed(f)
  BY <1>1, DisturbKeeps DEF tables
<1>2. ASSUME UNCHANGED <<rule, recent, tables, ev, calm, agreed>> PROVE Undisturbed(f)
  BY <1>2, QuietKeeps
<1>3. ASSUME NEW u \in Rules, RemoveRule(u) PROVE Undisturbed(f)
  <2> DEFINE X == {x \in Resources : Live(x) /\ u \in row[x]}
  <2>1. Disturb(X) /\ \A y \in Resources \ X : row'[y] = row[y]
    BY <1>3 DEF RemoveRule, TypeOK
  <2> HIDE DEF X
  <2> QED
    BY <1>3, <2>1, DisturbKeeps DEF RemoveRule
<1>4. ASSUME NEW x \in Resources, NEW t \in Touches, TimePasses(x, t) PROVE Undisturbed(f)
  <2> DEFINE X == {x}
  <2>1. Disturb(X) /\ \A y \in Resources \ X : recent'[y] = recent[y]
    BY <1>4 DEF TimePasses, TypeOK
  <2> HIDE DEF X
  <2> QED
    BY <1>4, <2>1, DisturbKeeps DEF TimePasses, settings, tables
<1>5. ASSUME NEW u \in Rules, NEW g \in Forms[u], CreateRule(u, g) \/ UpdateRule(u, g)
      PROVE  Undisturbed(f)
  BY <1>1, <1>5 DEF CreateRule, UpdateRule
<1>6. ASSUME NEW u \in Rules, DeleteRule(u) PROVE Undisturbed(f)
  BY <1>1, <1>6 DEF DeleteRule
<1>7. ASSUME NEW u \in Rules, LeaveRule(u) PROVE Undisturbed(f)
  BY <1>2, <1>7 DEF LeaveRule, observed
<1>8. CASE SetReversible \/ ReconcileSchedules
  BY <1>2, <1>8 DEF SetReversible, ReconcileSchedules, observed
<1>9. CASE BecomeStill
  BY <1>2, <1>9 DEF BecomeStill, settings
<1> QED
  BY <1>3, <1>4, <1>5, <1>6, <1>7, <1>8, <1>9 DEF Administer

-----------------------------------------------------------------------------
\* The inductive invariant.

LEMMA InitInv == Init => IInv
<1> SUFFICES ASSUME Init PROVE IInv
  OBVIOUS
<1>1. TypeOK
  BY NoRunIsRun DEF Init, TypeOK, Actions, Calls
<1>2. ASSUME NEW e \in Evaluators PROVE RunInv(e)
  <2>1. ev[e] = NoRun /\ calm[e] = {} /\ agreed[e] = {}
    BY DEF Init
  <2> QED
    BY <2>1 DEF RunInv, Resting, Lists, Matching, Writing, Repairing, Agreeing, NoRun
<1> QED
  BY <1>1, <1>2 DEF IInv

LEMMA StepInv == IInv /\ [Next]_vars => IInv'
<1> SUFFICES ASSUME IInv, [Next]_vars PROVE IInv'
  OBVIOUS
<1>1. TypeOK /\ \A e \in Evaluators : RunInv(e) /\ Lists(e) /\ Agreeing(e)
  BY DEF IInv, RunInv
<1>2. ASSUME TypeOK', NEW f \in Evaluators, Undisturbed(f) PROVE RunInv(f)'
  BY <1>1, <1>2, KeptRun
<1>3. ASSUME NEW e \in Evaluators, Evaluate(e) \/ RunEnds(e) PROVE IInv'
  <2>1. TypeOK'
    BY <1>1, <1>3, EvaluatorTyped
  <2>2. RunInv(e)'
    BY <1>1, <1>3, <2>1, EvaluatorInv
  <2>3. ASSUME NEW f \in Evaluators, f # e PROVE RunInv(f)'
    BY <1>1, <1>2, <1>3, <2>1, <2>3, EvaluatorLeavesOthers
  <2> QED
    BY <2>1, <2>2, <2>3 DEF IInv
<1>4. ASSUME NEW c \in Clearers,
             \/ ClearIfStale(c) \/ GiveUp(c)
             \/ \E x \in Resources, by \in Touches, landed \in BOOLEAN :
                  Touch(c, x, by, landed)
      PROVE  IInv'
  <2>1. TypeOK'
    BY <1>1, <1>4, ClearerTyped
  <2>2. ASSUME NEW f \in Evaluators PROVE RunInv(f)'
    BY <1>1, <1>2, <1>4, <2>1, ClearerLeavesRuns
  <2> QED
    BY <2>1, <2>2 DEF IInv
<1>5. ASSUME \/ \E u \in Rules : Administer(u)
             \/ SetReversible \/ ReconcileSchedules \/ BecomeStill
             \/ \E x \in Resources, t \in Touches : TimePasses(x, t)
      PROVE  IInv'
  <2>1. TypeOK'
    BY <1>1, <1>5, OutsideTyped
  <2>2. ASSUME NEW f \in Evaluators PROVE RunInv(f)'
    BY <1>1, <1>2, <1>5, <2>1, OutsideLeavesRuns
  <2> QED
    BY <2>1, <2>2 DEF IInv
<1>6. CASE UNCHANGED vars
  <2>1. UNCHANGED <<rule, deleting, reversible, scheduled, recent, row, newest, ev, clr,
                    still, calm, agreed>>
    BY <1>6 DEF vars, settings, tables, observed
  <2>2. TypeOK'
    BY <1>1, <2>1 DEF TypeOK
  <2>3. ASSUME NEW f \in Evaluators PROVE RunInv(f)'
    BY <1>1, <1>2, <2>1, <2>2, QuietKeeps DEF tables
  <2> QED
    BY <2>2, <2>3 DEF IInv
<1> QED
  BY <1>3, <1>4, <1>5, <1>6 DEF Next, Abort

LEMMA Inductive == Spec => []IInv
  BY InitInv, StepInv, PTL DEF Spec

-----------------------------------------------------------------------------
(***************************************************************************)
(* Every variable keeps its type: in particular no row is ever left        *)
(* without a rule (markStale writes a row only for a matched resource,     *)
(* RemoveRule deletes the rows it empties).                                *)
(***************************************************************************)
THEOREM TypeCorrect == Spec => []TypeOK
<1>1. IInv => TypeOK
  BY DEF IInv
<1> QED
  BY <1>1, Inductive, PTL

(***************************************************************************)
(* A run that comes to its end leaves every resource nobody else touched   *)
(* meanwhile as the rules want it, with a mark as the newest entry of the  *)
(* stale ones.                                                             *)
(***************************************************************************)
THEOREM RunsReconcile == Spec => []RunReconciles
<1>1. ASSUME IInv PROVE RunReconciles
  <2> SUFFICES ASSUME NEW e \in Evaluators, Finished(e), NEW x \in calm[e]
               PROVE  InOrder(x)
    BY DEF RunReconciles
  <2>1. /\ ev[e].phase = "repair" /\ ev[e].repairs = {}
        /\ Lists(e) /\ Writing(e) /\ Repairing(e)
    BY <1>1 DEF IInv, RunInv, Finished
  <2>2. row[x] = WantedRow(x)
    BY <2>1 DEF Lists, Writing
  <2>3. LogAgrees(x)
    BY <2>1 DEF Repairing
  <2> QED
    BY <2>2, <2>3 DEF InOrder
<1> QED
  BY <1>1, Inductive, PTL

(***************************************************************************)
(* A run has nothing to write for a resource that was in order when it     *)
(* loaded the rules and that nobody else touched since.                    *)
(***************************************************************************)
THEOREM QuietRunsStayQuiet == Spec => []QuietRunsWriteNothing
<1>1. IInv => QuietRunsWriteNothing
  BY DEF IInv, RunInv, Agreeing, QuietRunsWriteNothing
<1> QED
  BY <1>1, Inductive, PTL
=============================================================================
