-------------------------- MODULE AuthSystemProofs --------------------------
(***************************************************************************)
(* What the save guards, the cached settings and the provider registry     *)
(* keep, for any number of writers, providers, requests and sign-ins, any  *)
(* probe interval and refresh timeout, and whatever the writers of this    *)
(* and of other replicas do.                                               *)
(***************************************************************************)
EXTENDS AuthSystem, TLAPS

-----------------------------------------------------------------------------
(* The writers.  A verdict that is still compared with the current version  *)
(* speaks of the providers and the policy as they are; a switch that is     *)
(* compared with the current policy carries that policy's mode.             *)
Judged(w) ==
  /\ \E p \in Providers : writer[w].takes = {p}
  /\ writer[w].base <= version
  /\ writer[w].base = version /\ writer[w].pc \in {"judging", "writing"} => writer[w].rows = enabled
  /\ writer[w].base = version /\ writer[w].pc = "writing" /\ ~writer[w].confirmed => ~LeavesNone(w)

Committed(w) == IF writer[w].op = "list" THEN list.at ELSE policy.at

WriterInv(w) ==
  /\ writer[w].op = "takeAway" => Judged(w)
  /\ At(w, "writing", "switchOn") =>
       /\ writer[w].base <= policy.at
       /\ writer[w].base = policy.at => writer[w].mode = policy.mode
  /\ writer[w].pc = "committed" =>
       /\ writer[w].op \in {"list", "save", "switchOn"}
       /\ writer[w].base <= Committed(w)

WritesInv ==
  /\ list.at <= version /\ policy.at <= version /\ providersAt <= version
  /\ \A w \in Writers : WriterInv(w)

-----------------------------------------------------------------------------
(* The cached setting.  Content kept for a version is no older than any     *)
(* write up to that version which this process, a request of it or the      *)
(* table still knows of.                                                    *)
Writes(w) == writer[w].pc = "committed" /\ (writer[w].op = "list") = (serves = "allowlist")
Asking(q) == request[q].pc \in {"keyed", "waiting"}
Probed(f) == f.pc \in {"comparing", "reading", "storing"}

Complete(v, at) ==
  /\ at <= stored.at
  /\ stored.at <= v => stored.at <= at
  /\ owned <= v => owned <= at
  /\ \A w \in Writers : Writes(w) /\ writer[w].base <= v => writer[w].base <= at
  /\ \A q \in Requests : Asking(q) /\ request[q].since <= v => request[q].since <= at

SnapInv ==
  snap # None => /\ snap.gen <= gen
                 /\ snap.version <= version
                 /\ Complete(snap.version, snap.content.at)
                 /\ snap.gen = gen => owned <= snap.content.at

FlightInv(f) ==
  /\ f.gen <= gen
  /\ Probed(f) => /\ f.version <= version
                  /\ f.gen = gen => owned <= f.version
                  /\ \A q \in Requests : Asking(q) /\ request[q].gen = f.gen => request[q].since <= f.version
  /\ f.pc = "storing" => Complete(f.version, f.content.at)

RequestInv(q) ==
  /\ Asking(q) => request[q].gen <= gen /\ request[q].since <= owned
  /\ request[q].pc = "served" => request[q].own

SeenInv ==
  /\ owned <= stored.at
  /\ SnapInv
  /\ \A f \in flights : FlightInv(f)
  /\ \A q \in Requests : RequestInv(q)

(* A refresh returns nothing that was replaced before it began: what it     *)
(* finds unchanged since the version it probed was current then.            *)
Current(f, v, at) == Probed(f) /\ f.version = v => f.begun <= ended[at]

FlightTime(f) ==
  /\ f.begun <= clock
  /\ f.pc # "starting" => clock <= f.begun + RefreshTimeout
  /\ f.pc = "storing" => f.begun <= ended[f.content.at]
  /\ snap # None => Current(f, snap.version, snap.content.at)
  /\ \A g \in flights : g.pc = "storing" => Current(f, g.version, g.content.at)

TimeInv ==
  /\ \A at \in 0..MaxWrites : at >= stored.at => ended[at] = MaxClock
  /\ snap # None => /\ snap.probedAt <= clock
                    /\ snap.probedAt <= ended[snap.content.at] + RefreshTimeout
  /\ \A f \in flights : FlightTime(f)
  /\ \A q \in Requests : request[q].pc = "served" => request[q].timely

-----------------------------------------------------------------------------
(* The registry.  Providers kept for a version are no older than any that a *)
(* sign-in, the rebuild or the table knows to be stored by that version,    *)
(* and a rebuild that lists them is for no older version than the registry. *)
Looking(s) == signIn[s].pc \in {"checking", "joining", "waiting"}

UpTo(v, at) ==
  /\ at <= providersAt
  /\ providersAt <= v => providersAt <= at
  /\ rebuild # None /\ rebuild.want <= v => rebuild.want <= at
  /\ \A s \in SignIns : Looking(s) /\ signIn[s].want <= v => signIn[s].want <= at

RebuildInv ==
  rebuild # None =>
    /\ rebuild.want <= rebuild.version
    /\ rebuild.want <= providersAt
    /\ rebuild.version <= version
    /\ rebuild.pc # "starting" /\ registry # None => registry.version <= rebuild.version
    /\ rebuild.pc = "building" => /\ UpTo(rebuild.version, rebuild.at)
                                  /\ registry # None => registry.at <= rebuild.at

SignInInv(s) ==
  /\ Looking(s) => /\ signIn[s].want <= signIn[s].version
                   /\ signIn[s].want <= providersAt
                   /\ signIn[s].version <= version
  /\ signIn[s].pc = "waiting" => /\ rebuild # None
                                 /\ rebuild.want \in {signIn[s].want, signIn[s].joined}
  /\ signIn[s].pc = "answered" => signIn[s].keptUp

Kept == registry # None => registry.version <= version /\ UpTo(registry.version, registry.at)

RegistryInv ==
  /\ Kept
  /\ RebuildInv
  /\ \A s \in SignIns : SignInInv(s)

-----------------------------------------------------------------------------
(* What a writer's step does.                                               *)

(* A write bumps the version and changes one of the three settings.         *)
OneWrite ==
  /\ version' = version + 1
  /\ \/ list'.at = version + 1 /\ UNCHANGED <<policy, enabled, providersAt>>
     \/ policy'.at = version + 1 /\ UNCHANGED <<list, enabled, providersAt>>
     \/ providersAt' = version + 1 /\ UNCHANGED <<list, policy>>

WriterMoves(w) ==
  /\ WritesTypeOK'
  /\ \A x \in Writers \ {w} : writer'[x] = writer[x]
  /\ UNCHANGED settings \/ OneWrite
  /\ writer'[w].pc = "committed" => writer'[w].base = Committed(w)'

LEMMA IdleIsAWriter == Idle \in WriterType
<1>1. (CHOOSE m \in Modes : TRUE) \in Modes
  BY WritesAssumption
<1>2. 0 \in 0..Unchecked
  BY WritesAssumption DEF Unchecked
<1> QED
  BY <1>1, <1>2 DEF Idle, WriterType

LEMMA WriteEffect ==
  ASSUME WritesTypeOK, NEW w \in Writers, NEW ops, Write(w, ops)
  PROVE  WriterMoves(w)
<1>0. MaxWrites \in Nat /\ Unchecked \in Nat /\ 0..MaxWrites \subseteq 0..Unchecked
  BY WritesAssumption DEF Unchecked
<1>1. /\ Idle \in WriterType /\ Idle.pc = "idle"
      /\ writer[w] \in WriterType /\ writer \in [Writers -> WriterType]
  BY IdleIsAWriter DEF WritesTypeOK, Idle
<1> USE <1>0, <1>1
<1>2. ASSUME NEW p \in Providers, NEW c \in BOOLEAN, BeginTakeAway(w, p, c)
      PROVE  WriterMoves(w)
  BY <1>2 DEF BeginTakeAway,
       WriterMoves, WritesTypeOK, WriterType, settings, OneWrite, Committed, Ends, Goes, At, Bump
<1>3. ASSUME NEW p \in Providers, BeginOffer(w, p)
      PROVE  WriterMoves(w)
  BY <1>3 DEF BeginOffer,
       WriterMoves, WritesTypeOK, WriterType, settings, OneWrite, Committed, Ends, Goes, At, Bump
<1>4. ASSUME NEW on \in BOOLEAN, NEW c \in BOOLEAN, NEW m \in Modes, NEW b \in {policy.at, Unchecked},
             BeginSave(w, on, m, b, c)
      PROVE  WriterMoves(w)
  <2>1. b \in 0..Unchecked
    BY DEF WritesTypeOK
  <2>2. PICK pc \in {"writing", "listing"} :
             writer' = [writer EXCEPT ![w] = [Idle EXCEPT !.pc = pc, !.op = "save", !.confirmed = c, !.base = b,
                                                          !.on = on, !.mode = m]]
    BY <1>4, Zenon DEF BeginSave
  <2>3. [Idle EXCEPT !.pc = pc, !.op = "save", !.confirmed = c, !.base = b, !.on = on, !.mode = m] \in WriterType
    BY <2>1 DEF WriterType
  <2>4. UNCHANGED settings
    BY <1>4 DEF BeginSave
  <2> QED
    BY <2>2, <2>3, <2>4 DEF WriterMoves, WritesTypeOK, Committed, settings
<1>5. ASSUME NEW restricts \in BOOLEAN, WriteList(w, restricts)
      PROVE  WriterMoves(w)
  <2>1. version + 1 \in 0..MaxWrites
    BY <1>5 DEF WriteList, WritesTypeOK, Bump
  <2>2. [at |-> version + 1, restricts |-> restricts] \in [at : 0..MaxWrites, restricts : BOOLEAN]
    BY <2>1
  <2>3. [Idle EXCEPT !.pc = "committed", !.op = "list", !.base = version + 1] \in WriterType
    BY <2>1 DEF WriterType
  <2> QED
    BY <1>5, <2>1, <2>2, <2>3 DEF WriteList,
       WriterMoves, WritesTypeOK, WriterType, settings, OneWrite, Committed, Ends, Goes, At, Bump
<1>6. CASE ResetList(w)
  <2>1. CASE WriteList(w, FALSE)
    <3>1. \E restricts \in BOOLEAN : WriteList(w, restricts)
      BY <2>1
    <3> QED
      BY <1>5, <3>1
  <2>2. CASE ~WriteList(w, FALSE)
    <3>1. [Idle EXCEPT !.pc = "committed", !.op = "list", !.base = list.at] \in WriterType
      BY DEF WriterType, WritesTypeOK
    <3>2. writer' = [writer EXCEPT ![w] = [Idle EXCEPT !.pc = "committed", !.op = "list", !.base = list.at]]
      BY <1>6, <2>2, Zenon DEF ResetList
    <3>3. UNCHANGED settings
      BY <1>6, <2>2, Zenon DEF ResetList
    <3> QED
      BY <3>1, <3>2, <3>3 DEF WriterMoves, WritesTypeOK, Committed, settings
  <2> QED
    BY <2>1, <2>2
<1>7. CASE BeginSwitchOn(w)
  BY <1>7 DEF BeginSwitchOn,
       WriterMoves, WritesTypeOK, WriterType, settings, OneWrite, Committed, Ends, Goes, At, Bump
<1>8. CASE ListForTakeAway(w)
  BY <1>8 DEF ListForTakeAway,
       WriterMoves, WritesTypeOK, WriterType, settings, OneWrite, Committed, Ends, Goes, At, Bump
<1>9. CASE JudgeTakeAway(w)
  BY <1>9 DEF JudgeTakeAway,
       WriterMoves, WritesTypeOK, WriterType, settings, OneWrite, Committed, Ends, Goes, At, Bump
<1>10. CASE WriteProvider(w)
  BY <1>10 DEF WriteProvider,
       WriterMoves, WritesTypeOK, WriterType, settings, OneWrite, Committed, Ends, Goes, At, Bump
<1>11. CASE ListForSave(w)
  BY <1>11 DEF ListForSave,
       WriterMoves, WritesTypeOK, WriterType, settings, OneWrite, Committed, Ends, Goes, At, Bump
<1>12. CASE JudgeSave(w)
  BY <1>12 DEF JudgeSave,
       WriterMoves, WritesTypeOK, WriterType, settings, OneWrite, Committed, Ends, Goes, At, Bump
<1>13. CASE WritePolicy(w)
  BY <1>13 DEF WritePolicy,
       WriterMoves, WritesTypeOK, WriterType, settings, OneWrite, Committed, Ends, Goes, At, Bump
<1>14. CASE UpdateList(w)
  BY <1>5, <1>14 DEF UpdateList
<1>15. CASE BeginSave(w, TRUE, policy.mode, Unchecked, FALSE)
  <2>1. policy.mode \in Modes
    BY DEF WritesTypeOK
  <2>2. \E on \in BOOLEAN, c \in BOOLEAN, m \in Modes, b \in {policy.at, Unchecked} : BeginSave(w, on, m, b, c)
    BY <1>15, <2>1, Zenon
  <2> QED
    BY <1>4, <2>2, Zenon
<1> QED
  BY <1>2, <1>3, <1>4, <1>5, <1>6, <1>7, <1>8, <1>9, <1>10, <1>11, <1>12, <1>13, <1>14, <1>15, Zenon DEF Write

-----------------------------------------------------------------------------
(* Types.                                                                   *)

LEMMA FlightFields ==
  ASSUME NEW f \in Cache!FlightType
  PROVE  /\ f.gen \in Nat /\ f.begun \in Nat
         /\ f.pc \in {"starting", "probing", "comparing", "reading", "storing"}
         /\ Probed(f) => f.version \in Nat
         /\ f.pc = "storing" => f.content \in Cache!Content
         /\ f.pc = "comparing" => [f EXCEPT !.pc = "reading"] \in Cache!FlightType
BY DEF Cache!FlightType, Probed

LEMMA RequestFields ==
  ASSUME NEW r \in Cache!RequestType
  PROVE  /\ r.pc \in {"idle", "open", "refused", "keyed", "waiting", "failed", "served"}
         /\ r.pc \in {"keyed", "waiting", "failed"} =>
              /\ r.gen \in Nat /\ r.since \in Nat
              /\ [r EXCEPT !.pc = "waiting"] \in Cache!RequestType
              /\ [r EXCEPT !.pc = "failed"] \in Cache!RequestType
         /\ r.pc = "served" => r.own \in BOOLEAN /\ r.timely \in BOOLEAN
BY DEF Cache!RequestType

LEMMA ServedIsTyped ==
  ASSUME NEW content, NEW since
  PROVE  Cache!Served(content, since) \in Cache!RequestType
<1>1. (content.at >= since) \in BOOLEAN
  OBVIOUS
<1>2. (clock < ended[content.at] + ProbeInterval + RefreshTimeout) \in BOOLEAN
  OBVIOUS
<1> QED
  BY <1>1, <1>2 DEF Cache!Served, Cache!RequestType

LEMMA LandsIsTyped ==
  ASSUME TypeOK, NEW f, NEW content, Cache!Lands(f, content)
  PROVE  flights' \subseteq Cache!FlightType /\ request' \in [Requests -> Cache!RequestType]
<1>1. \A q \in Requests : Cache!Served(content, request[q].since) \in Cache!RequestType
  BY ServedIsTyped
<1> QED
  BY <1>1 DEF Cache!Lands, TypeOK, Cache!CacheTypeOK

LEMMA CacheTypes ==
  ASSUME TypeOK, CacheSteps
  PROVE  Cache!CacheTypeOK'
<1>1. /\ gen \in Nat /\ clock \in Nat /\ owned \in Nat /\ version \in Nat
      /\ snap \in {None} \cup [gen : Nat, version : Nat, content : Cache!Content, probedAt : Nat]
      /\ flights \subseteq Cache!FlightType
      /\ request \in [Requests -> Cache!RequestType]
  BY WritesAssumption, TimesAssumption DEF TypeOK, WritesTypeOK, Cache!CacheTypeOK
<1>2. stored \in Cache!Content
  BY WritesAssumption DEF TypeOK, WritesTypeOK, stored, Cache!Content
<1>3. load.requests \subseteq Requests
  BY LoadsAssumption DEF TypeOK
<1>4. /\ gen' \in Nat
      /\ flights' \subseteq Cache!FlightType
      /\ request' \in [Requests -> Cache!RequestType]
      /\ snap' \in {None} \cup [gen : Nat, version : Nat, content : Cache!Content, probedAt : Nat]
  <2>1. ASSUME NEW q \in Requests, Cache!Ask(q)
        PROVE  request' \in [Requests -> Cache!RequestType] /\ UNCHANGED <<gen, snap, flights>>
    <3>1. Cache!Served(snap.content, owned) \in Cache!RequestType
      BY ServedIsTyped
    <3>2. [pc |-> "keyed", gen |-> gen, since |-> owned] \in Cache!RequestType
      BY <1>1 DEF Cache!RequestType
    <3> QED
      BY <1>1, <2>1, <3>1, <3>2 DEF Cache!Ask
  <2>2. ASSUME NEW q \in Requests, Cache!Join(q)
        PROVE  /\ request' \in [Requests -> Cache!RequestType] /\ flights' \subseteq Cache!FlightType
               /\ UNCHANGED <<gen, snap>>
    <3>1. request[q] \in Cache!RequestType /\ request[q].pc = "keyed"
      BY <1>1, <2>2 DEF Cache!Join
    <3>2. request[q].gen \in Nat /\ [request[q] EXCEPT !.pc = "waiting"] \in Cache!RequestType
      BY <3>1, RequestFields
    <3>3. [gen |-> request[q].gen, pc |-> "starting", begun |-> clock] \in Cache!FlightType
      BY <1>1, <3>2 DEF Cache!FlightType
    <3>4. request' = [request EXCEPT ![q] = [request[q] EXCEPT !.pc = "waiting"]]
      BY <1>1, <2>2 DEF Cache!Join
    <3> QED
      BY <1>1, <2>2, <3>2, <3>3, <3>4 DEF Cache!Join
  <2>3. ASSUME NEW q \in Requests, Cache!GiveUp(q)
        PROVE  request' \in [Requests -> Cache!RequestType] /\ UNCHANGED <<gen, snap, flights>>
    <3>1. request[q] \in Cache!RequestType /\ request[q].pc = "waiting"
      BY <1>1, <2>3 DEF Cache!GiveUp
    <3>2. [request[q] EXCEPT !.pc = "failed"] \in Cache!RequestType
      BY <3>1, RequestFields
    <3>3. request' = [request EXCEPT ![q] = [request[q] EXCEPT !.pc = "failed"]]
      BY <1>1, <2>3 DEF Cache!GiveUp
    <3> QED
      BY <1>1, <2>3, <3>2, <3>3 DEF Cache!GiveUp
  <2>4. ASSUME NEW q \in Requests, Cache!AfterFailure(q)
        PROVE  request' \in [Requests -> Cache!RequestType] /\ UNCHANGED <<gen, snap, flights>>
    <3>1. [pc |-> "refused"] \in Cache!RequestType /\ [pc |-> "open"] \in Cache!RequestType
      BY DEF Cache!RequestType
    <3> QED
      BY <1>1, <2>4, <3>1 DEF Cache!AfterFailure
  <2>5. ASSUME NEW f \in flights, Cache!Recheck(f)
        PROVE  /\ request' \in [Requests -> Cache!RequestType] /\ flights' \subseteq Cache!FlightType
               /\ UNCHANGED <<gen, snap>>
    <3>1. f \in Cache!FlightType
      BY <1>1
    <3>2. [gen |-> f.gen, pc |-> "probing", begun |-> clock] \in Cache!FlightType
      BY <1>1, <3>1, FlightFields DEF Cache!FlightType
    <3> QED
      BY <1>1, <2>5, <3>2, LandsIsTyped DEF Cache!Recheck, Cache!Becomes
  <2>6. ASSUME NEW f \in flights, Cache!Probe(f)
        PROVE  flights' \subseteq Cache!FlightType /\ UNCHANGED <<gen, snap, request>>
    <3>1. f \in Cache!FlightType
      BY <1>1
    <3>2. [gen |-> f.gen, pc |-> "comparing", begun |-> f.begun, version |-> version] \in Cache!FlightType
      BY <1>1, <3>1, FlightFields DEF Cache!FlightType
    <3> QED
      BY <1>1, <2>6, <3>2 DEF Cache!Probe, Cache!Becomes
  <2>7. ASSUME NEW f \in flights, Cache!Compare(f)
        PROVE  flights' \subseteq Cache!FlightType /\ UNCHANGED <<gen, snap, request>>
    <3>1. f \in Cache!FlightType /\ f.pc = "comparing"
      BY <1>1, <2>7 DEF Cache!Compare
    <3>2. f.gen \in Nat /\ f.begun \in Nat /\ f.version \in Nat
      BY <3>1, FlightFields DEF Probed
    <3>3. [f EXCEPT !.pc = "reading"] \in Cache!FlightType
      BY <3>1, FlightFields
    <3>4. ASSUME snap # None
          PROVE  [gen |-> f.gen, pc |-> "storing", begun |-> f.begun, version |-> f.version,
                  content |-> snap.content] \in Cache!FlightType
      <4>1. snap.content \in Cache!Content
        BY <1>1, <3>4
      <4> QED
        BY <3>2, <4>1 DEF Cache!FlightType
    <3> QED
      BY <1>1, <2>7, <3>3, <3>4 DEF Cache!Compare, Cache!Becomes
  <2>8. ASSUME NEW f \in flights, Cache!Read(f)
        PROVE  flights' \subseteq Cache!FlightType /\ UNCHANGED <<gen, snap, request>>
    <3>1. f \in Cache!FlightType /\ f.pc = "reading"
      BY <1>1, <2>8 DEF Cache!Read
    <3>2. f.gen \in Nat /\ f.begun \in Nat /\ f.version \in Nat
      BY <3>1, FlightFields DEF Probed
    <3>3. [gen |-> f.gen, pc |-> "storing", begun |-> f.begun, version |-> f.version, content |-> stored]
            \in Cache!FlightType
      BY <1>2, <3>2 DEF Cache!FlightType
    <3> QED
      BY <1>1, <2>8, <3>3 DEF Cache!Read, Cache!Becomes
  <2>9. ASSUME NEW f \in flights, Cache!Store(f)
        PROVE  /\ request' \in [Requests -> Cache!RequestType] /\ flights' \subseteq Cache!FlightType
               /\ snap' \in [gen : Nat, version : Nat, content : Cache!Content, probedAt : Nat]
               /\ UNCHANGED gen
    <3>1. f \in Cache!FlightType /\ f.pc = "storing"
      BY <1>1, <2>9 DEF Cache!Store
    <3>2. f.gen \in Nat /\ f.version \in Nat /\ f.content \in Cache!Content
      BY <3>1, FlightFields DEF Probed
    <3> QED
      BY <1>1, <2>9, <3>2, LandsIsTyped DEF Cache!Store
  <2>10. ASSUME NEW f \in flights, Cache!Fail(f)
         PROVE  /\ request' \in [Requests -> Cache!RequestType] /\ flights' \subseteq Cache!FlightType
                /\ UNCHANGED <<gen, snap>>
    <3>1. \A q \in Requests : q \in Cache!Waiting(f.gen) => [request[q] EXCEPT !.pc = "failed"] \in Cache!RequestType
      BY <1>1, RequestFields DEF Cache!Waiting
    <3> QED
      BY <1>1, <2>10, <3>1 DEF Cache!Fail
  <2> QED
    BY <1>1, <1>3, <2>1, <2>2, <2>3, <2>4, <2>5, <2>6, <2>7, <2>8, <2>9, <2>10
       DEF CacheSteps, Cache!CacheNext, Cache!RequestStep, Cache!RefreshStep
<1> QED
  BY <1>4 DEF Cache!CacheTypeOK

LEMMA RebuildFields ==
  ASSUME NEW r \in Registry!RebuildType
  PROVE  /\ r.pc \in {"starting", "listing", "building"}
         /\ r.version \in Nat /\ r.want \in Nat
         /\ r.pc = "building" => r.at \in Nat
         /\ r.pc = "starting" => [r EXCEPT !.pc = "listing"] \in Registry!RebuildType
BY DEF Registry!RebuildType

LEMMA SignInFields ==
  ASSUME NEW r \in Registry!SignInType
  PROVE  /\ r.pc \in {"idle", "failed", "checking", "joining", "waiting", "answered"}
         /\ r.pc \in {"checking", "joining", "waiting"} =>
              /\ r.version \in Nat /\ r.want \in Nat /\ r.joined \in Nat
              /\ [r EXCEPT !.pc = "joining"] \in Registry!SignInType
              /\ [r EXCEPT !.pc = "waiting"] \in Registry!SignInType
              /\ \A j \in Nat : [r EXCEPT !.pc = "waiting", !.joined = j] \in Registry!SignInType
BY DEF Registry!SignInType

LEMMA AnsweredIsTyped ==
  ASSUME NEW s, NEW at
  PROVE  Registry!Answered(s, at) \in Registry!SignInType
<1>1. (at >= signIn[s].want \/ at >= signIn[s].joined) \in BOOLEAN
  OBVIOUS
<1> QED
  BY <1>1 DEF Registry!Answered, Registry!SignInType

LEMMA RegistryTypes ==
  ASSUME TypeOK, RegistrySteps
  PROVE  Registry!RegistryTypeOK'
<1> DEFINE Snapshot == {None} \cup [version : Nat, at : Nat, healthy : BOOLEAN, due : BOOLEAN]
           Rebuilds == {None} \cup Registry!RebuildType
           SignInsType == [SignIns -> Registry!SignInType]
<1>1. /\ version \in Nat /\ providersAt \in Nat
      /\ registry \in Snapshot
      /\ rebuild \in Rebuilds
      /\ signIn \in SignInsType
  BY WritesAssumption DEF TypeOK, WritesTypeOK, Registry!RegistryTypeOK
<1>2. load.signIns \subseteq SignIns
  BY LoadsAssumption DEF TypeOK
<1>3. /\ [pc |-> "failed"] \in Registry!SignInType
      /\ \A s \in SignIns, at \in Nat : Registry!Answered(s, at) \in Registry!SignInType
  BY AnsweredIsTyped DEF Registry!SignInType
<1>4. registry' \in Snapshot /\ rebuild' \in Rebuilds /\ signIn' \in SignInsType
  <2>1. ASSUME NEW s \in SignIns, Registry!ReadVersion(s)
        PROVE  signIn' \in SignInsType /\ UNCHANGED <<registry, rebuild>>
    <3>1. [pc |-> "checking", version |-> version, want |-> providersAt, joined |-> providersAt]
            \in Registry!SignInType
      BY <1>1 DEF Registry!SignInType
    <3> QED
      BY <1>1, <2>1, <3>1 DEF Registry!ReadVersion
  <2>2. ASSUME NEW s \in SignIns, Registry!Check(s)
        PROVE  signIn' \in SignInsType /\ UNCHANGED <<registry, rebuild>>
    <3>1. signIn[s] \in Registry!SignInType /\ signIn[s].pc = "checking"
      BY <1>1, <2>2 DEF Registry!Check
    <3>2. [signIn[s] EXCEPT !.pc = "joining"] \in Registry!SignInType
      BY <3>1, SignInFields
    <3>3. Registry!Answered(s, registry.at) \in Registry!SignInType
      BY AnsweredIsTyped
    <3> QED
      BY <1>1, <2>2, <3>2, <3>3 DEF Registry!Check
  <2>3. ASSUME NEW s \in SignIns, Registry!JoinRebuild(s)
        PROVE  signIn' \in SignInsType /\ rebuild' \in Rebuilds /\ UNCHANGED registry
    <3>1. signIn[s] \in Registry!SignInType /\ signIn[s].pc = "joining"
      BY <1>1, <2>3 DEF Registry!JoinRebuild
    <3>2. CASE rebuild = None
      <4>1. signIn' = [signIn EXCEPT ![s] = [signIn[s] EXCEPT !.pc = "waiting"]]
        BY <1>1, <2>3, <3>2 DEF Registry!JoinRebuild
      <4>2. [signIn[s] EXCEPT !.pc = "waiting"] \in Registry!SignInType
        BY <3>1, SignInFields
      <4>3. rebuild' \in Registry!RebuildType
        <5>1. signIn[s].version \in Nat /\ signIn[s].want \in Nat
          BY <3>1, SignInFields
        <5>2. [pc |-> "starting", version |-> signIn[s].version, want |-> signIn[s].want] \in Registry!RebuildType
          BY <5>1 DEF Registry!RebuildType
        <5> QED
          BY <2>3, <3>2, <5>2 DEF Registry!JoinRebuild
      <4> QED
        BY <1>1, <2>3, <4>1, <4>2, <4>3 DEF Registry!JoinRebuild
    <3>3. CASE rebuild # None
      <4>1. signIn' = [signIn EXCEPT ![s] = [signIn[s] EXCEPT !.pc = "waiting", !.joined = rebuild.want]]
        BY <1>1, <2>3, <3>3 DEF Registry!JoinRebuild
      <4>2. rebuild.want \in Nat
        BY <1>1, <3>3, RebuildFields
      <4>3. [signIn[s] EXCEPT !.pc = "waiting", !.joined = rebuild.want] \in Registry!SignInType
        BY <3>1, <4>2, SignInFields
      <4> QED
        BY <1>1, <2>3, <3>3, <4>1, <4>3 DEF Registry!JoinRebuild
    <3> QED
      BY <3>2, <3>3
  <2>4. ASSUME NEW s \in SignIns, Registry!Leave(s)
        PROVE  signIn' \in SignInsType /\ UNCHANGED <<registry, rebuild>>
    BY <1>1, <1>3, <2>4 DEF Registry!Leave
  <2>5. ASSUME NEW at, Registry!Tell(at)
        PROVE  signIn' \in SignInsType /\ rebuild' \in Rebuilds
    BY <1>1, <2>5, AnsweredIsTyped DEF Registry!Tell
  <2>6. CASE Registry!LookAgain
    <3>1. rebuild \in Registry!RebuildType /\ rebuild.pc = "starting"
      BY <1>1, <2>6 DEF Registry!LookAgain
    <3>2. [rebuild EXCEPT !.pc = "listing"] \in Registry!RebuildType
      BY <3>1, RebuildFields
    <3> QED
      BY <1>1, <2>5, <2>6, <3>2 DEF Registry!LookAgain
  <2>7. CASE Registry!ListRows
    <3>1. rebuild.version \in Nat /\ rebuild.want \in Nat
      BY <1>1, <2>7, RebuildFields DEF Registry!ListRows
    <3>2. rebuild' \in Registry!RebuildType
      BY <1>1, <2>7, <3>1 DEF Registry!ListRows, Registry!RebuildType
    <3> QED
      BY <1>1, <2>7, <3>2 DEF Registry!ListRows
  <2>8. CASE Registry!ListFails
    BY <1>1, <1>3, <2>8 DEF Registry!ListFails
  <2>9. ASSUME NEW h \in BOOLEAN, Registry!BuildRows(h)
        PROVE  signIn' \in SignInsType /\ rebuild' \in Rebuilds /\ registry' \in Snapshot
    <3>1. rebuild.version \in Nat /\ rebuild.at \in Nat
      BY <1>1, <2>9, RebuildFields DEF Registry!BuildRows
    <3>2. registry' \in Snapshot
      BY <2>9, <3>1 DEF Registry!BuildRows
    <3> QED
      BY <2>5, <2>9, <3>2 DEF Registry!BuildRows
  <2>10. CASE Registry!BackoffElapses
    BY <1>1, <2>10 DEF Registry!BackoffElapses
  <2> HIDE DEF Snapshot, Rebuilds, SignInsType
  <2> QED
    BY <1>1, <1>2, <2>1, <2>2, <2>3, <2>4, <2>6, <2>7, <2>8, <2>9, <2>10
       DEF RegistrySteps, Registry!RegistryNext, Registry!SignInStep, Registry!RebuildStep
<1> QED
  BY <1>4 DEF Registry!RegistryTypeOK

LEMMA InitTypes == Init => TypeOK
<1> SUFFICES ASSUME Init PROVE TypeOK
  OBVIOUS
<1> USE DEF Init
<1>1. 0 \in 0..MaxWrites /\ 0 \in 0..MaxClock /\ MaxClock \in 0..MaxClock
  BY WritesAssumption, TimesAssumption
<1>2. WritesTypeOK
  BY <1>1, IdleIsAWriter DEF WritesInit, WritesTypeOK
<1>3. Cache!CacheTypeOK
  BY DEF Cache!CacheInit, Cache!CacheTypeOK, Cache!RequestType
<1>4. Registry!RegistryTypeOK
  BY DEF Registry!RegistryInit, Registry!RegistryTypeOK, Registry!SignInType
<1>5. serves \in {"allowlist", "policy"}
  BY DEF Cache!CacheInit
<1>6. ended \in [0..MaxWrites -> 0..MaxClock]
  BY <1>1
<1> QED
  BY <1>1, <1>2, <1>3, <1>4, <1>5, <1>6 DEF TypeOK

(* A writer's step and what it observes of the setting it replaces.         *)
LEMMA StoredAt ==
  ASSUME TypeOK
  PROVE  stored.at \in 0..MaxWrites /\ stored.at = IF serves = "allowlist" THEN list.at ELSE policy.at
BY DEF TypeOK, WritesTypeOK, stored

LEMMA StepTypes == TypeOK /\ [Next]_vars => TypeOK'
<1> SUFFICES ASSUME TypeOK, [Next]_vars PROVE TypeOK'
  OBVIOUS
<1>1. ASSUME NEW w \in Writers, WriterSteps(w)
      PROVE  TypeOK'
  <2>1. WritesTypeOK'
    BY <1>1, WriteEffect DEF TypeOK, WriterSteps, WriterMoves
  <2>2. ended' \in [0..MaxWrites -> 0..MaxClock]
    BY <1>1, StoredAt DEF TypeOK, WriterSteps
  <2>3. UNCHANGED <<load, serves, clock, owned>>
    BY <1>1 DEF WriterSteps
  <2>4. Cache!CacheTypeOK' /\ Registry!RegistryTypeOK'
    BY <1>1 DEF TypeOK, WriterSteps, cacheVars, registryVars, Cache!CacheTypeOK, Registry!RegistryTypeOK
  <2> QED
    BY <2>1, <2>2, <2>3, <2>4 DEF TypeOK
<1>2. ASSUME NEW w \in Writers, Acknowledge(w)
      PROVE  TypeOK'
  <2>1. WritesTypeOK'
    BY <1>2, IdleIsAWriter DEF TypeOK, Acknowledge, Return, Ends, settings, WritesTypeOK
  <2>2. UNCHANGED <<load, serves, clock, ended>>
    BY <1>2 DEF Acknowledge
  <2>3. Registry!RegistryTypeOK'
    BY <1>2 DEF TypeOK, Acknowledge, registryVars, Registry!RegistryTypeOK
  <2>4. Cache!CacheTypeOK'
    BY <1>2 DEF TypeOK, Acknowledge, cacheVars, Cache!Invalidate, Cache!CacheTypeOK
  <2>5. owned' \in Nat
    <3>1. writer[w].base \in Nat
      BY WritesAssumption DEF TypeOK, WritesTypeOK, WriterType, Unchecked
    <3> QED
      BY <1>2, <3>1 DEF TypeOK, Acknowledge
  <2> QED
    BY <2>1, <2>2, <2>3, <2>4, <2>5 DEF TypeOK
<1>3. CASE CacheSteps
  <2>1. Cache!CacheTypeOK'
    BY <1>3, CacheTypes
  <2>2. WritesTypeOK' /\ Registry!RegistryTypeOK'
    BY <1>3 DEF TypeOK, CacheSteps, writesVars, registryVars, WritesTypeOK, Registry!RegistryTypeOK
  <2>3. UNCHANGED <<load, serves, clock, owned, ended>>
    BY <1>3 DEF CacheSteps, watched
  <2> QED
    BY <2>1, <2>2, <2>3 DEF TypeOK
<1>4. CASE RegistrySteps
  <2>1. Registry!RegistryTypeOK'
    BY <1>4, RegistryTypes
  <2>2. WritesTypeOK' /\ Cache!CacheTypeOK'
    BY <1>4 DEF TypeOK, RegistrySteps, writesVars, cacheVars, WritesTypeOK, Cache!CacheTypeOK
  <2>3. UNCHANGED <<load, serves, clock, owned, ended>>
    BY <1>4 DEF RegistrySteps, watched
  <2> QED
    BY <2>1, <2>2, <2>3 DEF TypeOK
<1>5. CASE Tick
  <2>1. WritesTypeOK' /\ Cache!CacheTypeOK' /\ Registry!RegistryTypeOK'
    BY <1>5 DEF TypeOK, Tick, writesVars, cacheVars, registryVars, WritesTypeOK, Cache!CacheTypeOK,
                Registry!RegistryTypeOK
  <2>2. UNCHANGED <<load, serves, owned, ended>>
    BY <1>5 DEF Tick, watched
  <2>3. clock' \in 0..MaxClock
    BY <1>5, LoadsAssumption, TimesAssumption DEF TypeOK, Tick
  <2> QED
    BY <2>1, <2>2, <2>3 DEF TypeOK
<1>6. CASE UNCHANGED vars
  BY <1>6 DEF TypeOK, vars, writesVars, cacheVars, registryVars, watched, WritesTypeOK, Cache!CacheTypeOK,
              Registry!RegistryTypeOK
<1> QED
  BY <1>1, <1>2, <1>3, <1>4, <1>5, <1>6 DEF Next

(* The types of the composed system, for every instance.                    *)
THEOREM TypeCorrect == Spec => []TypeOK
<1>1. Init => TypeOK
  BY InitTypes
<1>2. TypeOK /\ [Next]_vars => TypeOK'
  BY StepTypes
<1> QED
  BY <1>1, <1>2, PTL DEF Spec

-----------------------------------------------------------------------------
(* The writers.                                                             *)

LEMMA WriterFields ==
  ASSUME WritesTypeOK, NEW w \in Writers
  PROVE  /\ version \in Nat /\ list.at \in Nat /\ policy.at \in Nat /\ providersAt \in Nat
         /\ writer[w].base \in Nat /\ writer[w].takes \subseteq Providers /\ writer[w].rows \subseteq Providers
         /\ writer[w].pc \in {"idle", "listing", "judging", "writing", "retrying", "committed"}
         /\ writer[w].op \in {"none", "takeAway", "offer", "save", "switchOn", "list"}
         /\ writer[w].confirmed \in BOOLEAN /\ writer[w].again \in BOOLEAN /\ policy.on \in BOOLEAN
BY WritesAssumption DEF WritesTypeOK, WriterType, Unchecked

(* A writer that does not move keeps its claim: nothing it speaks of has    *)
(* changed, or the version it is compared with is no longer the current one.*)
LEMMA OthersStand ==
  ASSUME TypeOK, WritesInv, NEW w \in Writers, NEW x \in Writers, WriterMoves(w), writer'[x] = writer[x]
  PROVE  WriterInv(x)'
<1>1. WriterInv(x) /\ list.at <= version /\ policy.at <= version
  BY DEF WritesInv
<1>2. WritesTypeOK
  BY DEF TypeOK
<1>3. CASE UNCHANGED settings
  BY <1>1, <1>3 DEF WriterInv, Judged, LeavesNone, Committed, settings, At
<1>4. CASE OneWrite
  <2>1. /\ version' = version + 1 /\ version \in Nat /\ writer[x].base \in Nat
        /\ list.at \in Nat /\ policy.at \in Nat
    BY <1>2, <1>4, WriterFields DEF OneWrite
  <2>2. list'.at \in {list.at, version + 1} /\ policy'.at \in {policy.at, version + 1}
    BY <1>4 DEF OneWrite
  <2>3. policy'.at = policy.at => policy' = policy
    BY <1>1, <1>4, <2>1 DEF OneWrite
  <2>4. writer[x].op = "takeAway" => Judged(x)'
    BY <1>1, <2>1 DEF WriterInv, Judged
  <2>5. At(x, "writing", "switchOn") =>
          writer[x].base <= policy'.at /\ (writer[x].base = policy'.at => writer[x].mode = policy'.mode)
    BY <1>1, <2>1, <2>2, <2>3 DEF WriterInv
  <2>6. writer[x].pc = "committed" => writer[x].base <= Committed(x)'
    BY <1>1, <2>1, <2>2 DEF WriterInv, Committed
  <2> QED
    BY <1>1, <2>4, <2>5, <2>6 DEF WriterInv, At
<1> QED
  BY <1>3, <1>4 DEF WriterMoves

(* The steps of a writer, whatever operations its load allows.              *)
LEMMA WriteCases ==
  ASSUME NEW w, NEW ops, Write(w, ops)
  PROVE  \/ \E p \in Providers, c \in BOOLEAN : BeginTakeAway(w, p, c)
         \/ \E p \in Providers : BeginOffer(w, p)
         \/ \E on \in BOOLEAN, c \in BOOLEAN : \E m, b : BeginSave(w, on, m, b, c)
         \/ \E restricts \in BOOLEAN : WriteList(w, restricts)
         \/ ResetList(w) \/ UpdateList(w) \/ BeginSwitchOn(w)
         \/ ListForTakeAway(w) \/ JudgeTakeAway(w) \/ WriteProvider(w)
         \/ ListForSave(w) \/ JudgeSave(w) \/ WritePolicy(w)
BY Zenon DEF Write

LEMMA WriteKeepsWriters ==
  ASSUME TypeOK, WritesInv, NEW w \in Writers, NEW ops, Write(w, ops)
  PROVE  WritesInv'
<1>0. WritesTypeOK
  BY DEF TypeOK
<1>1. WriterMoves(w)
  BY <1>0, WriteEffect
<1>2. list'.at <= version' /\ policy'.at <= version' /\ providersAt' <= version'
  BY <1>0, <1>1, WriterFields DEF WriterMoves, OneWrite, WritesInv, settings
<1>3. \A x \in Writers \ {w} : WriterInv(x)'
  BY <1>1, OthersStand DEF WriterMoves
<1>4. /\ writer \in [Writers -> WriterType] /\ WriterInv(w) /\ writer'[w].base \in Nat
      /\ Idle.op = "none" /\ Idle.pc = "idle"
  BY <1>0, <1>1, WritesAssumption DEF WritesInv, WriterMoves, WritesTypeOK, WriterType, Unchecked, Idle
<1> DEFINE Claims == /\ writer'[w].pc = "committed" => writer'[w].op \in {"list", "save", "switchOn"}
                     /\ writer'[w].op = "takeAway" => Judged(w)'
                     /\ At(w, "writing", "switchOn")' =>
                          /\ writer'[w].base <= policy'.at
                          /\ writer'[w].base = policy'.at => writer'[w].mode = policy'.mode
<1>5. Claims
  <2>1. ASSUME NEW p \in Providers, NEW c \in BOOLEAN, BeginTakeAway(w, p, c)
        PROVE  Claims
    BY <1>0, <1>4, <2>1, WriterFields DEF BeginTakeAway, Judged, settings, At
  <2>2. ASSUME NEW p \in Providers, BeginOffer(w, p)
        PROVE  Claims
    BY <1>4, <2>2 DEF BeginOffer, At
  <2>3. ASSUME NEW on, NEW c, NEW m, NEW b, BeginSave(w, on, m, b, c)
        PROVE  Claims
    <3>1. PICK pc \in {"writing", "listing"} :
               writer' = [writer EXCEPT ![w] = [Idle EXCEPT !.pc = pc, !.op = "save", !.confirmed = c, !.base = b,
                                                            !.on = on, !.mode = m]]
      BY <2>3, Zenon DEF BeginSave
    <3> QED
      BY <1>4, <3>1 DEF At
  <2>4. ASSUME NEW restricts, WriteList(w, restricts)
        PROVE  Claims
    BY <1>4, <2>4 DEF WriteList, At
  <2>5. CASE ResetList(w)
    <3>1. CASE WriteList(w, FALSE)
      BY <2>4, <3>1
    <3>2. CASE ~WriteList(w, FALSE)
      <4>1. writer' = [writer EXCEPT ![w] = [Idle EXCEPT !.pc = "committed", !.op = "list", !.base = list.at]]
        BY <2>5, <3>2, Zenon DEF ResetList
      <4> QED
        BY <1>4, <4>1 DEF At
    <3> QED
      BY <3>1, <3>2
  <2>6. CASE ListForTakeAway(w)
    BY <1>4, <2>6, <1>0, WriterFields DEF ListForTakeAway, Idle, WriterType, WriterInv, Judged, LeavesNone, Ends, Goes, At, settings
  <2>7. CASE JudgeTakeAway(w)
    BY <1>4, <2>7, <1>0, WriterFields DEF JudgeTakeAway, Idle, WriterType, WriterInv, Judged, LeavesNone, Ends, Goes, At, settings
  <2>8. CASE WriteProvider(w)
    BY <1>4, <2>8 DEF WriteProvider, Idle, WriterType, WriterInv, Judged, LeavesNone, Ends, Goes, At, settings
  <2>9. CASE ListForSave(w)
    BY <1>4, <2>9 DEF ListForSave, Idle, WriterType, WriterInv, Judged, LeavesNone, Ends, Goes, At, settings
  <2>10. CASE JudgeSave(w)
    BY <1>4, <2>10 DEF JudgeSave, Idle, WriterType, WriterInv, Judged, LeavesNone, Ends, Goes, At, settings
  <2>11. CASE WritePolicy(w)
    BY <1>4, <2>11 DEF WritePolicy, Idle, WriterType, WriterInv, Judged, LeavesNone, Ends, Goes, At, settings
  <2>12. CASE BeginSwitchOn(w)
    BY <1>4, <2>12, <1>0, WriterFields DEF BeginSwitchOn, Idle, WriterType, WriterInv, Judged, LeavesNone, Ends, Goes, At, settings
  <2>13. CASE UpdateList(w)
    BY <2>4, <2>13, Zenon DEF UpdateList
  <2> HIDE DEF Claims
  <2> QED
    BY <2>1, <2>2, <2>3, <2>4, <2>5, <2>6, <2>7, <2>8, <2>9, <2>10, <2>11, <2>12, <2>13,
       WriteCases, Zenon
<1>7. writer'[w].pc = "committed" => writer'[w].base <= Committed(w)'
  BY <1>1, <1>4 DEF WriterMoves
<1> QED
  BY <1>2, <1>3, <1>5, <1>7 DEF WritesInv, WriterInv

LEMMA InitWrites == Init => WritesInv
BY WritesAssumption DEF Init, WritesInit, WritesInv, WriterInv, Idle, At

LEMMA StepWrites == TypeOK /\ WritesInv /\ [Next]_vars => WritesInv'
<1> SUFFICES ASSUME TypeOK, WritesInv, [Next]_vars PROVE WritesInv'
  OBVIOUS
<1>1. ASSUME NEW w \in Writers, WriterSteps(w)
      PROVE  WritesInv'
  BY <1>1, WriteKeepsWriters DEF WriterSteps
<1>2. ASSUME NEW w \in Writers, Acknowledge(w)
      PROVE  WritesInv'
  <2>1. UNCHANGED settings /\ writer' = [writer EXCEPT ![w] = Idle]
    BY <1>2 DEF Acknowledge, Return, Ends
  <2>2. \A x \in Writers : WriterInv(x)'
    <3> TAKE x \in Writers
    <3>1. writer'[x] = writer[x] \/ writer'[x] = Idle
      BY <2>1 DEF TypeOK, WritesTypeOK
    <3>2. WriterInv(x)
      BY DEF WritesInv
    <3> QED
      BY <2>1, <3>1, <3>2 DEF WriterInv, Judged, LeavesNone, Committed, settings, At, Idle
  <2> QED
    BY <2>1, <2>2 DEF WritesInv, settings
<1>3. CASE UNCHANGED writesVars
  BY <1>3 DEF WritesInv, WriterInv, Judged, LeavesNone, Committed, writesVars, At
<1>4. CASE CacheSteps \/ RegistrySteps \/ Tick \/ UNCHANGED vars
  BY <1>3, <1>4 DEF CacheSteps, RegistrySteps, Tick, vars, writesVars
<1> QED
  BY <1>1, <1>2, <1>4 DEF Next

(* The writers' invariant is inductive: a write between a guard's reads and *)
(* the write it guards changes the version that write is compared with      *)
(* (bumpAuthSettingsVersion in every transaction).                          *)
THEOREM WritesCorrect == Spec => []WritesInv
<1>1. Init => TypeOK /\ WritesInv
  BY InitTypes, InitWrites
<1>2. TypeOK /\ WritesInv /\ [Next]_vars => (TypeOK /\ WritesInv)'
  BY StepTypes, StepWrites
<1> QED
  BY <1>1, <1>2, PTL DEF Spec

(* The step of one writer leaves the others, and only it writes.            *)
LEMMA OneWriterMoves ==
  ASSUME TypeOK, Next, NEW w \in Writers, ~UNCHANGED settings, writer'[w] # writer[w]
  PROVE  Write(w, load.ops)
<1>1. ASSUME NEW x \in Writers, WriterSteps(x)
      PROVE  Write(w, load.ops)
  <2>1. Write(x, load.ops) /\ WriterMoves(x)
    BY <1>1, WriteEffect DEF WriterSteps, TypeOK
  <2>2. x = w
    BY <2>1 DEF WriterMoves
  <2> QED
    BY <2>1, <2>2
<1>2. ASSUME NEW x \in Writers, Acknowledge(x)
      PROVE  FALSE
  BY <1>2 DEF Acknowledge, Return
<1>3. ~CacheSteps /\ ~RegistrySteps /\ ~Tick
  BY DEF CacheSteps, RegistrySteps, Tick, writesVars, settings
<1> QED
  BY <1>1, <1>2, <1>3 DEF Next

(* From "writing", a writer can only write.                                 *)
LEMMA OnlyWrites ==
  ASSUME NEW w, NEW ops, Write(w, ops), writer[w].pc = "writing"
  PROVE  WriteProvider(w) \/ WritePolicy(w)
<1>1. writer[w] # Idle
  BY DEF Idle
<1>2. /\ \A p, c : ~BeginTakeAway(w, p, c)
      /\ \A p : ~BeginOffer(w, p)
      /\ \A on, m, b, c : ~BeginSave(w, on, m, b, c)
      /\ \A restricts : ~WriteList(w, restricts)
  BY <1>1, Zenon DEF BeginTakeAway, BeginOffer, BeginSave, WriteList
<1>3. ~ResetList(w) /\ ~UpdateList(w)
  BY <1>1, <1>2, Zenon DEF ResetList, UpdateList
<1>4. ~ListForTakeAway(w) /\ ~JudgeTakeAway(w) /\ ~ListForSave(w) /\ ~JudgeSave(w) /\ ~BeginSwitchOn(w)
  BY <1>1 DEF ListForTakeAway, JudgeTakeAway, ListForSave, JudgeSave, BeginSwitchOn, At
<1> QED
  BY <1>2, <1>3, <1>4, WriteCases, Zenon

(* A provider write that nobody confirmed never leaves the instance without *)
(* a way in (guardProviderChange and the version its write is compared      *)
(* with).                                                                   *)
THEOREM ProviderWritesKeepAWayIn == Spec => ProviderWritesLeaveAWayIn
<1> DEFINE Step == \A w \in Writers : TakesAWayIn(w) /\ writer'[w] = Idle => enabled' # {} \/ policy'.on
<1>1. ASSUME TypeOK, WritesInv, [Next]_vars
      PROVE  [Step]_vars
  <2> SUFFICES ASSUME Next, NEW w \in Writers, TakesAWayIn(w), writer'[w] = Idle, ~policy'.on
               PROVE  enabled' # {}
    BY <1>1
  <2>1. At(w, "writing", "takeAway") /\ ~writer[w].confirmed /\ enabled' # enabled
    BY DEF TakesAWayIn
  <2>2. Write(w, load.ops)
    <3>1. writer'[w] # writer[w] /\ ~UNCHANGED settings
      BY <2>1 DEF At, Idle, settings
    <3> QED
      BY <1>1, <3>1, OneWriterMoves
  <2>3. WriteProvider(w)
    BY <2>1, <2>2, OnlyWrites DEF At, WritePolicy
  <2>4. writer[w].base = version /\ enabled' = enabled \ writer[w].takes /\ policy' = policy
    BY <2>1, <2>3 DEF WriteProvider, At, settings
  <2>5. PICK p \in Providers : writer[w].takes = {p}
    BY <1>1, <2>1 DEF WritesInv, WriterInv, Judged, At
  <2>6. writer[w].rows = enabled /\ ~LeavesNone(w)
    BY <1>1, <2>1, <2>4 DEF WritesInv, WriterInv, Judged, At
  <2>7. p \in enabled
    BY <2>1, <2>4, <2>5
  <2>8. enabled # {p}
    BY <2>4, <2>5, <2>6, <2>7 DEF LeavesNone
  <2> QED
    BY <2>4, <2>5, <2>7, <2>8
<1> HIDE DEF Step
<1>2. Spec => [][Step]_vars
  BY <1>1, TypeCorrect, WritesCorrect, PTL DEF Spec
<1> QED
  BY <1>2 DEF Step, ProviderWritesLeaveAWayIn

(* Switching password login on keeps the registration mode that is stored   *)
(* (trySwitchLoginOn, and its retry after a conflict).                      *)
THEOREM SwitchesKeepTheMode == Spec => SwitchKeepsTheMode
<1> DEFINE Step == \A w \in Writers : At(w, "writing", "switchOn") /\ policy' # policy /\ writer'[w].pc = "committed"
                                        => policy'.mode = policy.mode
<1>1. ASSUME TypeOK, WritesInv, [Next]_vars
      PROVE  [Step]_vars
  <2> SUFFICES ASSUME Next, NEW w \in Writers, At(w, "writing", "switchOn"), policy' # policy,
                      writer'[w].pc = "committed"
               PROVE  policy'.mode = policy.mode
    BY <1>1
  <2>1. Write(w, load.ops)
    <3>1. writer'[w] # writer[w] /\ ~UNCHANGED settings
      BY DEF At, settings
    <3> QED
      BY <1>1, <3>1, OneWriterMoves
  <2>2. WritePolicy(w)
    BY <2>1, OnlyWrites DEF At, WriteProvider
  <2>3. writer[w].base \in {Unchecked, policy.at} /\ policy'.mode = writer[w].mode
    BY <2>2 DEF WritePolicy, settings
  <2>4. writer[w].base <= policy.at /\ (writer[w].base = policy.at => writer[w].mode = policy.mode)
    BY <1>1 DEF WritesInv, WriterInv
  <2>5. writer[w].base # Unchecked
    BY <1>1, <2>4, WritesAssumption DEF TypeOK, WritesTypeOK, Unchecked
  <2> QED
    BY <2>3, <2>4, <2>5
<1> HIDE DEF Step
<1>2. Spec => [][Step]_vars
  BY <1>1, TypeCorrect, WritesCorrect, PTL DEF Spec
<1> QED
  BY <1>2 DEF Step, SwitchKeepsTheMode

-----------------------------------------------------------------------------
(* The registry.                                                            *)

LEMMA RegistryFields ==
  ASSUME TypeOK
  PROVE  /\ version \in Nat /\ providersAt \in Nat
         /\ registry # None => registry.version \in Nat /\ registry.at \in Nat
         /\ rebuild # None => /\ rebuild \in Registry!RebuildType
                              /\ rebuild.version \in Nat /\ rebuild.want \in Nat
                              /\ rebuild.pc \in {"starting", "listing", "building"}
                              /\ rebuild.pc = "building" => rebuild.at \in Nat
         /\ \A s \in SignIns : Looking(s) => /\ signIn[s].version \in Nat
                                             /\ signIn[s].want \in Nat /\ signIn[s].joined \in Nat
         /\ signIn \in [SignIns -> Registry!SignInType]
<1>1. /\ registry \in {None} \cup [version : Nat, at : Nat, healthy : BOOLEAN, due : BOOLEAN]
      /\ rebuild \in {None} \cup Registry!RebuildType
      /\ signIn \in [SignIns -> Registry!SignInType]
  BY DEF TypeOK, Registry!RegistryTypeOK
<1>2. version \in Nat /\ providersAt \in Nat
  BY WritesAssumption DEF TypeOK, WritesTypeOK
<1>3. registry # None => registry.version \in Nat /\ registry.at \in Nat
  BY <1>1
<1>4. rebuild # None => /\ rebuild \in Registry!RebuildType
                        /\ rebuild.version \in Nat /\ rebuild.want \in Nat
                        /\ rebuild.pc \in {"starting", "listing", "building"}
                        /\ rebuild.pc = "building" => rebuild.at \in Nat
  BY <1>1, RebuildFields
<1>5. \A s \in SignIns : Looking(s) => /\ signIn[s].version \in Nat
                                       /\ signIn[s].want \in Nat /\ signIn[s].joined \in Nat
  BY <1>1, SignInFields DEF Looking
<1> QED
  BY <1>1, <1>2, <1>3, <1>4, <1>5

LEMMA InitRegistry == Init => RegistryInv
BY DEF Init, Registry!RegistryInit, RegistryInv, Kept, RebuildInv, SignInInv, Looking

(* A write elsewhere in the settings is for a newer version than any known. *)
LEMMA WriteKeepsRegistry ==
  ASSUME TypeOK, WritesInv, RegistryInv, UNCHANGED registryVars,
         \/ version' = version /\ providersAt' = providersAt
         \/ version' = version + 1 /\ providersAt' \in {providersAt, version + 1}
  PROVE  RegistryInv'
<1>1. providersAt <= version
  BY DEF WritesInv
<1>2. ASSUME NEW v \in Nat, NEW at \in Nat, v <= version, UpTo(v, at)
      PROVE  UpTo(v, at)'
  BY <1>1, <1>2, RegistryFields DEF UpTo, Looking, registryVars
<1>3. registry # None => registry.version <= version' /\ UpTo(registry.version, registry.at)'
  <2> SUFFICES ASSUME registry # None
               PROVE  registry.version <= version' /\ UpTo(registry.version, registry.at)'
    OBVIOUS
  <2>1. registry.version <= version /\ UpTo(registry.version, registry.at) /\ UNCHANGED registry
    BY DEF RegistryInv, Kept, registryVars
  <2> QED
    BY <1>2, <2>1, RegistryFields DEF UpTo
<1>4. RebuildInv'
  <2> SUFFICES ASSUME rebuild # None PROVE RebuildInv'
    BY DEF RebuildInv, registryVars
  <2>1. RebuildInv /\ UNCHANGED <<rebuild, registry>>
    BY DEF RegistryInv, registryVars
  <2>2. rebuild.want <= providersAt' /\ rebuild.version <= version'
    BY <1>1, <2>1, RegistryFields DEF RebuildInv
  <2>3. rebuild.pc = "building" => UpTo(rebuild.version, rebuild.at)'
    BY <1>2, <2>1, RegistryFields DEF RebuildInv
  <2> QED
    BY <2>1, <2>2, <2>3 DEF RebuildInv, UpTo, Looking, registryVars
<1>5. \A s \in SignIns : SignInInv(s)'
  BY <1>1, RegistryFields DEF RegistryInv, SignInInv, Looking, registryVars
<1> QED
  BY <1>3, <1>4, <1>5 DEF RegistryInv, Kept, UpTo, Looking, registryVars

(* What is known of the providers stored by a version is not lost while     *)
(* nothing is written.                                                      *)
WantsKept ==
  /\ \A s \in SignIns : Looking(s)' => \/ Looking(s) /\ signIn'[s].want = signIn[s].want
                                       \/ signIn'[s].want = providersAt
  /\ rebuild' # None => \/ rebuild # None /\ rebuild'.want = rebuild.want
                        \/ \E s \in SignIns : Looking(s) /\ rebuild'.want = signIn[s].want

LEMMA KnownKept ==
  ASSUME TypeOK, UNCHANGED providersAt, WantsKept, NEW v \in Nat, NEW at \in Nat, UpTo(v, at)
  PROVE  UpTo(v, at)'
<1>1. \A s \in SignIns : Looking(s)' /\ signIn'[s].want <= v => signIn'[s].want <= at
  BY DEF UpTo, WantsKept
<1>2. rebuild' # None /\ rebuild'.want <= v => rebuild'.want <= at
  BY DEF UpTo, WantsKept
<1> QED
  BY <1>1, <1>2 DEF UpTo

LEMMA RegistryStands ==
  ASSUME TypeOK, RegistryInv, UNCHANGED <<version, providersAt>>, WantsKept,
         registry' # None => registry # None /\ registry'.version = registry.version /\ registry'.at = registry.at
  PROVE  Kept'
<1> SUFFICES ASSUME registry' # None PROVE Kept'
  BY DEF Kept
<1>1. registry.version <= version /\ UpTo(registry.version, registry.at)
  BY DEF RegistryInv, Kept
<1>2. registry.version \in Nat /\ registry.at \in Nat
  BY RegistryFields
<1>3. \A v \in Nat, at \in Nat : UpTo(v, at) => UpTo(v, at)'
  BY KnownKept
<1> QED
  BY <1>1, <1>2, <1>3 DEF Kept, UpTo

LEMMA KeptUp ==
  ASSUME NEW s, NEW at, at >= signIn[s].want \/ at >= signIn[s].joined
  PROVE  Registry!Answered(s, at).pc = "answered" /\ Registry!Answered(s, at).keptUp
BY Zenon DEF Registry!Answered

LEMMA RebuildStands ==
  ASSUME TypeOK, RegistryInv, UNCHANGED <<version, providersAt, registry, rebuild>>, WantsKept
  PROVE  RebuildInv'
<1> SUFFICES ASSUME rebuild # None PROVE RebuildInv'
  BY DEF RebuildInv
<1>1. RebuildInv
  BY DEF RegistryInv
<1>2. \A v \in Nat, at \in Nat : UpTo(v, at) => UpTo(v, at)'
  BY KnownKept
<1>3. rebuild.pc = "building" => UpTo(rebuild.version, rebuild.at)'
  BY <1>1, <1>2, RegistryFields DEF RebuildInv, UpTo
<1> QED
  BY <1>1, <1>3 DEF RebuildInv

LEMMA SignInStepKeeps ==
  ASSUME TypeOK, RegistryInv, providersAt <= version, UNCHANGED <<version, providersAt, registry>>, NEW s \in SignIns,
         Registry!ReadVersion(s) \/ Registry!Check(s) \/ Registry!JoinRebuild(s) \/ Registry!Leave(s)
  PROVE  RegistryInv'
<1>1. /\ \A x \in SignIns \ {s} : signIn'[x] = signIn[x]
      /\ signIn \in [SignIns -> Registry!SignInType]
      /\ rebuild # None => UNCHANGED rebuild
  BY RegistryFields
     DEF Registry!ReadVersion, Registry!Check, Registry!JoinRebuild, Registry!Leave
<1>2. SignInInv(s) /\ RebuildInv /\ Kept
  BY DEF RegistryInv
<1>3. \A x \in SignIns \ {s} : Looking(x)' => Looking(x) /\ signIn'[x].want = signIn[x].want
  BY <1>1 DEF Looking
<1>4. SignInInv(s)' /\ WantsKept /\ RebuildInv'
  <2>1. CASE Registry!ReadVersion(s)
    <3>1. /\ signIn'[s] = [pc |-> "checking", version |-> version, want |-> providersAt, joined |-> providersAt]
          /\ UNCHANGED rebuild
      BY <1>1, <2>1 DEF Registry!ReadVersion
    <3>2. SignInInv(s)' /\ WantsKept
      BY <1>3, <3>1, RegistryFields DEF SignInInv, WantsKept, Looking
    <3> QED
      BY <3>1, <3>2, RebuildStands
  <2>2. CASE Registry!Check(s)
    <3>1. /\ signIn[s].pc = "checking" /\ UNCHANGED rebuild
          /\ signIn'[s] = IF Registry!Fresh(signIn[s].version) THEN Registry!Answered(s, registry.at)
                          ELSE [signIn[s] EXCEPT !.pc = "joining"]
      BY <1>1, <2>2 DEF Registry!Check
    <3>2. CASE Registry!Fresh(signIn[s].version)
      <4>1. registry.at >= signIn[s].want
        BY <1>2, <3>1, <3>2, RegistryFields DEF Registry!Fresh, Kept, UpTo, SignInInv, Looking
      <4>2. signIn'[s].pc = "answered" /\ signIn'[s].keptUp
        BY <3>1, <3>2, <4>1, KeptUp, Zenon
      <4>3. SignInInv(s)' /\ WantsKept
        BY <1>3, <3>1, <4>2 DEF SignInInv, WantsKept, Looking
      <4> QED
        BY <3>1, <4>3, RebuildStands
    <3>3. CASE ~Registry!Fresh(signIn[s].version)
      <4>1. /\ signIn'[s].pc = "joining" /\ signIn'[s].want = signIn[s].want
            /\ signIn'[s].version = signIn[s].version
        BY <1>1, <3>1, <3>3 DEF Registry!SignInType
      <4>2. SignInInv(s)' /\ WantsKept
        BY <1>2, <1>3, <3>1, <4>1 DEF SignInInv, WantsKept, Looking
      <4> QED
        BY <3>1, <4>2, RebuildStands
    <3> QED
      BY <3>2, <3>3
  <2>3. CASE Registry!JoinRebuild(s)
    <3>1. signIn[s].pc = "joining" /\ signIn[s] \in Registry!SignInType
      BY <1>1, <2>3 DEF Registry!JoinRebuild
    <3>2. CASE rebuild = None
      <4>1. /\ signIn' = [signIn EXCEPT ![s] = [signIn[s] EXCEPT !.pc = "waiting"]]
            /\ rebuild' = [pc |-> "starting", version |-> signIn[s].version, want |-> signIn[s].want]
        BY <1>1, <2>3, <3>2 DEF Registry!JoinRebuild
      <4>2. rebuild' # None /\ rebuild'.want = signIn[s].want /\ rebuild'.version = signIn[s].version
        <5>1. signIn[s].version \in Nat /\ signIn[s].want \in Nat
          BY <3>1, SignInFields
        <5>2. rebuild' \in Registry!RebuildType
          BY <4>1, <5>1 DEF Registry!RebuildType
        <5> QED
          BY <4>1, <5>2, NoneAssumption
      <4>3. /\ signIn'[s].pc = "waiting" /\ signIn'[s].want = signIn[s].want
            /\ signIn'[s].version = signIn[s].version
        BY <1>1, <3>1, <4>1 DEF Registry!SignInType
      <4>4. RebuildInv'
        BY <1>2, <3>1, <4>1, <4>2 DEF RebuildInv, SignInInv, Looking
      <4>5. SignInInv(s)'
        BY <1>2, <3>1, <4>2, <4>3 DEF SignInInv, Looking
      <4>6. WantsKept
        BY <1>3, <3>1, <4>2, <4>3 DEF WantsKept, Looking
      <4> QED
        BY <4>4, <4>5, <4>6
    <3>3. CASE rebuild # None
      <4>1. /\ signIn' = [signIn EXCEPT ![s] = [signIn[s] EXCEPT !.pc = "waiting", !.joined = rebuild.want]]
            /\ UNCHANGED rebuild
        BY <1>1, <2>3, <3>3 DEF Registry!JoinRebuild
      <4>2. /\ signIn'[s].pc = "waiting" /\ signIn'[s].want = signIn[s].want
            /\ signIn'[s].version = signIn[s].version /\ signIn'[s].joined = rebuild.want
        BY <1>1, <3>1, <4>1 DEF Registry!SignInType
      <4>3. SignInInv(s)' /\ WantsKept
        BY <1>2, <1>3, <3>1, <3>3, <4>1, <4>2 DEF SignInInv, WantsKept, Looking
      <4> QED
        BY <4>1, <4>3, RebuildStands
    <3> QED
      BY <3>2, <3>3
  <2>4. CASE Registry!Leave(s)
    <3>1. signIn'[s].pc = "failed" /\ UNCHANGED rebuild
      BY <1>1, <2>4 DEF Registry!Leave
    <3>2. SignInInv(s)' /\ WantsKept
      BY <1>3, <3>1 DEF SignInInv, WantsKept, Looking
    <3> QED
      BY <3>1, <3>2, RebuildStands
  <2> QED
    BY <2>1, <2>2, <2>3, <2>4
<1>5. \A x \in SignIns \ {s} : SignInInv(x)'
  <2> TAKE x \in SignIns \ {s}
  <2>1. SignInInv(x) /\ signIn'[x] = signIn[x]
    BY <1>1 DEF RegistryInv
  <2>2. signIn[x].pc = "waiting" => rebuild # None /\ rebuild' = rebuild
    BY <1>1, <2>1 DEF SignInInv
  <2> QED
    BY <2>1, <2>2 DEF SignInInv, Looking
<1> QED
  BY <1>4, <1>5, RegistryStands DEF RegistryInv

LEMMA TellKeeps ==
  ASSUME TypeOK, RegistryInv, UNCHANGED <<version, providersAt>>, rebuild # None,
         NEW at \in Nat, at >= rebuild.want, Registry!Tell(at)
  PROVE  WantsKept /\ RebuildInv' /\ \A s \in SignIns : SignInInv(s)'
<1>1. rebuild' = None
  BY DEF Registry!Tell
<1>2. ASSUME NEW s \in SignIns
      PROVE  /\ SignInInv(s)'
             /\ Looking(s)' => Looking(s) /\ signIn'[s].want = signIn[s].want
  <2>1. SignInInv(s)
    BY DEF RegistryInv
  <2>2. CASE signIn[s].pc = "waiting"
    <3>1. at >= signIn[s].want \/ at >= signIn[s].joined
      BY <2>1, <2>2 DEF SignInInv
    <3>2. signIn'[s].pc = "answered" /\ signIn'[s].keptUp
      BY <2>2, <3>1, KeptUp DEF Registry!Tell
    <3> QED
      BY <3>2 DEF SignInInv, Looking
  <2>3. CASE signIn[s].pc # "waiting"
    <3>1. signIn'[s] = signIn[s]
      BY <2>3 DEF Registry!Tell
    <3> QED
      BY <2>1, <2>3, <3>1 DEF SignInInv, Looking
  <2> QED
    BY <2>2, <2>3
<1> QED
  BY <1>1, <1>2 DEF WantsKept, RebuildInv

LEMMA RebuildStepKeeps ==
  ASSUME TypeOK, RegistryInv, UNCHANGED <<version, providersAt>>, Registry!RebuildStep
  PROVE  RegistryInv' /\ (registry # None => registry'.version >= registry.version /\ registry'.at >= registry.at)
<1> DEFINE Forward == registry # None => registry'.version >= registry.version /\ registry'.at >= registry.at
<1> HIDE DEF Forward
<1>1. RebuildInv /\ Kept /\ \A s \in SignIns : SignInInv(s)
  BY DEF RegistryInv
<1>2. rebuild # None /\ (UNCHANGED registry => Forward)
  BY RegistryFields
     DEF Registry!RebuildStep, Registry!LookAgain, Registry!ListRows, Registry!ListFails, Registry!BuildRows, Forward
<1>3. CASE Registry!LookAgain
  <2>1. CASE Registry!Fresh(rebuild.version) \/ (registry # None /\ registry.version > rebuild.version)
    <3>1. Registry!Tell(registry.at) /\ UNCHANGED registry
      BY <1>3, <2>1 DEF Registry!LookAgain
    <3>2. registry.at \in Nat /\ registry.at >= rebuild.want
      BY <1>1, <1>2, <2>1, RegistryFields DEF Registry!Fresh, RebuildInv, Kept, UpTo
    <3>3. WantsKept /\ RebuildInv' /\ \A s \in SignIns : SignInInv(s)'
      BY <1>2, <3>1, <3>2, TellKeeps
    <3> QED
      BY <1>2, <3>1, <3>3, RegistryStands DEF RegistryInv, Forward
  <2>2. CASE ~(Registry!Fresh(rebuild.version) \/ (registry # None /\ registry.version > rebuild.version))
    <3>1. /\ rebuild' = [rebuild EXCEPT !.pc = "listing"] /\ rebuild.pc = "starting"
          /\ UNCHANGED <<registry, signIn>>
      BY <1>3, <2>2 DEF Registry!LookAgain
    <3>2. rebuild \in Registry!RebuildType
      BY <1>2, RegistryFields
    <3>3. /\ rebuild' # None /\ rebuild'.pc = "listing"
          /\ rebuild'.version = rebuild.version /\ rebuild'.want = rebuild.want
      <4>1. rebuild' \in Registry!RebuildType
        BY <3>1, <3>2, RebuildFields
      <4> QED
        BY <3>1, <3>2, <4>1, NoneAssumption DEF Registry!RebuildType
    <3>4. RebuildInv'
      BY <1>1, <1>2, <2>2, <3>1, <3>3, RegistryFields DEF RebuildInv
    <3>5. WantsKept /\ \A s \in SignIns : SignInInv(s)'
      BY <1>1, <1>2, <3>1, <3>3 DEF WantsKept, SignInInv, Looking
    <3> QED
      BY <1>2, <3>1, <3>4, <3>5, RegistryStands DEF RegistryInv, Forward
  <2> QED
    BY <2>1, <2>2
<1>4. CASE Registry!ListRows
  <2>1. /\ rebuild' = [pc |-> "building", version |-> rebuild.version, want |-> rebuild.want, at |-> providersAt]
        /\ rebuild.pc = "listing" /\ UNCHANGED <<registry, signIn>>
    BY <1>4 DEF Registry!ListRows
  <2>2. rebuild' # None
    <3>1. rebuild' \in Registry!RebuildType
      BY <1>2, <2>1, RegistryFields DEF Registry!RebuildType
    <3> QED
      BY <3>1, NoneAssumption
  <2>3. WantsKept /\ \A s \in SignIns : SignInInv(s)'
    BY <1>1, <1>2, <2>1, <2>2 DEF WantsKept, SignInInv, Looking
  <2>4. UpTo(rebuild.version, providersAt)
    BY <1>1, <1>2, RegistryFields DEF UpTo, RebuildInv, SignInInv
  <2>5. ASSUME NEW v \in Nat, NEW at \in Nat, UpTo(v, at)
        PROVE  UpTo(v, at)'
    BY <2>3, <2>5, KnownKept
  <2>6. /\ rebuild'.version = rebuild.version /\ rebuild'.want = rebuild.want /\ rebuild'.at = providersAt
        /\ rebuild'.pc = "building"
    BY <2>1
  <2>7. UpTo(rebuild.version, rebuild.at)'
    BY <1>2, <2>4, <2>5, <2>6, RegistryFields DEF UpTo
  <2>8. RebuildInv'
    BY <1>1, <1>2, <2>1, <2>6, <2>7, RegistryFields DEF RebuildInv, Kept, UpTo
  <2> QED
    BY <1>2, <2>1, <2>3, <2>8, RegistryStands DEF RegistryInv, Forward
<1>5. CASE Registry!ListFails
  <2>1. rebuild' = None /\ UNCHANGED registry
    BY <1>5 DEF Registry!ListFails
  <2>2. WantsKept /\ \A s \in SignIns : SignInInv(s)'
    BY <1>1, <1>5, <2>1 DEF Registry!ListFails, WantsKept, SignInInv, Looking
  <2> QED
    BY <1>2, <2>1, <2>2, RegistryStands DEF RegistryInv, RebuildInv, Forward
<1>6. ASSUME NEW h \in BOOLEAN, Registry!BuildRows(h)
      PROVE  RegistryInv' /\ Forward
  <2>1. /\ rebuild.pc = "building" /\ registry'.version = rebuild.version /\ registry'.at = rebuild.at
        /\ Registry!Tell(rebuild.at)
    BY <1>6 DEF Registry!BuildRows
  <2>2. rebuild.version \in Nat /\ rebuild.at \in Nat /\ UpTo(rebuild.version, rebuild.at)
    BY <1>1, <1>2, <2>1, RegistryFields DEF RebuildInv
  <2>3. rebuild.at >= rebuild.want
    BY <1>1, <1>2, <2>2, RegistryFields DEF RebuildInv, UpTo
  <2>4. WantsKept /\ RebuildInv' /\ \A s \in SignIns : SignInInv(s)'
    BY <1>2, <2>1, <2>2, <2>3, TellKeeps
  <2>5. ASSUME NEW v \in Nat, NEW at \in Nat, UpTo(v, at)
        PROVE  UpTo(v, at)'
    BY <2>4, <2>5, KnownKept
  <2>7. UpTo(registry.version, registry.at)'
    BY <2>1, <2>2, <2>5 DEF UpTo
  <2>6. Forward
    BY <1>1, <1>2, <2>1, RegistryFields DEF Forward, RebuildInv
  <2> QED
    BY <1>1, <1>2, <2>1, <2>4, <2>6, <2>7 DEF RegistryInv, Kept, RebuildInv
<1> QED
  BY <1>2, <1>3, <1>4, <1>5, <1>6 DEF Registry!RebuildStep, Forward

LEMMA RegistryStepKeeps ==
  ASSUME TypeOK, WritesInv, RegistryInv, RegistrySteps
  PROVE  RegistryInv' /\ (registry # None => registry'.version >= registry.version /\ registry'.at >= registry.at)
<1> DEFINE Forward == registry # None => registry'.version >= registry.version /\ registry'.at >= registry.at
<1>1. UNCHANGED <<version, providersAt>> /\ load.signIns \subseteq SignIns /\ providersAt <= version
  BY LoadsAssumption DEF RegistrySteps, writesVars, TypeOK, WritesInv
<1>2. UNCHANGED registry => Forward
  BY RegistryFields
<1>3. CASE Registry!RebuildStep
  BY <1>1, <1>3, RebuildStepKeeps
<1>4. ASSUME NEW s \in SignIns,
             Registry!ReadVersion(s) \/ Registry!Check(s) \/ Registry!JoinRebuild(s) \/ Registry!Leave(s)
      PROVE  RegistryInv' /\ Forward
  <2>1. UNCHANGED registry
    BY <1>4 DEF Registry!ReadVersion, Registry!Check, Registry!JoinRebuild, Registry!Leave
  <2> HIDE DEF Forward
  <2> QED
    BY <1>1, <1>2, <1>4, <2>1, SignInStepKeeps
<1>5. CASE Registry!BackoffElapses
  <2>1. /\ registry # None /\ registry'.version = registry.version /\ registry'.at = registry.at
        /\ UNCHANGED <<rebuild, signIn>>
    BY <1>5 DEF Registry!BackoffElapses, TypeOK, Registry!RegistryTypeOK
  <2>2. WantsKept
    BY <2>1 DEF WantsKept, Looking
  <2>3. Kept'
    BY <1>1, <2>1, <2>2, RegistryStands
  <2>4. \A v \in Nat, at \in Nat : UpTo(v, at) => UpTo(v, at)'
    BY <1>1, <2>2, KnownKept
  <2>5. RebuildInv'
    BY <1>1, <2>1, <2>4, RegistryFields DEF RegistryInv, RebuildInv, UpTo
  <2>6. \A s \in SignIns : SignInInv(s)'
    BY <1>1, <2>1 DEF RegistryInv, SignInInv, Looking
  <2> QED
    BY <2>1, <2>3, <2>5, <2>6, RegistryFields DEF RegistryInv
<1> HIDE DEF Forward
<1> QED
  <2>1. RegistryInv' /\ Forward
    BY <1>1, <1>3, <1>4, <1>5 DEF RegistrySteps, Registry!RegistryNext, Registry!SignInStep, Forward
  <2> QED
    BY <2>1 DEF Forward

LEMMA StepRegistry == TypeOK /\ WritesInv /\ RegistryInv /\ [Next]_vars => RegistryInv'
<1> SUFFICES ASSUME TypeOK, WritesInv, RegistryInv, [Next]_vars PROVE RegistryInv'
  OBVIOUS
<1>1. ASSUME NEW w \in Writers, WriterSteps(w)
      PROVE  RegistryInv'
  <2>1. WriterMoves(w) /\ UNCHANGED registryVars
    BY <1>1, WriteEffect DEF WriterSteps, TypeOK
  <2> QED
    BY <2>1, WriteKeepsRegistry DEF WriterMoves, settings, OneWrite
<1>2. CASE RegistrySteps
  BY <1>2, RegistryStepKeeps
<1>3. CASE ~RegistrySteps /\ ~\E w \in Writers : WriterSteps(w)
  <2>1. UNCHANGED <<version, providersAt, registryVars>>
    BY <1>3 DEF Next, Acknowledge, Return, CacheSteps, Tick, vars, writesVars, settings
  <2> QED
    BY <2>1, WriteKeepsRegistry
<1> QED
  BY <1>1, <1>2, <1>3

(* The registry's invariant is inductive, whichever version a sign-in read  *)
(* and whichever rebuild it joined (Snapshot, rebuild).                     *)
THEOREM RegistryCorrect == Spec => []RegistryInv
<1>1. Init => TypeOK /\ WritesInv /\ RegistryInv
  BY InitTypes, InitWrites, InitRegistry
<1>2. TypeOK /\ WritesInv /\ RegistryInv /\ [Next]_vars => (TypeOK /\ WritesInv /\ RegistryInv)'
  BY StepTypes, StepWrites, StepRegistry
<1> QED
  BY <1>1, <1>2, PTL DEF Spec

(* A sign-in is offered providers as new as those stored when it, or the    *)
(* one whose rebuild it joined, read the version (Snapshot, rebuild).       *)
THEOREM SignInsAreKeptUp == Spec => []SignInsKeepUp
<1>1. RegistryInv => SignInsKeepUp
  BY DEF RegistryInv, SignInInv, SignInsKeepUp, Registry!SignInsKeepUp
<1> QED
  BY <1>1, RegistryCorrect, PTL

(* The registry never goes back to an older version or older providers      *)
(* (rebuild's look at the snapshot before it lists the rows).               *)
THEOREM RegistryOnlyAdvances == Spec => RegistryNeverGoesBack
<1> DEFINE Forward == registry # None => registry'.version >= registry.version /\ registry'.at >= registry.at
<1>1. ASSUME TypeOK, WritesInv, RegistryInv, [Next]_vars
      PROVE  [Forward]_(Registry!registryVars)
  <2>1. CASE RegistrySteps
    BY <1>1, <2>1, RegistryStepKeeps
  <2>2. CASE ~RegistrySteps
    <3>1. UNCHANGED registryVars
      BY <1>1, <2>2 DEF Next, WriterSteps, Acknowledge, CacheSteps, Tick, vars
    <3> QED
      BY <3>1 DEF registryVars, Registry!registryVars
  <2> QED
    BY <2>1, <2>2
<1> QED
  BY <1>1, TypeCorrect, WritesCorrect, RegistryCorrect, PTL
     DEF Spec, RegistryNeverGoesBack, Registry!RegistryNeverGoesBack

-----------------------------------------------------------------------------
(* The cached setting.                                                      *)

LEMMA CacheFields ==
  ASSUME TypeOK
  PROVE  /\ gen \in Nat /\ clock \in Nat /\ owned \in Nat /\ version \in Nat /\ stored.at \in Nat
         /\ snap # None => /\ snap.gen \in Nat /\ snap.version \in Nat /\ snap.probedAt \in Nat
                           /\ snap.content.at \in Nat
         /\ \A f \in flights :
              /\ f \in Cache!FlightType
              /\ f.gen \in Nat /\ f.begun \in Nat
              /\ f.pc \in {"starting", "probing", "comparing", "reading", "storing"}
              /\ Probed(f) => f.version \in Nat
              /\ f.pc = "storing" => f.content.at \in Nat
         /\ \A q \in Requests : Asking(q) => request[q].gen \in Nat /\ request[q].since \in Nat
         /\ \A w \in Writers : writer[w].base \in Nat
         /\ request \in [Requests -> Cache!RequestType]
<1>1. /\ gen \in Nat /\ clock \in Nat /\ owned \in Nat /\ version \in Nat
      /\ snap \in {None} \cup [gen : Nat, version : Nat, content : Cache!Content, probedAt : Nat]
      /\ flights \subseteq Cache!FlightType
      /\ request \in [Requests -> Cache!RequestType]
  BY WritesAssumption, TimesAssumption DEF TypeOK, WritesTypeOK, Cache!CacheTypeOK
<1>2. stored.at \in Nat
  BY WritesAssumption, StoredAt
<1>3. snap # None => /\ snap.gen \in Nat /\ snap.version \in Nat /\ snap.probedAt \in Nat
                     /\ snap.content.at \in Nat
  BY <1>1 DEF Cache!Content
<1>4. \A f \in flights :
        /\ f \in Cache!FlightType
        /\ f.gen \in Nat /\ f.begun \in Nat
        /\ f.pc \in {"starting", "probing", "comparing", "reading", "storing"}
        /\ Probed(f) => f.version \in Nat
        /\ f.pc = "storing" => f.content.at \in Nat
  BY <1>1, FlightFields DEF Cache!Content
<1>5. \A q \in Requests : Asking(q) => request[q].gen \in Nat /\ request[q].since \in Nat
  BY <1>1, RequestFields DEF Asking
<1>6. \A w \in Writers : writer[w].base \in Nat
  BY WriterFields DEF TypeOK
<1> QED
  BY <1>1, <1>2, <1>3, <1>4, <1>5, <1>6

LEMMA InitSeen == Init => SeenInv
<1> SUFFICES ASSUME Init PROVE SeenInv
  OBVIOUS
<1>1. stored.at = 0 /\ owned = 0 /\ snap = None /\ flights = {} /\ \A q \in Requests : request[q].pc = "idle"
  BY DEF Init, WritesInit, stored, Cache!CacheInit
<1> QED
  BY <1>1 DEF SeenInv, SnapInv, RequestInv, Asking

(* What this process has written is stored.                                 *)
LEMMA WritesAreStored ==
  ASSUME TypeOK, WritesInv
  PROVE  stored.at <= version /\ \A w \in Writers : Writes(w) => writer[w].base <= stored.at
<1>1. stored.at = IF serves = "allowlist" THEN list.at ELSE policy.at
  BY StoredAt
<1> QED
  BY <1>1 DEF WritesInv, WriterInv, Writes, Committed

(* A write is newer than anything kept for a version.                       *)
LEMMA WriteKeepsSeen ==
  ASSUME TypeOK, WritesInv, SeenInv, NEW w \in Writers, WriterSteps(w)
  PROVE  SeenInv'
<1>1. WriterMoves(w) /\ UNCHANGED <<serves, owned, gen, snap, flights, request>>
  BY WriteEffect DEF WriterSteps, TypeOK, cacheVars
<1>2. /\ stored.at = IF serves = "allowlist" THEN list.at ELSE policy.at
      /\ stored'.at = IF serves = "allowlist" THEN list'.at ELSE policy'.at
  BY <1>1 DEF stored
<1>3. stored'.at \in {stored.at, version + 1} /\ version' \in {version, version + 1}
  BY <1>1, <1>2 DEF WriterMoves, OneWrite, settings
<1>4. \A x \in Writers : Writes(x)' => \/ Writes(x) /\ writer'[x].base = writer[x].base
                                     \/ writer'[x].base = stored'.at
  BY <1>1, <1>2 DEF WriterMoves, Writes, Committed
<1>5. stored.at <= version
  BY WritesAreStored
<1>6. ASSUME NEW v \in Nat, NEW at \in Nat, v <= version, Complete(v, at)
      PROVE  Complete(v, at)'
  <2>1. at <= stored'.at /\ (stored'.at <= v => stored'.at <= at)
    BY <1>3, <1>5, <1>6, CacheFields DEF Complete
  <2>2. \A x \in Writers : Writes(x)' /\ writer'[x].base <= v => writer'[x].base <= at
    BY <1>4, <1>6, <2>1, CacheFields DEF Complete
  <2> QED
    BY <1>1, <1>6, <2>1, <2>2 DEF Complete, Asking
<1>7. owned' <= stored'.at
  BY <1>1, <1>3, <1>5, CacheFields DEF SeenInv
<1>8. SnapInv'
  <2> SUFFICES ASSUME snap # None PROVE SnapInv'
    BY <1>1 DEF SnapInv
  <2>1. SnapInv
    BY DEF SeenInv
  <2>2. Complete(snap.version, snap.content.at)'
    <3>1. /\ snap.version \in Nat /\ snap.content.at \in Nat
          /\ snap.version <= version /\ Complete(snap.version, snap.content.at)
      BY <2>1, CacheFields DEF SnapInv
    <3>2. PICK v \in Nat, at \in Nat : v = snap.version /\ at = snap.content.at
      BY <3>1
    <3>3. v <= version /\ Complete(v, at)
      BY <3>1, <3>2 DEF Complete
    <3>4. Complete(v, at)'
      BY <1>6, <3>3
    <3>5. v = snap'.version /\ at = snap'.content.at
      BY <1>1, <3>2
    <3> QED
      BY <3>4, <3>5 DEF Complete
  <2> QED
    <3>1. UNCHANGED <<snap, gen, owned>>
      BY <1>1
    <3>2. snap.gen <= gen /\ snap.version <= version /\ (snap.gen = gen => owned <= snap.content.at)
      BY <2>1 DEF SnapInv
    <3>3. snap.version <= version'
      BY <1>3, <3>2, CacheFields
    <3> QED
      BY <2>2, <3>1, <3>2, <3>3 DEF SnapInv
<1>9. \A f \in flights' : FlightInv(f)'
  <2> SUFFICES ASSUME NEW f \in flights PROVE FlightInv(f)'
    BY <1>1
  <2>1. FlightInv(f)
    BY DEF SeenInv
  <2>2. f.pc = "storing" => Complete(f.version, f.content.at)'
    BY <1>6, <2>1, CacheFields DEF FlightInv, Probed
  <2>3. Probed(f) => f.version <= version'
    BY <1>3, <2>1, CacheFields DEF FlightInv
  <2> QED
    BY <1>1, <2>1, <2>2, <2>3 DEF FlightInv, Asking, Probed
<1>10. \A q \in Requests : RequestInv(q)'
  BY <1>1 DEF SeenInv, RequestInv, Asking
<1> QED
  BY <1>7, <1>8, <1>9, <1>10 DEF SeenInv

(* An acknowledgement moves to a generation that no snapshot and no refresh *)
(* is of yet.                                                               *)
LEMMA AcknowledgeKeepsSeen ==
  ASSUME TypeOK, WritesInv, SeenInv, NEW w \in Writers, Acknowledge(w)
  PROVE  SeenInv'
<1>1. /\ UNCHANGED <<settings, serves, snap, flights, request, stored>>
      /\ writer' = [writer EXCEPT ![w] = Idle] /\ writer[w].pc = "committed"
  BY DEF Acknowledge, Return, Ends, settings, stored, cacheVars, Cache!Invalidate
<1>2. \/ gen' = gen /\ owned' = owned
      \/ /\ gen' = gen + 1
         /\ owned' # owned => Writes(w) /\ writer[w].base > owned /\ owned' = writer[w].base
  BY <1>1 DEF Acknowledge, Cache!Invalidate, cacheVars, Writes
<1>3. \A x \in Writers : Writes(x)' => Writes(x) /\ writer'[x].base = writer[x].base
  BY <1>1 DEF TypeOK, WritesTypeOK, Writes, Idle
<1>4. owned <= owned' /\ owned' <= stored.at /\ owned' \in Nat
  BY <1>2, WritesAreStored, CacheFields DEF SeenInv
<1>5. ASSUME NEW v \in Nat, NEW at \in Nat, Complete(v, at)
      PROVE  Complete(v, at)'
  <2>1. owned' <= v => owned' <= at
    BY <1>2, <1>5 DEF Complete
  <2>2. \A x \in Writers : Writes(x)' /\ writer'[x].base <= v => writer'[x].base <= at
    BY <1>3, <1>5 DEF Complete
  <2> QED
    BY <1>1, <1>5, <2>1, <2>2 DEF Complete, Asking
<1>6. SnapInv'
  <2> SUFFICES ASSUME snap # None PROVE SnapInv'
    BY <1>1 DEF SnapInv
  <2>1. SnapInv
    BY DEF SeenInv
  <2>2. Complete(snap.version, snap.content.at)'
    <3>1. PICK v \in Nat, at \in Nat : v = snap.version /\ at = snap.content.at
      BY CacheFields
    <3>2. Complete(v, at)'
      BY <1>5, <2>1, <3>1 DEF SnapInv
    <3> QED
      BY <1>1, <3>1, <3>2 DEF Complete
  <2>3. snap.gen <= gen' /\ (snap.gen = gen' => UNCHANGED <<gen, owned>>)
    BY <1>2, <2>1, CacheFields DEF SnapInv
  <2>4. UNCHANGED <<snap, version>>
    BY <1>1 DEF settings
  <2> QED
    BY <2>1, <2>2, <2>3, <2>4 DEF SnapInv
<1>7. \A f \in flights' : FlightInv(f)'
  <2> SUFFICES ASSUME NEW f \in flights PROVE FlightInv(f)'
    BY <1>1
  <2>1. FlightInv(f)
    BY DEF SeenInv
  <2>2. f.pc = "storing" => Complete(f.version, f.content.at)'
    BY <1>5, <2>1, CacheFields DEF FlightInv, Probed
  <2>3. f.gen <= gen' /\ (f.gen = gen' => UNCHANGED <<gen, owned>>)
    BY <1>2, <2>1, CacheFields DEF FlightInv
  <2> QED
    BY <1>1, <2>1, <2>2, <2>3 DEF FlightInv, Asking, Probed, settings
<1>8. \A q \in Requests : RequestInv(q)'
  BY <1>1, <1>2, <1>4, CacheFields DEF SeenInv, RequestInv, Asking
<1> QED
  BY <1>1, <1>4, <1>6, <1>7, <1>8 DEF SeenInv

(* The steps of requests and refreshes: nothing is written meanwhile.       *)
Quiet == UNCHANGED <<version, stored, writer, serves, owned, gen>>

AsksKept == \A q \in Requests : Asking(q)' => \/ Asking(q) /\ UNCHANGED <<request[q].gen, request[q].since>>
                                              \/ request'[q].gen = gen /\ request'[q].since = owned

LEMMA CompleteKept ==
  ASSUME TypeOK, Quiet, AsksKept, NEW v \in Nat, NEW at \in Nat, Complete(v, at)
  PROVE  Complete(v, at)'
<1>1. \A q \in Requests : Asking(q)' /\ request'[q].since <= v => request'[q].since <= at
  BY DEF AsksKept, Complete
<1>2. \A w \in Writers : Writes(w)' /\ writer'[w].base <= v => writer'[w].base <= at
  BY DEF Quiet, Complete, Writes
<1> QED
  BY <1>1, <1>2 DEF Complete, Quiet

LEMMA SnapStands ==
  ASSUME TypeOK, SeenInv, Quiet, AsksKept, UNCHANGED snap
  PROVE  SnapInv'
<1> SUFFICES ASSUME snap # None PROVE SnapInv'
  BY DEF SnapInv
<1>1. SnapInv
  BY DEF SeenInv
<1>2. \A v \in Nat, at \in Nat : Complete(v, at) => Complete(v, at)'
  BY CompleteKept
<1>3. Complete(snap.version, snap.content.at)'
  <2>1. PICK v \in Nat, at \in Nat : v = snap.version /\ at = snap.content.at
    BY CacheFields
  <2>2. Complete(v, at)'
    BY <1>1, <1>2, <2>1 DEF SnapInv
  <2> QED
    BY <2>1, <2>2 DEF Complete
<1> QED
  BY <1>1, <1>3 DEF SnapInv, Quiet

LEMMA FlightStands ==
  ASSUME TypeOK, SeenInv, Quiet, AsksKept, NEW f \in flights
  PROVE  FlightInv(f)'
<1>1. FlightInv(f)
  BY DEF SeenInv
<1>2. f.pc = "storing" => Complete(f.version, f.content.at)'
  BY <1>1, CompleteKept, CacheFields DEF FlightInv, Probed
<1>3. Probed(f) => \A q \in Requests : Asking(q)' /\ request'[q].gen = f.gen => request'[q].since <= f.version
  BY <1>1 DEF FlightInv, AsksKept
<1> QED
  BY <1>1, <1>2, <1>3 DEF FlightInv, Quiet, Probed

(* One step of a request.                                                   *)
LEMMA RequestMoves ==
  ASSUME TypeOK, SeenInv, Quiet, UNCHANGED snap, NEW q \in Requests,
         \A x \in Requests \ {q} : request'[x] = request[x],
         Asking(q)' => \/ Asking(q) /\ UNCHANGED <<request[q].gen, request[q].since>>
                       \/ request'[q].gen = gen /\ request'[q].since = owned,
         RequestInv(q)',
         \A f \in flights' \ flights : FlightInv(f)'
  PROVE  SeenInv'
<1>1. AsksKept
  BY DEF AsksKept, Asking
<1>2. \A x \in Requests : RequestInv(x)'
  BY DEF SeenInv, RequestInv, Asking, Quiet
<1>3. owned' <= stored'.at
  BY DEF SeenInv, Quiet
<1> QED
  BY <1>1, <1>2, <1>3, SnapStands, FlightStands DEF SeenInv

LEMMA ServedOwn ==
  ASSUME NEW content, NEW since, content.at >= since
  PROVE  Cache!Served(content, since).pc = "served" /\ Cache!Served(content, since).own
BY Zenon DEF Cache!Served

LEMMA RequestsKeepSeen ==
  ASSUME TypeOK, SeenInv, Quiet, NEW q \in Requests,
         Cache!Ask(q) \/ Cache!Join(q) \/ Cache!GiveUp(q) \/ Cache!AfterFailure(q)
  PROVE  SeenInv'
<1>1. /\ UNCHANGED snap /\ \A x \in Requests \ {q} : request'[x] = request[x]
      /\ request \in [Requests -> Cache!RequestType]
  BY CacheFields DEF Cache!Ask, Cache!Join, Cache!GiveUp, Cache!AfterFailure
<1>2. RequestInv(q) /\ SnapInv
  BY DEF SeenInv
<1>3. CASE Cache!Ask(q)
  <2>1. UNCHANGED flights
    BY <1>3 DEF Cache!Ask
  <2>2. CASE Cache!fresh(snap)
    <3>1. request'[q] = Cache!Served(snap.content, owned)
      BY <1>1, <1>3, <2>2 DEF Cache!Ask
    <3>2. snap.content.at >= owned
      BY <1>2, <2>2, CacheFields DEF Cache!fresh, SnapInv
    <3>3. request'[q].pc = "served" /\ request'[q].own
      BY <3>1, <3>2, ServedOwn, Zenon
    <3> QED
      BY <1>1, <2>1, <3>3, RequestMoves DEF RequestInv, Asking
  <2>3. CASE ~Cache!fresh(snap)
    <3>1. request'[q] = [pc |-> "keyed", gen |-> gen, since |-> owned]
      BY <1>1, <1>3, <2>3 DEF Cache!Ask
    <3>2. RequestInv(q)'
      BY <3>1, CacheFields DEF RequestInv, Asking, Quiet
    <3> QED
      BY <1>1, <2>1, <3>1, <3>2, RequestMoves
  <2> QED
    BY <2>2, <2>3
<1>4. CASE Cache!Join(q)
  <2>1. request[q].pc = "keyed" /\ request' = [request EXCEPT ![q] = [request[q] EXCEPT !.pc = "waiting"]]
    BY <1>1, <1>4 DEF Cache!Join
  <2>2. request'[q].pc = "waiting" /\ UNCHANGED <<request[q].gen, request[q].since>>
    BY <1>1, <2>1 DEF Cache!RequestType
  <2>3. RequestInv(q)'
    BY <1>2, <2>1, <2>2 DEF RequestInv, Asking, Quiet
  <2>4. \A f \in flights' \ flights : f.gen = request[q].gen /\ f.pc = "starting"
    BY <1>4 DEF Cache!Join
  <2>5. \A f \in flights' \ flights : FlightInv(f)'
    BY <1>2, <2>1, <2>4 DEF FlightInv, RequestInv, Asking, Probed, Quiet
  <2> QED
    BY <1>1, <2>1, <2>2, <2>3, <2>5, RequestMoves DEF Asking
<1>5. CASE Cache!GiveUp(q) \/ Cache!AfterFailure(q)
  <2>1. request'[q].pc \in {"failed", "refused", "open"} /\ UNCHANGED flights
    BY <1>1, <1>5 DEF Cache!GiveUp, Cache!AfterFailure, Cache!RequestType
  <2> QED
    BY <1>1, <2>1, RequestMoves DEF RequestInv, Asking
<1> QED
  BY <1>3, <1>4, <1>5

(* One step of a refresh that is not its last.                              *)
LEMMA FlightMoves ==
  ASSUME TypeOK, SeenInv, Quiet, UNCHANGED <<snap, request>>, NEW f \in flights, NEW g, Cache!Becomes(f, g),
         FlightInv(g)
  PROVE  SeenInv'
<1>1. AsksKept
  BY DEF AsksKept, Asking
<1>2. FlightInv(g)'
  <2>1. \A v, at : Complete(v, at) => Complete(v, at)'
    BY DEF Complete, Asking, Writes, Quiet
  <2>2. g.pc = "storing" => Complete(g.version, g.content.at)'
    BY <2>1 DEF FlightInv
  <2> QED
    BY <2>2 DEF FlightInv, Asking, Probed, Quiet
<1>3. \A x \in Requests : RequestInv(x)'
  BY DEF SeenInv, RequestInv, Asking, Quiet
<1>4. owned' <= stored'.at
  BY DEF SeenInv, Quiet
<1> QED
  BY <1>1, <1>2, <1>3, <1>4, SnapStands, FlightStands DEF SeenInv, Cache!Becomes

LEMMA LandsKeeps ==
  ASSUME TypeOK, SeenInv, Quiet, NEW f \in flights, NEW content, Cache!Lands(f, content),
         \A q \in Requests : Asking(q) /\ request[q].gen = f.gen => content.at >= request[q].since
  PROVE  /\ AsksKept /\ flights' \subseteq flights
         /\ \A q \in Requests : RequestInv(q)'
<1>1. flights' \subseteq flights
  BY DEF Cache!Lands
<1>2. ASSUME NEW q \in Requests
      PROVE  RequestInv(q)' /\ (Asking(q)' => Asking(q) /\ UNCHANGED <<request[q].gen, request[q].since>>)
  <2>1. RequestInv(q)
    BY DEF SeenInv
  <2>2. CASE q \in Cache!Waiting(f.gen)
    <3>1. Asking(q) /\ request[q].gen = f.gen
      BY <2>2 DEF Cache!Waiting, Asking
    <3>2. request'[q] = Cache!Served(content, request[q].since)
      BY <2>2 DEF Cache!Lands
    <3>3. request'[q].pc = "served" /\ request'[q].own
      BY <3>1, <3>2, ServedOwn, ZenonT(60)
    <3> QED
      BY <3>3 DEF RequestInv, Asking
  <2>3. CASE q \notin Cache!Waiting(f.gen)
    <3>1. request'[q] = request[q]
      BY <2>3 DEF Cache!Lands
    <3> QED
      BY <2>1, <3>1 DEF RequestInv, Asking, Quiet
  <2> QED
    BY <2>2, <2>3
<1> QED
  BY <1>1, <1>2 DEF AsksKept

LEMMA RefreshesKeepSeen ==
  ASSUME TypeOK, WritesInv, SeenInv, Quiet, NEW f \in flights, Cache!RefreshStep(f)
  PROVE  SeenInv'
<1>1. FlightInv(f) /\ SnapInv /\ (\A q \in Requests : RequestInv(q)) /\ owned <= stored.at
  BY DEF SeenInv
<1>2. owned' <= stored'.at
  BY <1>1 DEF Quiet
<1>3. CASE Cache!Recheck(f)
  <2>1. CASE Cache!fresh(snap)
    <3>1. Cache!Lands(f, snap.content) /\ UNCHANGED snap
      BY <1>3, <2>1 DEF Cache!Recheck
    <3>2. ASSUME NEW q \in Requests, Asking(q)
          PROVE  snap.content.at >= request[q].since
      <4>1. owned <= snap.content.at /\ request[q].since <= owned
        BY <1>1, <2>1, <3>2 DEF Cache!fresh, SnapInv, RequestInv
      <4> QED
        BY <2>1, <3>2, <4>1, CacheFields DEF Cache!fresh
    <3> QED
      BY <1>2, <3>1, <3>2, LandsKeeps, SnapStands, FlightStands DEF SeenInv
  <2>2. CASE ~Cache!fresh(snap)
    <3> DEFINE g == [gen |-> f.gen, pc |-> "probing", begun |-> clock]
    <3>1. Cache!Becomes(f, g) /\ UNCHANGED <<snap, request>>
      BY <1>3, <2>2 DEF Cache!Recheck
    <3>2. FlightInv(g)
      BY <1>1 DEF FlightInv, Probed
    <3> HIDE DEF g
    <3> QED
      BY <3>1, <3>2, FlightMoves
  <2> QED
    BY <2>1, <2>2
<1>4. CASE Cache!Probe(f)
  <2> DEFINE g == [gen |-> f.gen, pc |-> "comparing", begun |-> f.begun, version |-> version]
  <2>1. Cache!Becomes(f, g) /\ UNCHANGED <<snap, request>>
    BY <1>4 DEF Cache!Probe
  <2>2. owned <= version /\ \A q \in Requests : Asking(q) => request[q].since <= version
    BY <1>1, WritesAreStored, CacheFields DEF RequestInv
  <2>3. FlightInv(g)
    BY <1>1, <2>2, CacheFields DEF FlightInv, Probed
  <2> HIDE DEF g
  <2> QED
    BY <2>1, <2>3, FlightMoves
<1>5. CASE Cache!Compare(f)
  <2>1. f.pc = "comparing" /\ UNCHANGED <<snap, request>>
    BY <1>5 DEF Cache!Compare
  <2>2. CASE snap # None /\ snap.version = f.version
    <3> DEFINE g == [gen |-> f.gen, pc |-> "storing", begun |-> f.begun, version |-> f.version,
                     content |-> snap.content]
    <3>1. Cache!Becomes(f, g)
      BY <1>5, <2>2 DEF Cache!Compare
    <3>2. Complete(f.version, snap.content.at)
      BY <1>1, <2>2 DEF SnapInv
    <3>3. FlightInv(g)
      BY <1>1, <2>1, <3>2 DEF FlightInv, Probed
    <3> HIDE DEF g
    <3> QED
      BY <2>1, <3>1, <3>3, FlightMoves
  <2>3. CASE ~(snap # None /\ snap.version = f.version)
    <3> DEFINE g == [f EXCEPT !.pc = "reading"]
    <3>1. Cache!Becomes(f, g)
      BY <1>5, <2>3 DEF Cache!Compare
    <3>2. g.pc = "reading" /\ g.gen = f.gen /\ g.version = f.version
      BY <2>1, CacheFields DEF Cache!FlightType
    <3> HIDE DEF g
    <3>3. FlightInv(g)
      BY <1>1, <2>1, <3>2 DEF FlightInv, Probed
    <3> QED
      BY <2>1, <3>1, <3>3, FlightMoves
  <2> QED
    BY <2>2, <2>3
<1>6. CASE Cache!Read(f)
  <2> DEFINE g == [gen |-> f.gen, pc |-> "storing", begun |-> f.begun, version |-> f.version, content |-> stored]
  <2>1. f.pc = "reading" /\ Cache!Becomes(f, g) /\ UNCHANGED <<snap, request>>
    BY <1>6 DEF Cache!Read
  <2>2. \A q \in Requests : Asking(q) => request[q].since <= stored.at
    BY <1>1, CacheFields DEF RequestInv
  <2>3. Complete(f.version, stored.at)
    BY <1>1, <2>2, WritesAreStored, CacheFields DEF Complete
  <2>4. g.pc = "storing" /\ g.gen = f.gen /\ g.version = f.version /\ g.content = stored
    OBVIOUS
  <2> HIDE DEF g
  <2>5. FlightInv(g)
    BY <1>1, <2>1, <2>3, <2>4 DEF FlightInv, Probed
  <2> QED
    BY <2>1, <2>5, FlightMoves
<1>7. CASE Cache!Store(f)
  <2>1. /\ f.pc = "storing" /\ Cache!Lands(f, f.content)
        /\ snap'.gen = f.gen /\ snap'.version = f.version /\ snap'.content = f.content
    BY <1>7 DEF Cache!Store
  <2>2. /\ Complete(f.version, f.content.at) /\ f.version <= version
        /\ f.version \in Nat /\ f.content.at \in Nat
    BY <1>1, <2>1, CacheFields DEF FlightInv, Probed
  <2>3. \A q \in Requests : Asking(q) /\ request[q].gen = f.gen => f.content.at >= request[q].since
    BY <1>1, <2>1, <2>2, CacheFields DEF FlightInv, Probed, Complete
  <2>4. AsksKept /\ flights' \subseteq flights /\ \A q \in Requests : RequestInv(q)'
    BY <2>1, <2>3, LandsKeeps
  <2>5. Complete(f.version, f.content.at)'
    BY <2>2, <2>4, CompleteKept
  <2>6. f.gen = gen => owned <= f.content.at
    BY <1>1, <2>1, <2>2 DEF FlightInv, Probed, Complete
  <2>7. SnapInv'
    <3>1. Complete(snap.version, snap.content.at)'
      BY <2>1, <2>5 DEF Complete
    <3> QED
      BY <1>1, <2>1, <2>2, <2>6, <3>1 DEF SnapInv, FlightInv, Quiet
  <2> QED
    BY <1>2, <2>4, <2>7, FlightStands DEF SeenInv
<1>8. CASE Cache!Fail(f)
  <2>1. UNCHANGED snap /\ flights' \subseteq flights
    BY <1>8 DEF Cache!Fail
  <2>2. ASSUME NEW q \in Requests
        PROVE  request'[q] = request[q] \/ request'[q].pc = "failed"
    <3>1. request'[q] = request[q] \/ (request[q].pc = "waiting" /\ request'[q] = [request[q] EXCEPT !.pc = "failed"])
      BY <1>8 DEF Cache!Fail, Cache!Waiting
    <3> QED
      BY <3>1, CacheFields DEF Cache!RequestType
  <2>3. AsksKept
    BY <2>2 DEF AsksKept, Asking
  <2>4. \A q \in Requests : RequestInv(q)'
    BY <1>1, <2>2 DEF RequestInv, Asking, Quiet
  <2> QED
    BY <1>2, <2>1, <2>3, <2>4, SnapStands, FlightStands DEF SeenInv
<1> QED
  BY <1>3, <1>4, <1>5, <1>6, <1>7, <1>8 DEF Cache!RefreshStep

LEMMA StepSeen == TypeOK /\ WritesInv /\ SeenInv /\ [Next]_vars => SeenInv'
<1> SUFFICES ASSUME TypeOK, WritesInv, SeenInv, [Next]_vars PROVE SeenInv'
  OBVIOUS
<1>1. ASSUME NEW w \in Writers, WriterSteps(w) \/ Acknowledge(w)
      PROVE  SeenInv'
  BY <1>1, WriteKeepsSeen, AcknowledgeKeepsSeen
<1>2. CASE CacheSteps
  <2>1. UNCHANGED <<version, list, policy, writer, serves, owned>> /\ load.requests \subseteq Requests
    BY <1>2, LoadsAssumption DEF CacheSteps, writesVars, watched, TypeOK
  <2>2. UNCHANGED stored
    BY <2>1 DEF stored
  <2>3. ASSUME NEW q \in Requests, Cache!Ask(q) \/ Cache!Join(q) \/ Cache!GiveUp(q) \/ Cache!AfterFailure(q)
        PROVE  SeenInv'
    <3>1. Quiet
      BY <2>1, <2>2, <2>3 DEF Quiet, Cache!Ask, Cache!Join, Cache!GiveUp, Cache!AfterFailure
    <3> QED
      BY <2>3, <3>1, RequestsKeepSeen
  <2>4. ASSUME NEW f \in flights, Cache!RefreshStep(f)
        PROVE  SeenInv'
    <3>1. Quiet
      BY <2>1, <2>2, <2>4
         DEF Quiet, Cache!RefreshStep, Cache!Recheck, Cache!Probe, Cache!Compare, Cache!Read, Cache!Store, Cache!Fail
    <3> QED
      BY <2>4, <3>1, RefreshesKeepSeen
  <2> QED
    BY <1>2, <2>1, <2>3, <2>4 DEF CacheSteps, Cache!CacheNext, Cache!RequestStep
<1>3. CASE RegistrySteps \/ Tick \/ UNCHANGED vars
  <2>1. UNCHANGED <<version, list, policy, writer, serves, owned, gen, snap, flights, request>>
    BY <1>3 DEF RegistrySteps, Tick, vars, writesVars, watched, cacheVars
  <2>2. UNCHANGED stored
    BY <2>1 DEF stored
  <2> QED
    BY <2>1, <2>2 DEF SeenInv, SnapInv, FlightInv, RequestInv, Complete, Writes, Asking, Probed
<1> QED
  BY <1>1, <1>2, <1>3 DEF Next

(* What is cached for a version, or about to be, covers the writes up to    *)
(* it, in every refresh and request under way (refresh reads the version    *)
(* before the setting).                                                     *)
THEOREM SeenCorrect == Spec => []SeenInv
<1>1. Init => TypeOK /\ WritesInv /\ SeenInv
  BY InitTypes, InitWrites, InitSeen
<1>2. TypeOK /\ WritesInv /\ SeenInv /\ [Next]_vars => (TypeOK /\ WritesInv /\ SeenInv)'
  BY StepTypes, StepWrites, StepSeen
<1> QED
  BY <1>1, <1>2, PTL DEF Spec

(* A request that begins after this process acknowledged a write is served  *)
(* nothing older, whatever refreshes were under way (settingsGeneration,    *)
(* and the generation every refresh is keyed and every snapshot stamped by).*)
THEOREM OwnWritesAreServed == Spec => []OwnWritesAreSeen
<1>1. SeenInv => OwnWritesAreSeen
  BY DEF SeenInv, RequestInv, OwnWritesAreSeen, Cache!OwnWritesAreSeen
<1> QED
  BY <1>1, SeenCorrect, PTL

-----------------------------------------------------------------------------
(* Time.                                                                    *)

LEMMA TimeFields ==
  ASSUME TypeOK, SeenInv
  PROVE  /\ clock \in Nat /\ clock <= MaxClock /\ MaxClock \in Nat
         /\ RefreshTimeout \in Nat /\ ProbeInterval \in Nat /\ ProbeInterval >= 1
         /\ \A at \in 0..MaxWrites : ended[at] \in Nat
         /\ stored.at \in 0..MaxWrites
         /\ snap # None => snap.content.at \in 0..MaxWrites /\ snap.probedAt \in Nat
         /\ \A f \in flights : /\ f.begun \in Nat
                               /\ f.pc = "storing" => f.content.at \in 0..MaxWrites
<1>1. clock \in Nat /\ clock <= MaxClock /\ MaxClock \in Nat
  BY TimesAssumption DEF TypeOK
<1>2. RefreshTimeout \in Nat /\ ProbeInterval \in Nat /\ ProbeInterval >= 1
  BY TimesAssumption
<1>3. \A at \in 0..MaxWrites : ended[at] \in Nat
  BY TimesAssumption DEF TypeOK
<1>4. stored.at \in 0..MaxWrites
  BY StoredAt
<1>5. \A v, at \in Nat : Complete(v, at) => at \in 0..MaxWrites
  BY <1>4, WritesAssumption DEF Complete
<1>6. snap # None => snap.content.at \in 0..MaxWrites /\ snap.probedAt \in Nat
  BY <1>5, CacheFields DEF SeenInv, SnapInv
<1>7. \A f \in flights : /\ f.begun \in Nat
                         /\ f.pc = "storing" => f.content.at \in 0..MaxWrites
  BY <1>5, CacheFields DEF SeenInv, FlightInv, Probed
<1> QED
  BY <1>1, <1>2, <1>3, <1>4, <1>6, <1>7

LEMMA InitTime == Init => TimeInv
<1> SUFFICES ASSUME Init PROVE TimeInv
  OBVIOUS
<1>1. /\ ended = [c \in 0..MaxWrites |-> MaxClock] /\ snap = None /\ flights = {}
      /\ \A q \in Requests : request[q].pc = "idle"
  BY DEF Init, Cache!CacheInit
<1> QED
  BY <1>1 DEF TimeInv

(* What a write replaces was current until now.                             *)
LEMMA WriteKeepsTime ==
  ASSUME TypeOK, WritesInv, SeenInv, TimeInv, NEW w \in Writers, WriterSteps(w)
  PROVE  TimeInv'
<1>1. /\ WriterMoves(w) /\ UNCHANGED <<serves, clock, snap, flights, request>>
      /\ ended' = IF stored'.at # stored.at THEN [ended EXCEPT ![stored.at] = clock] ELSE ended
  BY WriteEffect DEF WriterSteps, TypeOK, cacheVars
<1>2. stored'.at \in {stored.at, version + 1} /\ stored.at <= version /\ version \in Nat
  <2>1. /\ stored.at = IF serves = "allowlist" THEN list.at ELSE policy.at
        /\ stored'.at = IF serves = "allowlist" THEN list'.at ELSE policy'.at
    BY <1>1 DEF stored
  <2> QED
    BY <1>1, <2>1, WritesAreStored, CacheFields DEF WriterMoves, OneWrite, settings
<1>3. ended \in [0..MaxWrites -> 0..MaxClock]
  BY DEF TypeOK
<1>4. \A at \in 0..MaxWrites : ended'[at] \in {ended[at], clock} /\ (at > stored.at => ended'[at] = ended[at])
  BY <1>1, <1>3, TimeFields
<1>5. \A at \in 0..MaxWrites : at >= stored'.at => ended'[at] = MaxClock
  <2> SUFFICES ASSUME NEW at \in 0..MaxWrites, at >= stored'.at PROVE ended'[at] = MaxClock
    OBVIOUS
  <2>1. CASE stored'.at = stored.at
    BY <1>1, <2>1 DEF TimeInv
  <2>2. CASE stored'.at # stored.at
    <3>1. at > stored.at /\ at >= stored.at
      BY <1>2, <2>2, TimeFields
    <3> QED
      BY <1>4, <3>1 DEF TimeInv
  <2> QED
    BY <2>1, <2>2
<1>6. snap # None => /\ snap.probedAt <= clock
                     /\ snap.probedAt <= ended'[snap.content.at] + RefreshTimeout
  BY <1>4, TimeFields DEF TimeInv
<1>7. ASSUME NEW f \in flights, FlightTime(f)
      PROVE  FlightTime(f)'
  <2>1. ASSUME NEW v, NEW at \in 0..MaxWrites, Current(f, v, at)
        PROVE  Current(f, v, at)'
    BY <1>4, <1>7, <2>1, TimeFields DEF Current, FlightTime, Probed
  <2>2. f.pc = "storing" => f.begun <= ended'[f.content.at]
    BY <1>4, <1>7, TimeFields DEF FlightTime
  <2>3. snap # None => Current(f, snap.version, snap.content.at)'
    BY <1>1, <1>4, <1>7, TimeFields DEF FlightTime, Current, Probed
  <2>4. \A g \in flights : g.pc = "storing" => Current(f, g.version, g.content.at)'
    BY <1>7, <2>1, TimeFields DEF FlightTime
  <2> QED
    BY <1>1, <1>7, <2>2, <2>3, <2>4 DEF FlightTime
<1> QED
  BY <1>1, <1>5, <1>6, <1>7 DEF TimeInv

Still == UNCHANGED <<stored, ended, clock>>

(* Requests and refreshes that come to an end, or begin.                    *)
LEMMA TimeStands ==
  ASSUME TypeOK, SeenInv, TimeInv, Still, UNCHANGED snap,
         \A f \in flights' \ flights : f.pc = "starting" /\ f.begun = clock,
         \A q \in Requests : request'[q].pc = "served" => request'[q].timely
  PROVE  TimeInv'
<1>1. ASSUME NEW f \in flights'
      PROVE  FlightTime(f)'
  <2>1. CASE f \in flights
    <3>1. FlightTime(f)
      BY <2>1 DEF TimeInv
    <3>2. \A g \in flights' : g.pc = "storing" => g \in flights
      OBVIOUS
    <3> QED
      BY <2>1, <3>1, <3>2 DEF FlightTime, Current, Still
  <2>2. CASE f \notin flights
    BY <1>1, <2>2, TimeFields DEF FlightTime, Current, Probed, Still
  <2> QED
    BY <2>1, <2>2
<1> QED
  BY <1>1 DEF TimeInv, Still

LEMMA ServedTimely ==
  ASSUME NEW content, NEW since, clock < ended[content.at] + ProbeInterval + RefreshTimeout
  PROVE  Cache!Served(content, since).timely
BY Zenon DEF Cache!Served

(* A fresh snapshot is still within the interval.                           *)
LEMMA FreshIsTimely ==
  ASSUME TypeOK, SeenInv, TimeInv, Cache!fresh(snap)
  PROVE  clock < ended[snap.content.at] + ProbeInterval + RefreshTimeout
<1>1. snap # None /\ clock < snap.probedAt + ProbeInterval
  BY DEF Cache!fresh
<1>2. snap.probedAt <= ended[snap.content.at] + RefreshTimeout /\ ended[snap.content.at] \in Nat
  BY <1>1, TimeFields DEF TimeInv
<1> QED
  BY <1>1, <1>2, TimeFields

LEMMA RequestsKeepTime ==
  ASSUME TypeOK, SeenInv, TimeInv, Still, NEW q \in Requests,
         Cache!Ask(q) \/ Cache!Join(q) \/ Cache!GiveUp(q) \/ Cache!AfterFailure(q)
  PROVE  TimeInv'
<1>1. /\ UNCHANGED snap /\ \A x \in Requests \ {q} : request'[x] = request[x]
      /\ request \in [Requests -> Cache!RequestType]
      /\ \A f \in flights' \ flights : f.pc = "starting" /\ f.begun = clock
  BY CacheFields DEF Cache!Ask, Cache!Join, Cache!GiveUp, Cache!AfterFailure
<1>2. request'[q].pc = "served" => request'[q].timely
  <2>1. CASE Cache!Ask(q)
    <3>1. CASE Cache!fresh(snap)
      <4>1. request'[q] = Cache!Served(snap.content, owned)
        BY <1>1, <2>1, <3>1 DEF Cache!Ask
      <4> QED
        BY <3>1, <4>1, FreshIsTimely, ServedTimely
    <3>2. CASE ~Cache!fresh(snap)
      <4>1. request'[q].pc = "keyed"
        BY <1>1, <2>1, <3>2 DEF Cache!Ask
      <4> QED
        BY <4>1
    <3> QED
      BY <3>1, <3>2
  <2>2. CASE Cache!Join(q) \/ Cache!GiveUp(q) \/ Cache!AfterFailure(q)
    <3>1. request'[q].pc \in {"waiting", "failed", "refused", "open"}
      BY <1>1, <2>2 DEF Cache!Join, Cache!GiveUp, Cache!AfterFailure, Cache!RequestType
    <3> QED
      BY <3>1
  <2> QED
    BY <2>1, <2>2
<1>3. \A x \in Requests : request'[x].pc = "served" => request'[x].timely
  BY <1>1, <1>2 DEF TimeInv
<1> QED
  BY <1>1, <1>3, TimeStands

(* The content kept for the current version is the current content.         *)
LEMMA CurrentIsKept ==
  ASSUME TypeOK, WritesInv, SeenInv, TimeInv, NEW at \in 0..MaxWrites, Complete(version, at)
  PROVE  clock <= ended[at]
<1>1. at >= stored.at
  BY WritesAreStored, TimeFields DEF Complete
<1> QED
  BY <1>1, TimeFields DEF TimeInv

(* One step of a refresh that is not its last.                              *)
LEMMA FlightKeepsTime ==
  ASSUME TypeOK, SeenInv, TimeInv, Still, UNCHANGED <<snap, request>>, NEW f \in flights, NEW g, Cache!Becomes(f, g),
         g.begun <= clock, clock <= g.begun + RefreshTimeout,
         g.pc = "storing" => /\ g.begun <= ended[g.content.at]
                             /\ \A h \in flights : Current(h, g.version, g.content.at),
         snap # None => Current(g, snap.version, snap.content.at),
         \A h \in flights : h.pc = "storing" => Current(g, h.version, h.content.at)
  PROVE  TimeInv'
<1>1. ASSUME NEW h \in flights
      PROVE  FlightTime(h)'
  <2>1. FlightTime(h)
    BY DEF TimeInv
  <2>2. \A k \in flights' : k \in flights \/ k = g
    BY DEF Cache!Becomes
  <2>3. \A k \in flights' : k.pc = "storing" => Current(h, k.version, k.content.at)
    BY <2>1, <2>2 DEF FlightTime
  <2> QED
    BY <2>1, <2>3 DEF FlightTime, Current, Still
<1>2. FlightTime(g)'
  <2>1. \A k \in flights' : k \in flights \/ k = g
    BY DEF Cache!Becomes
  <2>2. \A k \in flights' : k.pc = "storing" => Current(g, k.version, k.content.at)
    BY <2>1 DEF Current
  <2> QED
    BY <2>2 DEF FlightTime, Current, Still
<1> QED
  BY <1>1, <1>2 DEF TimeInv, Still, Cache!Becomes

LEMMA LandsInTime ==
  ASSUME TypeOK, TimeInv, NEW f \in flights, NEW content, Cache!Lands(f, content),
         clock < ended[content.at] + ProbeInterval + RefreshTimeout
  PROVE  flights' \subseteq flights /\ \A q \in Requests : request'[q].pc = "served" => request'[q].timely
<1>1. ASSUME NEW q \in Requests
      PROVE  request'[q].pc = "served" => request'[q].timely
  <2>1. request'[q] = request[q] \/ request'[q] = Cache!Served(content, request[q].since)
    BY DEF Cache!Lands
  <2> QED
    BY <2>1, ServedTimely DEF TimeInv
<1> QED
  BY <1>1 DEF Cache!Lands

LEMMA RefreshesKeepTime ==
  ASSUME TypeOK, WritesInv, SeenInv, TimeInv, Still, NEW f \in flights, Cache!RefreshStep(f)
  PROVE  TimeInv'
<1>1. FlightTime(f) /\ FlightInv(f) /\ SnapInv
  BY DEF TimeInv, SeenInv
<1>2. \A h \in flights : FlightTime(h)
  BY DEF TimeInv
<1>3. CASE Cache!Recheck(f)
  <2>1. CASE Cache!fresh(snap)
    <3>1. Cache!Lands(f, snap.content) /\ UNCHANGED snap
      BY <1>3, <2>1 DEF Cache!Recheck
    <3>2. flights' \subseteq flights /\ \A q \in Requests : request'[q].pc = "served" => request'[q].timely
      BY <2>1, <3>1, FreshIsTimely, LandsInTime
    <3> QED
      BY <3>1, <3>2, TimeStands
  <2>2. CASE ~Cache!fresh(snap)
    <3> DEFINE g == [gen |-> f.gen, pc |-> "probing", begun |-> clock]
    <3>1. Cache!Becomes(f, g) /\ UNCHANGED <<snap, request>>
      BY <1>3, <2>2 DEF Cache!Recheck
    <3>2. g.pc = "probing" /\ g.begun = clock
      OBVIOUS
    <3> HIDE DEF g
    <3>3. clock <= clock + RefreshTimeout /\ clock <= clock
      BY TimeFields
    <3> QED
      BY <3>1, <3>2, <3>3, FlightKeepsTime DEF Current, Probed
  <2> QED
    BY <2>1, <2>2
<1>4. CASE Cache!Probe(f)
  <2> DEFINE g == [gen |-> f.gen, pc |-> "comparing", begun |-> f.begun, version |-> version]
  <2>1. f.pc = "probing" /\ Cache!Becomes(f, g) /\ UNCHANGED <<snap, request>>
    BY <1>4 DEF Cache!Probe
  <2>2. g.pc = "comparing" /\ g.begun = f.begun /\ g.version = version
    OBVIOUS
  <2> HIDE DEF g
  <2>3. g.begun <= clock /\ clock <= g.begun + RefreshTimeout
    BY <1>1, <2>1, <2>2 DEF FlightTime
  <2>4. ASSUME NEW at \in 0..MaxWrites, Complete(version, at)
        PROVE  g.begun <= ended[at]
    BY <2>2, <2>3, <2>4, CurrentIsKept, TimeFields
  <2>5. snap # None => Current(g, snap.version, snap.content.at)
    BY <1>1, <2>2, <2>4, TimeFields DEF SnapInv, Current
  <2>6. \A h \in flights : h.pc = "storing" => Current(g, h.version, h.content.at)
    BY <2>2, <2>4, TimeFields DEF SeenInv, FlightInv, Current
  <2> QED
    BY <2>1, <2>2, <2>3, <2>5, <2>6, FlightKeepsTime
<1>5. CASE Cache!Compare(f)
  <2>1. f.pc = "comparing" /\ UNCHANGED <<snap, request>>
    BY <1>5 DEF Cache!Compare
  <2>2. f.begun <= clock /\ clock <= f.begun + RefreshTimeout
    BY <1>1, <2>1 DEF FlightTime
  <2>3. CASE snap # None /\ snap.version = f.version
    <3> DEFINE g == [gen |-> f.gen, pc |-> "storing", begun |-> f.begun, version |-> f.version,
                     content |-> snap.content]
    <3>1. Cache!Becomes(f, g)
      BY <1>5, <2>3 DEF Cache!Compare
    <3>2. g.pc = "storing" /\ g.begun = f.begun /\ g.version = snap.version /\ g.content = snap.content
      BY <2>3
    <3> HIDE DEF g
    <3>3. Current(f, snap.version, snap.content.at) /\ \A h \in flights : Current(h, snap.version, snap.content.at)
      BY <1>1, <1>2, <2>3 DEF FlightTime
    <3>4. g.begun <= ended[g.content.at]
      BY <2>1, <2>3, <3>2, <3>3 DEF Current, Probed
    <3>5. \A h \in flights : Current(h, g.version, g.content.at)
      BY <3>2, <3>3
    <3>6. \A v, at : Current(f, v, at) => Current(g, v, at)
      BY <2>1, <2>3, <3>2 DEF Current, Probed
    <3>7. \A h \in flights : h.pc = "storing" => Current(g, h.version, h.content.at)
      BY <1>1, <3>6 DEF FlightTime
    <3>8. snap # None => Current(g, snap.version, snap.content.at)
      BY <3>3, <3>6
    <3> QED
      BY <2>1, <2>2, <3>1, <3>2, <3>4, <3>5, <3>7, <3>8, FlightKeepsTime
  <2>4. CASE ~(snap # None /\ snap.version = f.version)
    <3> DEFINE g == [f EXCEPT !.pc = "reading"]
    <3>1. Cache!Becomes(f, g)
      BY <1>5, <2>4 DEF Cache!Compare
    <3>2. g.pc = "reading" /\ g.begun = f.begun /\ g.version = f.version
      BY <2>1, CacheFields DEF Cache!FlightType
    <3> HIDE DEF g
    <3>3. \A v, at : Current(f, v, at) => Current(g, v, at)
      BY <2>1, <3>2 DEF Current, Probed
    <3>4. /\ snap # None => Current(g, snap.version, snap.content.at)
          /\ \A h \in flights : h.pc = "storing" => Current(g, h.version, h.content.at)
      BY <1>1, <3>3 DEF FlightTime
    <3> QED
      BY <2>1, <2>2, <3>1, <3>2, <3>4, FlightKeepsTime
  <2> QED
    BY <2>3, <2>4
<1>6. CASE Cache!Read(f)
  <2> DEFINE g == [gen |-> f.gen, pc |-> "storing", begun |-> f.begun, version |-> f.version, content |-> stored]
  <2>1. f.pc = "reading" /\ Cache!Becomes(f, g) /\ UNCHANGED <<snap, request>>
    BY <1>6 DEF Cache!Read
  <2>2. g.pc = "storing" /\ g.begun = f.begun /\ g.version = f.version /\ g.content = stored
    OBVIOUS
  <2> HIDE DEF g
  <2>3. g.begun <= clock /\ clock <= g.begun + RefreshTimeout
    BY <1>1, <2>1, <2>2 DEF FlightTime
  <2>4. ended[stored.at] = MaxClock
    BY TimeFields DEF TimeInv
  <2>5. \A h \in flights : h.begun <= ended[g.content.at]
    BY <1>2, <2>2, <2>4, TimeFields DEF FlightTime
  <2>6. \A v, at : Current(f, v, at) => Current(g, v, at)
    BY <2>1, <2>2 DEF Current, Probed
  <2>7. /\ snap # None => Current(g, snap.version, snap.content.at)
        /\ \A h \in flights : h.pc = "storing" => Current(g, h.version, h.content.at)
    BY <1>1, <2>6 DEF FlightTime
  <2>8. g.begun <= ended[g.content.at] /\ \A h \in flights : Current(h, g.version, g.content.at)
    BY <2>2, <2>5 DEF Current
  <2> QED
    BY <2>1, <2>2, <2>3, <2>7, <2>8, FlightKeepsTime
<1>7. CASE Cache!Store(f)
  <2>1. /\ f.pc = "storing" /\ Cache!Lands(f, f.content)
        /\ snap'.version = f.version /\ snap'.content = f.content /\ snap'.probedAt = clock
    BY <1>7 DEF Cache!Store
  <2>2. clock <= ended[f.content.at] + RefreshTimeout /\ f.content.at \in 0..MaxWrites
    BY <1>1, <2>1, TimeFields DEF FlightTime
  <2>3. clock < ended[f.content.at] + ProbeInterval + RefreshTimeout
    BY <2>2, TimeFields
  <2>4. flights' \subseteq flights /\ \A q \in Requests : request'[q].pc = "served" => request'[q].timely
    BY <2>1, <2>3, LandsInTime
  <2>5. \A h \in flights : Current(h, f.version, f.content.at)
    BY <1>2, <2>1 DEF FlightTime
  <2>6. \A h \in flights' : FlightTime(h)'
    BY <1>2, <2>1, <2>4, <2>5 DEF FlightTime, Current, Still
  <2>7. clock <= clock
    BY TimeFields
  <2> QED
    BY <2>1, <2>2, <2>4, <2>6, <2>7 DEF TimeInv, Still
<1>8. CASE Cache!Fail(f)
  <2>1. UNCHANGED snap /\ flights' \subseteq flights
    BY <1>8 DEF Cache!Fail
  <2>2. ASSUME NEW q \in Requests
        PROVE  request'[q] = request[q] \/ request'[q].pc = "failed"
    <3>1. request'[q] = request[q] \/ (request[q].pc = "waiting" /\ request'[q] = [request[q] EXCEPT !.pc = "failed"])
      BY <1>8 DEF Cache!Fail, Cache!Waiting
    <3> QED
      BY <3>1, CacheFields DEF Cache!RequestType
  <2>3. \A q \in Requests : request'[q].pc = "served" => request'[q].timely
    BY <2>2 DEF TimeInv
  <2> QED
    BY <2>1, <2>3, TimeStands
<1> QED
  BY <1>3, <1>4, <1>5, <1>6, <1>7, <1>8 DEF Cache!RefreshStep

LEMMA StepTime == TypeOK /\ WritesInv /\ SeenInv /\ TimeInv /\ [Next]_vars => TimeInv'
<1> SUFFICES ASSUME TypeOK, WritesInv, SeenInv, TimeInv, [Next]_vars PROVE TimeInv'
  OBVIOUS
<1>1. ASSUME NEW w \in Writers, WriterSteps(w)
      PROVE  TimeInv'
  BY <1>1, WriteKeepsTime
<1>2. CASE CacheSteps
  <2>1. Still /\ load.requests \subseteq Requests
    BY <1>2, LoadsAssumption DEF CacheSteps, writesVars, watched, TypeOK, Still, stored
  <2> QED
    BY <1>2, <2>1, RequestsKeepTime, RefreshesKeepTime DEF CacheSteps, Cache!CacheNext, Cache!RequestStep
<1>3. CASE Tick
  <2>1. clock' = clock + 1 /\ Cache!MayTick /\ UNCHANGED <<stored, ended, snap, flights, request>>
    BY <1>3 DEF Tick, writesVars, watched, cacheVars, stored
  <2>2. \A f \in flights : FlightTime(f)'
    BY <2>1, TimeFields DEF TimeInv, FlightTime, Current, Cache!MayTick
  <2> QED
    BY <2>1, <2>2, TimeFields DEF TimeInv
<1>4. CASE RegistrySteps \/ UNCHANGED vars \/ \E w \in Writers : Acknowledge(w)
  <2>1. UNCHANGED <<stored, ended, clock, snap, flights, request>>
    BY <1>4 DEF RegistrySteps, vars, Acknowledge, Return, Cache!Invalidate, settings, writesVars, watched,
                cacheVars, stored
  <2> QED
    BY <2>1, TimeStands DEF Still, TimeInv
<1> QED
  BY <1>1, <1>2, <1>3, <1>4 DEF Next

(* What a refresh keeps or reads was current when it began, so a snapshot   *)
(* is stamped at most one refresh timeout after its content was replaced    *)
(* (refresh, probedAt).                                                     *)
THEOREM TimeCorrect == Spec => []TimeInv
<1>1. Init => TypeOK /\ WritesInv /\ SeenInv /\ TimeInv
  BY InitTypes, InitWrites, InitSeen, InitTime
<1>2. TypeOK /\ WritesInv /\ SeenInv /\ TimeInv /\ [Next]_vars => (TypeOK /\ WritesInv /\ SeenInv /\ TimeInv)'
  BY StepTypes, StepWrites, StepSeen, StepTime
<1> QED
  BY <1>1, <1>2, PTL DEF Spec

(* A write by any replica takes effect within a probe interval and the time *)
(* a refresh may take (current, Policy, refresh).                           *)
THEOREM WritesReachEveryReplica == Spec => []WritesTakeEffect
<1>1. TimeInv => WritesTakeEffect
  BY DEF TimeInv, WritesTakeEffect, Cache!WritesTakeEffect
<1> QED
  BY <1>1, TimeCorrect, PTL
=============================================================================
