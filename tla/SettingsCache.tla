---------------------------- MODULE SettingsCache ----------------------------
(***************************************************************************)
(* A process's cached copy of one authentication setting                   *)
(* (services/access_allowlist_resolver.go, auth_policy_resolver.go and     *)
(* auth_settings_cache.go).  The two resolvers are one algorithm over      *)
(* different tables; they part where a refresh fails, which is what        *)
(* `serves` tells.  They share nothing but the version, so each is looked  *)
(* at on its own.                                                          *)
(*                                                                         *)
(* Requests and refreshes are goroutines.  A refresh is shared by the      *)
(* requests that ask for it under one generation (single-flight), reads    *)
(* the version, and reads the setting only if the version has changed.     *)
(***************************************************************************)
EXTENDS Naturals, FiniteSets

CONSTANTS Requests,        \* requests that read the setting
          ProbeInterval,   \* how long a snapshot is served unprobed
          RefreshTimeout,  \* how long a refresh may take
          None             \* no snapshot yet

VARIABLES version,  \* the shared version (AuthSettings)
          stored,   \* the stored setting: the version of its last write, and whether it is active
          serves,   \* "allowlist" or "policy"
          clock,
          gen,      \* settingsGeneration: how often the caches were invalidated
          snap,     \* the snapshot, or None
          flights,  \* the refreshes under way, at most one for each generation
          request,  \* where each request is
          owned,    \* observed: the newest content written and acknowledged by this process
          ended     \* observed: when each content was replaced, of those that were

cacheVars == <<gen, snap, flights, request>>

Content == [at : Nat, active : BOOLEAN]
FlightType == [gen : Nat, pc : {"starting", "probing"}, begun : Nat]
                \cup [gen : Nat, pc : {"comparing", "reading"}, begun : Nat, version : Nat]
                \cup [gen : Nat, pc : {"storing"}, begun : Nat, version : Nat, content : Content]
RequestType == [pc : {"idle", "open", "refused"}]
                 \cup [pc : {"keyed", "waiting", "failed"}, gen : Nat, since : Nat]
                 \cup [pc : {"served"}, own : BOOLEAN, timely : BOOLEAN]

CacheTypeOK == /\ gen \in Nat
               /\ snap \in {None} \cup [gen : Nat, version : Nat, content : Content, probedAt : Nat]
               /\ flights \subseteq FlightType
               /\ request \in [Requests -> RequestType]

CacheInit ==
  /\ serves \in {"allowlist", "policy"}
  /\ gen = 0
  /\ snap = None
  /\ flights = {}
  /\ request = [q \in Requests |-> [pc |-> "idle"]]

fresh(s) == /\ s # None
            /\ s.gen = gen
            /\ clock < s.probedAt + ProbeInterval

Waiting(g) == {q \in Requests : request[q].pc = "waiting" /\ request[q].gen = g}
Done(q) == request[q].pc \in {"idle", "served", "open", "refused"}

\* What is observed of an answer: is it as new as this process's own writes before the request, and was what
\* it says replaced at most so long ago?
Served(content, since) ==
  [pc |-> "served", own |-> content.at >= since,
   timely |-> clock < ended[content.at] + ProbeInterval + RefreshTimeout]

(***************************************************************************)
(* A request.                                                              *)
(***************************************************************************)
\* current / Policy: serve the snapshot, or read the generation to refresh under.
Ask(q) ==
  /\ Done(q)
  /\ request' = [request EXCEPT ![q] =
       IF fresh(snap) THEN Served(snap.content, owned)
                      ELSE [pc |-> "keyed", gen |-> gen, since |-> owned]]
  /\ UNCHANGED <<gen, snap, flights>>

\* Faulty variant: one refresh at a time, whatever generation it was begun under.
JoinAny(q) ==
  /\ request[q].pc = "keyed"
  /\ LET f == IF flights = {} THEN [gen |-> request[q].gen, pc |-> "starting", begun |-> clock]
              ELSE CHOOSE f \in flights : TRUE
     IN  /\ flights' = flights \cup {f}
         /\ request' = [request EXCEPT ![q].pc = "waiting", ![q].gen = f.gen]
  /\ UNCHANGED <<gen, snap>>

\* DoChan: join the refresh of that generation, or start it.
Join(q) ==
  /\ request[q].pc = "keyed"
  /\ request' = [request EXCEPT ![q].pc = "waiting"]
  /\ flights' = IF \E f \in flights : f.gen = request[q].gen THEN flights
                ELSE flights \cup {[gen |-> request[q].gen, pc |-> "starting", begun |-> clock]}
  /\ UNCHANGED <<gen, snap>>

\* The request's own context ends while it waits.
GiveUp(q) ==
  /\ request[q].pc = "waiting"
  /\ request' = [request EXCEPT ![q].pc = "failed"]
  /\ UNCHANGED <<gen, snap, flights>>

\* afterFailedRefresh: refuse while the last known list is active.  The policy resolver always returns the error.
AfterFailure(q) ==
  /\ request[q].pc = "failed"
  /\ request' = [request EXCEPT ![q] =
       [pc |-> IF serves = "policy" \/ (snap # None /\ snap.content.active) THEN "refused" ELSE "open"]]
  /\ UNCHANGED <<gen, snap, flights>>

(***************************************************************************)
(* A refresh, in the goroutine of its flight.                              *)
(***************************************************************************)
Becomes(f, g) == flights' = (flights \ {f}) \cup {g}

\* The flight lands: everybody who waits for it is told.
Lands(f, content) ==
  /\ flights' = flights \ {f}
  /\ request' = [q \in Requests |-> IF q \in Waiting(f.gen) THEN Served(content, request[q].since)
                                                            ELSE request[q]]

\* The snapshot may have become fresh since the request looked.
Recheck(f) ==
  /\ f.pc = "starting"
  /\ IF fresh(snap) THEN Lands(f, snap.content)
     ELSE Becomes(f, [gen |-> f.gen, pc |-> "probing", begun |-> clock]) /\ UNCHANGED request
  /\ UNCHANGED <<gen, snap>>

\* refresh: read the version.
Probe(f) ==
  /\ f.pc = "probing"
  /\ Becomes(f, [gen |-> f.gen, pc |-> "comparing", begun |-> f.begun, version |-> version])
  /\ UNCHANGED <<gen, snap, request>>

\* An unchanged version keeps the content.
Compare(f) ==
  /\ f.pc = "comparing"
  /\ Becomes(f, IF snap # None /\ snap.version = f.version
                THEN [gen |-> f.gen, pc |-> "storing", begun |-> f.begun, version |-> f.version,
                      content |-> snap.content]
                ELSE [f EXCEPT !.pc = "reading"])
  /\ UNCHANGED <<gen, snap, request>>

\* Read the setting, by now perhaps newer than the version.
Read(f) ==
  /\ f.pc = "reading"
  /\ Becomes(f, [gen |-> f.gen, pc |-> "storing", begun |-> f.begun, version |-> f.version,
                 content |-> stored])
  /\ UNCHANGED <<gen, snap, request>>

\* Faulty variant: the snapshot is stored for the version there is by then.
StoreForNow(f) ==
  /\ f.pc = "storing"
  /\ snap' = [gen |-> f.gen, version |-> version, content |-> f.content, probedAt |-> clock]
  /\ Lands(f, f.content)
  /\ UNCHANGED gen

\* Store the snapshot, stamped with the time it is stored at.
Store(f) ==
  /\ f.pc = "storing"
  /\ snap' = [gen |-> f.gen, version |-> f.version, content |-> f.content, probedAt |-> clock]
  /\ Lands(f, f.content)
  /\ UNCHANGED gen

\* A read fails, or the refresh runs out of time.
Fail(f) ==
  /\ f.pc \in {"probing", "reading"}
  /\ flights' = flights \ {f}
  /\ request' = [q \in Requests |-> IF q \in Waiting(f.gen) THEN [request[q] EXCEPT !.pc = "failed"]
                                                            ELSE request[q]]
  /\ UNCHANGED <<gen, snap>>

RefreshStep(f) == Recheck(f) \/ Probe(f) \/ Compare(f) \/ Read(f) \/ Store(f) \/ Fail(f)

RequestStep(q) == Join(q) \/ AfterFailure(q)

\* Writers invalidate after their commit.
Invalidate == gen' = gen + 1 /\ UNCHANGED <<snap, flights, request>>

\* No refresh outlives its timeout: time passes only while none is at its end.
MayTick == \A f \in flights : f.pc # "starting" => clock < f.begun + RefreshTimeout

CacheNext(requests) == \/ \E q \in requests : Ask(q) \/ RequestStep(q) \/ GiveUp(q)
                       \/ \E f \in flights : RefreshStep(f)

(***************************************************************************)
(* Correctness.                                                            *)
(***************************************************************************)
\* A request that begins after this process has acknowledged a write is not served what the write replaced,
\* even if it joins a refresh or a refresh begun before the write stores its snapshot afterwards.
OwnWritesAreSeen == \A q \in Requests : request[q].pc = "served" => request[q].own

\* A write by any replica takes effect here within one probe interval and the time a refresh may take.
WritesTakeEffect == \A q \in Requests : request[q].pc = "served" => request[q].timely
=============================================================================
