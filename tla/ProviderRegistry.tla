-------------------------- MODULE ProviderRegistry --------------------------
(***************************************************************************)
(* A process's registry of sign-in providers                               *)
(* (services/identity_provider_resolver.go).  Every sign-in reads the      *)
(* shared version and is served the snapshot built for it, or takes part   *)
(* in the one rebuild there is at a time.                                  *)
(*                                                                         *)
(* The provider rows are one content, named by the version of the last     *)
(* provider write; a build of it may fail, and is retried after a backoff. *)
(***************************************************************************)
EXTENDS Naturals

CONSTANTS SignIns,  \* sign-ins
          None      \* no snapshot, no rebuild

VARIABLES version,      \* the shared version (AuthSettings)
          providersAt,  \* the stored providers (AuthSettings)
          registry,     \* the snapshot, with the builds it remembers, or None
          rebuild,      \* the rebuild under way, or None
          signIn        \* where each sign-in is

registryVars == <<registry, rebuild, signIn>>

RebuildType == [pc : {"starting", "listing"}, version : Nat, want : Nat]
                 \cup [pc : {"building"}, version : Nat, want : Nat, at : Nat]
SignInType == [pc : {"idle", "failed"}]
                \cup [pc : {"checking", "joining", "waiting"}, version : Nat, want : Nat, joined : Nat]
                \cup [pc : {"answered"}, keptUp : BOOLEAN]

RegistryTypeOK == /\ registry \in {None} \cup [version : Nat, at : Nat, healthy : BOOLEAN, due : BOOLEAN]
                  /\ rebuild \in {None} \cup RebuildType
                  /\ signIn \in [SignIns -> SignInType]

RegistryInit == /\ registry = None
                /\ rebuild = None
                /\ signIn = [s \in SignIns |-> [pc |-> "idle"]]

\* fresh: built for that version, and no provider due for a retry.
Fresh(v) == registry # None /\ registry.version = v /\ ~registry.due

\* What is observed of an answer: are the providers as new as those stored when the version was read, by the
\* sign-in or by the one whose rebuild it joined?
Answered(s, at) == [pc |-> "answered", keptUp |-> at >= signIn[s].want \/ at >= signIn[s].joined]

(***************************************************************************)
(* A sign-in: Snapshot.                                                    *)
(***************************************************************************)
\* Read the version.  Observed: the providers stored at that moment.
ReadVersion(s) ==
  /\ signIn[s].pc \in {"idle", "answered", "failed"}
  /\ signIn' = [signIn EXCEPT ![s] = [pc |-> "checking", version |-> version, want |-> providersAt,
                                      joined |-> providersAt]]
  /\ UNCHANGED <<registry, rebuild>>

\* Serve the snapshot if it is for that version.
Check(s) ==
  /\ signIn[s].pc = "checking"
  /\ signIn' = [signIn EXCEPT ![s] = IF Fresh(@.version) THEN Answered(s, registry.at)
                                     ELSE [@ EXCEPT !.pc = "joining"]]
  /\ UNCHANGED <<registry, rebuild>>

\* DoChan("rebuild"): whatever version the rebuild under way was begun for.
JoinRebuild(s) ==
  /\ signIn[s].pc = "joining"
  /\ IF rebuild = None
     THEN /\ rebuild' = [pc |-> "starting", version |-> signIn[s].version, want |-> signIn[s].want]
          /\ signIn' = [signIn EXCEPT ![s].pc = "waiting"]
     ELSE /\ signIn' = [signIn EXCEPT ![s].pc = "waiting", ![s].joined = rebuild.want]
          /\ UNCHANGED rebuild
  /\ UNCHANGED registry

\* The request ends while it waits; the rebuild carries on for the others.
Leave(s) ==
  /\ signIn[s].pc = "waiting"
  /\ signIn' = [signIn EXCEPT ![s] = [pc |-> "failed"]]
  /\ UNCHANGED <<registry, rebuild>>

(***************************************************************************)
(* The rebuild, in its own goroutine.                                      *)
(***************************************************************************)
Tell(at) == /\ rebuild' = None
            /\ signIn' = [s \in SignIns |-> IF signIn[s].pc = "waiting" THEN Answered(s, at) ELSE signIn[s]]

\* Faulty variant: a snapshot for a newer version is not accepted.
LookAgainExactly ==
  /\ rebuild # None /\ rebuild.pc = "starting"
  /\ IF Fresh(rebuild.version) THEN Tell(registry.at)
     ELSE rebuild' = [rebuild EXCEPT !.pc = "listing"] /\ UNCHANGED signIn
  /\ UNCHANGED registry

\* Somebody else may have built it since, possibly for a newer version.
LookAgain ==
  /\ rebuild # None /\ rebuild.pc = "starting"
  /\ IF Fresh(rebuild.version) \/ (registry # None /\ registry.version > rebuild.version)
     THEN Tell(registry.at)
     ELSE rebuild' = [rebuild EXCEPT !.pc = "listing"] /\ UNCHANGED signIn
  /\ UNCHANGED registry

\* rebuild: list the provider rows.
ListRows ==
  /\ rebuild # None /\ rebuild.pc = "listing"
  /\ rebuild' = [pc |-> "building", version |-> rebuild.version, want |-> rebuild.want, at |-> providersAt]
  /\ UNCHANGED <<registry, signIn>>

\* The list fails: every sign-in that waits is told so.
ListFails ==
  /\ rebuild # None /\ rebuild.pc = "listing"
  /\ rebuild' = None
  /\ signIn' = [s \in SignIns |-> IF signIn[s].pc = "waiting" THEN [pc |-> "failed"] ELSE signIn[s]]
  /\ UNCHANGED registry

\* buildOrReuse: a remembered build of the same rows is kept, unless it failed and is due for a retry.
Reusable(at) == registry # None /\ registry.at = at /\ (registry.healthy \/ ~registry.due)

\* Faulty variant: the snapshot is stored for the version there is by then.
BuildForNow(healthy) ==
  /\ rebuild # None /\ rebuild.pc = "building"
  /\ Reusable(rebuild.at) => healthy = registry.healthy
  /\ registry' = [version |-> version, at |-> rebuild.at, healthy |-> healthy, due |-> FALSE]
  /\ Tell(rebuild.at)

\* Build what is not remembered, and store the snapshot for the version the rebuild was begun for.
BuildRows(healthy) ==
  /\ rebuild # None /\ rebuild.pc = "building"
  /\ Reusable(rebuild.at) => healthy = registry.healthy
  /\ registry' = [version |-> rebuild.version, at |-> rebuild.at, healthy |-> healthy, due |-> FALSE]
  /\ Tell(rebuild.at)

\* The retry backoff of a failed build elapses.
BackoffElapses ==
  /\ registry # None /\ ~registry.healthy /\ ~registry.due
  /\ registry' = [registry EXCEPT !.due = TRUE]
  /\ UNCHANGED <<rebuild, signIn>>

SignInStep(s) == Check(s) \/ JoinRebuild(s)
RebuildStep == LookAgain \/ ListRows \/ ListFails \/ \E h \in BOOLEAN : BuildRows(h)
RegistryNext(signIns) == \/ \E s \in signIns : ReadVersion(s) \/ SignInStep(s) \/ Leave(s)
                         \/ RebuildStep
                         \/ BackoffElapses

(***************************************************************************)
(* Correctness.                                                            *)
(***************************************************************************)
\* A sign-in is offered providers no older than those stored when it read the version, or, if it joined a
\* rebuild begun by another, than those stored when that one read it.
SignInsKeepUp == \A s \in SignIns : signIn[s].pc = "answered" => signIn[s].keptUp

\* The registry never goes back to an older version or to older providers, whatever order sign-ins read the
\* version and rebuild in.
RegistryNeverGoesBack ==
  [][registry # None => /\ registry'.version >= registry.version
                        /\ registry'.at >= registry.at]_registryVars
=============================================================================
