----------------------------- MODULE AuthSystem -----------------------------
(***************************************************************************)
(* The authentication settings and what one process keeps of them: the     *)
(* writers of this and of other processes (AuthSettings), the cached       *)
(* allowlist or policy (SettingsCache), and the provider registry          *)
(* (ProviderRegistry), all over the one shared version.                    *)
(*                                                                         *)
(* A load says which operations are used and who reads.  Readers of one    *)
(* cache take no part in another, so that the loads of an instance are     *)
(* alternatives.                                                           *)
(***************************************************************************)
EXTENDS AuthSettings

CONSTANTS Local,           \* the writers of this process; the others are on other replicas
          Requests, SignIns, ProbeInterval, RefreshTimeout, None,
          Loads,           \* the loads
          MaxClock,        \* bound: the clock
          MaxGen           \* bound: invalidations

ASSUME TimesAssumption == /\ ProbeInterval \in Nat \ {0}
                          /\ RefreshTimeout \in Nat
                          /\ MaxClock \in Nat
                          /\ MaxGen \in Nat
ASSUME LoadsAssumption == \A l \in Loads : /\ l.requests \subseteq Requests
                                           /\ l.signIns \subseteq SignIns
                                           /\ l.until \in 0..MaxClock

VARIABLES load, serves, clock, gen, snap, flights, request, owned, ended, registry, rebuild, signIn

\* The setting the cache serves.
stored == IF serves = "allowlist" THEN [at |-> list.at, active |-> list.restricts]
                                  ELSE [at |-> policy.at, active |-> TRUE]

Cache == INSTANCE SettingsCache
Registry == INSTANCE ProviderRegistry

ASSUME NoneAssumption == None \notin Registry!RebuildType

cacheVars == <<gen, snap, flights, request>>
registryVars == <<registry, rebuild, signIn>>
watched == <<owned, ended>>
vars == <<writesVars, load, serves, clock, cacheVars, watched, registryVars>>

Init == /\ load \in Loads
        /\ WritesInit
        /\ enabled = load.enabled
        /\ policy.on \in load.on /\ policy.mode = load.mode
        /\ Cache!CacheInit
        /\ serves = load.serves
        /\ Registry!RegistryInit
        /\ clock = 0
        /\ owned = 0
        /\ ended = [c \in 0..MaxWrites |-> MaxClock]

WriterSteps(w) ==
  /\ UNCHANGED <<load, serves, clock, owned, cacheVars, registryVars>>
  /\ Write(w, load.ops)
  /\ version' <= load.writes
  /\ ended' = IF stored'.at # stored.at THEN [ended EXCEPT ![stored.at] = clock] ELSE ended

\* A writer of this process invalidates its caches before it answers; one elsewhere has others to invalidate.
Acknowledge(w) ==
  /\ IF w \in Local
     THEN /\ gen < MaxGen
          /\ Cache!Invalidate
          /\ owned' = IF (writer[w].op = "list") = (serves = "allowlist") /\ writer[w].base > owned
                      THEN writer[w].base ELSE owned
     ELSE UNCHANGED <<cacheVars, owned>>
  /\ Return(w)
  /\ UNCHANGED <<load, serves, clock, ended, registryVars>>

CacheSteps ==
  /\ Cache!CacheNext(load.requests)
  /\ UNCHANGED <<writesVars, load, serves, clock, watched, registryVars>>

RegistrySteps ==
  /\ Registry!RegistryNext(load.signIns)
  /\ UNCHANGED <<writesVars, load, serves, clock, watched, cacheVars>>

Tick == /\ clock < load.until
        /\ Cache!MayTick
        /\ clock' = clock + 1
        /\ UNCHANGED <<writesVars, load, serves, cacheVars, watched, registryVars>>

Next == \/ \E w \in Writers : WriterSteps(w) \/ Acknowledge(w)
        \/ CacheSteps
        \/ RegistrySteps
        \/ Tick

Spec == Init /\ [][Next]_vars

TypeOK == /\ WritesTypeOK
          /\ load \in Loads
          /\ serves \in {"allowlist", "policy"}
          /\ clock \in 0..MaxClock
          /\ owned \in Nat
          /\ ended \in [0..MaxWrites -> 0..MaxClock]
          /\ Cache!CacheTypeOK
          /\ Registry!RegistryTypeOK

(***************************************************************************)
(* Correctness.                                                            *)
(***************************************************************************)
OwnWritesAreSeen == Cache!OwnWritesAreSeen
WritesTakeEffect == Cache!WritesTakeEffect
SignInsKeepUp == Registry!SignInsKeepUp
RegistryNeverGoesBack == Registry!RegistryNeverGoesBack

\* A provider write that nobody confirmed never leaves the instance without a way in, whatever was written
\* between its guard's reads and the write itself.
TakesAWayIn(w) == /\ At(w, "writing", "takeAway")
                  /\ ~writer[w].confirmed
                  /\ enabled' # enabled
ProviderWritesLeaveAWayIn ==
  [][\A w \in Writers : TakesAWayIn(w) /\ writer'[w] = Idle => enabled' # {} \/ policy'.on]_vars

\* Switching password login on never undoes a registration mode an admin saved in between.
SwitchKeepsTheMode ==
  [][\A w \in Writers : At(w, "writing", "switchOn") /\ policy' # policy /\ writer'[w].pc = "committed"
                          => policy'.mode = policy.mode]_vars

\* It does not hold of policy writes: their guard reads the providers, and the write is compared with the
\* policy's own row only.
PolicyWritesLeaveAWayIn ==
  [][\A w \in Writers : At(w, "writing", "save") /\ ~writer[w].confirmed /\ policy.on /\ policy' # policy
                          => enabled' # {} \/ policy'.on]_vars
=============================================================================
