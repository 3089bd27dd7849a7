---------------------------- MODULE AuthSettings ----------------------------
(***************************************************************************)
(* The stored authentication settings of an instance (services/            *)
(* instance_auth_settings.go, auth_way_in.go, root_admin_password.go and   *)
(* the repositories/postgres/instance_auth_* files): the access allowlist, *)
(* the sign-in policy, the identity providers, and the one version that    *)
(* every write of them bumps in its own transaction.                       *)
(*                                                                         *)
(* A writer is one admin request (or the root password's bootstrap) on its *)
(* way through the service; a step is one statement or one transaction.    *)
(* Transactions are serialized by the lock on the version's row, so each   *)
(* is one step.  The contents of a setting are identified by the version   *)
(* its last write bumped to.  Whether an instance admin has a usable       *)
(* password does not change while the writers are at work: one has.        *)
(***************************************************************************)
EXTENDS Naturals

CONSTANTS Providers,   \* the stored identity providers
          Writers,     \* requests that write settings, at once
          Modes,       \* the registration modes
          MaxWrites    \* bound: committed writes

ASSUME WritesAssumption == /\ MaxWrites \in Nat
                           /\ Modes # {}

VARIABLES version,      \* the shared version
          list,         \* the allowlist: the version of its last write, and whether it restricts access
          policy,       \* the policy: likewise, whether password login is on, the registration mode
          enabled,      \* the providers that are enabled
          providersAt,  \* the version of the last provider write
          writer        \* where each writer is

settings == <<version, list, policy, enabled, providersAt>>
writesVars == <<version, list, policy, enabled, providersAt, writer>>

Unchecked == MaxWrites + 1     \* a policy save that carries no expected version

\* A writer's fields besides pc: what it does, whether the admin confirmed a lockout, the version its
\* write is compared with (once committed: the version of its write), the provider it takes away, the
\* enabled providers it listed, the policy it stores, and whether it has been refused once.
Idle == [pc |-> "idle", op |-> "none", confirmed |-> FALSE, base |-> 0, takes |-> {}, rows |-> {},
         on |-> FALSE, mode |-> CHOOSE m \in Modes : TRUE, again |-> FALSE]

At(w, pc, op) == writer[w].pc = pc /\ writer[w].op = op
Goes(w, pc) == writer' = [writer EXCEPT ![w].pc = pc]
Ends(w) == writer' = [writer EXCEPT ![w] = Idle]

WriterType == [pc : {"idle", "listing", "judging", "writing", "retrying", "committed"},
               op : {"none", "takeAway", "offer", "save", "switchOn", "list"},
               confirmed : BOOLEAN, base : 0..Unchecked, takes : SUBSET Providers, rows : SUBSET Providers,
               on : BOOLEAN, mode : Modes, again : BOOLEAN]

WritesTypeOK == /\ version \in 0..MaxWrites
                /\ list \in [at : 0..MaxWrites, restricts : BOOLEAN]
                /\ policy \in [at : 0..MaxWrites, on : BOOLEAN, mode : Modes]
                /\ enabled \subseteq Providers
                /\ providersAt \in 0..MaxWrites
                /\ writer \in [Writers -> WriterType]

WritesInit ==
  /\ version = 0
  /\ list = [at |-> 0, restricts |-> FALSE]
  /\ policy \in [at : {0}, on : BOOLEAN, mode : Modes]
  /\ enabled \in SUBSET Providers
  /\ policy.on \/ enabled # {}
  /\ providersAt = 0
  /\ writer = [w \in Writers |-> Idle]

\* bumpAuthSettingsVersion, inside the write's transaction.
Bump == version < MaxWrites /\ version' = version + 1

(***************************************************************************)
(* Provider writes: each is compared with the shared version it began at.  *)
(***************************************************************************)
\* UpdateProvider with the provider disabled, or DeleteProvider: the version is read first.
BeginTakeAway(w, p, confirmed) ==
  /\ writer[w] = Idle
  /\ writer' = [writer EXCEPT ![w] = [Idle EXCEPT !.pc = "listing", !.op = "takeAway",
                                        !.confirmed = confirmed, !.base = version, !.takes = {p}]]
  /\ UNCHANGED settings

\* providerAmong: the providers are listed, and the one to change is among them.  A confirmed change is not
\* judged.
ListForTakeAway(w) ==
  /\ At(w, "listing", "takeAway")
  /\ \/ writer' = [writer EXCEPT ![w].rows = enabled,
                                 ![w].pc = IF writer[w].confirmed THEN "writing" ELSE "judging"]
     \/ Ends(w)
  /\ UNCHANGED settings

\* checkAuthLockoutRisk, without its second reason: what is left when the change is made?
LeavesNone(w) == /\ writer[w].takes \subseteq writer[w].rows
                 /\ writer[w].rows = writer[w].takes
                 /\ ~policy.on

\* Faulty variant: the version a write is compared with is read after the guard.
JudgeThenReadVersion(w) ==
  /\ At(w, "judging", "takeAway")
  /\ IF LeavesNone(w) THEN Ends(w)
     ELSE writer' = [writer EXCEPT ![w].pc = "writing", ![w].base = version]
  /\ UNCHANGED settings

\* guardProviderChange: password login is looked up, and the change is judged on the rows listed before.
\* The change may also be refused because the admin's own session came from that provider.
JudgeTakeAway(w) ==
  /\ At(w, "judging", "takeAway")
  /\ \/ ~LeavesNone(w) /\ Goes(w, "writing")
     \/ LeavesNone(w) /\ Ends(w)
     \/ writer[w].takes \subseteq writer[w].rows /\ Ends(w)
  /\ UNCHANGED settings

\* CreateProvider, or UpdateProvider with the provider enabled: nothing is judged.
BeginOffer(w, p) ==
  /\ writer[w] = Idle
  /\ writer' = [writer EXCEPT ![w] = [Idle EXCEPT !.pc = "writing", !.op = "offer",
                                        !.base = version, !.takes = {p}]]
  /\ UNCHANGED settings

\* The repository's Create, Update and Delete: refused if anything was written since the version was read.
WriteProvider(w) ==
  /\ writer[w].pc = "writing" /\ writer[w].op \in {"takeAway", "offer"}
  /\ Ends(w)
  /\ IF writer[w].base = version
     THEN /\ Bump
          /\ enabled' = IF writer[w].op = "offer" THEN enabled \cup writer[w].takes
                                                  ELSE enabled \ writer[w].takes
          /\ providersAt' = version + 1
          /\ UNCHANGED <<list, policy>>
     ELSE UNCHANGED settings

(***************************************************************************)
(* Policy writes: compared, if at all, with the policy's own row.          *)
(***************************************************************************)
\* UpdatePolicy.  The guard reads the policy; a confirmed save, one that leaves password login on, and one
\* that finds it off already are not judged further.
BeginSave(w, on, mode, base, confirmed) ==
  /\ writer[w] = Idle
  /\ base \in {policy.at, Unchecked}
  /\ writer' = [writer EXCEPT ![w] =
       [Idle EXCEPT !.pc = IF on \/ confirmed \/ ~policy.on THEN "writing" ELSE "listing",
                    !.op = "save", !.confirmed = confirmed, !.base = base, !.on = on, !.mode = mode]]
  /\ UNCHANGED settings

\* guardPasswordLoginOff, second read: with a provider enabled no other way in is asked for.  Accounts that
\* have nothing but a password, the admin's own among them, are reasons to refuse as well.
ListForSave(w) ==
  /\ At(w, "listing", "save")
  /\ \/ enabled # {} /\ Goes(w, "writing")
     \/ enabled = {} /\ Goes(w, "judging")
     \/ enabled # {} /\ Ends(w)
  /\ UNCHANGED settings

\* guardPasswordLoginOff, third read: PasswordWorks.  The other reasons may still refuse.
JudgeSave(w) ==
  /\ At(w, "judging", "save")
  /\ \/ ~policy.on /\ Goes(w, "writing")
     \/ Ends(w)
  /\ UNCHANGED settings

\* RootAdminPasswordService.trySwitchLoginOn: read the policy, keep its mode, switch password login on.
BeginSwitchOn(w) ==
  /\ writer[w] = Idle \/ At(w, "retrying", "switchOn")
  /\ writer' = [writer EXCEPT ![w] =
       IF policy.on THEN Idle
       ELSE [Idle EXCEPT !.pc = "writing", !.op = "switchOn", !.base = policy.at, !.on = TRUE,
                         !.mode = policy.mode, !.again = (writer[w].pc = "retrying")]]
  /\ UNCHANGED settings

\* The policy repository's UpsertAudited.  A conflict ends a save, and a switch at its second attempt.
WritePolicy(w) ==
  /\ writer[w].pc = "writing" /\ writer[w].op \in {"save", "switchOn"}
  /\ IF writer[w].base \in {Unchecked, policy.at}
     THEN /\ Bump
          /\ policy' = [at |-> version + 1, on |-> writer[w].on, mode |-> writer[w].mode]
          /\ writer' = [writer EXCEPT ![w].pc = "committed", ![w].base = version + 1]
          /\ UNCHANGED <<list, enabled, providersAt>>
     ELSE /\ IF writer[w].op = "switchOn" /\ ~writer[w].again THEN Goes(w, "retrying") ELSE Ends(w)
          /\ UNCHANGED settings

(***************************************************************************)
(* Allowlist writes, and the end of a write.                               *)
(***************************************************************************)
WriteList(w, restricts) ==
  /\ writer[w] = Idle
  /\ Bump
  /\ list' = [at |-> version + 1, restricts |-> restricts]
  /\ writer' = [writer EXCEPT ![w] = [Idle EXCEPT !.pc = "committed", !.op = "list", !.base = version + 1]]
  /\ UNCHANGED <<policy, enabled, providersAt>>

\* UpdateAllowlist; an empty one does not restrict.
UpdateList(w) == \E restricts \in BOOLEAN : WriteList(w, restricts)

\* ResetAllowlist; resetting an absent list writes nothing, and still invalidates.
ResetList(w) ==
  \/ WriteList(w, FALSE)
  \/ /\ writer[w] = Idle /\ ~list.restricts
     /\ writer' = [writer EXCEPT ![w] = [Idle EXCEPT !.pc = "committed", !.op = "list", !.base = list.at]]
     /\ UNCHANGED settings

\* The service has invalidated its process's caches and answers.
Return(w) ==
  /\ writer[w].pc = "committed"
  /\ Ends(w)
  /\ UNCHANGED settings

\* The steps of a writer other than its return, for the operations in ops.
Write(w, ops) ==
  \/ "takeAway" \in ops /\ \E p \in Providers, c \in BOOLEAN : BeginTakeAway(w, p, c)
  \/ "offer" \in ops /\ \E p \in Providers : BeginOffer(w, p)
  \/ "save" \in ops /\ \E on, c \in BOOLEAN, m \in Modes, b \in {policy.at, Unchecked} : BeginSave(w, on, m, b, c)
  \/ "keepOn" \in ops /\ BeginSave(w, TRUE, policy.mode, Unchecked, FALSE)
  \/ "restrict" \in ops /\ WriteList(w, TRUE)
  \/ "update" \in ops /\ UpdateList(w)
  \/ "reset" \in ops /\ ResetList(w)
  \/ "switchOn" \in ops /\ BeginSwitchOn(w)
  \/ ListForTakeAway(w) \/ JudgeTakeAway(w) \/ WriteProvider(w)
  \/ ListForSave(w) \/ JudgeSave(w) \/ WritePolicy(w)
=============================================================================
