----------------------- MODULE NotificationDigestProofs -----------------------
(***************************************************************************)
(* What the digest keeps for any processes, pools, rows, users and teams,  *)
(* and however many calls, contexts, connections and processes fail.       *)
(***************************************************************************)
EXTENDS NotificationDigest, FiniteSetTheorems, TLAPS

-----------------------------------------------------------------------------
(* Type correctness.                                                        *)

LockStates == [Connections -> 0..MaxHeld]

LEMMA LockTypes ==
  ASSUME Lock!LockType, NEW c \in Connections, NEW S,
         Lock!TryLock(c) \/ Lock!Unlock(c) \/ Lock!EndSessions(S) \/ UNCHANGED held
  PROVE  Lock!LockType'
<1>1. MaxHeld \in Nat /\ held \in [Connections -> 0..MaxHeld] /\ held[c] \in 0..MaxHeld
  BY DigestAssumption DEF Lock!LockType
<1>2. CASE Lock!TryLock(c)
  <2>1. held[c] + 1 \in 0..MaxHeld /\ held' = [held EXCEPT ![c] = held[c] + 1]
    BY <1>1, <1>2 DEF Lock!TryLock
  <2> QED
    BY <1>1, <2>1 DEF Lock!LockType
<1>3. CASE Lock!Unlock(c)
  <2>1. (IF held[c] = 0 THEN 0 ELSE held[c] - 1) \in 0..MaxHeld
    BY <1>1
  <2> QED
    BY <1>1, <1>3, <2>1 DEF Lock!LockType, Lock!Unlock
<1>4. CASE Lock!EndSessions(S)
  BY <1>1, <1>4 DEF Lock!LockType, Lock!EndSessions
<1> QED
  BY <1>2, <1>3, <1>4 DEF Lock!LockType

LEMMA RowTypes ==
  ASSUME TypeOK, NEW ids
  PROVE  MarkSent(ids) \in [Rows -> {"absent", "pending", "sent", "gone"}]
  BY DEF TypeOK, MarkSent

LEMMA CountTypes ==
  ASSUME TypeOK, NEW ids
  PROVE  Mailed(ids) \in [Rows -> Nat] /\ Unrecorded(ids) \in [Rows -> Nat]
  BY DEF TypeOK, Mailed, Unrecorded

LEMMA FaultTypes ==
  ASSUME TypeOK, NEW r \in Runs, NEW kind, Works(r) \/ Fails(r) \/ Fault(kind) \/ UNCHANGED faults
  PROVE  faults' \in Nat
  BY DEF TypeOK, Works, Fails, Fault

LEMMA InitTypes == Init => TypeOK
<1> SUFFICES ASSUME Init
             PROVE  TypeOK
  OBVIOUS
<1>1. Lock!LockType
  BY DigestAssumption DEF Init, Lock!LockInit, Lock!LockType
<1>2. overlapped \in BOOLEAN
  BY DEF Init
<1>3. requests \subseteq Runs /\ row \in [Rows -> {"absent", "pending", "sent", "gone"}]
  <2>1. PICK load \in Loads : requests = load.requests /\ row = load.rows
    BY DEF Init
  <2>2. load.requests \subseteq Runs /\ load.rows \in [Rows -> {"absent", "pending", "gone"}]
    BY LoadsAssumption
  <2> QED
    BY <2>1, <2>2
<1> QED
  BY <1>1, <1>2, <1>3 DEF Init, TypeOK

LEMMA RunTypes ==
  ASSUME TypeOK, NEW r \in Runs, Start(r) \/ RunStep(r) \/ ContextEnds(r)
  PROVE  TypeOK'
<1> USE DEF work, seen
<1>0. r[1] \in Processes /\ \A c \in Pool(r[1]) : c \in Connections
  BY DEF Runs, Pool
<1>1. CASE Start(r)
  <2>1. Lock!LockType'
    BY <1>0, <1>1, LockTypes DEF Start, TypeOK
  <2>2. overlapped' \in BOOLEAN
    BY <1>1 DEF Start
  <2> QED
    BY <1>1, <2>1, <2>2 DEF Start, TypeOK
<1>2. CASE FetchPending(r)
  <2>1. Lock!LockType' /\ faults' \in Nat
    BY <1>2, FaultTypes DEF FetchPending, TypeOK, Lock!LockType
  <2>2. overlapped' \in BOOLEAN
    BY <1>2 DEF FetchPending, TypeOK
  <2> QED
    BY <1>2, <2>1, <2>2 DEF FetchPending, Pending, TypeOK
<1>3. CASE ProcessUser(r)
  <2>1. Lock!LockType' /\ faults' \in Nat
    BY <1>3, FaultTypes DEF ProcessUser, TypeOK, Lock!LockType, Fault, Works, Fails
  <2>2. overlapped' \in BOOLEAN
    BY <1>3 DEF ProcessUser, TypeOK
  <2>3. PICK u \in {UserOf[x] : x \in batch[r]} :
          LET items == {x \in batch[r] : UserOf[x] = u} IN
          /\ batch' = [batch EXCEPT ![r] = batch[r] \ items]
          /\ \/ UNCHANGED <<drain, groups>>
             \/ drain' = [drain EXCEPT ![r] = items] /\ UNCHANGED groups
             \/ /\ drain' = [drain EXCEPT ![r] = Orphans(items)]
                /\ groups' = [groups EXCEPT ![r] = items \ Orphans(items)]
    BY <1>3 DEF ProcessUser
  <2>4. batch[r] \subseteq Rows
    BY DEF TypeOK
  <2>5. /\ batch' \in [Runs -> SUBSET Rows]
        /\ drain' \in [Runs -> SUBSET Rows]
        /\ groups' \in [Runs -> SUBSET Rows]
    BY <2>3, <2>4 DEF TypeOK, Orphans
  <2> QED
    BY <1>3, <2>1, <2>2, <2>5 DEF ProcessUser, TypeOK
<1>4. CASE DrainRows(r)
  <2>1. Lock!LockType' /\ faults' \in Nat
    BY <1>4, FaultTypes DEF DrainRows, TypeOK, Lock!LockType
  <2>2. overlapped' \in BOOLEAN
    BY <1>4 DEF DrainRows, TypeOK
  <2> QED
    BY <1>4, <2>1, <2>2, RowTypes DEF DrainRows, TypeOK
<1>5. CASE SendTeamDigest(r)
  <2>1. Lock!LockType' /\ faults' \in Nat
    BY <1>5, FaultTypes DEF SendTeamDigest, TypeOK, Lock!LockType
  <2>2. overlapped' \in BOOLEAN
    BY <1>5 DEF SendTeamDigest, TypeOK
  <2>3. \A t : GroupRows(r, t) \subseteq Rows
    BY DEF TypeOK, GroupRows
  <2> QED
    BY <1>5, <2>1, <2>2, <2>3, CountTypes DEF SendTeamDigest, AfterFailure, TypeOK
<1>6. CASE RecordSent(r)
  <2>1. Lock!LockType' /\ faults' \in Nat
    BY <1>6, FaultTypes DEF RecordSent, TypeOK, Lock!LockType
  <2>2. overlapped' \in BOOLEAN
    BY <1>6 DEF RecordSent, TypeOK
  <2> QED
    BY <1>6, <2>1, <2>2, RowTypes, CountTypes DEF RecordSent, TypeOK
<1>7. CASE EndOfBatch(r)
  <2>1. Lock!LockType' /\ overlapped' \in BOOLEAN
    BY <1>7 DEF EndOfBatch, TypeOK, Lock!LockType
  <2> QED
    BY <1>7, <2>1 DEF EndOfBatch, TypeOK
<1>8. CASE Release(r)
  <2>1. Lock!LockType'
    BY <1>0, <1>8, LockTypes DEF Release, TypeOK, Lock!LockType
  <2>2. faults' \in Nat /\ overlapped' \in BOOLEAN
    BY <1>8, FaultTypes DEF Release, TypeOK
  <2> QED
    BY <1>8, <2>1, <2>2 DEF Release, TypeOK
<1>9. CASE ContextEnds(r)
  <2>1. Lock!LockType' /\ faults' \in Nat /\ overlapped' \in BOOLEAN
    BY <1>9 DEF ContextEnds, Fault, TypeOK, Lock!LockType
  <2> QED
    BY <1>9, <2>1 DEF ContextEnds, TypeOK
<1> QED
  BY <1>1, <1>2, <1>3, <1>4, <1>5, <1>6, <1>7, <1>8, <1>9 DEF RunStep

LEMMA OtherTypes ==
  ASSUME TypeOK,
         \/ \E x \in Rows : Enqueue(x) \/ DeleteNotification(x)
         \/ \E c \in Connections : ConnectionExpires(c)
         \/ \E p \in Processes : Crash(p)
         \/ UNCHANGED vars
  PROVE  TypeOK'
<1> USE DEF work, seen
<1>1. ASSUME NEW x \in Rows, Enqueue(x) \/ DeleteNotification(x)
      PROVE  TypeOK'
  <2>1. Lock!LockType' /\ overlapped' \in BOOLEAN
    BY <1>1 DEF Enqueue, DeleteNotification, TypeOK, Lock!LockType
  <2> QED
    BY <1>1, <2>1 DEF Enqueue, DeleteNotification, TypeOK
<1>2. ASSUME NEW c \in Connections, ConnectionExpires(c)
      PROVE  TypeOK'
  <2>1. Lock!LockType' /\ overlapped' \in BOOLEAN
    BY <1>2, LockTypes DEF ConnectionExpires, TypeOK
  <2>2. c[1] \in Processes
    BY DEF Connections
  <2> QED
    BY <1>2, <2>1, <2>2 DEF ConnectionExpires, TypeOK
<1>3. ASSUME NEW p \in Processes, Crash(p)
      PROVE  TypeOK'
  <2>1. held' \in [Connections -> 0..MaxHeld]
    BY <1>3, DigestAssumption DEF Crash, TypeOK, Lock!LockType, Lock!EndSessions
  <2>2. overlapped' \in BOOLEAN /\ faults' \in Nat
    BY <1>3 DEF Crash, TypeOK, Fault
  <2>3. cancelled' \in [Runs -> BOOLEAN]
    BY <1>3 DEF Crash, TypeOK
  <2> QED
    BY <1>3, <2>1, <2>2, <2>3, CountTypes DEF Crash, TypeOK, Lock!LockType
<1>4. CASE UNCHANGED vars
  BY <1>4 DEF vars, TypeOK, Lock!LockType
<1> QED
  BY <1>1, <1>2, <1>3, <1>4

(* Every reachable state is well typed. *)
THEOREM TypeCorrect == Spec => []TypeOK
<1>1. TypeOK /\ [Next]_vars => TypeOK'
  BY RunTypes, OtherTypes DEF Next
<1> QED
  BY <1>1, InitTypes, PTL DEF Spec
-----------------------------------------------------------------------------
(* The lock: one session has it, and it is a session of the process whose    *)
(* runs are under way and has been locked once for each of them, unless the  *)
(* pool retired it meanwhile.                                                *)

OneSession == \A c, d \in Connections : held[c] > 0 /\ held[d] > 0 => c = d

HeldByRuns ==
  \A p \in Processes : ActiveIn(p) # {} /\ p \notin recycled =>
    \E c \in Pool(p) : held[c] >= Cardinality(ActiveIn(p))

LockInv == OneSession /\ HeldByRuns

\* A process has finitely many runs.
LEMMA RunsAreFinite ==
  ASSUME NEW p \in Processes
  PROVE  /\ IsFiniteSet(ActiveIn(p))
         /\ Cardinality(ActiveIn(p)) \in Nat
         /\ ActiveIn(p) # {} => Cardinality(ActiveIn(p)) > 0
<1>1. IsFiniteSet(1..Requests[p])
  BY FS_Interval, DigestAssumption
<1>2. IsFiniteSet({p} \X (1..Requests[p]))
  BY <1>1, FS_Singleton, FS_Product
<1>3. ActiveIn(p) \subseteq {p} \X (1..Requests[p])
  BY DEF ActiveIn, Runs
<1>4. IsFiniteSet(ActiveIn(p))
  BY <1>2, <1>3, FS_Subset
<1> QED
  BY <1>4, FS_CardinalityType, FS_EmptySet

LEMMA PoolsAreDisjoint ==
  /\ \A p \in Processes : Pool(p) \subseteq Connections
  /\ \A p, q : \A c : c \in Pool(p) /\ c \in Pool(q) => p = q
  BY DEF Pool

LEMMA StartKeepsLock ==
  ASSUME TypeOK, LockInv, NEW r \in Runs, Start(r)
  PROVE  LockInv'
<1> DEFINE p == r[1]
<1>0. p \in Processes /\ held \in [Connections -> 0..MaxHeld] /\ MaxHeld \in Nat
  BY DigestAssumption DEF Runs, TypeOK, Lock!LockType
<1>1. PICK c \in Pool(p) : Lock!TryLock(c)
  BY DEF Start
<1>2. c \in Connections /\ held' = [held EXCEPT ![c] = held[c] + 1] /\ held[c] \in Nat
  BY <1>0, <1>1, PoolsAreDisjoint DEF Lock!TryLock
<1>3. \A d \in Connections : d # c => held[d] = 0 /\ held'[d] = 0
  BY <1>0, <1>1, <1>2 DEF Lock!TryLock, Lock!Obtainable
<1>4. held'[c] = held[c] + 1
  BY <1>0, <1>2
<1>5. OneSession'
  BY <1>3 DEF OneSession
<1>6. UNCHANGED recycled /\ r \notin ActiveIn(p)
  BY DEF Start, ActiveIn, Active
<1>7. \A q \in Processes : ActiveIn(q)' = IF q = p THEN ActiveIn(p) \cup {r} ELSE ActiveIn(q)
  BY DEF Start, ActiveIn, Active, TypeOK
<1>8. ASSUME NEW q \in Processes, ActiveIn(q)' # {}, q \notin recycled
      PROVE  \E d \in Pool(q) : held'[d] >= Cardinality(ActiveIn(q)')
  <2>1. CASE q # p
    <3>1. PICK d \in Pool(q) : held[d] >= Cardinality(ActiveIn(q))
      BY <1>7, <1>8, <2>1 DEF LockInv, HeldByRuns
    <3>2. held[d] > 0 /\ d \in Connections
      BY <1>0, <1>7, <1>8, <2>1, <3>1, RunsAreFinite, PoolsAreDisjoint
    <3>3. d = c
      BY <1>3, <3>2
    <3> QED
      BY <1>1, <2>1, <3>1, <3>3, PoolsAreDisjoint
  <2>2. CASE q = p
    <3>1. Cardinality(ActiveIn(p)') = Cardinality(ActiveIn(p)) + 1
      BY <1>0, <1>6, <1>7, RunsAreFinite, FS_AddElement
    <3>2. held[c] >= Cardinality(ActiveIn(p))
      <4>1. CASE ActiveIn(p) = {}
        BY <1>2, <4>1, FS_EmptySet
      <4>2. CASE ActiveIn(p) # {}
        <5>1. PICK d \in Pool(p) : held[d] >= Cardinality(ActiveIn(p))
          BY <1>0, <1>8, <2>2, <4>2 DEF LockInv, HeldByRuns
        <5>2. held[d] > 0 /\ d \in Connections
          BY <1>0, <4>2, <5>1, RunsAreFinite, PoolsAreDisjoint
        <5> QED
          BY <1>3, <5>1, <5>2
      <4> QED
        BY <4>1, <4>2
    <3>3. held'[c] >= Cardinality(ActiveIn(p)')
      BY <1>0, <1>2, <1>4, <3>1, <3>2, RunsAreFinite
    <3> QED
      BY <1>1, <2>2, <3>3
  <2> QED
    BY <2>1, <2>2
<1> QED
  BY <1>5, <1>6, <1>8 DEF LockInv, HeldByRuns

LEMMA ReleaseKeepsLock ==
  ASSUME TypeOK, LockInv, NEW r \in Runs, Release(r)
  PROVE  LockInv'
<1> DEFINE p == r[1]
<1>0. p \in Processes /\ held \in [Connections -> 0..MaxHeld] /\ MaxHeld \in Nat
  BY DigestAssumption DEF Runs, TypeOK, Lock!LockType
<1>1. \/ UNCHANGED held
      \/ \E c \in Pool(p) : held' = [held EXCEPT ![c] = IF held[c] = 0 THEN 0 ELSE held[c] - 1]
  BY DEF Release, Lock!Unlock
<1>2. \A d \in Connections : /\ held[d] \in Nat /\ held'[d] \in Nat
                             /\ held'[d] <= held[d] /\ held'[d] >= held[d] - 1
                             /\ d \notin Pool(p) => held'[d] = held[d]
  BY <1>0, <1>1
<1>3. OneSession'
  BY <1>2 DEF LockInv, OneSession
<1>4. r \in ActiveIn(p)
  BY DEF Release, ActiveIn, Active
<1>5. \A q \in Processes : ActiveIn(q)' = IF q = p THEN ActiveIn(p) \ {r} ELSE ActiveIn(q)
  BY DEF Release, ActiveIn, Active, TypeOK
<1>6. ASSUME NEW q \in Processes, ActiveIn(q)' # {}, q \notin recycled'
      PROVE  \E d \in Pool(q) : held'[d] >= Cardinality(ActiveIn(q)')
  <2>1. q \notin recycled /\ ActiveIn(q) # {}
    BY <1>4, <1>5, <1>6 DEF Release
  <2>2. PICK d \in Pool(q) : held[d] >= Cardinality(ActiveIn(q))
    BY <2>1 DEF LockInv, HeldByRuns
  <2>3. d \in Connections
    BY PoolsAreDisjoint
  <2>4. CASE q # p
    <3>1. d \notin Pool(p)
      BY <2>4, PoolsAreDisjoint
    <3> QED
      BY <1>2, <1>5, <2>2, <2>3, <2>4, <3>1
  <2>5. CASE q = p
    <3>1. Cardinality(ActiveIn(p)') = Cardinality(ActiveIn(p)) - 1
      BY <1>0, <1>4, <1>5, RunsAreFinite, FS_RemoveElement
    <3>2. Cardinality(ActiveIn(p)) \in Nat
      BY <1>0, RunsAreFinite
    <3>3. held'[d] >= Cardinality(ActiveIn(p)')
      BY <1>2, <2>2, <2>3, <2>5, <3>1, <3>2
    <3> QED
      BY <2>5, <3>3
  <2> QED
    BY <2>4, <2>5
<1> QED
  BY <1>3, <1>6 DEF LockInv, HeldByRuns

LEMMA RunKeepsLock ==
  ASSUME TypeOK, LockInv, NEW r \in Runs, Start(r) \/ RunStep(r) \/ ContextEnds(r)
  PROVE  LockInv'
<1> USE DEF work, seen
<1>1. ASSUME ~Start(r), ~Release(r)
      PROVE  LockInv'
  <2>1. UNCHANGED <<held, recycled>>
    BY <1>1 DEF RunStep, FetchPending, ProcessUser, DrainRows, SendTeamDigest, RecordSent,
                EndOfBatch, ContextEnds
  <2>2. \A q \in Runs : Active(q)' <=> Active(q)
    BY <1>1 DEF RunStep, FetchPending, ProcessUser, DrainRows, SendTeamDigest, RecordSent,
                EndOfBatch, BetweenUsers, ContextEnds, Active, TypeOK
  <2>3. \A p \in Processes : ActiveIn(p)' = ActiveIn(p)
    BY <2>2 DEF ActiveIn
  <2> QED
    BY <2>1, <2>3 DEF LockInv, OneSession, HeldByRuns
<1> QED
  BY <1>1, StartKeepsLock, ReleaseKeepsLock

LEMMA OtherKeepsLock ==
  ASSUME TypeOK, LockInv,
         \/ \E x \in Rows : Enqueue(x) \/ DeleteNotification(x)
         \/ \E c \in Connections : ConnectionExpires(c)
         \/ \E p \in Processes : Crash(p)
         \/ UNCHANGED vars
  PROVE  LockInv'
<1> USE DEF work, seen
<1>1. CASE UNCHANGED <<held, pc, recycled>>
  <2>1. \A p \in Processes : ActiveIn(p)' = ActiveIn(p)
    BY <1>1 DEF ActiveIn, Active
  <2> QED
    BY <1>1, <2>1 DEF LockInv, OneSession, HeldByRuns
<1>2. ASSUME NEW c \in Connections, ConnectionExpires(c)
      PROVE  LockInv'
  <2>1. held' = [d \in Connections |-> IF d \in {c} THEN 0 ELSE held[d]] /\ held[c] > 0
    BY <1>2 DEF ConnectionExpires, Lock!EndSessions
  <2>2. OneSession'
    BY <2>1 DEF LockInv, OneSession
  <2>3. ASSUME NEW q \in Processes
        PROVE  ActiveIn(q)' = ActiveIn(q)
    BY <1>2 DEF ConnectionExpires, ActiveIn, Active
  <2>4. ASSUME NEW q \in Processes, ActiveIn(q) # {}, q \notin recycled'
        PROVE  \E d \in Pool(q) : held'[d] >= Cardinality(ActiveIn(q))
    <3>1. q \notin recycled /\ q # c[1]
      BY <1>2, <2>4 DEF ConnectionExpires
    <3>2. PICK d \in Pool(q) : held[d] >= Cardinality(ActiveIn(q))
      BY <2>4, <3>1 DEF LockInv, HeldByRuns
    <3>3. d # c /\ d \in Connections
      BY <3>1 DEF Pool
    <3> QED
      BY <2>1, <3>2, <3>3
  <2> QED
    BY <2>2, <2>3, <2>4 DEF LockInv, HeldByRuns
<1>3. ASSUME NEW p \in Processes, Crash(p)
      PROVE  LockInv'
  <2>1. held' = [d \in Connections |-> IF d \in Pool(p) THEN 0 ELSE held[d]]
    BY <1>3 DEF Crash, Lock!EndSessions
  <2>2. OneSession'
    BY <2>1 DEF LockInv, OneSession
  <2>3. \A q \in Processes : ActiveIn(q)' = IF q = p THEN {} ELSE ActiveIn(q)
    BY <1>3 DEF Crash, ActiveIn, Active
  <2>4. ASSUME NEW q \in Processes, q # p, ActiveIn(q) # {}, q \notin recycled'
        PROVE  \E d \in Pool(q) : held'[d] >= Cardinality(ActiveIn(q))
    <3>1. q \notin recycled
      BY <1>3, <2>4 DEF Crash
    <3>2. PICK d \in Pool(q) : held[d] >= Cardinality(ActiveIn(q))
      BY <2>4, <3>1 DEF LockInv, HeldByRuns
    <3>3. d \notin Pool(p) /\ d \in Connections
      BY <2>4, PoolsAreDisjoint
    <3> QED
      BY <2>1, <3>2, <3>3
  <2> QED
    BY <2>2, <2>3, <2>4 DEF LockInv, HeldByRuns
<1> QED
  BY <1>1, <1>2, <1>3 DEF Enqueue, DeleteNotification, vars

(* Two processes have runs at a time only after the pool retired the session *)
(* that held the lock of one: for any number of processes, connections and   *)
(* requests in each, although a process takes the lock again for each of its *)
(* runs, and wherever unlocks went.                                          *)
THEOREM ProcessesAreApart == Spec => []ProcessesStayApart
<1>1. Init => LockInv
  BY DEF Init, LockInv, OneSession, HeldByRuns, Lock!LockInit, ActiveIn, Active
<1>2. TypeOK /\ LockInv /\ [Next]_vars => LockInv'
  BY RunKeepsLock, OtherKeepsLock DEF Next
<1>3. TypeOK /\ LockInv => ProcessesStayApart
  <2> SUFFICES ASSUME TypeOK, LockInv, NEW r \in Runs, NEW q \in Runs, Active(r), Active(q), r[1] # q[1],
                      r[1] \notin recycled, q[1] \notin recycled
               PROVE  FALSE
    BY DEF ProcessesStayApart
  <2>0. \A c \in Connections : held[c] \in Nat
    BY DigestAssumption DEF TypeOK, Lock!LockType
  <2>1. r[1] \in Processes /\ q[1] \in Processes
    BY DEF Runs
  <2>2. r \in ActiveIn(r[1]) /\ q \in ActiveIn(q[1])
    BY DEF ActiveIn
  <2>3. PICK c \in Pool(r[1]) : held[c] > 0
    BY <2>0, <2>1, <2>2, RunsAreFinite, PoolsAreDisjoint DEF LockInv, HeldByRuns
  <2>4. PICK d \in Pool(q[1]) : held[d] > 0
    BY <2>0, <2>1, <2>2, RunsAreFinite, PoolsAreDisjoint DEF LockInv, HeldByRuns
  <2>5. c \in Connections /\ d \in Connections /\ c # d
    BY <2>1, PoolsAreDisjoint
  <2> QED
    BY <2>3, <2>4, <2>5 DEF LockInv, OneSession
<1> QED
  BY <1>1, <1>2, <1>3, TypeCorrect, PTL DEF Spec
-----------------------------------------------------------------------------
(* Rows of reachable users are retired by their mail.                        *)

MailInv ==
  /\ RetiredWasMailed
  /\ \A r \in Runs : \A x \in unmarked[r] : mails[x] > 0
  /\ \A r \in Runs : \A x \in drain[r] : UserOf[x] \in Unreachable \/ row[x] = "gone"

LEMMA StepKeepsMails ==
  ASSUME TypeOK, MailInv, [Next]_vars
  PROVE  MailInv'
<1> USE DEF work, seen, RetiredWasMailed
<1>0. \A x \in Rows : mails[x] \in Nat
  BY DEF TypeOK
<1>1. ASSUME UNCHANGED <<row, mails>>,
             \A r \in Runs : unmarked'[r] \subseteq unmarked[r] /\ drain'[r] \subseteq drain[r]
      PROVE  MailInv'
  BY <1>1 DEF MailInv
<1>2. ASSUME NEW r \in Runs, ProcessUser(r)
      PROVE  MailInv'
  <2>1. UNCHANGED <<row, mails, unmarked>>
    BY <1>2 DEF ProcessUser
  <2>2. PICK u \in {UserOf[x] : x \in batch[r]} :
          LET items == {x \in batch[r] : UserOf[x] = u} IN
          \/ UNCHANGED drain
          \/ u \in Unreachable /\ drain' = [drain EXCEPT ![r] = items]
          \/ drain' = [drain EXCEPT ![r] = Orphans(items)]
    BY <1>2 DEF ProcessUser
  <2>3. \A q \in Runs : \A x \in drain'[q] :
          x \in drain[q] \/ UserOf[x] \in Unreachable \/ row[x] = "gone"
    BY <2>2 DEF TypeOK, Orphans
  <2> QED
    BY <2>1, <2>3 DEF MailInv
<1>3. ASSUME NEW r \in Runs, DrainRows(r)
      PROVE  MailInv'
  <2>1. UNCHANGED <<mails, unmarked>> /\ \A q \in Runs : drain'[q] \subseteq drain[q]
    BY <1>3 DEF DrainRows, TypeOK
  <2>2. row' = MarkSent(drain[r]) \/ UNCHANGED row
    BY <1>3 DEF DrainRows
  <2> QED
    BY <2>1, <2>2 DEF MailInv, MarkSent, TypeOK
<1>4. ASSUME NEW r \in Runs, SendTeamDigest(r)
      PROVE  MailInv'
  <2>1. UNCHANGED <<row, drain>>
    BY <1>4 DEF SendTeamDigest
  <2>2. CASE UNCHANGED <<mails, unmarked>>
    BY <1>1, <2>1, <2>2
  <2>3. ASSUME NEW g \in SUBSET Rows, mails' = Mailed(g),
               unmarked' = [unmarked EXCEPT ![r] = g] \/ UNCHANGED unmarked
        PROVE  MailInv'
    <3>1. \A x \in Rows : /\ mails'[x] >= mails[x] /\ mails'[x] \in Nat
                          /\ x \in g => mails'[x] > 0
      BY <1>0, <2>3 DEF Mailed
    <3>2. \A q \in Runs : unmarked'[q] \subseteq unmarked[q] \cup g /\ unmarked[q] \subseteq Rows
      BY <2>3 DEF TypeOK
    <3>3. \A q \in Runs : \A x \in unmarked'[q] : mails'[x] > 0
      BY <1>0, <3>1, <3>2 DEF MailInv
    <3>4. RetiredWasMailed'
      BY <1>0, <2>1, <3>1 DEF MailInv
    <3> QED
      BY <2>1, <3>3, <3>4 DEF MailInv
  <2>4. \A t : GroupRows(r, t) \in SUBSET Rows
    BY DEF TypeOK, GroupRows
  <2> QED
    BY <1>4, <2>2, <2>3, <2>4 DEF SendTeamDigest
<1>5. ASSUME NEW r \in Runs, RecordSent(r)
      PROVE  MailInv'
  <2>1. UNCHANGED <<mails, drain>> /\ \A q \in Runs : unmarked'[q] \subseteq unmarked[q]
    BY <1>5 DEF RecordSent, TypeOK
  <2>2. row' = MarkSent(unmarked[r]) \/ UNCHANGED row
    BY <1>5 DEF RecordSent
  <2>3. \A q \in Runs : drain[q] \subseteq Rows
    BY DEF TypeOK
  <2> QED
    BY <2>1, <2>2, <2>3 DEF MailInv, MarkSent, TypeOK
<1>6. ASSUME NEW x \in Rows, Enqueue(x) \/ DeleteNotification(x)
      PROVE  MailInv'
  BY <1>6 DEF Enqueue, DeleteNotification, MailInv, TypeOK
<1>7. ASSUME NEW p \in Processes, Crash(p)
      PROVE  MailInv'
  <2>1. UNCHANGED <<row, mails>>
    BY <1>7 DEF Crash
  <2>2. \A r \in Runs : unmarked'[r] \subseteq unmarked[r] /\ drain'[r] \subseteq drain[r]
    BY <1>7 DEF Crash
  <2> QED
    BY <1>1, <2>1, <2>2
<1>8. ASSUME \/ \E r \in Runs : Start(r) \/ FetchPending(r) \/ EndOfBatch(r) \/ Release(r) \/ ContextEnds(r)
             \/ \E c \in Connections : ConnectionExpires(c)
             \/ UNCHANGED vars
      PROVE  MailInv'
  <2>1. UNCHANGED <<row, mails, unmarked, drain>>
    BY <1>8 DEF Start, FetchPending, EndOfBatch, Release, ContextEnds, ConnectionExpires, vars
  <2> QED
    BY <1>1, <2>1
<1> QED
  BY <1>2, <1>3, <1>4, <1>5, <1>6, <1>7, <1>8 DEF Next, RunStep

(* No row of a reachable user is retired without a mail about it: for any    *)
(* users, teams and providers, overlapping runs and failures.                *)
THEOREM RetiredRowsWereMailed == Spec => []RetiredWasMailed
<1>1. Init => MailInv
  BY LoadsAssumption DEF Init, MailInv, RetiredWasMailed
<1>2. MailInv => RetiredWasMailed
  BY DEF MailInv
<1> QED
  BY <1>1, <1>2, StepKeepsMails, TypeCorrect, PTL DEF Spec

-----------------------------------------------------------------------------
(* Repeated mails.  A run that is alone holds rows that were pending when it *)
(* fetched them, and has mailed only those it still has to mark.             *)

WorkInv ==
  /\ \A r \in Runs : pc[r] # "working" =>
       batch[r] = {} /\ drain[r] = {} /\ groups[r] = {} /\ unmarked[r] = {}
  /\ \A r \in Runs : /\ groups[r] \cap unmarked[r] = {}
                     /\ batch[r] \cap groups[r] = {}
                     /\ batch[r] \cap unmarked[r] = {}
  /\ \A r \in Runs : \A x \in batch[r] \cup groups[r] \cup unmarked[r] : row[x] # "absent"

Alone == ~overlapped => \A r, q \in Runs : Active(r) /\ Active(q) => r = q

LEMMA RunKeepsWork ==
  ASSUME TypeOK, WorkInv, NEW r \in Runs, Start(r) \/ RunStep(r) \/ ContextEnds(r)
  PROVE  WorkInv'
<1> USE DEF work, seen
<1>1. CASE Start(r) \/ Release(r)
  <2>1. UNCHANGED <<row, work>> /\ pc[r] # "working" /\ \A q \in Runs : q # r => pc'[q] = pc[q]
    BY <1>1 DEF Start, Release, TypeOK
  <2> QED
    BY <2>1 DEF WorkInv
<1>2. CASE FetchPending(r)
  <2>1. UNCHANGED <<row, drain, groups, unmarked>> /\ \A q \in Runs : q # r => pc'[q] = pc[q] /\ batch'[q] = batch[q]
    BY <1>2 DEF FetchPending, TypeOK
  <2>2. groups[r] = {} /\ unmarked[r] = {} /\ drain[r] = {} /\ batch[r] = {}
    BY <1>2 DEF FetchPending, WorkInv
  <2>3. \/ pc'[r] = "working" /\ batch'[r] = Pending
        \/ batch'[r] = batch[r]
    BY <1>2 DEF FetchPending, TypeOK
  <2>4. \A x \in Pending : row[x] # "absent"
    BY DEF Pending
  <2> QED
    BY <2>1, <2>2, <2>3, <2>4 DEF WorkInv
<1>3. CASE ProcessUser(r)
  <2>1. UNCHANGED <<row, pc, unmarked>> /\ pc[r] = "working" /\ unmarked[r] = {} /\ groups[r] = {}
    BY <1>3 DEF ProcessUser, BetweenUsers
  <2>2. \A q \in Runs : q # r => /\ batch'[q] = batch[q] /\ drain'[q] = drain[q]
                                 /\ groups'[q] = groups[q]
    BY <1>3 DEF ProcessUser, TypeOK
  <2>3. PICK items \in SUBSET batch[r] :
          /\ batch' = [batch EXCEPT ![r] = batch[r] \ items]
          /\ UNCHANGED groups \/ groups' = [groups EXCEPT ![r] = items \ Orphans(items)]
    BY <1>3 DEF ProcessUser
  <2>4. batch'[r] = batch[r] \ items /\ groups'[r] \subseteq items
    BY <2>1, <2>3 DEF TypeOK
  <2> QED
    BY <2>1, <2>2, <2>4 DEF WorkInv
<1>4. CASE DrainRows(r)
  <2>1. /\ UNCHANGED <<pc, batch, groups, unmarked>> /\ pc[r] = "working"
        /\ \A q \in Runs : q # r => drain'[q] = drain[q]
        /\ row' = MarkSent(drain[r]) \/ UNCHANGED row
    BY <1>4 DEF DrainRows, TypeOK
  <2>2. \A x \in Rows : row'[x] = "absent" => row[x] = "absent"
    BY <2>1 DEF MarkSent
  <2>3. \A q \in Runs : batch[q] \cup groups[q] \cup unmarked[q] \subseteq Rows
    BY DEF TypeOK
  <2> QED
    BY <2>1, <2>2, <2>3 DEF WorkInv
<1>5. CASE SendTeamDigest(r)
  <2>1. /\ UNCHANGED <<pc, batch, drain, row>> /\ pc[r] = "working" /\ unmarked[r] = {}
        /\ \A q \in Runs : q # r => groups'[q] = groups[q] /\ unmarked'[q] = unmarked[q]
    BY <1>5 DEF SendTeamDigest, TypeOK
  <2>2. groups'[r] \subseteq groups[r] /\ unmarked'[r] \subseteq groups[r] /\ groups'[r] \cap unmarked'[r] = {}
    <3>1. PICK g \in SUBSET groups[r] :
            /\ groups' = [groups EXCEPT ![r] = groups[r] \ g]
            /\ unmarked' = [unmarked EXCEPT ![r] = g] \/ UNCHANGED unmarked
      BY <1>5 DEF SendTeamDigest, AfterFailure, GroupRows
    <3> QED
      BY <2>1, <3>1 DEF TypeOK
  <2> QED
    BY <2>1, <2>2 DEF WorkInv
<1>6. CASE RecordSent(r)
  <2>1. /\ UNCHANGED <<pc, batch, groups, drain>>
        /\ \A q \in Runs : unmarked'[q] \subseteq unmarked[q]
        /\ row' = MarkSent(unmarked[r]) \/ UNCHANGED row
    BY <1>6 DEF RecordSent, TypeOK
  <2>2. \A x \in Rows : row'[x] = "absent" => row[x] = "absent"
    BY <2>1 DEF MarkSent
  <2>3. \A q \in Runs : batch[q] \cup groups[q] \cup unmarked[q] \subseteq Rows
    BY DEF TypeOK
  <2> QED
    BY <2>1, <2>2, <2>3 DEF WorkInv
<1>7. CASE EndOfBatch(r)
  <2>1. /\ UNCHANGED <<row, work>> /\ \A q \in Runs : q # r => pc'[q] = pc[q]
        /\ batch[r] = {} /\ drain[r] = {} /\ groups[r] = {} /\ unmarked[r] = {}
    BY <1>7 DEF EndOfBatch, BetweenUsers, TypeOK
  <2> QED
    BY <2>1 DEF WorkInv
<1>8. CASE ContextEnds(r)
  BY <1>8 DEF ContextEnds, WorkInv
<1> QED
  BY <1>1, <1>2, <1>3, <1>4, <1>5, <1>6, <1>7, <1>8 DEF RunStep

LEMMA OtherKeepsWork ==
  ASSUME TypeOK, WorkInv,
         \/ \E x \in Rows : Enqueue(x) \/ DeleteNotification(x)
         \/ \E c \in Connections : ConnectionExpires(c)
         \/ \E p \in Processes : Crash(p)
         \/ UNCHANGED vars
  PROVE  WorkInv'
<1> USE DEF work, seen
<1>1. ASSUME NEW x \in Rows, Enqueue(x) \/ DeleteNotification(x)
      PROVE  WorkInv'
  BY <1>1 DEF Enqueue, DeleteNotification, WorkInv, TypeOK
<1>2. CASE UNCHANGED <<row, pc, batch, drain, groups, unmarked>>
  BY <1>2 DEF WorkInv
<1>3. ASSUME NEW p \in Processes, Crash(p)
      PROVE  WorkInv'
  BY <1>3 DEF Crash, WorkInv
<1> QED
  BY <1>1, <1>2, <1>3 DEF ConnectionExpires, vars

LEMMA StepKeepsAlone ==
  ASSUME TypeOK, Alone, [Next]_vars
  PROVE  Alone'
<1> USE DEF work, seen
<1>1. ASSUME NEW r \in Runs, Start(r)
      PROVE  Alone'
  BY <1>1 DEF Start, Alone, Active, TypeOK
<1>2. ASSUME UNCHANGED overlapped, \A q \in Runs : Active(q)' => Active(q)
      PROVE  Alone'
  BY <1>2 DEF Alone
<1>3. ASSUME NEW r \in Runs, RunStep(r) \/ ContextEnds(r)
      PROVE  UNCHANGED overlapped /\ \A q \in Runs : Active(q)' => Active(q)
  BY <1>3 DEF RunStep, FetchPending, ProcessUser, DrainRows, SendTeamDigest, RecordSent, EndOfBatch,
              BetweenUsers, Release, ContextEnds, Active, TypeOK
<1>4. ASSUME \/ \E x \in Rows : Enqueue(x) \/ DeleteNotification(x)
             \/ \E c \in Connections : ConnectionExpires(c)
             \/ \E p \in Processes : Crash(p)
             \/ UNCHANGED vars
      PROVE  UNCHANGED overlapped /\ \A q \in Runs : Active(q)' => Active(q)
  BY <1>4 DEF Enqueue, DeleteNotification, ConnectionExpires, Crash, vars, Active
<1> QED
  BY <1>1, <1>2, <1>3, <1>4 DEF Next

\* While runs do not overlap, what a run holds or may fetch has no mail that is still to be recorded.
Counted ==
  /\ \A x \in Rows : mails[x] <= unrecorded[x] + 1
  /\ \A x \in Rows : row[x] \in {"absent", "pending"} /\ (\A r \in Runs : x \notin unmarked[r])
                        => mails[x] <= unrecorded[x]
  /\ \A r \in Runs : \A x \in batch[r] \cup groups[r] : mails[x] <= unrecorded[x]

Repeats == ~overlapped => Counted

LEMMA AloneIsAlone ==
  ASSUME WorkInv, Alone, ~overlapped, NEW r \in Runs, Active(r), NEW q \in Runs, q # r
  PROVE  batch[q] = {} /\ groups[q] = {} /\ unmarked[q] = {}
  BY DEF WorkInv, Alone, Active

\* Steps that send nothing and record nothing.
LEMMA QuietStepsCount ==
  ASSUME TypeOK, Counted, UNCHANGED <<mails, unrecorded, unmarked>>,
         \A x \in Rows : row'[x] \in {"absent", "pending"} => row[x] \in {"absent", "pending"},
         \A r \in Runs : batch'[r] \cup groups'[r] \subseteq batch[r] \cup groups[r]
  PROVE  Counted'
  BY DEF Counted

LEMMA FetchCounts ==
  ASSUME TypeOK, WorkInv, Alone, ~overlapped, Counted, NEW r \in Runs, FetchPending(r)
  PROVE  Counted'
<1> USE DEF work, seen
<1>1. UNCHANGED <<row, groups, unmarked, mails, unrecorded>> /\ Active(r) /\ unmarked[r] = {}
  BY DEF FetchPending, Active, WorkInv
<1>2. \A q \in Runs : batch'[q] \subseteq batch[q] \cup Pending
  BY DEF FetchPending, TypeOK
<1>3. \A q \in Runs : unmarked[q] = {}
  BY <1>1, AloneIsAlone
<1>4. \A x \in Pending : x \in Rows /\ row[x] = "pending"
  BY DEF Pending
<1>5. \A x \in Pending : mails[x] <= unrecorded[x]
  BY <1>3, <1>4 DEF Counted
<1> QED
  BY <1>1, <1>2, <1>5 DEF Counted

LEMMA SendCounts ==
  ASSUME TypeOK, WorkInv, Alone, ~overlapped, Counted, NEW r \in Runs, SendTeamDigest(r)
  PROVE  Counted'
<1> USE DEF work, seen
<1>1. UNCHANGED <<row, batch>> /\ pc[r] = "working" /\ unmarked[r] = {} /\ Active(r)
  BY DEF SendTeamDigest, Active
<1>2. PICK t : LET g == GroupRows(r, t) IN
               \/ /\ mails' = Mailed(g)
                  /\ unmarked' = [unmarked EXCEPT ![r] = g]
                  /\ groups' = [groups EXCEPT ![r] = groups[r] \ g]
                  /\ UNCHANGED unrecorded
               \/ /\ mails' = Mailed(g) /\ unrecorded' = Unrecorded(g)
                  /\ groups' = [groups EXCEPT ![r] = groups[r] \ g]
                  /\ UNCHANGED unmarked
               \/ /\ groups' = [groups EXCEPT ![r] = groups[r] \ g]
                  /\ UNCHANGED <<mails, unmarked, unrecorded>>
  BY DEF SendTeamDigest, AfterFailure
<1> DEFINE g == GroupRows(r, t)
<1>3. g \subseteq groups[r] /\ g \subseteq Rows
  BY DEF GroupRows, TypeOK
<1> HIDE DEF g
<1>4. \A q \in Runs : groups'[q] \subseteq groups[q] /\ (q = r => groups'[q] = groups[q] \ g)
  BY <1>2 DEF TypeOK, g
<1>5. CASE UNCHANGED <<mails, unmarked, unrecorded>>
  BY <1>1, <1>4, <1>5, QuietStepsCount
<1>7. CASE mails' = Mailed(g) /\ unrecorded' = Unrecorded(g) /\ UNCHANGED unmarked
  <2>1. \A x \in Rows : /\ mails[x] \in Nat /\ unrecorded[x] \in Nat
                        /\ x \in g => mails'[x] = mails[x] + 1 /\ unrecorded'[x] = unrecorded[x] + 1
                        /\ x \notin g => mails'[x] = mails[x] /\ unrecorded'[x] = unrecorded[x]
    BY <1>7 DEF Mailed, Unrecorded, TypeOK
  <2>2. \A x \in Rows : /\ mails[x] <= unrecorded[x] => mails'[x] <= unrecorded'[x]
                        /\ mails[x] <= unrecorded[x] + 1 => mails'[x] <= unrecorded'[x] + 1
    BY <2>1
  <2>3. \A q \in Runs : batch'[q] \cup groups'[q] \subseteq batch[q] \cup groups[q]
    BY <1>1, <1>4
  <2>4. \A q \in Runs : batch[q] \cup groups[q] \subseteq Rows
    BY DEF TypeOK
  <2> QED
    BY <1>1, <1>7, <2>2, <2>3, <2>4 DEF Counted
<1>6. CASE mails' = Mailed(g) /\ unmarked' = [unmarked EXCEPT ![r] = g] /\ UNCHANGED unrecorded
  <2>1. \A x \in Rows : /\ mails[x] \in Nat /\ unrecorded[x] \in Nat
                        /\ x \in g => mails'[x] = mails[x] + 1
                        /\ x \notin g => mails'[x] = mails[x]
    BY <1>6 DEF Mailed, TypeOK
  <2>2. \A x \in g : x \in Rows /\ mails[x] <= unrecorded[x]
    BY <1>3 DEF Counted
  <2>3. \A x \in Rows : mails'[x] <= unrecorded[x] + 1
    BY <2>1, <2>2 DEF Counted
  <2>4. unmarked'[r] = g /\ \A q \in Runs : unmarked[q] \subseteq unmarked'[q]
    BY <1>1, <1>6 DEF TypeOK
  <2>5. ASSUME NEW x \in Rows, row[x] \in {"absent", "pending"}, \A q \in Runs : x \notin unmarked'[q]
        PROVE  mails'[x] <= unrecorded[x]
    <3>1. x \notin g /\ \A q \in Runs : x \notin unmarked[q]
      BY <2>4, <2>5
    <3> QED
      BY <2>1, <2>5, <3>1 DEF Counted
  <2>6. ASSUME NEW q \in Runs, NEW x \in batch'[q] \cup groups'[q]
        PROVE  mails'[x] <= unrecorded[x]
    <3>1. x \in batch[q] \cup groups[q] /\ x \in Rows
      BY <1>1, <1>4, <2>6 DEF TypeOK
    <3>2. q = r
      BY <1>1, <3>1, AloneIsAlone
    <3>3. x \notin g
      BY <1>1, <1>3, <1>4, <2>6, <3>2 DEF WorkInv
    <3> QED
      BY <2>1, <3>1, <3>3 DEF Counted
  <2> QED
    BY <1>1, <1>6, <2>3, <2>5, <2>6 DEF Counted
<1> QED
  BY <1>2, <1>5, <1>6, <1>7 DEF g

\* Mails whose record fails or never comes: their rows have had one unrecorded mail more.
LEMMA FailuresCount ==
  ASSUME TypeOK, Counted, NEW ids \in SUBSET Rows, UNCHANGED <<row, mails>>,
         unrecorded' = Unrecorded(ids),
         \A r \in Runs : unmarked[r] \subseteq unmarked'[r] \cup ids,
         \A r \in Runs : batch'[r] \subseteq batch[r] /\ groups'[r] \subseteq groups[r]
  PROVE  Counted'
<1>1. \A x \in Rows : /\ mails[x] \in Nat /\ unrecorded[x] \in Nat
                      /\ x \in ids => unrecorded'[x] = unrecorded[x] + 1
                      /\ x \notin ids => unrecorded'[x] = unrecorded[x]
  BY DEF Unrecorded, TypeOK
<1>2. \A x \in Rows : mails'[x] <= unrecorded'[x] + 1
  BY <1>1 DEF Counted
<1>3. ASSUME NEW x \in Rows, row'[x] \in {"absent", "pending"}, \A r \in Runs : x \notin unmarked'[r]
      PROVE  mails'[x] <= unrecorded'[x]
  <2>1. CASE x \in ids
    BY <1>1, <2>1 DEF Counted
  <2>2. CASE x \notin ids
    <3>1. \A r \in Runs : x \notin unmarked[r]
      BY <1>3, <2>2
    <3> QED
      BY <1>1, <1>3, <2>2, <3>1 DEF Counted
  <2> QED
    BY <2>1, <2>2
<1>4. ASSUME NEW r \in Runs, NEW x \in batch'[r] \cup groups'[r]
      PROVE  mails'[x] <= unrecorded'[x]
  <2>1. x \in batch[r] \cup groups[r] /\ x \in Rows
    BY <1>4 DEF TypeOK
  <2>2. mails[x] <= unrecorded[x]
    BY <2>1 DEF Counted
  <2> QED
    BY <1>1, <2>1, <2>2
<1> QED
  BY <1>2, <1>3, <1>4 DEF Counted

LEMMA RecordCounts ==
  ASSUME TypeOK, WorkInv, Counted, NEW r \in Runs, RecordSent(r)
  PROVE  Counted'
<1> USE DEF work, seen
<1>1. /\ UNCHANGED <<batch, groups, mails>> /\ unmarked'[r] = {}
      /\ \A q \in Runs : q # r => unmarked'[q] = unmarked[q]
  BY DEF RecordSent, TypeOK
<1>2. unmarked[r] \in SUBSET Rows
  BY DEF TypeOK
<1>3. CASE row' = MarkSent(unmarked[r]) /\ UNCHANGED unrecorded
  <2>1. ASSUME NEW x \in Rows, row'[x] \in {"absent", "pending"}, \A q \in Runs : x \notin unmarked'[q]
        PROVE  mails[x] <= unrecorded[x]
    <3>1. row'[x] = IF x \in unmarked[r] /\ row[x] = "pending" THEN "sent" ELSE row[x]
      BY <1>3 DEF MarkSent
    <3>2. x \in unmarked[r] => row[x] # "absent"
      BY DEF WorkInv
    <3>3. x \notin unmarked[r] /\ row[x] \in {"absent", "pending"}
      BY <2>1, <3>1, <3>2
    <3>4. \A q \in Runs : x \notin unmarked[q]
      BY <1>1, <2>1, <3>3
    <3> QED
      BY <3>3, <3>4 DEF Counted
  <2> QED
    BY <1>1, <1>3, <2>1 DEF Counted
<1>4. CASE unrecorded' = Unrecorded(unmarked[r]) /\ UNCHANGED row
  <2>1. \A q \in Runs : unmarked[q] \subseteq unmarked'[q] \cup unmarked[r]
    BY <1>1
  <2> QED
    BY <1>1, <1>2, <1>4, <2>1, FailuresCount
<1> QED
  BY <1>3, <1>4 DEF RecordSent

LEMMA CrashCounts ==
  ASSUME TypeOK, WorkInv, Counted, NEW p \in Processes, Crash(p)
  PROVE  Counted'
<1> DEFINE ids == UNION {unmarked[r] : r \in ActiveIn(p)}
<1>1. UNCHANGED <<row, mails>> /\ unrecorded' = Unrecorded(ids)
  BY DEF Crash
<1>2. ids \in SUBSET Rows
  BY DEF TypeOK, ActiveIn
<1>3. \A r \in Runs : batch'[r] \subseteq batch[r] /\ groups'[r] \subseteq groups[r]
  BY DEF Crash
<1>4. ASSUME NEW r \in Runs
      PROVE  unmarked[r] \subseteq unmarked'[r] \cup ids
  <2>1. CASE r[1] # p
    BY <2>1 DEF Crash
  <2>2. CASE r[1] = p /\ Active(r)
    BY <2>2 DEF ActiveIn
  <2>3. CASE ~Active(r)
    BY <2>3 DEF WorkInv, Active
  <2> QED
    BY <2>1, <2>2, <2>3
<1> HIDE DEF ids
<1> QED
  BY <1>1, <1>2, <1>3, <1>4, FailuresCount

LEMMA StepKeepsRepeats ==
  ASSUME TypeOK, WorkInv, Alone, Repeats, [Next]_vars
  PROVE  Repeats'
<1> USE DEF work, seen
<1> SUFFICES ASSUME ~overlapped'
             PROVE  Counted'
  BY DEF Repeats
<1>1. ~overlapped
  BY DEF Next, RunStep, Start, FetchPending, ProcessUser, DrainRows, SendTeamDigest, RecordSent,
         EndOfBatch, Release, ContextEnds, Enqueue, DeleteNotification, ConnectionExpires, Crash, vars
<1>2. Counted
  BY <1>1 DEF Repeats
<1>3. ASSUME NEW r \in Runs, ProcessUser(r)
      PROVE  Counted'
  <2>1. UNCHANGED <<row, unmarked, mails, unrecorded>> /\ groups[r] = {}
    BY <1>3 DEF ProcessUser, BetweenUsers
  <2>2. PICK items \in SUBSET batch[r] :
          /\ batch' = [batch EXCEPT ![r] = batch[r] \ items]
          /\ UNCHANGED groups \/ groups' = [groups EXCEPT ![r] = items \ Orphans(items)]
    BY <1>3 DEF ProcessUser
  <2>3. \A q \in Runs : batch'[q] \cup groups'[q] \subseteq batch[q] \cup groups[q]
    BY <2>2 DEF TypeOK
  <2> QED
    BY <1>2, <2>1, <2>3, QuietStepsCount
<1>4. ASSUME NEW r \in Runs, DrainRows(r)
      PROVE  Counted'
  <2>1. UNCHANGED <<unmarked, mails, unrecorded, batch, groups>> /\ (row' = MarkSent(drain[r]) \/ UNCHANGED row)
    BY <1>4 DEF DrainRows
  <2>2. \A x \in Rows : row'[x] \in {"absent", "pending"} => row[x] \in {"absent", "pending"}
    BY <2>1 DEF MarkSent
  <2> QED
    BY <1>2, <2>1, <2>2, QuietStepsCount
<1>5. ASSUME NEW x \in Rows, Enqueue(x) \/ DeleteNotification(x)
      PROVE  Counted'
  <2>1. \A y \in Rows : row'[y] \in {"absent", "pending"} => row[y] \in {"absent", "pending"}
    BY <1>5 DEF Enqueue, DeleteNotification, TypeOK
  <2>2. UNCHANGED <<unmarked, mails, unrecorded, batch, groups>>
    BY <1>5 DEF Enqueue, DeleteNotification
  <2> QED
    BY <1>2, <2>1, <2>2, QuietStepsCount
<1>6. ASSUME \/ \E r \in Runs : Start(r) \/ EndOfBatch(r) \/ Release(r) \/ ContextEnds(r)
             \/ \E c \in Connections : ConnectionExpires(c)
             \/ UNCHANGED vars
      PROVE  Counted'
  <2>1. UNCHANGED <<row, unmarked, mails, unrecorded, batch, groups>>
    BY <1>6 DEF Start, EndOfBatch, Release, ContextEnds, ConnectionExpires, vars
  <2> QED
    BY <1>2, <2>1, QuietStepsCount
<1> QED
  BY <1>1, <1>2, <1>3, <1>4, <1>5, <1>6, FetchCounts, SendCounts, RecordCounts, CrashCounts
     DEF Next, RunStep

(* As long as runs do not overlap, a row is mailed again only after a mail   *)
(* that could not be recorded: for any rows, teams, failures and crashes.    *)
THEOREM RepeatsAreOfUnrecordedMails == Spec => []RepeatsAreUnrecorded
<1>1. Init => WorkInv /\ Alone /\ Repeats
  <2> SUFFICES ASSUME Init
               PROVE  WorkInv /\ Alone /\ Repeats
    OBVIOUS
  <2>1. WorkInv /\ Alone
    BY DEF Init, WorkInv, Alone, Active
  <2>2. \A x \in Rows : mails[x] = 0 /\ unrecorded[x] = 0
    BY DEF Init
  <2>3. \A r \in Runs : batch[r] \cup groups[r] \subseteq Rows
    BY DEF Init
  <2>4. Counted
    BY <2>2, <2>3 DEF Counted
  <2> QED
    BY <2>1, <2>4 DEF Repeats
<1>2. TypeOK /\ WorkInv /\ Alone /\ Repeats /\ [Next]_vars => (WorkInv /\ Alone /\ Repeats)'
  BY RunKeepsWork, OtherKeepsWork, StepKeepsAlone, StepKeepsRepeats DEF Next
<1>3. Repeats => RepeatsAreUnrecorded
  BY DEF Repeats, Counted, RepeatsAreUnrecorded
<1> QED
  BY <1>1, <1>2, <1>3, TypeCorrect, PTL DEF Spec
=============================================================================
