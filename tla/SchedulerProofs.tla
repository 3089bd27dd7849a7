--------------------------- MODULE SchedulerProofs ---------------------------
(***************************************************************************)
(* What holds of the scheduler for every number of replicas, teams, rows   *)
(* and faults: its types, mutual exclusion per row while sessions last,    *)
(* and the spacing of the runs a replica records.                          *)
(***************************************************************************)
EXTENDS Scheduler, TLAPS, FiniteSetTheorems

Item == [team : Teams, id : Ids]

(* What a tick may list: finitely many due teams, each once. *)
LEMMA ListingShape ==
  ASSUME NEW s \in Listings
  PROVE  /\ \E n \in Nat : DOMAIN s = 1..n
         /\ \A i \in DOMAIN s : s[i] \in DueTeams
         /\ \A i, j \in DOMAIN s : s[i] = s[j] => i = j
<1>1. IsFiniteSet(DueTeams)
  BY FS_Subset, SchedulerAssumption DEF DueTeams
<1>2. Cardinality(DueTeams) \in Nat
  BY <1>1, FS_CardinalityType
<1> DEFINE n == IF Cardinality(DueTeams) < DueLimit THEN Cardinality(DueTeams) ELSE DueLimit
<1>3. n \in Nat
  BY <1>2, SchedulerAssumption
<1>4. s \in [1..n -> DueTeams] /\ \A i, j \in 1..n : s[i] = s[j] => i = j
  BY DEF Listings
<1> QED
  BY <1>3, <1>4

(* The list a tick keeps: team and id of each due row, as a sequence. *)
LEMMA ListedItems ==
  ASSUME TypeOK, NEW s \in Listings
  PROVE  LET items == [i \in DOMAIN s |-> [team |-> s[i], id |-> row[s[i]].id]]
         IN  /\ items \in Seq(Item)
             /\ \A i \in 1..Len(items) : /\ items[i].team \in DueTeams
                                         /\ items[i].id = row[items[i].team].id
             /\ \A i, j \in 1..Len(items) : items[i].team = items[j].team => i = j
<1>1. PICK n \in Nat : DOMAIN s = 1..n
  BY ListingShape
<1> DEFINE items == [i \in DOMAIN s |-> [team |-> s[i], id |-> row[s[i]].id]]
<1>2. ASSUME NEW i \in 1..n PROVE s[i] \in DueTeams /\ row[s[i]].id \in Ids /\ s[i] \in Teams
  BY <1>1, <1>2, ListingShape DEF DueTeams, Due, TypeOK, Rows
<1>3. \A i \in 1..n : items[i] = [team |-> s[i], id |-> row[s[i]].id] /\ items[i] \in Item
  BY <1>1, <1>2 DEF Item
<1>4. items \in Seq(Item) /\ Len(items) = n
  BY <1>1, <1>3
<1>5. \A i \in 1..n : items[i].team = s[i] /\ items[i].id = row[s[i]].id
  BY <1>1
<1>6. /\ \A i \in 1..n : items[i].team \in DueTeams /\ items[i].id = row[items[i].team].id
      /\ \A i, j \in 1..n : items[i].team = items[j].team => i = j
  <2> HIDE DEF items
  <2> QED
    BY <1>1, <1>2, <1>5, ListingShape
<1> QED
  BY <1>4, <1>6

(* The head of a list is a team and an id of it. *)
LEMMA HeadAndTail ==
  ASSUME TypeOK, NEW r \in Replicas, due[r] # <<>>
  PROVE  Tail(due[r]) \in Seq(Item) /\ Sched(r) \in Item /\ Sched(r).id \in Ids /\ Sched(r).team \in Teams
<1>1. due[r] \in Seq(Item)
  BY DEF TypeOK, Item
<1>2. Tail(due[r]) \in Seq(Item) /\ Head(due[r]) \in Item
  BY <1>1
<1> QED
  BY <1>2 DEF Sched, Item

(* A row a writer or MarkRun stores is a row. *)
LEMMA StoredRows ==
  ASSUME TypeOK
  PROVE  /\ \A old \in Rows : Advanced(old) \in Rows
         /\ \A i \in Ids, v \in Intervals, l \in Nat \cup {Never} :
              [id |-> i, interval |-> v, last |-> l, next |-> clock] \in Rows
<1>1. \A old \in Rows : old.interval \in Nat
  BY SchedulerAssumption DEF Rows
<1>2. \A old \in Rows : clock + old.interval \in Nat
  BY <1>1 DEF TypeOK
<1> QED
  BY <1>2 DEF TypeOK, Rows, Advanced

-----------------------------------------------------------------------------
(* The state of the scheduler keeps its types; ids are never reused and no  *)
(* row has run in the future (Scheduler!TypeOK).                            *)
THEOREM TypeCorrect == Spec => []TypeOK
<1>1. Init => TypeOK
  <2> SUFFICES ASSUME Init PROVE TypeOK
    OBVIOUS
  <2>1. \A r \in Replicas : due[r] = <<>> /\ <<>> \in Seq(Item)
    BY DEF Init
  <2>2. due \in [Replicas -> Seq(Item)]
    BY <2>1 DEF Init
  <2>3. Cardinality(Stored) \in Nat /\ Cardinality(Stored) <= MaxIds /\ MaxIds \in Nat
    <3>1. IsFiniteSet(Stored)
      BY FS_Subset, SchedulerAssumption
    <3> QED
      BY <3>1, FS_CardinalityType, SchedulerAssumption
  <2>4. PICK ids \in [Stored -> 1..Cardinality(Stored)], i \in Intervals :
          /\ \A t, u \in Stored : ids[t] = ids[u] => t = u
          /\ row = [t \in Teams |->
                     IF t \in Stored THEN [id |-> ids[t], interval |-> i, last |-> Never, next |-> 0] ELSE NoRow]
    BY DEF Init
  <2> DEFINE stored(t) == [id |-> ids[t], interval |-> i, last |-> Never, next |-> 0]
  <2>5. ASSUME NEW t \in Stored PROVE stored(t) \in Rows /\ ids[t] \in Nat /\ ids[t] < Cardinality(Stored) + 1
    <3>1. ids[t] \in 1..Cardinality(Stored)
      BY <2>4
    <3>2. ids[t] \in Nat /\ ids[t] < Cardinality(Stored) + 1 /\ ids[t] \in Ids
      BY <3>1, <2>3 DEF Ids
    <3>3. i \in Intervals
      BY <2>4
    <3> QED
      BY <3>2, <3>3 DEF Rows
  <2>6. /\ \A t \in Stored : row[t] = stored(t)
        /\ \A t \in Teams \ Stored : row[t] = NoRow
    BY <2>4, SchedulerAssumption
  <2>11. \A t \in Stored : row[t].id = ids[t] /\ row[t].last = Never
    <3>1. \A t \in Stored : stored(t).id = ids[t] /\ stored(t).last = Never
      OBVIOUS
    <3> HIDE DEF stored
    <3> QED
      BY <2>6, <3>1
  <2>7. row \in [Teams -> Rows \cup {NoRow}]
    BY <2>4, <2>5
  <2>8. ASSUME NEW t \in Teams, row[t] # NoRow PROVE RowOK(t)
    <3>1. t \in Stored /\ row[t].id = ids[t] /\ row[t].last = Never
      BY <2>6, <2>8, <2>11
    <3>2. \A u \in Teams \ {t} : row[u] # NoRow => u \in Stored /\ row[u].id = ids[u]
      BY <2>6, <2>11
    <3>3. nextId = Cardinality(Stored) + 1
      BY DEF Init
    <3> QED
      BY <2>4, <2>5, <3>1, <3>2, <3>3 DEF RowOK
  <2>9. nextId \in Nat \ {0} /\ clock \in Nat
    BY <2>3 DEF Init
  <2>10. Working = {}
    BY DEF Init, Working
  <2> QED
    BY <2>2, <2>7, <2>8, <2>9, <2>10 DEF Init, TypeOK, Item
<1>2. TypeOK /\ [Next]_vars => TypeOK'
  <2> SUFFICES ASSUME TypeOK, [Next]_vars PROVE TypeOK'
    OBVIOUS
  <2> USE SchedulerAssumption, NoRowAssumption
  <2>1. CASE ClockTick
    <3>1. clock' = clock + 1 /\ clock \in Nat
      BY <2>1 DEF ClockTick, TypeOK
    <3>2. ASSUME NEW t \in Teams, row'[t] # NoRow PROVE RowOK(t)'
      <4>0. row' = row
        BY <2>1 DEF ClockTick
      <4>1. row[t].last # Never => row[t].last \in Nat /\ row[t].last <= clock
        BY <3>2, <4>0 DEF TypeOK, RowOK, Rows
      <4>2. row[t].last # Never => row[t].last <= clock'
        BY <3>1, <4>1
      <4> QED
        BY <2>1, <3>2, <4>0, <4>2 DEF TypeOK, RowOK, ClockTick
    <3>3. clock' \in Nat /\ Working' = Working
      BY <2>1, <3>1 DEF ClockTick, Working
    <3> QED
      BY <2>1, <3>2, <3>3 DEF TypeOK, ClockTick
  <2>2. ASSUME NEW t \in Teams, NEW v \in Intervals, Upsert(t, v) PROVE TypeOK'
    <3>1. CASE row[t] = NoRow
      <4> DEFINE new == [id |-> nextId, interval |-> v, last |-> Never, next |-> clock]
      <4>1. nextId \in Ids /\ nextId' = nextId + 1 /\ row' = [row EXCEPT ![t] = new]
        BY <2>2, <3>1 DEF Upsert
      <4>2. new \in Rows /\ new.id = nextId /\ new.last = Never
        BY <4>1, StoredRows
      <4>3. \A u \in Teams \ {t} : row'[u] = row[u]
        BY <4>1 DEF TypeOK
      <4>4. row'[t] = new
        BY <4>1 DEF TypeOK
      <4>5. row' \in [Teams -> Rows \cup {NoRow}]
        BY <4>1, <4>2 DEF TypeOK
      <4> HIDE DEF new
      <4>6. nextId \in Nat \ {0} /\ \A u \in Teams : row[u] # NoRow => row[u].id \in Nat /\ row[u].id < nextId
        BY DEF TypeOK, RowOK, Working, Rows, Ids
      <4>7. ASSUME NEW u \in Teams, row'[u] # NoRow PROVE RowOK(u)'
        <5>1. CASE u = t
          BY <2>2, <4>1, <4>2, <4>3, <4>4, <4>6, <5>1 DEF RowOK, Upsert
        <5>2. CASE u # t
          <6>1. row[u] # NoRow /\ row'[u] = row[u] /\ RowOK(u) /\ clock' = clock
            BY <2>2, <4>3, <4>7, <5>2 DEF TypeOK, Upsert, Working
          <6>2. row'[u].id < nextId'
            BY <4>1, <4>6, <6>1
          <6>3. row'[u].last # Never => row'[u].last <= clock'
            BY <6>1 DEF RowOK
          <6>4. ASSUME NEW w \in Teams \ {u}, row'[w] # NoRow PROVE row'[w].id # row'[u].id
            BY <4>2, <4>3, <4>4, <4>6, <5>2, <6>1, <6>4 DEF RowOK
          <6> QED
            BY <6>2, <6>3, <6>4 DEF RowOK
        <5> QED
          BY <5>1, <5>2
      <4>8. nextId' \in Nat \ {0} /\ Working' = Working
        BY <2>2, <4>1, <4>6 DEF Upsert, Working
      <4> QED
        BY <2>2, <4>5, <4>7, <4>8 DEF TypeOK, Upsert
    <3>2. CASE row[t] # NoRow
      <4> DEFINE new == [id |-> row[t].id, interval |-> v, last |-> row[t].last, next |-> clock]
      <4>1. nextId' = nextId /\ clock' = clock /\ row' = [row EXCEPT ![t] = new]
        BY <2>2, <3>2 DEF Upsert
      <4>2. row[t].id \in Ids /\ row[t].last \in Nat \cup {Never}
        BY <3>2 DEF TypeOK, Rows
      <4>3. new \in Rows /\ new.id = row[t].id /\ new.last = row[t].last
        BY <4>2, StoredRows
      <4> HIDE DEF new
      <4>4. row' \in [Teams -> Rows \cup {NoRow}]
        BY <4>1, <4>3 DEF TypeOK
      <4>5. \A u \in Teams : /\ row'[u] # NoRow => row[u] # NoRow
                             /\ row'[u] # NoRow => row'[u].id = row[u].id /\ row'[u].last = row[u].last
        BY <3>2, <4>1, <4>3 DEF TypeOK
      <4>6. \A u \in Teams : row'[u] # NoRow => RowOK(u)'
        BY <4>1, <4>5 DEF TypeOK, RowOK, Working
      <4> QED
        BY <2>2, <4>1, <4>4, <4>6 DEF TypeOK, Upsert, Working
    <3> QED
      BY <3>1, <3>2
  <2>3. ASSUME NEW t \in Teams, Delete(t) PROVE TypeOK'
    BY <2>3 DEF TypeOK, Delete, RowOK, Working
  <2>4. ASSUME NEW r \in Replicas, ListDue(r) PROVE TypeOK'
    <3>1. due' \in [Replicas -> Seq(Item)]
      BY <2>4, ListedItems, ZenonT(60) DEF ListDue, TypeOK, Item
    <3> QED
      BY <2>4, <3>1 DEF TypeOK, ListDue, RowOK, Working, Item
  <2>5. ASSUME NEW r \in Replicas, Skip(r) PROVE TypeOK'
    <3>1. Tail(due[r]) \in Seq(Item)
      BY <2>5, HeadAndTail DEF Skip, Turn
    <3>2. faults' \in Nat
      BY <2>5 DEF Skip, Fault, TypeOK
    <3>3. \A q \in Working' : due'[q] # <<>>
      BY <2>5 DEF Skip, Turn, TypeOK, Working
    <3>4. due' \in [Replicas -> Seq(Item)]
      BY <2>5, <3>1 DEF Skip, TypeOK, Item
    <3> QED
      BY <2>5, <3>2, <3>3, <3>4 DEF TypeOK, Skip, RowOK, Item
  <2>6. ASSUME NEW r \in Replicas, Claim(r) PROVE TypeOK'
    <3>1. Sched(r).id \in Ids
      BY <2>6, HeadAndTail DEF Claim, Turn
    <3>2. lock' \in [Ids -> Replicas \cup {NoReplica}]
      BY <2>6, <3>1 DEF Claim, TypeOK
    <3>3. \A q \in Working' : due'[q] # <<>>
      BY <2>6 DEF Claim, Turn, TypeOK, Working
    <3> QED
      BY <2>6, <3>2, <3>3 DEF TypeOK, Claim, RowOK
  <2>7. ASSUME NEW r \in Replicas, StartHandler(r) \/ HandlerReturns(r) PROVE TypeOK'
    <3>1. Working' = Working /\ UNCHANGED <<clock, row, nextId, lock, due, cancelled, faults, dropped, ranBy>>
      BY <2>7 DEF StartHandler, HandlerReturns, Working, TypeOK
    <3>2. pc' \in [Replicas -> {"waiting", "listed", "locked", "running", "returned", "marked", "closed"}]
      BY <2>7 DEF StartHandler, HandlerReturns, TypeOK
    <3> QED
      BY <3>1, <3>2 DEF TypeOK, RowOK
  <2>8. ASSUME NEW r \in Replicas, MarkRun(r) PROVE TypeOK'
    <3>0. ranBy' \in [Teams -> Replicas \cup {NoReplica}]
      BY <2>8 DEF MarkRun, TypeOK
    <3>1. faults' \in Nat /\ pc' \in [Replicas -> {"waiting", "listed", "locked", "running", "returned", "marked", "closed"}]
      BY <2>8 DEF MarkRun, Fault, TypeOK
    <3>2. CASE row' = row
      BY <2>8, <3>0, <3>1, <3>2 DEF TypeOK, MarkRun, RowOK, Working
    <3>3. CASE row' # row
      <4> DEFINE t == Sched(r).team
      <4>1. row[t] # NoRow /\ row' = [row EXCEPT ![t] = Advanced(row[t])]
        BY <2>8, <3>3 DEF MarkRun
      <4>2. t \in Teams
        BY <3>3, <4>1 DEF TypeOK
      <4>3. row[t] \in Rows
        BY <4>1, <4>2 DEF TypeOK
      <4>4. /\ Advanced(row[t]) \in Rows
            /\ Advanced(row[t]).id = row[t].id
            /\ Advanced(row[t]).last = clock
        BY <4>3, StoredRows DEF Advanced
      <4> HIDE DEF t
      <4>5. row' \in [Teams -> Rows \cup {NoRow}]
        BY <4>1, <4>2, <4>4 DEF TypeOK
      <4>6. \A u \in Teams : row'[u] # NoRow =>
              /\ row[u] # NoRow /\ row'[u].id = row[u].id
              /\ row'[u].last = row[u].last \/ row'[u].last = clock
        BY <4>1, <4>2, <4>4 DEF TypeOK
      <4>7. clock' = clock /\ nextId' = nextId /\ clock <= clock
        BY <2>8 DEF MarkRun, TypeOK
      <4>8. \A u \in Teams : row'[u] # NoRow => RowOK(u)'
        BY <4>6, <4>7 DEF TypeOK, RowOK, Working
      <4> QED
        BY <2>8, <3>0, <3>1, <4>5, <4>8 DEF TypeOK, MarkRun, Working
    <3> QED
      BY <3>2, <3>3
  <2>9. ASSUME NEW r \in Replicas, Unlock(r) PROVE TypeOK'
    <3>1. Tail(due[r]) \in Seq(Item)
      BY <2>9, HeadAndTail DEF TypeOK, Working, Unlock
    <3>2. \A q \in Working' : due'[q] # <<>>
      BY <2>9 DEF Unlock, TypeOK, Working
    <3>3. due' \in [Replicas -> Seq(Item)]
      BY <2>9, <3>1 DEF Unlock, TypeOK, Item
    <3> QED
      BY <2>9, <3>2, <3>3 DEF TypeOK, Unlock, Unlocked, RowOK, Item
  <2>10. ASSUME NEW r \in Replicas, EndTick(r) \/ LoopReturns(r) \/ Cancel(r) PROVE TypeOK'
    <3>1. CASE EndTick(r)
      BY <3>1 DEF TypeOK, EndTick, RowOK, Working
    <3>2. CASE LoopReturns(r)
      BY <3>2 DEF TypeOK, LoopReturns, RowOK, Working
    <3>3. CASE Cancel(r)
      BY <3>3 DEF TypeOK, Cancel, RowOK, Working
    <3> QED
      BY <2>10, <3>1, <3>2, <3>3
  <2>11. ASSUME NEW r \in Replicas, Crash(r) PROVE TypeOK'
    <3>1. <<>> \in Seq(Item)
      OBVIOUS
    <3>2. Released(r) \in [Ids -> Replicas \cup {NoReplica}]
      BY DEF TypeOK, Released
    <3>3. \A q \in Working' : due'[q] # <<>>
      BY <2>11 DEF Crash, TypeOK, Working
    <3>4. due' \in [Replicas -> Seq(Item)]
      BY <2>11, <3>1 DEF Crash, TypeOK, Item
    <3>5. /\ faults' \in Nat /\ cancelled' \in [Replicas -> BOOLEAN] /\ dropped' \in [Replicas -> BOOLEAN]
          /\ pc' \in [Replicas -> {"waiting", "listed", "locked", "running", "returned", "marked", "closed"}]
      BY <2>11 DEF TypeOK, Crash, Fault
    <3> QED
      BY <2>11, <3>2, <3>3, <3>4, <3>5 DEF TypeOK, Crash, RowOK, Item
  <2>12. ASSUME NEW r \in Replicas, LoseSession(r) PROVE TypeOK'
    <3>1. Released(r) \in [Ids -> Replicas \cup {NoReplica}]
      BY DEF TypeOK, Released
    <3>2. \A q \in Working' : due'[q] # <<>>
      BY <2>12 DEF LoseSession, TypeOK, Working
    <3>3. faults' \in Nat
      BY <2>12 DEF LoseSession, Fault, TypeOK
    <3> QED
      BY <2>12, <3>1, <3>2, <3>3 DEF TypeOK, LoseSession, RowOK
  <2>13. CASE UNCHANGED vars
    BY <2>13 DEF TypeOK, vars, RowOK, Working
  <2> QED
    BY <2>1, <2>2, <2>3, <2>4, <2>5, <2>6, <2>7, <2>8, <2>9, <2>10, <2>11, <2>12, <2>13 DEF Next, Loop, RunDue
<1> QED
  BY <1>1, <1>2, PTL DEF Spec
-----------------------------------------------------------------------------
(* The strengthening of the two lock properties: who works on a row holds    *)
(* that row's lock or has lost its session, and no lock is held otherwise.   *)
HoldsItsLock == \A r \in Working : dropped[r] \/ lock[Sched(r).id] = r
LockInv == HoldsItsLock /\ LocksAreInUse

(* Locks and work correspond: this is inductive. *)
LEMMA LockInvariant == Spec => []LockInv
<1>1. Init => LockInv
  BY DEF Init, LockInv, HoldsItsLock, LocksAreInUse, Working
<1>2. TypeOK /\ LockInv /\ [Next]_vars => LockInv'
  <2> SUFFICES ASSUME TypeOK, LockInv, [Next]_vars PROVE LockInv'
    OBVIOUS
  <2> USE SchedulerAssumption
  <2>1. ASSUME UNCHANGED <<lock, pc, due, dropped>> PROVE LockInv'
    BY <2>1 DEF LockInv, HoldsItsLock, LocksAreInUse, Working, Sched
  <2>2. ASSUME NEW r \in Replicas, Claim(r) PROVE LockInv'
    <3> DEFINE i == Sched(r).id
    <3>1. i \in Ids /\ lock[i] = NoReplica /\ r \notin Working
      BY <2>2, HeadAndTail DEF Claim, Turn, Lockable, Working
    <3>2. /\ lock' = [lock EXCEPT ![i] = r] /\ due' = due /\ dropped' = dropped
          /\ Working' = Working \cup {r}
      BY <2>2 DEF Claim, Working, TypeOK
    <3>3. \A q \in Replicas : Sched(q)' = Sched(q)
      BY <3>2 DEF Sched
    <3>4. \A q \in Working : dropped[q] \/ Sched(q).id # i
      BY <3>1 DEF LockInv, HoldsItsLock, Working
    <3> HIDE DEF i
    <3>5. lock'[i] = r /\ \A j \in Ids \ {i} : lock'[j] = lock[j]
      BY <3>1, <3>2 DEF TypeOK
    <3>6. \A q \in Working : dropped[q] \/ Sched(q).id \in Ids \ {i}
      BY <3>4, HeadAndTail DEF TypeOK, Working
    <3>7. HoldsItsLock'
      BY <3>2, <3>3, <3>5, <3>6 DEF HoldsItsLock, LockInv, Working, i
    <3>8. LocksAreInUse'
      BY <3>2, <3>3, <3>5 DEF LocksAreInUse, LockInv, Working, i
    <3> QED
      BY <3>7, <3>8 DEF LockInv
  <2>3. ASSUME NEW r \in Replicas, StartHandler(r) \/ HandlerReturns(r) \/ MarkRun(r) PROVE LockInv'
    <3>1. Working' = Working /\ UNCHANGED <<lock, due, dropped>>
      BY <2>3 DEF StartHandler, HandlerReturns, MarkRun, Working, TypeOK
    <3> QED
      BY <3>1 DEF LockInv, HoldsItsLock, LocksAreInUse, Sched
  <2>4. ASSUME NEW r \in Replicas, Unlock(r) PROVE LockInv'
    <3> DEFINE i == Sched(r).id
    <3>1. r \in Working /\ i \in Ids
      BY <2>4, HeadAndTail DEF Unlock, Working, TypeOK
    <3>2. /\ lock' = [lock EXCEPT ![i] = IF lock[i] = r THEN NoReplica ELSE lock[i]]
          /\ Working' = Working \ {r}
      BY <2>4, <3>1 DEF Unlock, Unlocked, Working, TypeOK
    <3>3. \A q \in Replicas \ {r} : Sched(q)' = Sched(q) /\ dropped'[q] = dropped[q]
      BY <2>4 DEF Unlock, TypeOK, Sched
    <3>4. \A j \in Ids : lock[j] = r => j = i
      BY <3>1 DEF LockInv, LocksAreInUse
    <3> HIDE DEF i
    <3>5. \A j \in Ids : lock'[j] = IF lock[j] = r THEN NoReplica ELSE lock[j]
      BY <3>1, <3>2, <3>4 DEF TypeOK
    <3>6. \A q \in Working : Sched(q).id \in Ids
      BY HeadAndTail DEF TypeOK, Working
    <3>7. HoldsItsLock'
      BY <3>2, <3>3, <3>5, <3>6 DEF HoldsItsLock, LockInv, Working
    <3>8. LocksAreInUse'
      BY <3>2, <3>3, <3>5 DEF LocksAreInUse, LockInv, Working
    <3> QED
      BY <3>7, <3>8 DEF LockInv
  <2>5. ASSUME NEW r \in Replicas, ListDue(r) \/ Skip(r) \/ EndTick(r) \/ LoopReturns(r) PROVE LockInv'
    <3>1. r \notin Working /\ Working' = Working /\ lock' = lock /\ dropped' = dropped
      BY <2>5 DEF ListDue, Skip, Turn, EndTick, LoopReturns, Working, TypeOK
    <3>2. \A q \in Replicas \ {r} : Sched(q)' = Sched(q)
      BY <2>5 DEF ListDue, Skip, EndTick, LoopReturns, TypeOK, Sched
    <3> QED
      BY <3>1, <3>2 DEF LockInv, HoldsItsLock, LocksAreInUse, Working
  <2>6. ASSUME NEW r \in Replicas, Crash(r) PROVE LockInv'
    <3>1. \A i \in Ids : lock'[i] = IF lock[i] = r THEN NoReplica ELSE lock[i]
      BY <2>6 DEF Crash, Released
    <3>2. Working' = Working \ {r}
      BY <2>6 DEF Crash, Working, TypeOK
    <3>3. \A q \in Replicas \ {r} : Sched(q)' = Sched(q) /\ dropped'[q] = dropped[q]
      BY <2>6 DEF Crash, TypeOK, Sched
    <3>4. \A q \in Working : Sched(q).id \in Ids
      BY HeadAndTail DEF TypeOK, Working
    <3>5. HoldsItsLock'
      BY <3>1, <3>2, <3>3, <3>4 DEF HoldsItsLock, LockInv, Working
    <3>6. LocksAreInUse'
      BY <3>1, <3>2, <3>3 DEF LocksAreInUse, LockInv, Working
    <3> QED
      BY <3>5, <3>6 DEF LockInv
  <2>7. ASSUME NEW r \in Replicas, LoseSession(r) PROVE LockInv'
    <3>1. \A i \in Ids : lock'[i] = IF lock[i] = r THEN NoReplica ELSE lock[i]
      BY <2>7 DEF LoseSession, Released
    <3>2. Working' = Working /\ due' = due /\ dropped'[r]
      BY <2>7 DEF LoseSession, Working, TypeOK
    <3>3. \A q \in Replicas \ {r} : dropped'[q] = dropped[q]
      BY <2>7 DEF LoseSession, TypeOK
    <3>4. \A q \in Working : Sched(q)' = Sched(q) /\ Sched(q).id \in Ids
      BY <3>2, HeadAndTail DEF TypeOK, Working, Sched
    <3>5. HoldsItsLock'
      BY <3>1, <3>2, <3>3, <3>4 DEF HoldsItsLock, LockInv, Working
    <3>6. LocksAreInUse'
      BY <3>1, <3>2, <3>4 DEF LocksAreInUse, LockInv
    <3> QED
      BY <3>5, <3>6 DEF LockInv
  <2>8. CASE ClockTick
    BY <2>1, <2>8 DEF ClockTick
  <2>9. ASSUME NEW t \in Teams, Delete(t) \/ \E v \in Intervals : Upsert(t, v) PROVE LockInv'
    BY <2>1, <2>9 DEF Delete, Upsert
  <2>10. ASSUME NEW r \in Replicas, Cancel(r) PROVE LockInv'
    BY <2>1, <2>10 DEF Cancel
  <2>11. CASE UNCHANGED vars
    BY <2>1, <2>11 DEF vars
  <2> QED
    BY <2>2, <2>3, <2>4, <2>5, <2>6, <2>7, <2>8, <2>9, <2>10, <2>11 DEF Next, Loop, RunDue
<1> QED
  BY <1>1, <1>2, TypeCorrect, PTL DEF Spec

(* No two replicas with live sessions work on one row, whatever crashes,     *)
(* fails, is deleted or shut down (Scheduler!OneRunPerRow).                  *)
THEOREM RowsRunAlone == Spec => []OneRunPerRow
<1>1. LockInv => OneRunPerRow
  BY DEF LockInv, HoldsItsLock, OneRunPerRow
<1> QED
  BY <1>1, LockInvariant, PTL

(* A held lock belongs to a replica at work on its row: none is left behind  *)
(* (Scheduler!LocksAreInUse).                                                *)
THEOREM NoLockIsLeftBehind == Spec => []LocksAreInUse
<1>1. LockInv => LocksAreInUse
  BY DEF LockInv
<1> QED
  BY <1>1, LockInvariant, PTL
-----------------------------------------------------------------------------
(* What is left of a list names each team once and only ids given so far,    *)
(* and the interval has passed for every item but the one just advanced, or  *)
(* somebody else has recorded a run since.                                   *)
MayRun(r, e) == ranBy[e.team] = r => IntervalPassed(e)

ListInv(r) ==
  /\ \A i, j \in 1..Len(due[r]) : due[r][i].team = due[r][j].team => i = j
  /\ \A i \in 1..Len(due[r]) : due[r][i].id < nextId
  /\ \A i \in 1..Len(due[r]) : MayRun(r, due[r][i]) \/ (pc[r] = "marked" /\ i = 1)

(* The items of a list are items. *)
LEMMA DueItems ==
  ASSUME TypeOK, NEW r \in Replicas
  PROVE  /\ Len(due[r]) \in Nat
         /\ \A i \in 1..Len(due[r]) : due[r][i] \in Item /\ due[r][i].team \in Teams /\ due[r][i].id \in Ids
<1>1. due[r] \in Seq(Item)
  BY DEF TypeOK, Item
<1>2. Len(due[r]) \in Nat /\ \A i \in 1..Len(due[r]) : due[r][i] \in Item
  BY <1>1
<1> QED
  BY <1>2 DEF Item

(* Dropping the head moves every other item one place forward. *)
LEMMA Dropped ==
  ASSUME TypeOK, NEW r \in Replicas, due[r] # <<>>
  PROVE  /\ Len(Tail(due[r])) = Len(due[r]) - 1
         /\ \A i \in 1..Len(Tail(due[r])) : Tail(due[r])[i] = due[r][i + 1] /\ i + 1 \in 1..Len(due[r]) /\ i + 1 # 1
<1>1. due[r] \in Seq(Item)
  BY DEF TypeOK, Item
<1> QED
  BY <1>1

(* Nothing a writer does makes a listed item less fresh: a row that was      *)
(* re-armed keeps its last run, one that was written anew has another id.    *)
LEMMA WritersKeepIntervals ==
  ASSUME TypeOK, TypeOK', NEW e \in Item, e.id < nextId, IntervalPassed(e),
         ClockTick \/ \E t \in Teams : Delete(t) \/ \E v \in Intervals : Upsert(t, v)
  PROVE  IntervalPassed(e)'
<1> USE SchedulerAssumption, NoRowAssumption
<1>0. e.team \in Teams /\ e.id \in Ids
  BY DEF Item
<1>1. CASE ClockTick
  <2>1. clock' = clock + 1 /\ row' = row /\ clock \in Nat
    BY <1>1 DEF ClockTick, TypeOK
  <2>2. row[e.team] # NoRow /\ row[e.team].last # Never => row[e.team].last \in Nat
    BY <1>0 DEF TypeOK, Rows
  <2> QED
    BY <2>1, <2>2 DEF IntervalPassed
<1>2. ASSUME NEW t \in Teams, Delete(t) PROVE IntervalPassed(e)'
  BY <1>0, <1>2 DEF Delete, IntervalPassed, TypeOK
<1>3. ASSUME NEW t \in Teams, NEW v \in Intervals, Upsert(t, v) PROVE IntervalPassed(e)'
  <2>1. CASE e.team # t
    BY <1>0, <1>3, <2>1 DEF Upsert, IntervalPassed, TypeOK
  <2>2. CASE e.team = t /\ row[t] = NoRow
    <3>1. row'[t].id = nextId /\ nextId \in Nat /\ e.id \in Nat
      BY <1>0, <1>3, <2>2 DEF Upsert, TypeOK, Ids
    <3> QED
      BY <2>2, <3>1 DEF IntervalPassed
  <2>3. CASE e.team = t /\ row[t] # NoRow
    <3>1. row'[t].id = row[t].id /\ row'[t].last = row[t].last /\ clock' = clock
      BY <1>3, <2>3 DEF Upsert, TypeOK
    <3> QED
      BY <2>3, <3>1 DEF IntervalPassed
  <2> QED
    BY <2>1, <2>2, <2>3
<1> QED
  BY <1>1, <1>2, <1>3

ListsInv == \A r \in Replicas : ListInv(r)

(* What is left of every list stays as ListInv says, whatever the other      *)
(* replicas and the writers do.                                              *)
LEMMA ListsInvariant == Spec => []ListsInv
<1>1. Init => ListsInv
  BY DEF Init, ListsInv, ListInv
<1>2. TypeOK /\ TypeOK' /\ ListsInv /\ [Next]_vars => ListsInv'
  <2> SUFFICES ASSUME TypeOK, TypeOK', ListsInv, [Next]_vars, NEW r \in Replicas PROVE ListInv(r)'
    BY DEF ListsInv
  <2> USE SchedulerAssumption, NoRowAssumption
  <2>0. ListInv(r)
    BY DEF ListsInv
  <2>1. CASE ClockTick \/ \E t \in Teams : Delete(t) \/ \E v \in Intervals : Upsert(t, v)
    <3>1. due' = due /\ pc' = pc /\ ranBy' = ranBy /\ (nextId' = nextId \/ nextId' = nextId + 1)
      BY <2>1 DEF ClockTick, Delete, Upsert
    <3>2. \A e \in Item : e.id < nextId /\ IntervalPassed(e) => IntervalPassed(e)'
      BY <2>1, WritersKeepIntervals
    <3>3. ASSUME NEW i \in 1..Len(due[r]), MayRun(r, due[r][i]) PROVE MayRun(r, due[r][i])'
      <4>1. PICK e \in Item : e = due[r][i]
        BY DueItems
      <4>2. e.id < nextId
        BY <2>0, <4>1 DEF ListInv
      <4>3. due'[r][i] = e
        BY <3>1, <4>1
      <4>4. ranBy[e.team] = r => IntervalPassed(e)
        BY <3>3, <4>1 DEF MayRun
      <4>5. ranBy'[e.team] = r => IntervalPassed(e)'
        BY <3>1, <3>2, <4>2, <4>4
      <4> QED
        BY <4>3, <4>5 DEF MayRun, IntervalPassed
    <3>4. ASSUME NEW i \in 1..Len(due[r]) PROVE due[r][i].id < nextId'
      <4>1. PICK k \in Ids : k = due[r][i].id
        BY DueItems
      <4>2. k < nextId
        BY <2>0, <4>1 DEF ListInv
      <4>3. k \in Nat /\ nextId \in Nat
        BY DEF Ids, TypeOK
      <4>4. k < nextId'
        BY <3>1, <4>2, <4>3
      <4> QED
        BY <4>1, <4>4
    <3> QED
      BY <2>0, <3>1, <3>3, <3>4 DEF ListInv
  <2>2. ASSUME UNCHANGED <<row, clock, nextId, ranBy>>, due'[r] = due[r], pc[r] = "marked" => pc'[r] = "marked"
        PROVE  ListInv(r)'
    BY <2>0, <2>2 DEF ListInv, MayRun, IntervalPassed
  <2>3. CASE ListDue(r)
    <3>1. PICK s \in Listings :
            due' = [due EXCEPT ![r] = [i \in DOMAIN s |-> [team |-> s[i], id |-> row[s[i]].id]]]
      BY <2>3 DEF ListDue
    <3> DEFINE items == [i \in DOMAIN s |-> [team |-> s[i], id |-> row[s[i]].id]]
    <3>2. due'[r] = items
      BY <3>1 DEF TypeOK
    <3>3. /\ items \in Seq(Item)
          /\ \A i \in 1..Len(items) : items[i].team \in DueTeams /\ items[i].id = row[items[i].team].id
          /\ \A i, j \in 1..Len(items) : items[i].team = items[j].team => i = j
      BY ListedItems
    <3> HIDE DEF items
    <3>4. ASSUME NEW i \in 1..Len(items) PROVE items[i].id < nextId /\ IntervalPassed(items[i])
      <4> DEFINE t == items[i].team
      <4>1. t \in Teams /\ Due(t) /\ items[i].id = row[t].id
        BY <3>3, <3>4 DEF DueTeams
      <4>2. row[t] # NoRow /\ row[t].id < nextId
        BY <4>1 DEF Due, TypeOK, RowOK
      <4>3. row[t].interval \in Nat /\ row[t].interval >= MinInterval
        BY <4>1, <4>2 DEF TypeOK, Rows
      <4>4. row[t].last # Never => row[t].last \in Nat /\ row[t].last + row[t].interval <= clock
        BY <4>1, <4>2 DEF Due, TypeOK, Rows
      <4>5. row[t].last # Never => row[t].last + MinInterval <= clock
        BY <4>3, <4>4, SMTT(30) DEF TypeOK
      <4> QED
        BY <4>1, <4>2, <4>5 DEF IntervalPassed
    <3>5. row' = row /\ clock' = clock /\ nextId' = nextId
      BY <2>3 DEF ListDue
    <3> QED
      BY <3>2, <3>3, <3>4, <3>5 DEF ListInv, MayRun, IntervalPassed
  <2>4. CASE Skip(r) \/ Unlock(r)
    <3>1. due[r] # <<>> /\ due'[r] = Tail(due[r]) /\ UNCHANGED <<row, clock, nextId, ranBy>>
      BY <2>4 DEF Skip, Turn, Unlock, Working, TypeOK
    <3>2. \A i \in 1..Len(due[r]) : i # 1 => MayRun(r, due[r][i])
      BY <2>0 DEF ListInv
    <3>3. \A i \in 1..Len(due'[r]) : due'[r][i] = due[r][i + 1] /\ i + 1 \in 1..Len(due[r]) /\ i + 1 # 1
      BY <3>1, Dropped
    <3>4. ASSUME NEW i \in 1..Len(due'[r]), NEW j \in 1..Len(due'[r]), due'[r][i].team = due'[r][j].team
          PROVE  i = j
      <4>1. i \in Nat /\ j \in Nat
        BY DueItems, <3>1, Dropped
      <4>2. /\ i + 1 \in 1..Len(due[r]) /\ j + 1 \in 1..Len(due[r])
            /\ due[r][i + 1].team = due[r][j + 1].team
        BY <3>3, <3>4
      <4>3. \A a, b \in 1..Len(due[r]) : due[r][a].team = due[r][b].team => a = b
        BY <2>0 DEF ListInv
      <4>4. i + 1 = j + 1
        <5> DEFINE items == due[r]  a == i + 1  b == j + 1
        <5>1. a \in 1..Len(items) /\ b \in 1..Len(items) /\ items[a].team = items[b].team
          BY <4>2
        <5>2. \A x, y \in 1..Len(items) : items[x].team = items[y].team => x = y
          BY <4>3
        <5> HIDE DEF items, a, b
        <5>3. a = b
          BY <5>1, <5>2
        <5> QED
          BY <5>3 DEF a, b
      <4> QED
        BY <4>1, <4>4
    <3>5. \A i \in 1..Len(due'[r]) : due'[r][i].id < nextId'
      BY <2>0, <3>1, <3>3 DEF ListInv
    <3>6. \A i \in 1..Len(due'[r]) : MayRun(r, due[r][i])'
      BY <3>1, <3>2, <3>3 DEF MayRun, IntervalPassed
    <3> QED
      BY <3>4, <3>5, <3>6 DEF ListInv
  <2>5. ASSUME NEW q \in Replicas, MarkRun(q) PROVE ListInv(r)'
    <3> DEFINE t == Sched(q).team
    <3>1. due[q] # <<>> /\ pc' = [pc EXCEPT ![q] = "marked"] /\ UNCHANGED <<due, clock, nextId>>
      BY <2>5 DEF MarkRun, Working, TypeOK
    <3>2. t = due[q][1].team /\ t \in Teams /\ 1 \in 1..Len(due[q])
      <4>1. due[q] \in Seq(Item)
        BY DEF TypeOK, Item
      <4> QED
        BY <3>1, <4>1, HeadAndTail DEF Sched
    <3>3. \/ row' = row /\ ranBy' = ranBy
          \/ row' = [row EXCEPT ![t] = Advanced(row[t])] /\ ranBy' = [ranBy EXCEPT ![t] = q]
      BY <2>5 DEF MarkRun
    <3> HIDE DEF t
    <3>4. \A u \in Teams \ {t} : row'[u] = row[u] /\ ranBy'[u] = ranBy[u]
      BY <3>3 DEF TypeOK
    <3>5. CASE q = r
      <4>1. \A i \in 1..Len(due[r]) : i # 1 => due[r][i].team \in Teams \ {t}
        BY <2>0, <3>2, <3>5, DueItems DEF ListInv
      <4>2. \A i \in 1..Len(due[r]) : i # 1 => MayRun(r, due[r][i])'
        BY <2>0, <3>1, <3>4, <4>1 DEF ListInv, MayRun, IntervalPassed
      <4>3. pc'[r] = "marked"
        BY <3>1, <3>5 DEF TypeOK
      <4> QED
        BY <2>0, <3>1, <4>2, <4>3 DEF ListInv
    <3>6. CASE q # r
      <4>1. (row' = row /\ ranBy' = ranBy) \/ ranBy'[t] # r
        BY <3>2, <3>3, <3>6 DEF TypeOK
      <4>2. \A i \in 1..Len(due[r]) : MayRun(r, due[r][i]) => MayRun(r, due[r][i])'
        BY <3>1, <3>4, <4>1, DueItems DEF MayRun, IntervalPassed
      <4>3. pc'[r] = pc[r]
        BY <3>1, <3>6 DEF TypeOK
      <4> QED
        BY <2>0, <3>1, <4>2, <4>3 DEF ListInv
    <3> QED
      BY <3>5, <3>6
  <2>6. CASE Crash(r)
    BY <2>0, <2>6 DEF Crash, ListInv, TypeOK
  <2>7. ASSUME NEW q \in Replicas,
               Claim(q) \/ StartHandler(q) \/ HandlerReturns(q) \/ EndTick(q) \/ LoopReturns(q) \/ Cancel(q) \/ LoseSession(q)
        PROVE  ListInv(r)'
    <3>1. UNCHANGED <<due, row, clock, nextId, ranBy>> /\ (pc[r] = "marked" => pc'[r] = "marked")
      BY <2>7 DEF Claim, StartHandler, Turn, HandlerReturns, EndTick, LoopReturns, Cancel, LoseSession, TypeOK
    <3> QED
      BY <2>2, <3>1
  <2>8. ASSUME NEW q \in Replicas \ {r}, ListDue(q) \/ Skip(q) \/ Unlock(q) \/ Crash(q) PROVE ListInv(r)'
    <3>1. UNCHANGED <<row, clock, nextId, ranBy>> /\ due'[r] = due[r] /\ pc'[r] = pc[r]
      BY <2>8 DEF ListDue, Skip, Unlock, Crash, TypeOK
    <3> QED
      BY <2>2, <3>1
  <2>9. CASE UNCHANGED vars
    BY <2>2, <2>9 DEF vars
  <2> QED
    BY <2>1, <2>3, <2>4, <2>5, <2>6, <2>7, <2>8, <2>9 DEF Next, Loop, RunDue
<1> QED
  BY <1>1, <1>2, TypeCorrect, PTL DEF Spec

(* A replica starts a row's handler at least the minimum interval after the  *)
(* last run it recorded itself, whatever writers and other replicas do to    *)
(* the table meanwhile (Scheduler!OwnRunsAreSpaced).                         *)
THEOREM ReplicasSpaceTheirRuns == Spec => OwnRunsAreSpaced
<1>1. TypeOK /\ ListsInv /\ [Next]_vars =>
        [\A r \in Replicas :
           Starts(r) /\ ranBy[Sched(r).team] = r => IntervalPassed(Sched(r))]_vars
  <2> SUFFICES ASSUME TypeOK, ListsInv, Next, NEW r \in Replicas, Starts(r), ranBy[Sched(r).team] = r
               PROVE  IntervalPassed(Sched(r))
    OBVIOUS
  <2>1. pc[r] = "locked" /\ pc'[r] = "running"
    BY DEF Starts
  <2>2. \E q \in Replicas : StartHandler(q)
    BY <2>1 DEF Next, Loop, RunDue, TypeOK, ClockTick, Upsert, Delete, ListDue, Skip, Claim, HandlerReturns,
               MarkRun, Unlock, EndTick, LoopReturns, Cancel, Crash, LoseSession
  <2>4. due[r] # <<>> /\ due[r] \in Seq(Item)
    BY <2>1 DEF Working, TypeOK, Item
  <2>5. Sched(r) = due[r][1] /\ 1 \in 1..Len(due[r])
    BY <2>4 DEF Sched
  <2> QED
    BY <2>1, <2>5 DEF ListsInv, ListInv, MayRun
<1> QED
  BY <1>1, ListsInvariant, TypeCorrect, PTL DEF Spec, OwnRunsAreSpaced
=============================================================================
