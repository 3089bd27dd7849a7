------------------------ MODULE EmbeddingQueueProofs ------------------------
(* Theorems about EmbeddingQueue, for every value of its constants. *)
EXTENDS EmbeddingQueue, FiniteSetTheorems, SequenceTheorems, TLAPS

(* A function over a table's ids that yields rows is again a table. *)
LEMMA RowsOfTable ==
  ASSUME NEW s \in Seq(Job), NEW t \in [DOMAIN s -> Job]
  PROVE  t \in Seq(Job) /\ DOMAIN t = DOMAIN s
<1>1. DOMAIN s = 1..Len(s) /\ Len(s) \in Nat
  BY LenProperties
<1>2. t \in [1..Len(s) -> Job]
  BY <1>1
<1>3. QED
  BY <1>1, <1>2, SeqDef

(* The row operators yield rows. *)
LEMMA RowOperators ==
  ASSUME NEW job \in Job
  PROVE  /\ \A v \in Versions : Refresh(job, v) \in Job
         /\ \A w \in Workers : Claimable(job) => Leased(job, w) \in Job
         /\ Acked(job) \in Job
         /\ Failed(job) \in Job
         /\ Released(job) \in Job
         /\ \A stage \in {"ack", "release", "fail"} : Settled(job, stage) \in Job
<1>1. \A v \in Versions : Refresh(job, v) \in Job
  BY DEF Job, Refresh
<1>2. ASSUME NEW w \in Workers, Claimable(job) PROVE Leased(job, w) \in Job
  <2>1. job.attempts + 1 \in 0..MaxAttempts
    BY <1>2, KnobsAssumption DEF Job, Claimable
  <2>2. QED
    BY <2>1 DEF Job, Leased
<1>3. Acked(job) \in Job /\ Failed(job) \in Job /\ Released(job) \in Job
  BY DEF Job, Acked, Failed, Released
<1>4. QED
  BY <1>1, <1>2, <1>3 DEF Settled

(* So do the steps of a run. *)
LEMMA RunOperators ==
  ASSUME NEW r \in Run
  PROVE  /\ \A s \in Stages : [r EXCEPT !.stage = s] \in Run
         /\ r.tries + 1 < MaxRetries => [r EXCEPT !.stage = "generate", !.tries = @ + 1] \in Run
         /\ [r EXCEPT !.stage = "insert", !.inserted = 0] \in Run
         /\ r.inserted + 1 < Chunks => [r EXCEPT !.inserted = @ + 1] \in Run
<1>1. \A s \in Stages : [r EXCEPT !.stage = s] \in Run
  BY DEF Run
<1>2. ASSUME r.tries + 1 < MaxRetries
      PROVE  [r EXCEPT !.stage = "generate", !.tries = @ + 1] \in Run
  <2>1. r.tries + 1 \in 0..MaxRetries
    BY <1>2, KnobsAssumption DEF Run
  <2>2. "generate" \in Stages
    BY DEF Stages
  <2>3. QED
    BY <2>1, <2>2 DEF Run
<1>3. [r EXCEPT !.stage = "insert", !.inserted = 0] \in Run
  <2>1. 0 \in 0..Chunks /\ "insert" \in Stages
    BY KnobsAssumption DEF Stages
  <2>2. QED
    BY <2>1 DEF Run
<1>4. ASSUME r.inserted + 1 < Chunks
      PROVE  [r EXCEPT !.inserted = @ + 1] \in Run
  <2>1. r.inserted + 1 \in 0..Chunks
    BY <1>4, KnobsAssumption DEF Run
  <2>2. QED
    BY <2>1 DEF Run
<1>5. QED
  BY <1>1, <1>2, <1>3, <1>4

LEMMA RowAt ==
  ASSUME NEW s \in Seq(Job), NEW i \in DOMAIN s
  PROVE  s[i] \in Job /\ s[i].attempts \in Nat
<1>1. s[i] \in Job
  BY LenProperties, ElementOfSeq
<1>2. QED
  BY <1>1, KnobsAssumption DEF Job

LEMMA Appended ==
  ASSUME NEW s \in Seq(Job), NEW job \in Job
  PROVE  /\ Append(s, job) \in Seq(Job)
         /\ DOMAIN s \subseteq DOMAIN Append(s, job)
         /\ \A i \in DOMAIN Append(s, job) :
              \/ i \in DOMAIN s /\ Append(s, job)[i] = s[i]
              \/ i \notin DOMAIN s /\ i = Len(s) + 1 /\ Append(s, job)[i] = job
         /\ \A i \in DOMAIN s : Append(s, job)[i] = s[i]
         /\ Append(s, job)[Len(s) + 1] = job
         /\ Len(s) + 1 \in DOMAIN Append(s, job)
  OBVIOUS

-----------------------------------------------------------------------------
(* Type correctness *)

LEMMA InitType == Init => TypeOK
<1>1. <<>> \in Seq(Job)
  OBVIOUS
<1>2. QED
  BY <1>1, KnobsAssumption DEF Init, TypeOK

LEMMA StartType == ASSUME TypeOK, NEW w \in Workers, Start(w) PROVE TypeOK'
  BY DEF TypeOK, Start

LEMMA EnqueueType == ASSUME TypeOK, NEW e \in Entities, Enqueue(e) PROVE TypeOK'
<1> DEFINE v == newest[e] + 1
<1>1. v \in Versions /\ newest' \in [Entities -> 0..MaxVersion]
  BY KnobsAssumption DEF TypeOK, Enqueue, Versions
<1>2. NewJob(e, v) \in Job
  BY <1>1, KnobsAssumption DEF NewJob, Job
<1>3. jobs' \in Seq(Job) /\ DOMAIN jobs \subseteq DOMAIN jobs'
  <2>1. CASE OutstandingIds(e) = {}
    <3>1. jobs' = Append(jobs, NewJob(e, v))
      BY <2>1 DEF Enqueue
    <3>2. QED
      BY <3>1, <1>2, Appended DEF TypeOK
  <2>2. CASE OutstandingIds(e) # {}
    <3>1. jobs' = [i \in DOMAIN jobs |-> IF i \in OutstandingIds(e) THEN Refresh(jobs[i], v) ELSE jobs[i]]
      BY <2>2 DEF Enqueue
    <3>2. jobs' \in [DOMAIN jobs -> Job]
      BY <3>1, <1>1, RowAt, RowOperators DEF TypeOK
    <3>3. QED
      BY <3>2, RowsOfTable DEF TypeOK
  <2>3. QED
    BY <2>1, <2>2
<1>4. UNCHANGED <<proc, runs, stored, judged, crossed>>
  BY DEF Enqueue
<1>5. QED
  BY <1>1, <1>3, <1>4 DEF TypeOK

LEMMA ClaimType == ASSUME TypeOK, NEW w \in Workers, Claim(w) PROVE TypeOK'
<1>1. PICK ids \in SUBSET {i \in DOMAIN jobs : Claimable(jobs[i])} :
        /\ jobs' = [i \in DOMAIN jobs |-> IF i \in ids THEN Leased(jobs[i], w) ELSE jobs[i]]
        /\ runs' \subseteq runs \cup {ClaimedRun(w, i) : i \in ids}
        /\ crossed' = (crossed \ ids) \cup {i \in ids : Crosses(w, i)}
  BY DEF Claim
<1>2. jobs' \in [DOMAIN jobs -> Job]
  BY <1>1, RowAt, RowOperators DEF TypeOK
<1>3. jobs' \in Seq(Job) /\ DOMAIN jobs' = DOMAIN jobs
  BY <1>2, RowsOfTable DEF TypeOK
<1>4. ASSUME NEW i \in ids PROVE ClaimedRun(w, i) \in Run /\ ClaimedRun(w, i).id \in DOMAIN jobs
  <2>1. i \in DOMAIN jobs /\ Claimable(jobs[i]) /\ jobs[i] \in Job
    BY RowAt DEF TypeOK
  <2>2. i \in Nat \ {0}
    BY <2>1, LenProperties DEF TypeOK
  <2>3. jobs[i].attempts + 1 \in 1..MaxAttempts
    BY <2>1, KnobsAssumption DEF Claimable, Job
  <2>4. QED
    BY <2>1, <2>2, <2>3, KnobsAssumption DEF ClaimedRun, Run, Stages, Job
<1>5. QED
  <2>1. runs' \subseteq Run /\ \A r \in runs' : r.id \in DOMAIN jobs'
    BY <1>1, <1>3, <1>4, ZenonT(60) DEF TypeOK
  <2>2. crossed' \subseteq DOMAIN jobs'
    BY <1>1, <1>3 DEF TypeOK
  <2>3. QED
    BY <1>3, <2>1, <2>2 DEF TypeOK, Claim

LEMMA JobStepType == ASSUME TypeOK, NEW r \in runs, JobStep(r) PROVE TypeOK'
<1>1. r \in Run /\ r.id \in DOMAIN jobs
  BY DEF TypeOK
<1>2. ASSUME NEW s \in Stages, Advance(r, s)
      PROVE  runs' \subseteq Run /\ \A q \in runs' : q.id \in DOMAIN jobs
  <2>1. [r EXCEPT !.stage = s] \in Run /\ [r EXCEPT !.stage = s].id = r.id
    BY <1>1, RunOperators DEF Run
  <2>2. QED
    BY <1>1, <1>2, <2>1 DEF TypeOK, Advance
<1>3. ASSUME NEW k \in Verdicts, Judge(r, k)
      PROVE  judged' \subseteq Entities \X Versions \X Verdicts
  BY <1>1, <1>3 DEF TypeOK, Judge, Run
<1>4. CASE Resolve(r)
  BY <1>2, <1>3, <1>4 DEF Resolve, TypeOK, Stages, Verdicts
<1>5. CASE Retry(r)
  <2> DEFINE again == [r EXCEPT !.stage = "generate", !.tries = @ + 1]
  <2>1. CASE r.tries + 1 < MaxRetries /\ runs' = (runs \ {r}) \cup {again}
    <3>1. again \in Run /\ again.id = r.id
      BY <1>1, <2>1, RunOperators DEF Run
    <3> HIDE DEF again
    <3>2. QED
      BY <1>1, <1>5, <2>1, <3>1 DEF Retry, TypeOK
  <2>2. CASE Advance(r, "release")
    BY <1>2, <1>5, <2>2 DEF Retry, TypeOK, Stages
  <2>3. QED
    BY <1>5, <2>1, <2>2 DEF Retry
<1>6. CASE Reject(r)
  BY <1>2, <1>3, <1>6 DEF Reject, TypeOK, Stages, Verdicts
<1>7. ASSUME NEW q \in Run, q.id = r.id, runs' = (runs \ {r}) \cup {q}
      PROVE  runs' \subseteq Run /\ \A p \in runs' : p.id \in DOMAIN jobs
  BY <1>1, <1>7 DEF TypeOK
<1>8. CASE DeleteStored(r)
  <2> DEFINE q == [r EXCEPT !.stage = "insert", !.inserted = 0]
  <2>1. q \in Run /\ q.id = r.id
    BY <1>1, RunOperators DEF Run
  <2> HIDE DEF q
  <2>2. runs' \subseteq Run /\ \A p \in runs' : p.id \in DOMAIN jobs
    BY <1>7, <1>8, <2>1 DEF DeleteStored, q
  <2>3. QED
    BY <1>8, <2>2 DEF DeleteStored, TypeOK
<1>11. CASE InsertStored(r)
  <2>1. stored' \in [Entities -> [Versions -> Nat]]
    BY <1>1, <1>11 DEF InsertStored, TypeOK, Run
  <2> DEFINE q == [r EXCEPT !.inserted = @ + 1]
  <2>2. CASE r.inserted + 1 < Chunks /\ runs' = (runs \ {r}) \cup {q} /\ UNCHANGED judged
    <3>1. q \in Run /\ q.id = r.id
      BY <1>1, <2>2, RunOperators DEF Run
    <3> HIDE DEF q
    <3>2. runs' \subseteq Run /\ \A p \in runs' : p.id \in DOMAIN jobs
      BY <1>7, <2>2, <3>1
    <3>3. QED
      BY <1>11, <2>1, <2>2, <3>2 DEF InsertStored, TypeOK
  <2>3. CASE Advance(r, "ack") /\ Judge(r, "saved")
    BY <1>2, <1>3, <1>11, <2>1, <2>3 DEF InsertStored, TypeOK, Stages, Verdicts
  <2>4. QED
    BY <1>11, <2>2, <2>3 DEF InsertStored
<1>9. CASE Settle(r)
  <2>1. jobs' \in Seq(Job) /\ DOMAIN jobs' = DOMAIN jobs
    <3>1. CASE UNCHANGED jobs
      BY <3>1 DEF TypeOK
    <3>2. CASE jobs' = [i \in DOMAIN jobs |->
                          IF i = r.id /\ Owns(jobs[i], r.worker) THEN Settled(jobs[i], r.stage) ELSE jobs[i]]
      <4>1. jobs' \in [DOMAIN jobs -> Job]
        BY <1>9, <3>2, RowAt, RowOperators DEF Settle, TypeOK
      <4>2. QED
        BY <4>1, RowsOfTable DEF TypeOK
    <3>3. QED
      BY <1>9, <3>1, <3>2 DEF Settle
  <2>2. QED
    BY <1>9, <2>1 DEF Settle, TypeOK
<1>10. QED
  BY <1>4, <1>5, <1>6, <1>8, <1>9, <1>11 DEF JobStep

(* The deadlines and the sweep change rows one field at a time. *)
LEMMA DeadlineType ==
  ASSUME TypeOK, NEW i \in DOMAIN jobs, BackoffElapses(i) \/ LeaseExpires(i)
  PROVE  TypeOK' /\ DOMAIN jobs' = DOMAIN jobs
<1>1. jobs[i] \in Job
  BY RowAt DEF TypeOK
<1>2. [jobs[i] EXCEPT !.available = TRUE] \in Job /\ [jobs[i] EXCEPT !.leased = FALSE] \in Job
  BY <1>1 DEF Job
<1>3. jobs' \in [DOMAIN jobs -> Job]
  BY <1>2, RowAt DEF BackoffElapses, LeaseExpires, TypeOK
<1>4. jobs' \in Seq(Job) /\ DOMAIN jobs' = DOMAIN jobs
  BY <1>3, RowsOfTable DEF TypeOK
<1>5. QED
  BY <1>4 DEF BackoffElapses, LeaseExpires, TypeOK

LEMMA FailExhaustedType == ASSUME TypeOK, NEW w \in Workers, FailExhausted(w) PROVE TypeOK'
<1>1. jobs' \in [DOMAIN jobs -> Job]
  BY RowAt, RowOperators DEF FailExhausted, TypeOK
<1>2. jobs' \in Seq(Job) /\ DOMAIN jobs' = DOMAIN jobs
  BY <1>1, RowsOfTable DEF TypeOK
<1>3. QED
  BY <1>2 DEF FailExhausted, TypeOK

LEMMA LifeType == ASSUME TypeOK, NEW w \in Workers, Stop(w) \/ Exit(w) \/ Crash(w) PROVE TypeOK'
  BY DEF TypeOK, Stop, Exit, Crash, RunsOf

LEMMA NextType == TypeOK /\ [Next]_vars => TypeOK'
<1>1. ASSUME TypeOK, Next PROVE TypeOK'
  BY <1>1, StartType, EnqueueType, ClaimType, JobStepType, DeadlineType, FailExhaustedType, LifeType DEF Next
<1>2. TypeOK /\ UNCHANGED vars => TypeOK'
  BY DEF TypeOK, vars
<1>3. QED
  BY <1>1, <1>2

(* Every reachable state of the queue is well typed; in particular no row   *)
(* is ever claimed beyond the attempt bound.                                *)
THEOREM TypeCorrect == Spec => []TypeOK
  BY InitType, NextType, PTL DEF Spec

-----------------------------------------------------------------------------
(* What a step may do to the rows *)

(* Every step but Enqueue: no row comes or goes, none changes its entity or *)
(* its text, and terminal rows are left alone.                              *)
QuietRows ==
  /\ UNCHANGED newest
  /\ DOMAIN jobs' = DOMAIN jobs
  /\ \A i \in DOMAIN jobs :
       /\ jobs'[i].entity = jobs[i].entity
       /\ jobs'[i].payload = jobs[i].payload
       /\ jobs'[i].attempts >= jobs[i].attempts
       /\ ~Outstanding(jobs[i]) => jobs'[i] = jobs[i]

(* Enqueue of e: its outstanding rows are refreshed, or one row is new. *)
EnqueuedRows(e) ==
  LET v == newest[e] + 1 IN
  /\ newest' = [newest EXCEPT ![e] = v]
  /\ DOMAIN jobs \subseteq DOMAIN jobs'
  /\ \A i \in DOMAIN jobs :
       jobs'[i] = IF i \in OutstandingIds(e) THEN Refresh(jobs[i], v) ELSE jobs[i]
  /\ \A i, j \in DOMAIN jobs' \ DOMAIN jobs : i = j
  /\ \A i \in DOMAIN jobs' \ DOMAIN jobs : OutstandingIds(e) = {} /\ jobs'[i] = NewJob(e, v)
  /\ OutstandingIds(e) = {} => \E i \in DOMAIN jobs' : i \notin DOMAIN jobs

(* The row operators keep a row's entity, text and count. *)
LEMMA RowOperatorsKeep ==
  ASSUME NEW job \in Job
  PROVE  /\ \A v \in Versions :
              /\ Refresh(job, v).entity = job.entity
              /\ Refresh(job, v).payload = v
              /\ Refresh(job, v).state = "pending"
              /\ Refresh(job, v).attempts = job.attempts
         /\ \A w \in Workers :
              /\ Leased(job, w).entity = job.entity
              /\ Leased(job, w).payload = job.payload
              /\ Leased(job, w).state = "claimed"
              /\ Leased(job, w).claimed_by = w
              /\ Leased(job, w).attempts = job.attempts + 1
         /\ \A t \in {Acked(job), Failed(job), Released(job)} :
              /\ t.entity = job.entity
              /\ t.payload = job.payload
              /\ t.attempts = job.attempts
         /\ Acked(job).state = "done"
         /\ Failed(job).state = "failed"
         /\ Released(job).state = "pending"
<1>1. \A v \in Versions :
              /\ Refresh(job, v).entity = job.entity
              /\ Refresh(job, v).payload = v
              /\ Refresh(job, v).state = "pending"
              /\ Refresh(job, v).attempts = job.attempts
  BY DEF Job, Refresh
<1>2. \A w \in Workers :
              /\ Leased(job, w).entity = job.entity
              /\ Leased(job, w).payload = job.payload
              /\ Leased(job, w).state = "claimed"
              /\ Leased(job, w).claimed_by = w
              /\ Leased(job, w).attempts = job.attempts + 1
  BY DEF Job, Leased
<1>3. \A t \in {Acked(job), Failed(job), Released(job)} :
              /\ t.entity = job.entity
              /\ t.payload = job.payload
              /\ t.attempts = job.attempts
  BY ZenonT(60) DEF Job, Acked, Failed, Released
<1>4. /\ Acked(job).state = "done"
      /\ Failed(job).state = "failed"
      /\ Released(job).state = "pending"
  BY DEF Job, Acked, Failed, Released
<1>5. QED
  BY <1>1, <1>2, <1>3, <1>4

LEMMA SettledKeeps ==
  ASSUME NEW job \in Job, NEW stage \in {"ack", "release", "fail"}
  PROVE  /\ Settled(job, stage).entity = job.entity
         /\ Settled(job, stage).payload = job.payload
         /\ Settled(job, stage).attempts = job.attempts
         /\ Settled(job, stage).state = "done" => stage = "ack"
         /\ Settled(job, stage).state = "failed" => stage = "fail"
         /\ Settled(job, stage).state # "claimed"
<1>1. CASE stage = "ack"
  BY <1>1, RowOperatorsKeep DEF Settled
<1>2. CASE stage = "fail"
  BY <1>2, RowOperatorsKeep DEF Settled
<1>3. CASE stage = "release"
  BY <1>3, RowOperatorsKeep DEF Settled
<1>4. QED
  BY <1>1, <1>2, <1>3

LEMMA EnqueueRows == ASSUME TypeOK, NEW e \in Entities, Enqueue(e) PROVE EnqueuedRows(e)
<1> DEFINE v == newest[e] + 1
<1>1. v \in Versions /\ newest' = [newest EXCEPT ![e] = v]
  BY KnobsAssumption DEF TypeOK, Enqueue, Versions
<1>2. NewJob(e, v) \in Job
  BY <1>1, KnobsAssumption DEF NewJob, Job
<1>3. CASE OutstandingIds(e) = {}
  <2>1. jobs' = Append(jobs, NewJob(e, v))
    BY <1>3 DEF Enqueue
  <2>2. QED
    BY <1>1, <1>2, <1>3, <2>1, Appended DEF EnqueuedRows, TypeOK
<1>4. CASE OutstandingIds(e) # {}
  <2>1. jobs' = [i \in DOMAIN jobs |-> IF i \in OutstandingIds(e) THEN Refresh(jobs[i], v) ELSE jobs[i]]
    BY <1>4 DEF Enqueue
  <2>2. QED
    BY <1>1, <1>4, <2>1 DEF EnqueuedRows
<1>5. QED
  BY <1>3, <1>4

LEMMA ClaimRows == ASSUME TypeOK, NEW w \in Workers, Claim(w) PROVE QuietRows
<1>1. PICK ids \in SUBSET {i \in DOMAIN jobs : Claimable(jobs[i])} :
        jobs' = [i \in DOMAIN jobs |-> IF i \in ids THEN Leased(jobs[i], w) ELSE jobs[i]]
  BY DEF Claim
<1>2. ASSUME NEW i \in DOMAIN jobs
      PROVE  /\ jobs'[i].entity = jobs[i].entity
             /\ jobs'[i].payload = jobs[i].payload
             /\ jobs'[i].attempts >= jobs[i].attempts
             /\ ~Outstanding(jobs[i]) => jobs'[i] = jobs[i]
  <2>1. jobs[i] \in Job /\ jobs[i].attempts \in Nat
    BY RowAt DEF TypeOK
  <2>2. CASE i \in ids
    BY <1>1, <2>1, <2>2, RowOperatorsKeep DEF Claimable
  <2>3. CASE i \notin ids
    BY <1>1, <2>1, <2>3
  <2>4. QED
    BY <2>2, <2>3
<1>3. QED
  BY <1>1, <1>2 DEF QuietRows, Claim

LEMMA SettleRows ==
  ASSUME TypeOK, NEW r \in runs, Settle(r)
  PROVE  /\ QuietRows
         /\ \A i \in DOMAIN jobs :
              jobs'[i] # jobs[i] => i = r.id /\ Owns(jobs[i], r.worker) /\ jobs'[i] = Settled(jobs[i], r.stage)
<1>1. CASE UNCHANGED jobs
  BY <1>1, RowAt DEF QuietRows, Settle, TypeOK
<1>2. CASE jobs' = [i \in DOMAIN jobs |->
                      IF i = r.id /\ Owns(jobs[i], r.worker) THEN Settled(jobs[i], r.stage) ELSE jobs[i]]
  <2>1. ASSUME NEW i \in DOMAIN jobs
        PROVE  /\ jobs'[i].entity = jobs[i].entity
               /\ jobs'[i].payload = jobs[i].payload
               /\ jobs'[i].attempts >= jobs[i].attempts
               /\ ~Outstanding(jobs[i]) => jobs'[i] = jobs[i]
    <3>1. jobs[i] \in Job /\ jobs[i].attempts \in Nat
      BY RowAt DEF TypeOK
    <3>2. CASE i = r.id /\ Owns(jobs[i], r.worker)
      BY <1>2, <3>1, <3>2, SettledKeeps DEF Settle, Owns, Outstanding
    <3>3. CASE ~(i = r.id /\ Owns(jobs[i], r.worker))
      BY <1>2, <3>1, <3>3
    <3>4. QED
      BY <3>2, <3>3
  <2>2. QED
    BY <1>2, <2>1 DEF QuietRows, Settle
<1>3. QED
  BY <1>1, <1>2 DEF Settle

LEMMA DeadlineRows ==
  ASSUME TypeOK, NEW i \in DOMAIN jobs, BackoffElapses(i) \/ LeaseExpires(i)
  PROVE  /\ QuietRows
         /\ \A j \in DOMAIN jobs : jobs'[j].claimed_by = jobs[j].claimed_by /\ jobs'[j].state = jobs[j].state
<1>1. \A j \in DOMAIN jobs : jobs[j] \in Job
  BY RowAt DEF TypeOK
<1>2. ASSUME NEW j \in DOMAIN jobs
      PROVE  /\ jobs'[j].entity = jobs[j].entity
             /\ jobs'[j].payload = jobs[j].payload
             /\ jobs'[j].attempts = jobs[j].attempts
             /\ jobs'[j].claimed_by = jobs[j].claimed_by
             /\ jobs'[j].state = jobs[j].state
             /\ j # i => jobs'[j] = jobs[j]
  BY <1>1 DEF BackoffElapses, LeaseExpires, Job
<1>3. Outstanding(jobs[i])
  BY DEF BackoffElapses, LeaseExpires, Outstanding
<1>4. DOMAIN jobs' = DOMAIN jobs /\ UNCHANGED newest
  BY DEF BackoffElapses, LeaseExpires
<1>5. \A j \in DOMAIN jobs : jobs[j].attempts \in Nat
  BY <1>1 DEF Job
<1>6. QED
  BY <1>2, <1>3, <1>4, <1>5 DEF QuietRows

LEMMA FailExhaustedRows ==
  ASSUME TypeOK, NEW w \in Workers, FailExhausted(w)
  PROVE  QuietRows
<1>1. ASSUME NEW i \in DOMAIN jobs
      PROVE  /\ jobs'[i].entity = jobs[i].entity
             /\ jobs'[i].payload = jobs[i].payload
             /\ jobs'[i].attempts >= jobs[i].attempts
             /\ ~Outstanding(jobs[i]) => jobs'[i] = jobs[i]
  <2>1. jobs[i] \in Job /\ jobs[i].attempts \in Nat
    BY RowAt DEF TypeOK
  <2>2. jobs'[i] = IF Exhausted(jobs[i]) THEN Failed(jobs[i]) ELSE jobs[i]
    BY DEF FailExhausted
  <2>3. QED
    BY <2>1, <2>2, RowOperatorsKeep DEF Exhausted
<1>2. QED
  BY <1>1 DEF FailExhausted, QuietRows

LEMMA SameRows == ASSUME TypeOK, UNCHANGED <<jobs, newest>> PROVE QuietRows
  BY RowAt DEF TypeOK, QuietRows

LEMMA StepRows ==
  ASSUME TypeOK, [Next]_vars
  PROVE  QuietRows \/ \E e \in Entities : EnqueuedRows(e)
<1>1. CASE UNCHANGED vars
  BY <1>1, SameRows DEF vars
<1>2. ASSUME NEW e \in Entities, Enqueue(e) PROVE EnqueuedRows(e)
  BY <1>2, EnqueueRows
<1>3. ASSUME NEW w \in Workers, Start(w) \/ Stop(w) \/ Exit(w) \/ Crash(w) PROVE QuietRows
  BY <1>3, SameRows DEF Start, Stop, Exit, Crash
<1>4. ASSUME NEW w \in Workers, Claim(w) \/ FailExhausted(w) PROVE QuietRows
  BY <1>4, ClaimRows, FailExhaustedRows
<1>5. ASSUME NEW r \in runs, JobStep(r) PROVE QuietRows
  BY <1>5, SettleRows, SameRows DEF JobStep, Resolve, Retry, Reject, DeleteStored, InsertStored
<1>6. ASSUME NEW i \in DOMAIN jobs, BackoffElapses(i) \/ LeaseExpires(i) PROVE QuietRows
  BY <1>6, DeadlineRows
<1>7. QED
  BY <1>1, <1>2, <1>3, <1>4, <1>5, <1>6 DEF Next

-----------------------------------------------------------------------------
(* A terminal row is never touched again: late settles, edits and sweeps    *)
(* all miss it.                                                             *)
THEOREM TerminalRowsAreFinal == Spec => TerminalIsFinal
<1>1. TypeOK /\ [Next]_vars => [\A i \in DOMAIN jobs : ~Outstanding(jobs[i]) => jobs'[i] = jobs[i]]_vars
  <2>1. SUFFICES ASSUME TypeOK, [Next]_vars, NEW i \in DOMAIN jobs, ~Outstanding(jobs[i])
                 PROVE  jobs'[i] = jobs[i]
    OBVIOUS
  <2>2. \A e \in Entities : i \notin OutstandingIds(e)
    BY <2>1 DEF OutstandingIds
  <2>3. QED
    BY <2>1, <2>2, StepRows DEF QuietRows, EnqueuedRows
<1>2. QED
  BY <1>1, TypeCorrect, PTL DEF Spec, TerminalIsFinal

(* At most one outstanding row per entity, for any number of processes,     *)
(* intake workers and edits: what the partial unique index demands.         *)
LEMMA OneOutstandingStep == TypeOK /\ OneOutstanding /\ [Next]_vars => OneOutstanding'
<1>1. SUFFICES ASSUME TypeOK, OneOutstanding, [Next]_vars,
                      NEW i \in DOMAIN jobs', NEW j \in DOMAIN jobs',
                      Outstanding(jobs'[i]), Outstanding(jobs'[j]), jobs'[i].entity = jobs'[j].entity
               PROVE  i = j
  BY DEF OneOutstanding, Outstanding
<1>2. CASE QuietRows
  BY <1>1, <1>2 DEF QuietRows, OneOutstanding, Outstanding
<1>3. ASSUME NEW e \in Entities, EnqueuedRows(e) PROVE i = j
  <2>2. ASSUME NEW k \in DOMAIN jobs
        PROVE  jobs'[k].entity = jobs[k].entity /\ (Outstanding(jobs'[k]) => Outstanding(jobs[k]))
    <3>1. jobs[k] \in Job
      BY <1>1, RowAt DEF TypeOK
    <3>2. CASE k \in OutstandingIds(e)
      <4>1. jobs'[k] = Refresh(jobs[k], newest[e] + 1)
        BY <1>3, <3>2 DEF EnqueuedRows
      <4>2. jobs'[k].entity = jobs[k].entity
        BY <3>1, <4>1 DEF Refresh, Job
      <4>3. QED
        BY <3>2, <4>2 DEF OutstandingIds
    <3>3. CASE k \notin OutstandingIds(e)
      BY <1>3, <3>3 DEF EnqueuedRows
    <3>4. QED
      BY <3>2, <3>3
  <2>3. ASSUME NEW k \in DOMAIN jobs' \ DOMAIN jobs
        PROVE  jobs'[k].entity = e /\ OutstandingIds(e) = {}
    BY <1>3 DEF EnqueuedRows, NewJob
  <2>4. QED
    BY <1>1, <1>3, <2>2, <2>3 DEF OneOutstanding, EnqueuedRows, OutstandingIds
<1>4. QED
  BY <1>1, <1>2, <1>3, StepRows

(* An entity has at most one outstanding row (the partial unique index that *)
(* Enqueue's upsert resolves against), however claims, settles and edits    *)
(* overlap.                                                                 *)
THEOREM AtMostOneOutstanding == Spec => []OneOutstanding
<1>1. Init => OneOutstanding
  BY DEF Init, OneOutstanding
<1>2. QED
  BY <1>1, OneOutstandingStep, TypeCorrect, PTL DEF Spec

-----------------------------------------------------------------------------
(* An outstanding row carries its entity's newest text, and that text is on *)
(* some row: no interleaving of edits with claims and settles drops it.     *)
LEMMA NewestTextStep == TypeOK /\ NewestTextQueued /\ [Next]_vars => NewestTextQueued'
<1>1. SUFFICES ASSUME TypeOK, NewestTextQueued, [Next]_vars
               PROVE  NewestTextQueued'
  OBVIOUS
<1>2. CASE QuietRows
  <2>1. \A i \in DOMAIN jobs' : Outstanding(jobs'[i]) => jobs'[i].payload = newest'[jobs'[i].entity]
    BY <1>1, <1>2 DEF QuietRows, NewestTextQueued, Outstanding
  <2>2. \A e \in Entities : newest'[e] > 0 =>
          \E i \in DOMAIN jobs' : jobs'[i].entity = e /\ jobs'[i].payload = newest'[e]
    BY <1>1, <1>2 DEF QuietRows, NewestTextQueued
  <2>3. QED
    BY <2>1, <2>2 DEF NewestTextQueued, Outstanding
<1>3. ASSUME NEW e \in Entities, EnqueuedRows(e) PROVE NewestTextQueued'
  <2> DEFINE v == newest[e] + 1
  <2>1. newest'[e] = v /\ \A d \in Entities \ {e} : newest'[d] = newest[d]
    BY <1>1, <1>3 DEF EnqueuedRows, TypeOK
  <2>2. ASSUME NEW k \in DOMAIN jobs
        PROVE  /\ jobs'[k].entity = jobs[k].entity
               /\ k \in OutstandingIds(e) => jobs'[k].payload = v
               /\ k \notin OutstandingIds(e) => jobs'[k] = jobs[k]
    <3>1. jobs[k] \in Job
      BY <1>1, RowAt DEF TypeOK
    <3>2. CASE k \in OutstandingIds(e)
      <4>1. jobs'[k] = Refresh(jobs[k], v)
        BY <1>3, <3>2 DEF EnqueuedRows
      <4>2. QED
        BY <3>1, <3>2, <4>1 DEF Refresh, Job
    <3>3. CASE k \notin OutstandingIds(e)
      BY <1>3, <3>3 DEF EnqueuedRows
    <3>4. QED
      BY <3>2, <3>3
  <2>3. ASSUME NEW k \in DOMAIN jobs' \ DOMAIN jobs
        PROVE  jobs'[k].entity = e /\ jobs'[k].payload = v
    BY <1>3 DEF EnqueuedRows, NewJob
  <2> HIDE DEF v
  <2>4. \A k \in DOMAIN jobs : jobs[k].entity \in Entities
    BY <1>1, RowAt DEF TypeOK, Job
  <2>5. ASSUME NEW i \in DOMAIN jobs', Outstanding(jobs'[i])
        PROVE  jobs'[i].payload = newest'[jobs'[i].entity]
    <3>1. CASE i \in DOMAIN jobs /\ i \in OutstandingIds(e)
      BY <2>1, <2>2, <3>1 DEF OutstandingIds
    <3>2. CASE i \in DOMAIN jobs /\ i \notin OutstandingIds(e)
      <4>1. jobs'[i] = jobs[i]
        BY <2>2, <3>2
      <4>2. Outstanding(jobs[i])
        BY <4>1, <2>5
      <4>3. jobs[i].entity \in Entities \ {e}
        BY <2>4, <3>2, <4>2 DEF OutstandingIds
      <4>4. QED
        BY <1>1, <2>1, <3>2, <4>1, <4>2, <4>3 DEF NewestTextQueued
    <3>3. CASE i \notin DOMAIN jobs
      BY <2>1, <2>3, <3>3
    <3>4. QED
      BY <3>1, <3>2, <3>3
  <2>6. ASSUME NEW d \in Entities, newest'[d] > 0
        PROVE  \E i \in DOMAIN jobs' : jobs'[i].entity = d /\ jobs'[i].payload = newest'[d]
    <3>1. CASE d = e /\ OutstandingIds(e) = {}
      <4>1. PICK i \in DOMAIN jobs' : i \notin DOMAIN jobs
        BY <1>3, <3>1 DEF EnqueuedRows
      <4>2. QED
        BY <2>1, <2>3, <3>1, <4>1
    <3>2. CASE d = e /\ OutstandingIds(e) # {}
      <4>1. PICK i \in OutstandingIds(e) : TRUE
        BY <3>2
      <4>2. i \in DOMAIN jobs /\ i \in DOMAIN jobs' /\ jobs[i].entity = e
        BY <1>3, <4>1 DEF OutstandingIds, EnqueuedRows
      <4>3. QED
        BY <2>1, <2>2, <3>2, <4>1, <4>2
    <3>3. CASE d # e
      <4>1. newest'[d] = newest[d]
        BY <2>1, <3>3
      <4>2. PICK i \in DOMAIN jobs : jobs[i].entity = d /\ jobs[i].payload = newest[d]
        BY <1>1, <2>6, <4>1 DEF NewestTextQueued
      <4>3. i \notin OutstandingIds(e) /\ i \in DOMAIN jobs'
        BY <1>3, <3>3, <4>2 DEF OutstandingIds, EnqueuedRows
      <4>4. QED
        BY <2>2, <4>1, <4>2, <4>3
    <3>4. QED
      BY <3>1, <3>2, <3>3
  <2>7. QED
    BY <2>5, <2>6 DEF NewestTextQueued, Outstanding
<1>4. QED
  BY <1>1, <1>2, <1>3, StepRows

(* The outstanding row of an entity carries its newest accepted text, and   *)
(* that text is always on some row: an edit refreshes the outstanding row   *)
(* in place, claimed or not, or appends one (Enqueue).                      *)
THEOREM NewestTextIsQueued == Spec => []NewestTextQueued
<1>1. Init => NewestTextQueued
  BY DEF Init, NewestTextQueued
<1>2. QED
  BY <1>1, NewestTextStep, TypeCorrect, PTL DEF Spec

-----------------------------------------------------------------------------
(* While a lease runs, its row leaves the claimer's hands only through a    *)
(* settle by that process or a replacement of its text: neither another     *)
(* claim nor the poison-pill sweep takes it away.                           *)
THEOREM LeasesAreRespected == Spec => LeaseRespected
<1>1. ASSUME TypeOK, NewestTextQueued, [Next]_vars, NEW i \in DOMAIN jobs,
             jobs[i].state = "claimed", jobs[i].leased, jobs'[i].claimed_by # jobs[i].claimed_by
      PROVE  \/ jobs'[i].payload # jobs[i].payload
             \/ \E r \in runs \ runs' : r.id = i /\ r.worker = jobs[i].claimed_by
  <2>1. ~Claimable(jobs[i]) /\ ~Exhausted(jobs[i])
    BY <1>1 DEF Claimable, Exhausted, Unleased
  <2>2. jobs'[i] # jobs[i]
    BY <1>1
  <2>3. ASSUME NEW e \in Entities, Enqueue(e) PROVE jobs'[i].payload # jobs[i].payload
    <3>1. EnqueuedRows(e)
      BY <1>1, <2>3, EnqueueRows
    <3>2. i \in OutstandingIds(e) /\ jobs'[i] = Refresh(jobs[i], newest[e] + 1)
      BY <2>2, <3>1 DEF EnqueuedRows
    <3>3. jobs[i] \in Job /\ jobs[i].payload = newest[e]
      BY <1>1, <3>2, RowAt DEF TypeOK, NewestTextQueued, OutstandingIds
    <3>4. jobs'[i].payload = newest[e] + 1
      BY <3>2, <3>3 DEF Refresh, Job
    <3>5. newest[e] \in Nat
      BY <1>1, KnobsAssumption DEF TypeOK
    <3>6. QED
      BY <3>3, <3>4, <3>5
  <2>4. ASSUME NEW w \in Workers, Claim(w) PROVE FALSE
    BY <1>1, <2>1, <2>2, <2>4 DEF Claim
  <2>5. ASSUME NEW w \in Workers, FailExhausted(w) PROVE FALSE
    BY <1>1, <2>1, <2>2, <2>5 DEF FailExhausted
  <2>6. ASSUME NEW r \in runs, Settle(r)
        PROVE  \E q \in runs \ runs' : q.id = i /\ q.worker = jobs[i].claimed_by
    <3>1. i = r.id /\ Owns(jobs[i], r.worker)
      BY <1>1, <2>2, <2>6, SettleRows
    <3>2. r \in runs \ runs'
      BY <2>6 DEF Settle
    <3>3. QED
      BY <3>1, <3>2 DEF Owns
  <2>7. ASSUME NEW j \in DOMAIN jobs, BackoffElapses(j) \/ LeaseExpires(j) PROVE FALSE
    BY <1>1, <2>7, DeadlineRows
  <2>8. UNCHANGED jobs => FALSE
    BY <2>2
  <2>9. QED
    BY <1>1, <2>3, <2>4, <2>5, <2>6, <2>7, <2>8
       DEF Next, vars, Start, Stop, Exit, Crash, JobStep, Resolve, Retry, Reject, DeleteStored, InsertStored
<1>2. TypeOK /\ NewestTextQueued /\ [Next]_vars =>
        [\A i \in DOMAIN jobs :
           /\ jobs[i].state = "claimed"
           /\ jobs[i].leased
           /\ jobs'[i].claimed_by # jobs[i].claimed_by
           => \/ jobs'[i].payload # jobs[i].payload
              \/ \E r \in runs \ runs' : r.id = i /\ r.worker = jobs[i].claimed_by]_vars
  BY <1>1
<1>3. QED
  BY <1>2, TypeCorrect, NewestTextIsQueued, PTL DEF Spec, LeaseRespected

-----------------------------------------------------------------------------
(* A process that owns a row is running that very claim, unless the claim    *)
(* crossed an older one; so a settle that matches is about the row's text.   *)

RunIsAboutItsRow ==
  \A r \in runs :
    /\ r.entity = jobs[r.id].entity
    /\ Owns(jobs[r.id], r.worker) => jobs[r.id].payload = r.text \/ r.id \in crossed

RunsWereCounted == \A r \in runs : jobs[r.id].attempts # 0

VerdictReached ==
  \A r \in runs :
    /\ r.stage = "ack" => \/ <<r.entity, r.text, "saved">> \in judged
                          \/ <<r.entity, r.text, "nothing">> \in judged
    /\ r.stage = "fail" => <<r.entity, r.text, "rejected">> \in judged

SettleInv == RunIsAboutItsRow /\ RunsWereCounted /\ VerdictReached /\ SettledUnlessCrossed

(* Steps that leave the runs alone, or only drop some. *)
LEMMA SettleInvQuiet ==
  ASSUME TypeOK, SettleInv, QuietRows, runs' \subseteq runs, UNCHANGED <<judged, crossed>>,
         \A i \in DOMAIN jobs : jobs'[i].state = jobs[i].state /\ jobs'[i].claimed_by = jobs[i].claimed_by
  PROVE  SettleInv'
<1>0. \A i \in DOMAIN jobs : jobs[i].attempts \in Nat /\ jobs'[i].attempts >= jobs[i].attempts
  BY RowAt DEF TypeOK, QuietRows
<1>1. RunsWereCounted'
  BY <1>0 DEF SettleInv, RunsWereCounted, QuietRows, TypeOK
<1>2. RunIsAboutItsRow'
  BY DEF SettleInv, RunIsAboutItsRow, QuietRows, TypeOK, Owns
<1>3. VerdictReached'
  BY DEF SettleInv, VerdictReached
<1>4. SettledUnlessCrossed'
  <2>1. ASSUME NEW i \in DOMAIN jobs' \ crossed' PROVE SettledByItself(i)'
    <3>1. i \in DOMAIN jobs \ crossed
      BY <2>1 DEF QuietRows
    <3>2. jobs[i].state \in {"done", "failed"} => jobs'[i] = jobs[i]
      BY <3>1 DEF QuietRows, Outstanding
    <3> QED
      BY <3>1, <3>2 DEF SettleInv, SettledUnlessCrossed, SettledByItself
  <2> QED
    BY <2>1 DEF SettledUnlessCrossed
<1>5. QED
  BY <1>1, <1>2, <1>3, <1>4 DEF SettleInv

LEMMA SettleInvEnqueue ==
  ASSUME TypeOK, SettleInv, NEW e \in Entities, Enqueue(e)
  PROVE  SettleInv'
<1>1. EnqueuedRows(e) /\ UNCHANGED <<runs, judged, crossed>>
  BY EnqueueRows DEF Enqueue
<1>2. ASSUME NEW k \in DOMAIN jobs
      PROVE  /\ jobs'[k].entity = jobs[k].entity
             /\ jobs'[k].attempts = jobs[k].attempts
             /\ k \in OutstandingIds(e) => jobs'[k].state = "pending"
             /\ k \notin OutstandingIds(e) => jobs'[k] = jobs[k]
  <2>1. jobs[k] \in Job
    BY RowAt DEF TypeOK
  <2>2. CASE k \in OutstandingIds(e)
    <3>1. jobs'[k] = Refresh(jobs[k], newest[e] + 1)
      BY <1>1, <2>2 DEF EnqueuedRows
    <3>2. QED
      BY <2>1, <2>2, <3>1 DEF Refresh, Job
  <2>3. CASE k \notin OutstandingIds(e)
    BY <1>1, <2>3 DEF EnqueuedRows
  <2>4. QED
    BY <2>2, <2>3
<1>3. \A k \in DOMAIN jobs' \ DOMAIN jobs : jobs'[k].state = "pending"
  BY <1>1 DEF EnqueuedRows, NewJob
<1>4. RunsWereCounted' /\ VerdictReached'
  BY <1>1, <1>2 DEF SettleInv, RunsWereCounted, VerdictReached, TypeOK
<1>5. RunIsAboutItsRow'
  BY <1>1, <1>2, ZenonT(60) DEF SettleInv, RunIsAboutItsRow, TypeOK, Owns
<1>6. SettledUnlessCrossed'
  BY <1>1, <1>2, <1>3 DEF SettleInv, SettledUnlessCrossed, SettledByItself
<1>7. QED
  BY <1>4, <1>5, <1>6 DEF SettleInv

LEMMA SettleInvClaim ==
  ASSUME TypeOK, SettleInv, NEW w \in Workers, Claim(w)
  PROVE  SettleInv'
<1>1. PICK ids \in SUBSET {i \in DOMAIN jobs : Claimable(jobs[i])} :
        /\ jobs' = [i \in DOMAIN jobs |-> IF i \in ids THEN Leased(jobs[i], w) ELSE jobs[i]]
        /\ runs' \subseteq runs \cup {ClaimedRun(w, i) : i \in ids}
        /\ crossed' = (crossed \ ids) \cup {i \in ids : Crosses(w, i)}
  BY DEF Claim
<1>2. UNCHANGED judged /\ DOMAIN jobs' = DOMAIN jobs
  BY <1>1 DEF Claim
<1>3. ASSUME NEW i \in DOMAIN jobs
      PROVE  /\ i \in ids => /\ jobs'[i].entity = jobs[i].entity
                             /\ jobs'[i].payload = jobs[i].payload
                             /\ jobs'[i].claimed_by = w
                             /\ jobs'[i].state = "claimed"
                             /\ jobs'[i].attempts # 0
             /\ i \notin ids => jobs'[i] = jobs[i]
  <2>1. jobs[i] \in Job /\ jobs[i].attempts \in Nat
    BY RowAt DEF TypeOK
  <2>2. QED
    BY <1>1, <2>1, RowOperatorsKeep
<1>4. ASSUME NEW r \in runs', r \notin runs
      PROVE  /\ r.id \in ids /\ r.worker = w /\ r.stage = "resolve"
             /\ r.entity = jobs[r.id].entity /\ r.text = jobs[r.id].payload
  BY <1>1, <1>4 DEF ClaimedRun
<1>5. \A i \in DOMAIN jobs : i \notin ids => (i \in crossed' <=> i \in crossed)
  BY <1>1
<1>6. RunsWereCounted'
  BY <1>1, <1>3, <1>4 DEF SettleInv, RunsWereCounted, TypeOK
<1>7. RunIsAboutItsRow'
  <2>1. SUFFICES ASSUME NEW r \in runs'
                 PROVE  /\ r.entity = jobs'[r.id].entity
                        /\ Owns(jobs'[r.id], r.worker) => jobs'[r.id].payload = r.text \/ r.id \in crossed'
    BY DEF RunIsAboutItsRow, Owns
  <2>2. CASE r \notin runs
    BY <1>1, <1>3, <1>4, <2>2
  <2>3. CASE r \in runs /\ r.id \notin ids
    BY <1>3, <1>5, <2>3 DEF SettleInv, RunIsAboutItsRow, TypeOK, Owns
  <2>4. CASE r \in runs /\ r.id \in ids
    <3>1. r.id \in DOMAIN jobs /\ r.entity = jobs[r.id].entity
      BY <2>4 DEF SettleInv, RunIsAboutItsRow, TypeOK
    <3>2. r.worker = w /\ r.text # jobs[r.id].payload => r.id \in crossed'
      BY <1>1, <2>4 DEF Crosses, RunsOf
    <3> QED
      BY <1>3, <2>4, <3>1, <3>2 DEF Owns
  <2>5. QED
    BY <2>2, <2>3, <2>4
<1>8. VerdictReached'
  BY <1>2, <1>4 DEF SettleInv, VerdictReached
<1>9. SettledUnlessCrossed'
  BY <1>2, <1>3, <1>5 DEF SettleInv, SettledUnlessCrossed, SettledByItself
<1>10. QED
  BY <1>6, <1>7, <1>8, <1>9 DEF SettleInv

(* Resolving, retrying, rejecting, deleting and inserting move one run on.  *)
LEMMA SettleInvWork ==
  ASSUME TypeOK, SettleInv, NEW r \in runs, NEW q,
         UNCHANGED <<jobs, crossed>>, runs' = (runs \ {r}) \cup {q}, judged \subseteq judged',
         q.worker = r.worker, q.id = r.id, q.entity = r.entity, q.text = r.text,
         q.stage = "ack" => \/ <<r.entity, r.text, "saved">> \in judged'
                            \/ <<r.entity, r.text, "nothing">> \in judged',
         q.stage = "fail" => <<r.entity, r.text, "rejected">> \in judged'
  PROVE  SettleInv'
<1>1. RunsWereCounted'
  BY DEF SettleInv, RunsWereCounted
<1>2. RunIsAboutItsRow'
  BY DEF SettleInv, RunIsAboutItsRow, Owns
<1>3. VerdictReached'
  BY DEF SettleInv, VerdictReached
<1>4. SettledUnlessCrossed'
  BY DEF SettleInv, SettledUnlessCrossed, SettledByItself
<1>5. QED
  BY <1>1, <1>2, <1>3, <1>4 DEF SettleInv

LEMMA SettleInvSettle ==
  ASSUME TypeOK, SettleInv, NEW r \in runs, Settle(r)
  PROVE  SettleInv'
<1>1. /\ QuietRows
      /\ \A i \in DOMAIN jobs :
           jobs'[i] # jobs[i] => i = r.id /\ Owns(jobs[i], r.worker) /\ jobs'[i] = Settled(jobs[i], r.stage)
  BY SettleRows
<1>2. r.stage \in {"ack", "release", "fail"} /\ runs' = runs \ {r} /\ UNCHANGED <<judged, crossed>>
  BY DEF Settle
<1>3. r.id \in DOMAIN jobs /\ jobs[r.id] \in Job
  BY RowAt DEF TypeOK
<1>4. /\ Settled(jobs[r.id], r.stage).state = "done" => r.stage = "ack"
      /\ Settled(jobs[r.id], r.stage).state = "failed" => r.stage = "fail"
      /\ Settled(jobs[r.id], r.stage).state # "claimed"
  BY <1>2, <1>3, SettledKeeps
<1>5. RunsWereCounted' /\ VerdictReached'
  <2>1. jobs'[r.id].attempts = jobs[r.id].attempts
    BY <1>1, <1>2, <1>3, SettledKeeps
  <2>2. ASSUME NEW q \in runs'
        PROVE  jobs'[q.id].attempts # 0
    <3>1. q \in runs /\ q.id \in DOMAIN jobs /\ jobs[q.id].attempts # 0
      BY <1>2 DEF SettleInv, RunsWereCounted, TypeOK
    <3>2. jobs'[q.id].attempts = jobs[q.id].attempts
      BY <1>1, <2>1, <3>1
    <3> QED
      BY <3>1, <3>2
  <2>3. VerdictReached'
    BY <1>2, Zenon DEF SettleInv, VerdictReached
  <2> QED
    BY <2>2, <2>3 DEF RunsWereCounted
<1>6. ASSUME NEW q \in runs'
      PROVE  /\ q.entity = jobs'[q.id].entity
             /\ Owns(jobs'[q.id], q.worker) => jobs'[q.id].payload = q.text \/ q.id \in crossed'
  <2>1. q \in runs /\ q.id \in DOMAIN jobs
    BY <1>2 DEF TypeOK
  <2>2. jobs'[q.id].entity = jobs[q.id].entity /\ q.entity = jobs[q.id].entity
    BY <1>1, <2>1 DEF SettleInv, RunIsAboutItsRow, QuietRows
  <2>3. CASE jobs'[q.id] = jobs[q.id]
    BY <1>2, <2>1, <2>3 DEF SettleInv, RunIsAboutItsRow
  <2>4. CASE jobs'[q.id] # jobs[q.id]
    <3>1. jobs'[q.id] = Settled(jobs[r.id], r.stage)
      BY <1>1, <2>1, <2>4
    <3>2. QED
      BY <1>4, <2>2, <3>1 DEF Owns
  <2>5. QED
    BY <2>2, <2>3, <2>4
<1>7. SettledUnlessCrossed'
  <2>1. SUFFICES ASSUME NEW i \in DOMAIN jobs \ crossed PROVE SettledByItself(i)'
    BY <1>1, <1>2 DEF SettledUnlessCrossed, QuietRows
  <2>2. CASE jobs'[i] = jobs[i]
    BY <1>2, <2>2 DEF SettleInv, SettledUnlessCrossed, SettledByItself
  <2>3. CASE jobs'[i] # jobs[i]
    <3>1. i = r.id /\ Owns(jobs[i], r.worker) /\ jobs'[i] = Settled(jobs[i], r.stage)
      BY <1>1, <2>3
    <3>2. jobs'[i].entity = r.entity /\ jobs'[i].payload = r.text
      BY <1>1, <3>1 DEF SettleInv, RunIsAboutItsRow, QuietRows
    <3>3. QED
      BY <1>2, <1>4, <3>1, <3>2 DEF SettleInv, VerdictReached, SettledByItself
  <2>4. QED
    BY <2>2, <2>3
<1>8. QED
  BY <1>5, <1>6, <1>7 DEF SettleInv, RunIsAboutItsRow, Owns

LEMMA SettleInvSweep ==
  ASSUME TypeOK, SettleInv, NEW w \in Workers, FailExhausted(w)
  PROVE  SettleInv'
<1>1. QuietRows /\ UNCHANGED <<runs, judged, crossed>>
  BY FailExhaustedRows DEF FailExhausted
<1>2. ASSUME NEW i \in DOMAIN jobs
      PROVE  \/ jobs'[i] = jobs[i]
             \/ jobs'[i].state = "failed" /\ jobs'[i].attempts = MaxAttempts
  <2>1. jobs[i] \in Job
    BY RowAt DEF TypeOK
  <2>2. jobs[i].attempts >= MaxAttempts => jobs[i].attempts = MaxAttempts
    BY <2>1, KnobsAssumption DEF Job
  <2>3. jobs'[i] = IF Exhausted(jobs[i]) THEN Failed(jobs[i]) ELSE jobs[i]
    BY DEF FailExhausted
  <2>4. QED
    BY <2>1, <2>2, <2>3, RowOperatorsKeep DEF Exhausted
<1>3. RunsWereCounted' /\ VerdictReached'
  <2>1. \A i \in DOMAIN jobs : jobs[i].attempts \in Nat /\ jobs'[i].attempts >= jobs[i].attempts
    BY <1>1, RowAt DEF TypeOK, QuietRows
  <2> QED
    BY <1>1, <2>1 DEF SettleInv, RunsWereCounted, VerdictReached, TypeOK
<1>4. RunIsAboutItsRow'
  BY <1>1, <1>2, SMTT(30) DEF SettleInv, RunIsAboutItsRow, QuietRows, TypeOK, Owns
<1>5. SettledUnlessCrossed'
  BY <1>1, <1>2 DEF SettleInv, SettledUnlessCrossed, SettledByItself, QuietRows
<1>6. QED
  BY <1>3, <1>4, <1>5 DEF SettleInv

LEMMA SettleInvJob ==
  ASSUME TypeOK, SettleInv, NEW r \in runs, JobStep(r)
  PROVE  SettleInv'
<1>1. r \in Run
  BY DEF TypeOK
<1>2. ASSUME NEW s \in Stages, Advance(r, s), UNCHANGED <<jobs, crossed>>, judged \subseteq judged',
             s = "ack" => \/ <<r.entity, r.text, "saved">> \in judged'
                         \/ <<r.entity, r.text, "nothing">> \in judged',
             s = "fail" => <<r.entity, r.text, "rejected">> \in judged'
      PROVE  SettleInv'
  <2> DEFINE q == [r EXCEPT !.stage = s]
  <2>1. q.worker = r.worker /\ q.id = r.id /\ q.entity = r.entity /\ q.text = r.text /\ q.stage = s
    BY <1>1 DEF Run
  <2>2. runs' = (runs \ {r}) \cup {q}
    BY <1>2 DEF Advance
  <2> HIDE DEF q
  <2>3. QED
    BY <1>2, <2>1, <2>2, SettleInvWork
<1>3. CASE Resolve(r)
  BY <1>2, <1>3 DEF Resolve, Judge, Stages
<1>4. CASE Retry(r)
  <2> DEFINE again == [r EXCEPT !.stage = "generate", !.tries = @ + 1]
  <2>1. CASE runs' = (runs \ {r}) \cup {again}
    <3>1. /\ again.worker = r.worker /\ again.id = r.id /\ again.entity = r.entity
          /\ again.text = r.text /\ again.stage = "generate"
      BY <1>1 DEF Run
    <3> HIDE DEF again
    <3>2. QED
      BY <1>4, <2>1, <3>1, SettleInvWork DEF Retry
  <2>2. CASE Advance(r, "release")
    BY <1>2, <1>4, <2>2 DEF Retry, Stages
  <2>3. QED
    BY <1>4, <2>1, <2>2 DEF Retry
<1>5. CASE Reject(r)
  BY <1>2, <1>5 DEF Reject, Judge, Stages
<1>6. CASE DeleteStored(r)
  <2> DEFINE q == [r EXCEPT !.stage = "insert", !.inserted = 0]
  <2>1. q.worker = r.worker /\ q.id = r.id /\ q.entity = r.entity /\ q.text = r.text /\ q.stage = "insert"
    BY <1>1 DEF Run
  <2>2. runs' = (runs \ {r}) \cup {q} /\ UNCHANGED <<jobs, judged, crossed>>
    BY <1>6 DEF DeleteStored
  <2> HIDE DEF q
  <2>3. QED
    BY <2>1, <2>2, SettleInvWork
<1>7. CASE InsertStored(r)
  <2> DEFINE q == [r EXCEPT !.inserted = @ + 1]
  <2>1. CASE Advance(r, "ack") /\ Judge(r, "saved")
    BY <1>2, <1>7, <2>1 DEF InsertStored, Judge, Stages
  <2>2. CASE runs' = (runs \ {r}) \cup {q} /\ UNCHANGED judged
    <3>1. q.worker = r.worker /\ q.id = r.id /\ q.entity = r.entity /\ q.text = r.text /\ q.stage = "insert"
      BY <1>1, <1>7 DEF Run, InsertStored
    <3>2. UNCHANGED <<jobs, crossed>>
      BY <1>7 DEF InsertStored
    <3> HIDE DEF q
    <3>3. QED
      BY <2>2, <3>1, <3>2, SettleInvWork
  <2>3. QED
    BY <1>7, <2>1, <2>2 DEF InsertStored
<1>8. CASE Settle(r)
  BY <1>8, SettleInvSettle
<1>9. QED
  BY <1>3, <1>4, <1>5, <1>6, <1>7, <1>8 DEF JobStep

LEMMA SettleInvStep ==
  ASSUME TypeOK, SettleInv, [Next]_vars
  PROVE  SettleInv'
<1>1. CASE UNCHANGED vars
  BY <1>1, SameRows, SettleInvQuiet DEF vars
<1>2. ASSUME NEW e \in Entities, Enqueue(e) PROVE SettleInv'
  BY <1>2, SettleInvEnqueue
<1>3. ASSUME NEW w \in Workers, Start(w) \/ Stop(w) \/ Exit(w) \/ Crash(w) PROVE SettleInv'
  BY <1>3, SameRows, SettleInvQuiet DEF Start, Stop, Exit, Crash
<1>4. ASSUME NEW w \in Workers, Claim(w) PROVE SettleInv'
  BY <1>4, SettleInvClaim
<1>5. ASSUME NEW w \in Workers, FailExhausted(w) PROVE SettleInv'
  BY <1>5, SettleInvSweep
<1>6. ASSUME NEW r \in runs, JobStep(r) PROVE SettleInv'
  BY <1>6, SettleInvJob
<1>7. ASSUME NEW i \in DOMAIN jobs, BackoffElapses(i) \/ LeaseExpires(i) PROVE SettleInv'
  <2>1. UNCHANGED <<runs, judged, crossed>>
    BY <1>7 DEF BackoffElapses, LeaseExpires
  <2>2. QED
    BY <1>7, <2>1, DeadlineRows, SettleInvQuiet
<1>8. QED
  BY <1>1, <1>2, <1>3, <1>4, <1>5, <1>6, <1>7 DEF Next

(* No row is settled by an outcome of another text, but one that its process *)
(* claimed anew while it still worked on the older text: whatever number of  *)
(* processes share the table, however many jobs each runs at once, however   *)
(* they crash, leases expire and edits arrive (SettledUnlessCrossed).        *)
THEOREM RowsAreSettledByTheirText == Spec => []SettledUnlessCrossed
<1>1. Init => SettleInv
  BY DEF Init, SettleInv, RunIsAboutItsRow, RunsWereCounted, VerdictReached, SettledUnlessCrossed
<1>2. TypeOK /\ SettleInv /\ [Next]_vars => SettleInv'
  BY SettleInvStep
<1>3. SettleInv => SettledUnlessCrossed
  BY DEF SettleInv
<1>4. QED
  BY <1>1, <1>2, <1>3, TypeCorrect, PTL DEF Spec

-----------------------------------------------------------------------------
(* The refinement of EmbeddingPromise.  OneOutstanding makes owedBy the      *)
(* payload, attempts and crossing of the entity's outstanding row.           *)

Owes(i) == [text |-> jobs[i].payload, tries |-> jobs[i].attempts, crossed |-> i \in crossed]

LEMMA OwedByRow ==
  ASSUME OneOutstanding, NEW e \in Entities
  PROVE  /\ OutstandingIds(e) = {} => owedBy[e] = [text |-> 0, tries |-> 0, crossed |-> FALSE]
         /\ \A i \in OutstandingIds(e) : owedBy[e] = Owes(i)
<1>1. \A i, j \in OutstandingIds(e) : i = j
  BY DEF OneOutstanding, OutstandingIds
<1>2. ASSUME NEW i \in OutstandingIds(e)
      PROVE  owedBy[e] = Owes(i)
  <2>1. (CHOOSE j \in OutstandingIds(e) : TRUE) = i
    BY <1>1
  <2> QED
    BY <2>1 DEF owedBy, Owes
<1> QED
  BY <1>2 DEF owedBy

LEMMA OwedByRowNext ==
  ASSUME OneOutstanding', NEW e \in Entities
  PROVE  /\ OutstandingIds(e)' = {} => owedBy'[e] = [text |-> 0, tries |-> 0, crossed |-> FALSE]
         /\ \A i \in OutstandingIds(e)' : owedBy'[e] = Owes(i)'
<1>1. \A i, j \in OutstandingIds(e)' : i = j
  BY DEF OneOutstanding, OutstandingIds
<1>2. ASSUME NEW i \in OutstandingIds(e)'
      PROVE  owedBy'[e] = Owes(i)'
  <2>1. (CHOOSE j \in OutstandingIds(e)' : TRUE) = i
    BY <1>1
  <2> QED
    BY <2>1 DEF owedBy, Owes
<1> QED
  BY <1>2 DEF owedBy

LEMMA OwedFunction ==
  /\ owedBy = [e \in Entities |-> owedBy[e]]
  /\ owedBy' = [e \in Entities |-> owedBy'[e]]
  BY DEF owedBy

(* A step that neither settles nor recounts e's rows leaves what is owed.    *)
LEMMA SameOwed ==
  ASSUME OneOutstanding, OneOutstanding', NEW e \in Entities, DOMAIN jobs' = DOMAIN jobs,
         \A i \in DOMAIN jobs :
           /\ jobs'[i].entity = jobs[i].entity
           /\ jobs[i].entity = e =>
                /\ Outstanding(jobs'[i]) <=> Outstanding(jobs[i])
                /\ Outstanding(jobs[i]) => Owes(i)' = Owes(i)
  PROVE  owedBy'[e] = owedBy[e]
<1>1. OutstandingIds(e)' = OutstandingIds(e)
  BY DEF OutstandingIds
<1>2. CASE OutstandingIds(e) = {}
  BY <1>1, <1>2, OwedByRow, OwedByRowNext
<1>3. ASSUME NEW i \in OutstandingIds(e)
      PROVE  owedBy'[e] = owedBy[e]
  <2>1. Owes(i)' = Owes(i)
    BY <1>3 DEF OutstandingIds
  <2> QED
    BY <1>1, <2>1, OwedByRow, OwedByRowNext
<1> QED
  BY <1>2, <1>3

(* The runs' texts are texts that were accepted. *)
TextsWereAccepted == \A r \in runs : r.text \in 1..newest[r.entity]

LEMMA TextsStep ==
  ASSUME TypeOK, TypeOK', NewestTextQueued, TextsWereAccepted, [Next]_vars
  PROVE  TextsWereAccepted'
<1>0. /\ \A e \in Entities : newest[e] \in Nat
      /\ \A r \in runs : r.entity \in Entities
  BY KnobsAssumption DEF TypeOK, Run
<1>1. CASE UNCHANGED newest /\ \A q \in runs' : \E r \in runs : q.text = r.text /\ q.entity = r.entity
  BY <1>1 DEF TextsWereAccepted
<1>2. ASSUME NEW e \in Entities, Enqueue(e)
      PROVE  TextsWereAccepted'
  <2>1. newest' = [newest EXCEPT ![e] = newest[e] + 1] /\ UNCHANGED runs
    BY <1>2 DEF Enqueue
  <2>2. \A x \in Entities : newest'[x] \in Nat /\ newest'[x] >= newest[x]
    BY <1>0, <2>1 DEF TypeOK
  <2> QED
    BY <1>0, <2>1, <2>2 DEF TextsWereAccepted
<1>3. ASSUME NEW w \in Workers, Claim(w)
      PROVE  TextsWereAccepted'
  <2>1. UNCHANGED newest
    BY <1>3 DEF Claim
  <2>2. ASSUME NEW q \in runs', q \notin runs
        PROVE  q.text \in 1..newest[q.entity]
    <3>1. PICK i \in DOMAIN jobs : Claimable(jobs[i]) /\ q = ClaimedRun(w, i)
      BY <1>3, <2>2 DEF Claim
    <3>2. jobs[i] \in Job /\ q.text = jobs[i].payload /\ q.entity = jobs[i].entity
      BY <3>1, RowAt DEF TypeOK, ClaimedRun
    <3>3. jobs[i].payload = newest[jobs[i].entity] /\ jobs[i].payload \in Nat \ {0}
      BY <3>1, <3>2, KnobsAssumption DEF NewestTextQueued, Claimable, Job, Versions
    <3> QED
      BY <3>2, <3>3
  <2> QED
    BY <2>1, <2>2 DEF TextsWereAccepted
<1>4. ASSUME NEW r \in runs, JobStep(r)
      PROVE  TextsWereAccepted'
  <2>0. r \in Run
    BY DEF TypeOK
  <2>1. \A s : [r EXCEPT !.stage = s].text = r.text /\ [r EXCEPT !.stage = s].entity = r.entity
    BY <2>0 DEF Run
  <2>3. UNCHANGED newest
    BY <1>4 DEF JobStep, Resolve, Retry, Reject, DeleteStored, InsertStored, Settle
  <2>4. \A q \in runs' : q \in runs \/ (q.text = r.text /\ q.entity = r.entity)
    <3>1. ASSUME NEW s, Advance(r, s)
          PROVE  \A q \in runs' : q \in runs \/ (q.text = r.text /\ q.entity = r.entity)
      BY <2>1, <3>1 DEF Advance
    <3>2. CASE Retry(r)
      <4> DEFINE again == [r EXCEPT !.stage = "generate", !.tries = @ + 1]
      <4>1. again.text = r.text /\ again.entity = r.entity
        BY <2>0 DEF Run
      <4> HIDE DEF again
      <4>2. runs' = (runs \ {r}) \cup {again} \/ Advance(r, "release")
        BY <3>2 DEF Retry, again
      <4> QED
        BY <3>1, <4>1, <4>2
    <3>3. CASE Settle(r)
      BY <3>3 DEF Settle
    <3>4. CASE Resolve(r) \/ Reject(r)
      BY <3>1, <3>4 DEF Resolve, Reject
    <3>5. CASE DeleteStored(r)
      <4> DEFINE q == [r EXCEPT !.stage = "insert", !.inserted = 0]
      <4>1. q.text = r.text /\ q.entity = r.entity
        BY <2>0 DEF Run
      <4> HIDE DEF q
      <4> QED
        BY <3>5, <4>1 DEF DeleteStored, q
    <3>6. CASE InsertStored(r)
      <4> DEFINE q == [r EXCEPT !.inserted = @ + 1]
      <4>1. q.text = r.text /\ q.entity = r.entity
        BY <2>0 DEF Run
      <4> HIDE DEF q
      <4>2. runs' = (runs \ {r}) \cup {q} \/ Advance(r, "ack")
        BY <3>6 DEF InsertStored, q
      <4> QED
        BY <3>1, <4>1, <4>2
    <3> QED
      BY <1>4, <3>2, <3>3, <3>4, <3>5, <3>6 DEF JobStep
  <2> QED
    BY <1>1, <2>3, <2>4
<1>5. ASSUME \/ UNCHANGED vars
             \/ \E w \in Workers : Start(w) \/ FailExhausted(w) \/ Stop(w) \/ Exit(w) \/ Crash(w)
             \/ \E i \in DOMAIN jobs : BackoffElapses(i) \/ LeaseExpires(i)
      PROVE  TextsWereAccepted'
  <2>1. UNCHANGED newest /\ runs' \subseteq runs
    BY <1>5 DEF vars, Start, FailExhausted, Stop, Exit, Crash, BackoffElapses, LeaseExpires
  <2> QED
    BY <1>1, <2>1
<1> QED
  BY <1>2, <1>3, <1>4, <1>5 DEF Next

-----------------------------------------------------------------------------
(* Every step maps to a step of the promise or to a stutter. *)

PromiseInv == /\ TypeOK
              /\ OneOutstanding
              /\ NewestTextQueued
              /\ SettleInv
              /\ TextsWereAccepted

LEMMA EnqueueKeepsPromise ==
  ASSUME PromiseInv, PromiseInv', NEW e \in Entities, Enqueue(e)
  PROVE  Promise!Accept(e)
<1> DEFINE v == newest[e] + 1
<1>1. EnqueuedRows(e) /\ UNCHANGED <<judged, crossed>> /\ newest[e] < MaxVersion
  BY EnqueueRows DEF PromiseInv, Enqueue
<1>2. \A i \in DOMAIN jobs : jobs[i] \in Job
  BY RowAt DEF PromiseInv, TypeOK
<1>3. v \in Versions /\ newest \in [Entities -> 0..MaxVersion]
  BY <1>1, KnobsAssumption DEF PromiseInv, TypeOK, Versions
<1>4. \E i \in OutstandingIds(e)' :
        Owes(i)' = [text |-> v, tries |-> owedBy[e].tries, crossed |-> owedBy[e].crossed]
  <2>1. CASE OutstandingIds(e) = {}
    <3>1. PICK i \in DOMAIN jobs' : i \notin DOMAIN jobs
      BY <1>1, <2>1 DEF EnqueuedRows
    <3>2. jobs'[i] = NewJob(e, v)
      BY <1>1, <3>1 DEF EnqueuedRows
    <3>3. /\ jobs'[i].entity = e /\ Outstanding(jobs'[i])
          /\ Owes(i)' = [text |-> v, tries |-> 0, crossed |-> FALSE]
      <4>1. i \notin crossed'
        BY <1>1, <3>1 DEF PromiseInv, TypeOK
      <4>2. (i \in crossed') = FALSE
        BY <4>1
      <4>3. Owes(i)' = [text |-> v, tries |-> 0, crossed |-> i \in crossed']
        BY <3>2 DEF NewJob, Owes
      <4>4. jobs'[i].entity = e /\ Outstanding(jobs'[i])
        BY <3>2 DEF NewJob, Outstanding
      <4> QED
        BY <4>2, <4>3, <4>4, Zenon
    <3>4. owedBy[e].tries = 0 /\ owedBy[e].crossed = FALSE
      BY <2>1, OwedByRow DEF PromiseInv
    <3> QED
      BY <3>1, <3>3, <3>4 DEF OutstandingIds
  <2>2. ASSUME NEW i \in OutstandingIds(e)
        PROVE  \E k \in OutstandingIds(e)' :
                 Owes(k)' = [text |-> v, tries |-> owedBy[e].tries, crossed |-> owedBy[e].crossed]
    <3>1. i \in DOMAIN jobs /\ jobs[i].entity = e /\ i \in DOMAIN jobs'
      BY <1>1, <2>2 DEF OutstandingIds, EnqueuedRows
    <3>2. jobs'[i] = Refresh(jobs[i], v)
      BY <1>1, <2>2, <3>1 DEF EnqueuedRows
    <3>3. /\ jobs'[i].entity = e /\ Outstanding(jobs'[i])
          /\ Owes(i)' = [text |-> v, tries |-> jobs[i].attempts, crossed |-> i \in crossed]
      BY <1>1, <1>2, <1>3, <3>1, <3>2, RowOperatorsKeep DEF Outstanding, Owes
    <3>4. owedBy[e].tries = jobs[i].attempts /\ owedBy[e].crossed = (i \in crossed)
      <4>1. owedBy[e] = Owes(i)
        BY <2>2, OwedByRow DEF PromiseInv
      <4> QED
        BY <4>1 DEF Owes
    <3> QED
      BY <3>1, <3>3, <3>4 DEF OutstandingIds
  <2> QED
    BY <2>1, <2>2
<1>5. owedBy'[e] = [text |-> v, tries |-> owedBy[e].tries, crossed |-> owedBy[e].crossed]
  BY <1>4, OwedByRowNext DEF PromiseInv
<1>6. ASSUME NEW x \in Entities, x # e
      PROVE  owedBy'[x] = owedBy[x]
  <2>1. \A i \in DOMAIN jobs : i \in OutstandingIds(e) => jobs'[i].entity = e /\ jobs[i].entity = e
    BY <1>1, <1>2, <1>3, RowOperatorsKeep DEF EnqueuedRows, OutstandingIds
  <2>2. \A i \in DOMAIN jobs' \ DOMAIN jobs : jobs'[i].entity = e
    BY <1>1 DEF EnqueuedRows, NewJob
  <2>3. \A i \in DOMAIN jobs : i \notin OutstandingIds(e) => jobs'[i] = jobs[i]
    BY <1>1 DEF EnqueuedRows
  <2>4. DOMAIN jobs \subseteq DOMAIN jobs'
    BY <1>1 DEF EnqueuedRows
  <2>5. OutstandingIds(x)' = OutstandingIds(x)
    BY <1>6, <2>1, <2>2, <2>3, <2>4 DEF OutstandingIds
  <2>6. \A i \in OutstandingIds(x) : jobs'[i] = jobs[i]
    BY <1>6, <2>3 DEF OutstandingIds
  <2>7. CASE OutstandingIds(x) = {}
    BY <2>5, <2>7, OwedByRow, OwedByRowNext DEF PromiseInv
  <2>8. ASSUME NEW i \in OutstandingIds(x)
        PROVE  owedBy'[x] = owedBy[x]
    <3>1. Owes(i)' = Owes(i)
      BY <1>1, <2>6, <2>8 DEF Owes
    <3> QED
      BY <2>5, <2>8, <3>1, OwedByRow, OwedByRowNext DEF PromiseInv
  <2> QED
    BY <2>7, <2>8
<1>7. newest' = [newest EXCEPT ![e] = @ + 1]
  BY <1>1 DEF EnqueuedRows
<1>8. owedBy' = [owedBy EXCEPT ![e] = [text |-> newest[e] + 1, tries |-> @.tries, crossed |-> @.crossed]]
  BY <1>5, <1>6, OwedFunction
<1> QED
  BY <1>1, <1>7, <1>8 DEF Promise!Accept

LEMMA ClaimKeepsPromise ==
  ASSUME PromiseInv, PromiseInv', NEW w \in Workers, Claim(w)
  PROVE  \E batch \in SUBSET Entities : Promise!Try(batch)
<1>1. PICK ids \in SUBSET {i \in DOMAIN jobs : Claimable(jobs[i])} :
        /\ jobs' = [i \in DOMAIN jobs |-> IF i \in ids THEN Leased(jobs[i], w) ELSE jobs[i]]
        /\ crossed' = (crossed \ ids) \cup {i \in ids : Crosses(w, i)}
  BY DEF Claim
<1> DEFINE batch == {jobs[i].entity : i \in ids}
           crossing == {jobs[i].entity : i \in {j \in ids : Crosses(w, j)}}
           tried(x) == [text |-> owedBy[x].text, tries |-> owedBy[x].tries + 1, crossed |-> x \in crossing]
<1>2. ASSUME NEW i \in ids
      PROVE  /\ i \in DOMAIN jobs /\ jobs[i] \in Job /\ jobs[i].entity \in Entities
             /\ jobs[i].payload \in Nat \ {0} /\ jobs[i].attempts \in Nat /\ jobs[i].attempts < MaxAttempts
             /\ i \in OutstandingIds(jobs[i].entity)
  <2>1. i \in DOMAIN jobs /\ jobs[i] \in Job
    BY RowAt DEF PromiseInv, TypeOK
  <2> QED
    BY <1>1, <2>1, KnobsAssumption DEF Job, Versions, Claimable, OutstandingIds
<1>3. ASSUME NEW i \in ids, Crosses(w, i)
      PROVE  jobs[i].attempts > 0 /\ jobs[i].payload > 1
  <2>1. PICK r \in runs : r.id = i /\ r.text # jobs[i].payload
    BY <1>3 DEF Crosses, RunsOf
  <2>2. jobs[i].attempts # 0 /\ r.entity = jobs[i].entity
    BY <2>1 DEF PromiseInv, SettleInv, RunsWereCounted, RunIsAboutItsRow
  <2>3. jobs[i].payload = newest[jobs[i].entity]
    BY <1>2 DEF PromiseInv, NewestTextQueued, OutstandingIds
  <2>4. r.text \in 1..newest[r.entity] /\ newest[r.entity] \in Nat
    BY <1>2, <2>2, <2>3 DEF PromiseInv, TextsWereAccepted
  <2> QED
    BY <1>2, <2>1, <2>2, <2>3, <2>4
<1>4. ASSUME NEW i \in ids
      PROVE  LET x == jobs[i].entity
             IN  /\ owedBy[x] = Owes(i)
                 /\ owedBy'[x] = tried(x)
                 /\ x \in crossing <=> Crosses(w, i)
  <2> DEFINE x == jobs[i].entity
  <2>1. owedBy[x] = Owes(i)
    BY <1>2, OwedByRow DEF PromiseInv
  <2>2. jobs'[i] = Leased(jobs[i], w) /\ i \in DOMAIN jobs'
    BY <1>1, <1>2
  <2>3. /\ jobs'[i].entity = x /\ Outstanding(jobs'[i])
        /\ jobs'[i].payload = jobs[i].payload /\ jobs'[i].attempts = jobs[i].attempts + 1
    BY <1>2, <2>2, RowOperatorsKeep DEF Outstanding
  <2>4. owedBy'[x] = Owes(i)'
    BY <1>2, <2>2, <2>3, OwedByRowNext DEF PromiseInv, OutstandingIds
  <2>5. x \in crossing <=> Crosses(w, i)
    <3>1. \A j \in ids : jobs[j].entity = x => j = i
      BY <1>2 DEF PromiseInv, OneOutstanding, OutstandingIds
    <3> QED
      BY <3>1
  <2>6. i \in crossed' <=> Crosses(w, i)
    BY <1>1
  <2> HIDE DEF crossing
  <2>7. owedBy[x].text = jobs[i].payload /\ owedBy[x].tries = jobs[i].attempts
    BY <2>1 DEF Owes
  <2>8. owedBy'[x] = [text |-> jobs[i].payload, tries |-> jobs[i].attempts + 1, crossed |-> x \in crossing]
    <3>1. (x \in crossing) = (i \in crossed')
      BY <2>5, <2>6
    <3>2. Owes(i)' = [text |-> jobs[i].payload, tries |-> jobs[i].attempts + 1, crossed |-> i \in crossed']
      BY <2>3 DEF Owes
    <3> QED
      BY <2>4, <3>1, <3>2, Zenon
  <2> QED
    BY <2>1, <2>5, <2>7, <2>8
<1>5. ASSUME NEW x \in Entities, x \notin batch
      PROVE  owedBy'[x] = owedBy[x]
  <2>1. DOMAIN jobs' = DOMAIN jobs /\ \A j \in DOMAIN jobs : j \notin ids => jobs'[j] = jobs[j]
    BY <1>1
  <2>2. ASSUME NEW j \in DOMAIN jobs
        PROVE  jobs'[j].entity = jobs[j].entity
    <3>1. jobs[j] \in Job
      BY RowAt DEF PromiseInv, TypeOK
    <3> QED
      BY <1>1, <2>1, <3>1, RowOperatorsKeep
  <2>3. ASSUME NEW j \in DOMAIN jobs, jobs[j].entity = x
        PROVE  jobs'[j] = jobs[j] /\ Owes(j)' = Owes(j)
    <3>1. j \notin ids
      BY <1>5, <2>3
    <3>2. jobs'[j] = jobs[j] /\ (j \in crossed' <=> j \in crossed)
      BY <1>1, <2>1, <3>1
    <3>3. (j \in crossed') = (j \in crossed)
      BY <3>2
    <3> QED
      BY <3>2, <3>3, Zenon DEF Owes
  <2> QED
    BY <2>1, <2>2, <2>3, SameOwed DEF PromiseInv
<1>6. batch \in SUBSET Entities /\ \A x \in batch : \E i \in ids : x = jobs[i].entity
  BY <1>2
<1>7. ASSUME NEW x \in batch
      PROVE  owedBy[x].text # 0 /\ owedBy[x].tries < MaxAttempts /\ owedBy'[x] = tried(x)
  <2>1. PICK i \in ids : x = jobs[i].entity
    BY <1>6
  <2>2. owedBy[x] = Owes(i) /\ owedBy'[x] = tried(x)
    BY <1>4, <2>1
  <2>3. owedBy[x].text = jobs[i].payload /\ owedBy[x].tries = jobs[i].attempts
    BY <2>2 DEF Owes
  <2> QED
    BY <1>2, <2>2, <2>3
<1>8. crossing \in SUBSET {x \in batch : owedBy[x].tries > 0 /\ owedBy[x].text > 1}
  <2>1. ASSUME NEW i \in ids, Crosses(w, i)
        PROVE  jobs[i].entity \in batch /\ owedBy[jobs[i].entity].tries > 0 /\ owedBy[jobs[i].entity].text > 1
    <3>1. owedBy[jobs[i].entity] = Owes(i)
      BY <1>4
    <3>2. owedBy[jobs[i].entity].text = jobs[i].payload /\ owedBy[jobs[i].entity].tries = jobs[i].attempts
      BY <3>1 DEF Owes
    <3> QED
      BY <1>3, <2>1, <3>2
  <2> QED
    BY <2>1
<1> HIDE DEF batch, crossing
<1>9. owedBy' = [x \in Entities |-> IF x \in batch THEN tried(x) ELSE owedBy[x]]
  <2>1. \A x \in Entities : owedBy'[x] = IF x \in batch THEN tried(x) ELSE owedBy[x]
    BY <1>5, <1>7
  <2> QED
    BY <2>1, OwedFunction
<1>10. Promise!Try(batch)
  BY <1>6, <1>7, <1>8, <1>9 DEF Promise!Try, Promise!IsOwed, Claim
<1> QED
  BY <1>6, <1>10

LEMMA SweepKeepsPromise ==
  ASSUME PromiseInv, PromiseInv', NEW w \in Workers, FailExhausted(w)
  PROVE  \E batch \in SUBSET Entities : Promise!GiveUp(batch)
<1> DEFINE batch == {e \in Entities : \E i \in OutstandingIds(e) : Exhausted(jobs[i])}
<1>1. /\ DOMAIN jobs' = DOMAIN jobs
      /\ \A i \in DOMAIN jobs : jobs'[i] = IF Exhausted(jobs[i]) THEN Failed(jobs[i]) ELSE jobs[i]
  BY DEF FailExhausted
<1>2. \A i \in DOMAIN jobs : /\ jobs[i] \in Job
                             /\ jobs[i].payload \in Nat \ {0}
                             /\ jobs[i].attempts >= MaxAttempts => jobs[i].attempts = MaxAttempts
                             /\ jobs'[i].entity = jobs[i].entity
  <2>1. \A i \in DOMAIN jobs : jobs[i] \in Job
    BY RowAt DEF PromiseInv, TypeOK
  <2>2. \A i \in DOMAIN jobs : /\ jobs[i].payload \in Nat \ {0}
                               /\ jobs[i].attempts >= MaxAttempts => jobs[i].attempts = MaxAttempts
    BY <2>1, KnobsAssumption DEF Job, Versions
  <2>3. \A i \in DOMAIN jobs : jobs'[i].entity = jobs[i].entity
    BY <1>1, <2>1, RowOperatorsKeep
  <2> QED
    BY <2>1, <2>2, <2>3
<1>3. ASSUME NEW e \in batch
      PROVE  owedBy[e].text # 0 /\ owedBy[e].tries = MaxAttempts /\ owedBy'[e] = [text |-> 0, tries |-> 0, crossed |-> FALSE]
  <2>1. PICK i \in OutstandingIds(e) : Exhausted(jobs[i])
    OBVIOUS
  <2>2. e \in Entities /\ i \in DOMAIN jobs /\ jobs[i].entity = e
    BY <2>1 DEF OutstandingIds
  <2>3. owedBy[e] = Owes(i)
    BY <2>1, <2>2, OwedByRow DEF PromiseInv
  <2>4. OutstandingIds(e)' = {}
    <3>1. jobs'[i].state = "failed"
      BY <1>1, <1>2, <2>1, <2>2, RowOperatorsKeep
    <3>2. \A j \in DOMAIN jobs : jobs[j].entity = e /\ Outstanding(jobs[j]) => j = i
      BY <2>1, <2>2 DEF PromiseInv, OneOutstanding, OutstandingIds
    <3>3. \A j \in DOMAIN jobs : Outstanding(jobs'[j]) => Outstanding(jobs[j])
      BY <1>1 DEF Exhausted
    <3> QED
      BY <1>1, <1>2, <3>1, <3>2, <3>3 DEF OutstandingIds, Outstanding
  <2>5. owedBy'[e] = [text |-> 0, tries |-> 0, crossed |-> FALSE]
    BY <2>2, <2>4, OwedByRowNext DEF PromiseInv
  <2> QED
    BY <1>2, <2>1, <2>2, <2>3, <2>5 DEF Owes, Exhausted
<1>4. ASSUME NEW x \in Entities, x \notin batch
      PROVE  owedBy'[x] = owedBy[x]
  <2>1. \A i \in DOMAIN jobs : jobs[i].entity = x => jobs'[i] = jobs[i] /\ Owes(i)' = Owes(i)
    BY <1>1, <1>4 DEF OutstandingIds, Exhausted, FailExhausted, Owes
  <2> QED
    BY <1>1, <1>2, <2>1, SameOwed DEF PromiseInv
<1>5. batch \in SUBSET Entities
  OBVIOUS
<1> HIDE DEF batch
<1>6. owedBy' = [x \in Entities |-> IF x \in batch THEN [text |-> 0, tries |-> 0, crossed |-> FALSE] ELSE owedBy[x]]
  BY <1>3, <1>4, <1>5, OwedFunction
<1> QED
  BY <1>3, <1>5, <1>6 DEF Promise!GiveUp, Promise!IsOwed, Promise!Nothing, FailExhausted

LEMMA SettleKeepsPromise ==
  ASSUME PromiseInv, PromiseInv', NEW r \in runs, Settle(r)
  PROVE  \/ UNCHANGED <<newest, owedBy, judged>>
         \/ \E e \in Entities : Promise!Finish(e)
<1>1. /\ QuietRows /\ UNCHANGED <<newest, judged, crossed>>
      /\ \A i \in DOMAIN jobs :
           jobs'[i] # jobs[i] => i = r.id /\ Owns(jobs[i], r.worker) /\ jobs'[i] = Settled(jobs[i], r.stage)
  BY SettleRows DEF PromiseInv, Settle
<1>2. /\ r.stage \in {"ack", "release", "fail"} /\ r.id \in DOMAIN jobs /\ r.entity \in Entities
      /\ \A i \in DOMAIN jobs : jobs[i] \in Job /\ jobs[i].payload \in Nat \ {0}
  <2>1. \A i \in DOMAIN jobs : jobs[i] \in Job
    BY RowAt DEF PromiseInv, TypeOK
  <2>2. \A i \in DOMAIN jobs : jobs[i].payload \in Nat \ {0}
    BY <2>1, KnobsAssumption DEF Job, Versions
  <2>3. r \in Run /\ r.id \in DOMAIN jobs
    BY DEF PromiseInv, TypeOK
  <2> QED
    BY <2>1, <2>2, <2>3 DEF Run, Settle
<1> DEFINE k == r.id
           e == r.entity
<1>3. jobs[k].entity = e /\ (Owns(jobs[k], r.worker) => jobs[k].payload = r.text \/ k \in crossed)
  BY DEF PromiseInv, SettleInv, RunIsAboutItsRow
<1>4. ASSUME NEW x \in Entities, x # e \/ jobs'[k] = jobs[k] \/ r.stage = "release"
      PROVE  owedBy'[x] = owedBy[x]
  <2>1. ASSUME NEW j \in DOMAIN jobs, jobs[j].entity = x
        PROVE  /\ Outstanding(jobs'[j]) <=> Outstanding(jobs[j])
               /\ Owes(j)' = Owes(j)
    <3>1. CASE jobs'[j] = jobs[j]
      BY <1>1, <3>1 DEF Owes
    <3>2. CASE jobs'[j] # jobs[j]
      <4>1. j = k /\ Owns(jobs[j], r.worker) /\ jobs'[j] = Released(jobs[j])
        BY <1>1, <1>3, <1>4, <2>1, <3>2 DEF Settled
      <4> QED
        BY <1>1, <1>2, <4>1, RowOperatorsKeep DEF Outstanding, Owns, Owes
    <3> QED
      BY <3>1, <3>2
  <2> QED
    BY <1>1, <2>1, SameOwed DEF PromiseInv, QuietRows
<1>5. CASE jobs'[k] = jobs[k] \/ r.stage = "release"
  BY <1>1, <1>4, <1>5, OwedFunction
<1>6. CASE jobs'[k] # jobs[k] /\ r.stage # "release"
  <2>1. Owns(jobs[k], r.worker) /\ jobs'[k] = Settled(jobs[k], r.stage)
    BY <1>1, <1>2, <1>6
  <2>2. k \in OutstandingIds(e)
    BY <1>2, <1>3, <2>1 DEF Owns, OutstandingIds, Outstanding
  <2>3. owedBy[e] = Owes(k) /\ (jobs[k].payload = r.text \/ k \in crossed)
    BY <1>2, <1>3, <2>1, <2>2, OwedByRow DEF PromiseInv
  <2>4. \E verdict \in Verdicts : <<e, r.text, verdict>> \in judged
    BY <1>2, <1>6 DEF PromiseInv, SettleInv, VerdictReached, Verdicts
  <2>5. OutstandingIds(e)' = {}
    <3>1. ~Outstanding(jobs'[k])
      BY <1>2, <1>6, <2>1, RowOperatorsKeep DEF Settled, Outstanding
    <3>2. \A j \in DOMAIN jobs : jobs[j].entity = e /\ Outstanding(jobs[j]) => j = k
      BY <2>2 DEF PromiseInv, OneOutstanding, OutstandingIds
    <3>3. \A j \in DOMAIN jobs : j # k => jobs'[j] = jobs[j]
      BY <1>1
    <3> QED
      BY <1>1, <3>1, <3>2, <3>3 DEF OutstandingIds, QuietRows
  <2>6. owedBy'[e] = [text |-> 0, tries |-> 0, crossed |-> FALSE]
    BY <1>2, <2>5, OwedByRowNext DEF PromiseInv
  <2>7. owedBy' = [owedBy EXCEPT ![e] = [text |-> 0, tries |-> 0, crossed |-> FALSE]]
    BY <1>2, <1>4, <2>6, OwedFunction
  <2>8. owedBy[e].text = jobs[k].payload /\ owedBy[e].text # 0 /\ owedBy[e].crossed = (k \in crossed)
    BY <1>2, <2>3 DEF Owes
  <2>10. r.text \in 1..jobs[k].payload /\ r.text \in 1..MaxVersion
    <3>1. jobs[k].payload = newest[e]
      BY <1>2, <1>3, <2>2 DEF PromiseInv, NewestTextQueued, OutstandingIds
    <3> QED
      BY <3>1 DEF PromiseInv, TextsWereAccepted, TypeOK, Run, Versions
  <2>11. Promise!MaySettle(e, r.text)
    BY <2>3, <2>8, <2>10 DEF Promise!MaySettle
  <2>9. Promise!Finish(e)
    BY <1>1, <2>4, <2>7, <2>8, <2>10, <2>11 DEF Promise!Finish, Promise!IsOwed, Promise!Nothing, Verdicts
  <2> QED
    BY <1>2, <2>9
<1> QED
  BY <1>5, <1>6

LEMMA JobKeepsPromise ==
  ASSUME PromiseInv, PromiseInv', NEW r \in runs, JobStep(r)
  PROVE  \/ UNCHANGED <<newest, owedBy, judged>>
         \/ \E e \in Entities : Promise!Finish(e)
         \/ \E e \in Entities, v \in 1..MaxVersion, verdict \in Verdicts : Promise!Judge(e, v, verdict)
<1>1. CASE Settle(r)
  BY <1>1, SettleKeepsPromise
<1>2. CASE ~Settle(r)
  <2>1. UNCHANGED <<jobs, newest, crossed>>
    BY <1>2 DEF JobStep, Resolve, Retry, Reject, DeleteStored, InsertStored
  <2>2. UNCHANGED owedBy
    BY <2>1 DEF owedBy, OutstandingIds
  <2>3. \/ UNCHANGED judged
        \/ \E verdict \in Verdicts : judged' = judged \cup {<<r.entity, r.text, verdict>>}
    BY <1>2 DEF JobStep, Resolve, Retry, Reject, DeleteStored, InsertStored, Judge, Verdicts
  <2>4. r.entity \in Entities /\ r.text \in 1..MaxVersion /\ r.text \in 1..newest[r.entity]
    BY DEF PromiseInv, TypeOK, TextsWereAccepted, Run, Versions
  <2>5. ASSUME NEW verdict \in Verdicts, judged' = judged \cup {<<r.entity, r.text, verdict>>}
        PROVE  Promise!Judge(r.entity, r.text, verdict)
    BY <2>1, <2>2, <2>4, <2>5 DEF Promise!Judge
  <2> QED
    BY <2>1, <2>2, <2>3, <2>4, <2>5
<1> QED
  BY <1>1, <1>2

LEMMA StepKeepsPromise ==
  ASSUME PromiseInv, PromiseInv', [Next]_vars
  PROVE  [Promise!Next]_Promise!vars
<1>1. ASSUME NEW e \in Entities, Enqueue(e)
      PROVE  Promise!Next
  BY <1>1, EnqueueKeepsPromise DEF Promise!Next
<1>2. ASSUME NEW w \in Workers, Claim(w)
      PROVE  Promise!Next
  BY <1>2, ClaimKeepsPromise DEF Promise!Next
<1>3. ASSUME NEW w \in Workers, FailExhausted(w)
      PROVE  Promise!Next
  BY <1>3, SweepKeepsPromise DEF Promise!Next
<1>4. ASSUME NEW r \in runs, JobStep(r)
      PROVE  [Promise!Next]_Promise!vars
  BY <1>4, JobKeepsPromise DEF Promise!Next, Promise!vars
<1>5. ASSUME NEW i \in DOMAIN jobs, BackoffElapses(i) \/ LeaseExpires(i)
      PROVE  UNCHANGED Promise!vars
  <2>1. \A j \in DOMAIN jobs : jobs[j] \in Job
    BY RowAt DEF PromiseInv, TypeOK
  <2>2. /\ QuietRows /\ UNCHANGED <<newest, judged, crossed>>
        /\ \A j \in DOMAIN jobs : jobs'[j].state = jobs[j].state
    BY <1>5, DeadlineRows DEF PromiseInv, BackoffElapses, LeaseExpires
  <2>3. \A j \in DOMAIN jobs : jobs'[j].attempts = jobs[j].attempts
    BY <1>5, <2>1 DEF BackoffElapses, LeaseExpires, Job
  <2>4. \A e \in Entities : owedBy'[e] = owedBy[e]
    BY <2>2, <2>3, SameOwed DEF PromiseInv, QuietRows, Outstanding, Owes
  <2>5. UNCHANGED owedBy
    BY <2>4, OwedFunction
  <2> QED
    BY <2>2, <2>5 DEF Promise!vars
<1>6. ASSUME \/ \E w \in Workers : Start(w) \/ Stop(w) \/ Exit(w) \/ Crash(w)
             \/ UNCHANGED vars
      PROVE  UNCHANGED Promise!vars
  <2>1. UNCHANGED <<jobs, newest, judged, crossed>>
    BY <1>6 DEF Start, Stop, Exit, Crash, vars
  <2> QED
    BY <2>1 DEF Promise!vars, owedBy, OutstandingIds
<1> QED
  BY <1>1, <1>2, <1>3, <1>4, <1>5, <1>6 DEF Next

(* The table, its leases and its workers implement the promise, for any       *)
(* number of entities, processes, intake workers, attempts and edits: an      *)
(* accepted text leaves the queue only by a verdict on itself, by a newer     *)
(* text, or after MaxAttempts tries; on an older text only after a crossing.  *)
THEOREM QueueKeepsItsPromise == Spec => KeepsPromise
<1>1. Init => Promise!Init /\ SettleInv /\ TextsWereAccepted
  <2> SUFFICES ASSUME Init
               PROVE  Promise!Init /\ SettleInv /\ TextsWereAccepted
    OBVIOUS
  <2>1. \A e \in Entities : OutstandingIds(e) = {}
    BY DEF Init, OutstandingIds
  <2>2. owedBy = [e \in Entities |-> [text |-> 0, tries |-> 0, crossed |-> FALSE]]
    BY <2>1 DEF owedBy
  <2> QED
    BY <2>2 DEF Init, Promise!Init, Promise!Nothing, SettleInv, RunIsAboutItsRow,
                RunsWereCounted, VerdictReached, SettledUnlessCrossed, TextsWereAccepted
<1>2. TypeOK /\ SettleInv /\ [Next]_vars => SettleInv'
  BY SettleInvStep
<1>3. TypeOK /\ TypeOK' /\ NewestTextQueued /\ TextsWereAccepted /\ [Next]_vars => TextsWereAccepted'
  BY TextsStep
<1>4. /\ TypeOK /\ OneOutstanding /\ NewestTextQueued /\ SettleInv /\ TextsWereAccepted
      /\ TypeOK' /\ OneOutstanding' /\ NewestTextQueued' /\ SettleInv' /\ TextsWereAccepted'
      /\ [Next]_vars
      => [Promise!Next]_Promise!vars
  BY StepKeepsPromise DEF PromiseInv
<1> QED
  BY <1>1, <1>2, <1>3, <1>4, TypeCorrect, AtMostOneOutstanding, NewestTextIsQueued, PTL
     DEF Spec, KeepsPromise, Promise!Spec
=============================================================================
