-------------------------- MODULE EmbeddingPromise --------------------------
(***************************************************************************)
(* What the durable embedding queue promises its callers, without rows,    *)
(* leases, claims or processes: a text that was accepted stays owed until  *)
(* that very text has got a verdict, or until its entity has been tried    *)
(* MaxAttempts times.  A newer text replaces an owed one and inherits the  *)
(* tries already spent; a verdict on the older one settles it only when    *)
(* the party that works on that one has taken up the newer one as well.    *)
(***************************************************************************)
EXTENDS Integers

CONSTANTS Entities, MaxAttempts, MaxVersion, Verdicts

VARIABLES
  accepted,  \* accepted[e]: the latest version accepted
  owed,      \* owed[e]: Nothing, or the text still owed and its tries
  judged     \* the <<e, v, verdict>> reached so far

vars == <<accepted, owed, judged>>

Nothing == [text |-> 0, tries |-> 0, crossed |-> FALSE]

IsOwed(e) == owed[e].text # 0

Init ==
  /\ accepted = [e \in Entities |-> 0]
  /\ owed = [e \in Entities |-> Nothing]
  /\ judged = {}

Accept(e) ==
  /\ accepted[e] < MaxVersion
  /\ accepted' = [accepted EXCEPT ![e] = @ + 1]
  /\ owed' = [owed EXCEPT ![e] = [text |-> accepted[e] + 1, tries |-> @.tries, crossed |-> @.crossed]]
  /\ UNCHANGED judged

(* A batch of owed texts is tried once more.  A try crosses an earlier one  *)
(* when the same party still works on a text that was replaced since.       *)
Try(batch) ==
  /\ \A e \in batch : IsOwed(e) /\ owed[e].tries < MaxAttempts
  /\ \E crossing \in SUBSET {e \in batch : owed[e].tries > 0 /\ owed[e].text > 1} :
       owed' = [e \in Entities |->
                  IF e \in batch
                  THEN [text |-> owed[e].text, tries |-> owed[e].tries + 1, crossed |-> e \in crossing]
                  ELSE owed[e]]
  /\ UNCHANGED <<accepted, judged>>

Judge(e, v, verdict) ==
  /\ v \in 1..accepted[e]
  /\ judged' = judged \cup {<<e, v, verdict>>}
  /\ UNCHANGED <<accepted, owed>>

(* Only a verdict on the owed text itself settles it, unless tries crossed:  *)
(* then one on an older text may.                                            *)
MaySettle(e, v) == v = owed[e].text \/ (owed[e].crossed /\ v \in 1..owed[e].text)

Finish(e) ==
  /\ IsOwed(e)
  /\ \E v \in 1..MaxVersion, verdict \in Verdicts : MaySettle(e, v) /\ <<e, v, verdict>> \in judged
  /\ owed' = [owed EXCEPT ![e] = Nothing]
  /\ UNCHANGED <<accepted, judged>>

GiveUp(batch) ==
  /\ \A e \in batch : IsOwed(e) /\ owed[e].tries = MaxAttempts
  /\ owed' = [e \in Entities |-> IF e \in batch THEN Nothing ELSE owed[e]]
  /\ UNCHANGED <<accepted, judged>>

Next ==
  \/ \E e \in Entities : Accept(e) \/ Finish(e)
  \/ \E e \in Entities, v \in 1..MaxVersion, verdict \in Verdicts : Judge(e, v, verdict)
  \/ \E batch \in SUBSET Entities : Try(batch) \/ GiveUp(batch)

Spec == Init /\ [][Next]_vars
=============================================================================
