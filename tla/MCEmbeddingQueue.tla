-------------------------- MODULE MCEmbeddingQueue --------------------------
(* Small instances of EmbeddingQueue for TLC. *)
EXTENDS EmbeddingQueue

\* The surviving process runs two jobs at once, so that it can meet itself.
TwoForSurvivors == [w \in Workers |-> IF w \in Survivors THEN 2 ELSE 1]

(* No guard and no checked property reads stored: two states that differ     *)
(* only there have the same futures, and TLC explores one of them.           *)
AllButStored == <<jobs, proc, runs, newest, judged, crossed>>
=============================================================================
