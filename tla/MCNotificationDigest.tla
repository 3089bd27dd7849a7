------------------------ MODULE MCNotificationDigest ------------------------
(* Values of the constants for model checking. *)
EXTENDS NotificationDigest, TLC

CONSTANTS p1, p2, ann, bob, red, blue, annRed, annBlue, bobBlue

\* One process serves two digest requests at a time and has two connections, the other has one of each.
TwoAndOne == [p \in Processes |-> IF p = p1 THEN 2 ELSE 1]

\* Two rows of a user, one of a team with a broken provider: met by runs of two processes, or of one.
TwoTeams == (annRed :> "pending" @@ annBlue :> "absent" @@ bobBlue :> "gone")
Apart == [rows |-> TwoTeams, requests |-> {<<p1, 1>>, <<p2, 1>>}]
Together == [rows |-> TwoTeams, requests |-> {<<p1, 1>>, <<p1, 2>>}]
\* A row that is due later or an unreachable user's, with all requests there are.
DueLater == [rows |-> (annRed :> "gone" @@ annBlue :> "absent" @@ bobBlue :> "gone"), requests |-> Runs]
Unreached == [rows |-> (annRed :> "gone" @@ annBlue :> "gone" @@ bobBlue :> "pending"), requests |-> Runs]
MCLoads == {Apart, Together, DueLater, Unreached}

MCUserOf == [x \in Rows |-> IF x = bobBlue THEN bob ELSE ann]
MCTeamOf == [x \in Rows |-> IF x = annRed THEN red ELSE blue]
=============================================================================
