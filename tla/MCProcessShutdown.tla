------------------------- MODULE MCProcessShutdown -------------------------
(* Small instances of ProcessShutdown for TLC: a new user whose team's      *)
(* project is published by a handler, feed items that are embedded and      *)
(* notified of, and a request that mails.                                   *)
EXTENDS ProcessShutdown

CONSTANTS signup, project, item1, item2, item3, team, notify, embed

MCSubscribed ==
  [e \in Events |->
     CASE e = signup -> <<team>> [] e = project -> <<>> [] OTHER -> <<embed, notify>>]
MCCauses == [d \in Deliveries |-> IF d = <<signup, team>> THEN project ELSE NoEvent]
MCLoads ==
  {[publishes |-> {signup, project, item1}, mails |-> FALSE],
   [publishes |-> {item1, item2}, mails |-> FALSE],
   [publishes |-> {item1}, mails |-> TRUE]}
=============================================================================
