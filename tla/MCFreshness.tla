---------------------------- MODULE MCFreshness ----------------------------
(* Values of the constants for model checking. *)
EXTENDS Freshness

CONSTANTS doc, anyMedium, web

On(mediums) == [enabled |-> TRUE, mediums |-> mediums, scope |-> {doc}]
Off         == [enabled |-> FALSE, mediums |-> {}, scope |-> {doc}]

\* One rule for any medium that may be disabled, one for a single medium.
MCForms == [u \in Rules |-> IF u = anyMedium THEN {On({}), Off} ELSE {On({web})}]
=============================================================================
