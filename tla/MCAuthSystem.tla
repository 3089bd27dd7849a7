---------------------------- MODULE MCAuthSystem ----------------------------
EXTENDS AuthSystem, TLC

CONSTANTS p1, p2, q1, q2, s1, s2

Load(setting, ops, first, writes, until, askers, signers) ==
  [serves |-> setting, ops |-> ops, enabled |-> first, on |-> IF askers \cup signers = {} THEN BOOLEAN ELSE {TRUE},
   mode |-> "open", writes |-> writes, until |-> until, requests |-> askers, signIns |-> signers]

Guards(first) == Load("policy", {"takeAway", "offer", "save", "switchOn"}, first, 2, 0, {}, {})
Lists(writes, until) == Load("allowlist", {"restrict"}, {p1}, writes, until, {q1, q2}, {})
PolicySaves == Load("policy", {"keepOn"}, {p1}, 1, 1, {q1, q2}, {})
Resets == Load("allowlist", {"update", "reset"}, {p1}, 1, 1, {q1}, {})
Builds == Load("policy", {"offer"}, {p1, p2}, 2, 0, {}, {s1, s2})

MCLoads == {Guards({p1}), Guards({p1, p2}), Lists(1, 2), Lists(2, 1), PolicySaves, Resets, Builds}
MCSymmetry == Permutations({q1, q2}) \cup Permutations({s1, s2})
=============================================================================
