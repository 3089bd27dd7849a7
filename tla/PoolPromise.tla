----------------------------- MODULE PoolPromise -----------------------------
(***************************************************************************)
(* What a worker pool promises those who submit and close, without         *)
(* goroutines, locks or wakeups: tasks start in the order they were        *)
(* accepted, at most Slots at a time; from the first close on nothing more *)
(* is accepted, and a close returns when all that was has run to its end.  *)
(***************************************************************************)
EXTENDS Integers, Sequences

CONSTANTS Tasks, Closers, Slots

VARIABLES
  backlog,  \* the tasks accepted and not started, oldest first
  started,  \* the tasks started, in order
  busy,     \* how many of them are running
  shut,     \* nothing more is accepted
  closer    \* closer[c]: "idle", "joining" or "returned"

vars == <<backlog, started, busy, shut, closer>>

Init ==
  /\ backlog = <<>>
  /\ started = <<>>
  /\ busy = 0
  /\ shut = FALSE
  /\ closer = [c \in Closers |-> "idle"]

Accept(t) ==
  /\ ~shut
  /\ backlog' = Append(backlog, t)
  /\ UNCHANGED <<started, busy, shut, closer>>

Start ==
  /\ backlog # <<>>
  /\ busy < Slots
  /\ backlog' = Tail(backlog)
  /\ started' = Append(started, Head(backlog))
  /\ busy' = busy + 1
  /\ UNCHANGED <<shut, closer>>

End ==
  /\ busy > 0
  /\ busy' = busy - 1
  /\ UNCHANGED <<backlog, started, shut, closer>>

Close(c) ==
  /\ closer[c] = "idle"
  /\ closer' = [closer EXCEPT ![c] = "joining"]
  /\ shut' = TRUE
  /\ UNCHANGED <<backlog, started, busy>>

CloseReturns(c) ==
  /\ closer[c] = "joining"
  /\ backlog = <<>>
  /\ busy = 0
  /\ closer' = [closer EXCEPT ![c] = "returned"]
  /\ UNCHANGED <<backlog, started, busy, shut>>

Next ==
  \/ \E t \in Tasks : Accept(t)
  \/ Start \/ End
  \/ \E c \in Closers : Close(c) \/ CloseReturns(c)

Spec == Init /\ [][Next]_vars
=============================================================================
