----------------------------- MODULE PooledLock -----------------------------
(***************************************************************************)
(* A Postgres session advisory lock as it looks to code that takes and     *)
(* releases it through a connection pool.  The lock belongs to the session *)
(* that ran pg_try_advisory_lock, whose connection goes back to the pool   *)
(* after the statement; a session may take it again; the unlock goes to    *)
(* whichever connection the pool hands out and does nothing there if that  *)
(* session does not hold the lock.  One key.                               *)
(***************************************************************************)
EXTENDS Integers

CONSTANTS
  Connections,  \* the open connections of all processes
  MaxHeld       \* bound: how often one session takes the lock again

VARIABLE held   \* how often each session holds the lock

LockType == held \in [Connections -> 0..MaxHeld]

LockInit == held = [c \in Connections |-> 0]

\* The answer of pg_try_advisory_lock on a connection.
Obtainable(c) == \A d \in Connections \ {c} : held[d] = 0

TryLock(c) ==
  /\ Obtainable(c)
  /\ held[c] < MaxHeld
  /\ held' = [held EXCEPT ![c] = @ + 1]

\* Faulty variant: pg_advisory_unlock_all.
UnlockAll(c) == held' = [held EXCEPT ![c] = 0]
Unlock(c) == held' = [held EXCEPT ![c] = IF @ = 0 THEN 0 ELSE @ - 1]

\* Sessions end: their process dies or the pool retires their connections.
EndSessions(ended) == held' = [c \in Connections |-> IF c \in ended THEN 0 ELSE held[c]]
=============================================================================
