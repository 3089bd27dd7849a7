--------------------------- MODULE BackgroundRunner ---------------------------
(***************************************************************************)
(* The runner of short tasks after a request has been answered: limited    *)
(* slots, a timeout, tasks that ignore it and are abandoned, and Shutdown. *)
(*                                                                         *)
(* Tasks are counted, not named.  A task passes from running to overdue    *)
(* when its context ends; its function may return at any time or never.    *)
(***************************************************************************)
EXTENDS Integers

CONSTANTS
  Limit  \* cap(r.slots)

ASSUME RunnerAssumption == Limit \in Nat \ {0}

VARIABLES
  running,     \* tasks whose context lives
  overdue,     \* tasks whose context has ended, in their grace
  returned,    \* tasks whose function has returned, their slot not yet free
  abandoning,  \* tasks counted as abandoned, their slot not yet free
  stuck,       \* abandoned tasks whose function still runs
  leaving,     \* abandoned tasks that have returned and are still counted
  closed,      \* r.closed
  drain        \* Shutdown: "idle", "waiting" for the tasks, "cancelled" base, "returned"

tasks == <<running, overdue, returned, abandoning, stuck, leaving>>
shutdown == <<closed, drain>>
runnerVars == <<tasks, shutdown>>

\* Faulty variant: abandon frees the slot first and counts the task later.
FreedFirst == [inSlot |-> 0, counted |-> 0]
\* Between the two steps of abandon a task is counted and still has its slot.
Abandoning == [inSlot |-> abandoning, counted |-> abandoning]

Slots == running + overdue + returned + Abandoning.inSlot
Abandoned == Abandoning.counted + stuck + leaving
\* functions that may not have returned
Outstanding == running + overdue + abandoning + stuck

RunnerInit ==
  /\ running = 0 /\ overdue = 0 /\ returned = 0
  /\ abandoning = 0 /\ stuck = 0 /\ leaving = 0
  /\ closed = FALSE
  /\ drain = "idle"

Accepts == ~closed /\ Abandoned < 4 * Limit /\ Slots < Limit

(* Go: accepted, or dropped *)
Go ==
  /\ running' = IF Accepts THEN running + 1 ELSE running
  /\ UNCHANGED <<overdue, returned, abandoning, stuck, leaving, shutdown>>

FunctionReturns ==
  /\ \/ running > 0 /\ running' = running - 1 /\ UNCHANGED overdue
     \/ overdue > 0 /\ overdue' = overdue - 1 /\ UNCHANGED running
  /\ returned' = returned + 1
  /\ UNCHANGED <<abandoning, stuck, leaving, shutdown>>

(* <-r.slots and wg.Done *)
FreeSlot ==
  /\ returned > 0
  /\ returned' = returned - 1
  /\ UNCHANGED <<running, overdue, abandoning, stuck, leaving, shutdown>>

(* The task's timeout, or the base context cancelled by Shutdown *)
ContextEnds ==
  /\ running > 0
  /\ running' = running - 1
  /\ overdue' = overdue + 1
  /\ UNCHANGED <<returned, abandoning, stuck, leaving, shutdown>>

(* The grace is over; the function may have returned in the same moment *)
Abandon ==
  /\ \/ overdue > 0 /\ overdue' = overdue - 1 /\ UNCHANGED returned
     \/ returned > 0 /\ returned' = returned - 1 /\ UNCHANGED overdue
  /\ abandoning' = abandoning + 1
  /\ UNCHANGED <<running, stuck, leaving, shutdown>>

AbandonFreesSlot ==
  /\ abandoning > 0
  /\ abandoning' = abandoning - 1
  /\ stuck' = stuck + 1
  /\ UNCHANGED <<running, overdue, returned, leaving, shutdown>>

StuckReturns ==
  /\ stuck > 0
  /\ stuck' = stuck - 1
  /\ leaving' = leaving + 1
  /\ UNCHANGED <<running, overdue, returned, abandoning, shutdown>>

StopsCounting ==
  /\ leaving > 0
  /\ leaving' = leaving - 1
  /\ UNCHANGED <<running, overdue, returned, abandoning, stuck, shutdown>>

Tasks ==
  \/ FunctionReturns \/ FreeSlot \/ ContextEnds
  \/ Abandon \/ AbandonFreesSlot \/ StuckReturns \/ StopsCounting

BeginShutdown ==
  /\ drain = "idle"
  /\ drain' = "waiting"
  /\ closed' = TRUE
  /\ UNCHANGED tasks

(* The caller's context ends: cancel and wait on *)
CancelTasks ==
  /\ drain = "waiting"
  /\ drain' = "cancelled"
  /\ UNCHANGED <<tasks, closed>>

NoneLeft == Slots = 0

ShutdownReturns ==
  /\ drain \in {"waiting", "cancelled"}
  /\ NoneLeft
  /\ drain' = "returned"
  /\ UNCHANGED <<tasks, closed>>

Shutdown == BeginShutdown \/ CancelTasks \/ ShutdownReturns

RunnerNext == Go \/ Tasks \/ Shutdown

RunnerSpec == RunnerInit /\ [][RunnerNext]_runnerVars

-----------------------------------------------------------------------------
RunnerTypeOK ==
  /\ {running, overdue, returned, abandoning, stuck, leaving} \subseteq Nat
  /\ closed \in BOOLEAN
  /\ drain \in {"idle", "waiting", "cancelled", "returned"}

(* However many functions hang, fewer than five times the limit are ever    *)
(* outstanding: a task is counted as abandoned before its slot is free.     *)
(* (The header says 4 * limit; the tasks admitted below that count may all  *)
(* be abandoned later.)                                                     *)
OutstandingIsBounded == Outstanding < 5 * Limit

(* When Shutdown has returned only abandoned tasks are left, and no later   *)
(* Go is let in.                                                            *)
NothingOutlivesDrain == drain = "returned" => Slots = 0
=============================================================================
