--------------------------- MODULE ProcessShutdown ---------------------------
(***************************************************************************)
(* The end of the server process: the signal, the HTTP server's Shutdown   *)
(* with its grace, and main's deferred Container.Close, which stops the    *)
(* event bus and then drains the runner of the account emails.             *)
(*                                                                         *)
(* A request is in flight from before the signal until its event has been  *)
(* published or refused.  The embedding dispatcher's Stop and the          *)
(* scheduler's Close, called in between, are in modules of their own.      *)
(***************************************************************************)
EXTENDS EventBus, BackgroundRunner

CONSTANT
  Loads  \* what the requests in flight do: the events they publish, and whether they mail

ASSUME LoadsAssumption == Loads \subseteq [publishes : SUBSET Events, mails : BOOLEAN]

VARIABLES
  load,       \* the load of this process
  signalled,  \* the context of the process has ended
  grace       \* "given", or "over" 8 s after the signal

busVars == <<event, dispatch, task, breaker, stop, accepted, inlined>>
server == <<signalled, grace>>
systemVars == <<vars, load, server, runnerVars>>

SystemInit ==
  /\ Init
  /\ RunnerInit
  /\ load \in Loads
  /\ signalled = FALSE
  /\ grace = "given"

InFlight == {e \in load.publishes \ Caused : event[e] \in {"new", "sending"}}

Signal ==
  /\ ~signalled
  /\ signalled' = TRUE
  /\ UNCHANGED <<load, grace, busVars, runnerVars>>

GraceEnds ==
  /\ signalled
  /\ grace = "given"
  /\ grace' = "over"
  /\ UNCHANGED <<load, signalled, busVars, runnerVars>>

(* ListenAndServe returns as soon as Shutdown is called *)
ServeReturns == signalled

CloseBegins == ServeReturns /\ BeginStop

CloseDrains == stopper = "returned" /\ BeginShutdown

Exit ==
  /\ drain = "returned"
  /\ ProcessEnds
  /\ UNCHANGED <<load, server, runnerVars>>

BusSteps ==
  \/ \E e \in load.publishes : MayPublish(e) /\ Publish(e)
  \/ Dispatch
  \/ \E d \in Deliveries : Handle(d)
  \/ \E l \in Listeners : BreakerTimesOut(l)
  \/ CloseBegins \/ DispatcherJoined \/ PoolReleased \/ ReleaseTimesOut

RunnerSteps ==
  \/ load.mails /\ InFlight # {} /\ Go
  \/ Tasks
  \/ CloseDrains \/ CancelTasks \/ ShutdownReturns

Bus(A) == A /\ UNCHANGED <<load, server, runnerVars>>
Mails(A) == A /\ UNCHANGED <<load, server, busVars>>

SystemNext ==
  \/ Lives(Bus(BusSteps))
  \/ \E d \in Deliveries : alive /\ Bus(Panics(d))
  \/ Lives(Mails(RunnerSteps))
  \/ Lives(Signal \/ GraceEnds)
  \/ alive /\ Exit

SystemSpec == SystemInit /\ [][SystemNext]_systemVars

(* The goroutines of the bus, of the runner and of main are scheduled,      *)
(* handlers return, contexts and timers end.  Requests may take for ever    *)
(* and so may the functions of the runner.                                  *)
SystemFairness ==
  /\ \A e \in Events : WF_systemVars(Lives(Bus(Send(e))))
  /\ \A e \in Caused : WF_systemVars(Lives(Bus(MayPublish(e) /\ EnterPublish(e))))
  /\ WF_systemVars(Lives(Bus(Dispatch)))
  /\ \A d \in Deliveries : WF_systemVars(Lives(Bus(Handle(d))))
  /\ WF_systemVars(Lives(Bus(CloseBegins \/ DispatcherJoined \/ PoolReleased \/ ReleaseTimesOut)))
  /\ WF_systemVars(Lives(Mails(ContextEnds)))
  /\ WF_systemVars(Lives(Mails(Abandon \/ FreeSlot)))
  /\ WF_systemVars(Lives(Mails(AbandonFreesSlot)))
  /\ WF_systemVars(Lives(Mails(CloseDrains \/ ShutdownReturns)))
  /\ WF_systemVars(alive /\ Exit)

SystemLiveSpec == SystemSpec /\ SystemFairness

-----------------------------------------------------------------------------
(* Once signalled the process ends: not a handler that waits for Stop's     *)
(* lock, not a request that never ends, not a mail function that never      *)
(* returns holds Close up for ever.                                         *)
ExitIsReached == signalled ~> ~alive

(* It does not hold.  Server.Start gives requests 8 seconds "to complete    *)
(* and publish events before Container.Close() drains the event bus", but   *)
(* main goes on to Close as soon as Shutdown is called.                     *)
GraceBeforeDrain ==
  [][stopper = "idle" /\ stopper' = "joining" => grace = "over" \/ InFlight = {}]_systemVars
=============================================================================
