------------------------------ MODULE MCTasks -------------------------------
(***************************************************************************)
(* Tasks, their rate and their schedules, and the limits of requests, each *)
(* on its own: a behaviour is one of the chosen part.  All parts are at    *)
(* rest initially and only the chosen one moves, so the fairness of the    *)
(* others asks for nothing.                                                *)
(***************************************************************************)
EXTENDS TaskRunner, Scheduler, RateLimiter

VARIABLE part   (* the component that runs *)

vars == <<part, taskVars, gateVars, schedVars, limVars>>

Init ==
  /\ part \in {"task", "gate", "sched", "limit"}
  /\ TaskInit /\ GateInit /\ SchedInit /\ LimInit

Next ==
  \/ /\ part = "task" /\ TaskNext
     /\ UNCHANGED <<part, gateVars, schedVars, limVars>>
  \/ /\ part = "gate" /\ GateNext
     /\ UNCHANGED <<part, taskVars, schedVars, limVars>>
  \/ /\ part = "sched" /\ SchedNext
     /\ UNCHANGED <<part, taskVars, gateVars, limVars>>
  \/ /\ part = "limit" /\ LimNext
     /\ UNCHANGED <<part, taskVars, gateVars, schedVars>>

Spec ==
  /\ Init /\ [][Next]_vars
  /\ TaskFairness /\ GateFairness /\ SchedFairness
  /\ LimFairness

(* Neither the gate of a runner nor the limiter of requests lets through   *)
(* more than its rate, with fetches that block, counters that others       *)
(* change and requests that are held up (consumeWrapper, Enforce).         *)
RatesKept ==
  /\ [](GateTypeOK /\ StartsBounded)
  /\ [](LimTypeOK /\ RateKept /\ WaitersBounded /\ QueueExact)
  /\ OnlyLateSetsBack

(* Tasks are settled, runs of a schedule go on, a sleeping gate opens and  *)
(* Enforce returns, whatever was redelivered, lost or retried              *)
(* (ServeJetstream, ScheduledRunner.Run, consumeWrapper, Enforce).         *)
TasksEnd == TasksSettle /\ RunsGoOn /\ GateReopens /\ EnforceReturns
=============================================================================
