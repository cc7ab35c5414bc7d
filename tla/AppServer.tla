------------------------------ MODULE AppServer ------------------------------
(***************************************************************************)
(* Cluster control of one application service (service/svc_app.go): the    *)
(* initial spawn, the one-second ticker that replaces, limits and scales   *)
(* the instances, and Stop.  What happens inside one instance between its  *)
(* start and its death (drain, deadline, signal, health, load balancer) is *)
(* the module AppProcess; here an instance is running, terminating (its    *)
(* terminateDeadline is set) or dead (its context is cancelled).           *)
(*                                                                         *)
(* An element of Procs stands for an appProcessState.  A dead one that no  *)
(* slice of the program mentions any more is garbage and may be used again *)
(* for the next spawn, so a finite Procs gives unbounded behaviours.       *)
(***************************************************************************)
EXTENDS Integers, FiniteSets, TLC

CONSTANTS
  Procs,            (* identities of instances                              *)
  Cluster,          (* yaml cluster, percentages already resolved           *)
  ClusterMin,       (* yaml cluster_min, likewise                           *)
  AutoScale,        (* yaml auto_scale                                      *)
  AutoScaleStreak,  (* yaml auto_scale_streak after its default             *)
  SlowStart,        (* yaml slow_start                                      *)
  MaxMemory         (* yaml max_memory is positive                          *)

ASSUME ClusterAssumption ==
  /\ IsFiniteSet(Procs)
  /\ Cluster \in Int /\ ClusterMin \in Int
  /\ AutoScaleStreak \in Nat \ {0}
  /\ AutoScale \in BOOLEAN /\ SlowStart \in BOOLEAN /\ MaxMemory \in BOOLEAN

(* The instances are interchangeable (for TLC). *)
Symmetry == Permutations(Procs)

-----------------------------------------------------------------------------
(* Prepare: the two bounds that the ticker works with.                     *)

irange(n) == IF n < 1 THEN 1 ELSE n

cluterN == IF irange(Cluster) < irange(ClusterMin)
           THEN irange(ClusterMin) ELSE irange(Cluster)

clusterMin == IF AutoScale THEN irange(ClusterMin) ELSE cluterN

autoScale == AutoScale /\ cluterN # 1

-----------------------------------------------------------------------------
VARIABLES
  life,       (* per instance: "run", "term" or "dead"                      *)
  processes,  (* run.processes                                              *)
  spawner,    (* where the goroutine that spawns (Start, then tick) is      *)
  list,       (* tick's copy of processes                                   *)
  count,      (* tick's counter of the fill-to-minimum loop                 *)
  upTicks,    (* tick's streak of busy ticks, saturated at the threshold    *)
  downTicks,  (* per instance streak of idle ticks, saturated likewise      *)
  boot,       (* the instance an initial spawn waits for, {} if none        *)
  tickC,      (* a tick waits in the channel of the ticker (capacity 1)     *)
  tickerOn,   (* the ticker has not been stopped                            *)
  stop,       (* Stop: "no", "shutdown", "wait", "done"                     *)
  stopSet,    (* instances whose terminate(ctx) has not returned            *)
  runDone     (* run.Context is cancelled                                   *)

tickVars == <<spawner, list, count, upTicks, boot>>
stopVars == <<tickerOn, stop, stopSet, runDone>>
serverVars == <<life, processes, spawner, list, count, upTicks, downTicks, boot,
          tickC, tickerOn, stop, stopSet, runDone>>

Running == {p \in Procs : life[p] = "run"}
Live    == {p \in Procs : life[p] # "dead"}

TickSteps == {"init", "initReady", "failed", "idle", "first", "firstReady",
       "mem", "min", "scale", "grow", "shrink", "exited"}

(* The values of the instances, of the slice and of the ticker's locals. *)
ServerTypeOK ==
  /\ life \in [Procs -> {"run", "term", "dead"}]
  /\ processes \subseteq Procs /\ list \subseteq Procs
  /\ boot \subseteq Procs /\ stopSet \subseteq Procs
  /\ spawner \in TickSteps
  /\ count \in Nat
  /\ upTicks \in 0..AutoScaleStreak
  /\ downTicks \in [Procs -> 0..AutoScaleStreak]
  /\ tickC \in BOOLEAN /\ tickerOn \in BOOLEAN /\ runDone \in BOOLEAN
  /\ stop \in {"no", "shutdown", "wait", "done"}

ServerInit ==
  /\ life = [p \in Procs |-> "dead"]
  /\ processes = {} /\ list = {} /\ boot = {} /\ stopSet = {}
  /\ spawner = "init"
  /\ count = 0 /\ upTicks = 0
  /\ downTicks = [p \in Procs |-> 0]
  /\ tickC = FALSE /\ tickerOn = TRUE
  /\ stop = "no"
  /\ runDone = FALSE

-----------------------------------------------------------------------------
(* spawnProcess.                                                           *)

(* The part up to run.processes = append(run.processes, state).  A command *)
(* whose context is cancelled does not start.                              *)
Launch(p) ==
  /\ ~runDone
  /\ p \notin Live \cup processes \cup list \cup stopSet
  /\ life' = [life EXCEPT ![p] = "run"]
  /\ processes' = processes \cup {p}
  /\ downTicks' = [downTicks EXCEPT ![p] = 0]

(* spawnProcess(true), from Start's init or from the ticker.               *)
SpawnFirst(p) ==
  /\ spawner \in {"init", "first"}
  /\ Launch(p)
  /\ boot' = {p}
  /\ spawner' = IF spawner = "init" THEN "initReady" ELSE "firstReady"
  /\ UNCHANGED <<list, count, upTicks, tickC>> /\ UNCHANGED stopVars

(* It returns an error before the instance exists: rundown, createCmd, no  *)
(* address, cmd.Start.                                                     *)
SpawnFirstFails ==
  /\ spawner \in {"init", "first"}
  /\ spawner' = IF spawner = "init" THEN "failed" ELSE "idle"
  /\ UNCHANGED <<life, processes, list, count, upTicks, downTicks, boot, tickC>>
  /\ UNCHANGED stopVars

(* The health check of the waiting loop succeeds.                          *)
FirstReady ==
  /\ spawner \in {"initReady", "firstReady"}
  /\ boot \subseteq Live
  /\ spawner' = "idle" /\ boot' = {}
  /\ UNCHANGED <<life, processes, list, count, upTicks, downTicks, tickC>>
  /\ UNCHANGED stopVars

(* Rundown, ReadyTimeout or the death of the instance ends the loop; the   *)
(* error makes the deferred function call die.                             *)
FirstNotReady ==
  /\ spawner \in {"initReady", "firstReady"}
  /\ life' = [p \in Procs |-> IF p \in boot THEN "dead" ELSE life[p]]
  /\ spawner' = IF spawner = "initReady" THEN "failed" ELSE "idle"
  /\ boot' = {}
  /\ UNCHANGED <<processes, list, count, upTicks, downTicks, tickC>>
  /\ UNCHANGED stopVars

-----------------------------------------------------------------------------
(* tick.                                                                   *)

TickFires ==
  /\ tickerOn /\ ~tickC
  /\ tickC' = TRUE
  /\ UNCHANGED <<life, processes, downTicks>>
  /\ UNCHANGED tickVars /\ UNCHANGED stopVars

(* getProcesses.                                                           *)
getProcesses == processes \cap Live

(* MUTANT: replaces an instance without waiting for the terminating ones.  *)
AfterListNoWait(l) ==
  IF l \cap Running # {} THEN "mem" ELSE "first"

(* MUTANT: an empty list is not refilled.                                  *)
AfterListNoSpawn(l) == IF l \cap Running # {} THEN "mem" ELSE "idle"

(* Where the iteration goes once the list is known.                        *)
AfterList(l) ==
  IF l \cap Running # {} THEN "mem"
  ELSE IF l = {} THEN "first" ELSE "idle"

TickBegin ==
  /\ spawner = "idle" /\ tickC
  /\ tickC' = FALSE
  /\ processes' = getProcesses
  /\ list' = getProcesses
  /\ spawner' = AfterList(getProcesses)
  /\ UNCHANGED <<life, count, upTicks, downTicks, boot>>
  /\ UNCHANGED stopVars

TickExits ==
  /\ spawner = "idle" /\ runDone
  /\ spawner' = "exited"
  /\ UNCHANGED <<life, processes, list, count, upTicks, downTicks, boot, tickC>>
  /\ UNCHANGED stopVars

(* tryTerminate, as the cluster sees it.                                   *)
Terminating(S) == [p \in Procs |-> IF p \in S /\ life[p] = "run"
                                   THEN "term" ELSE life[p]]

(* Any of the running instances of the list may be over the limit.         *)
CheckMemory ==
  /\ spawner = "mem"
  /\ \E over \in SUBSET (list \cap Running) :
       /\ over = {} \/ MaxMemory
       /\ life' = Terminating(over)
  /\ count' = Cardinality(list)
  /\ spawner' = "min"
  /\ UNCHANGED <<processes, list, upTicks, downTicks, boot, tickC>>
  /\ UNCHANGED stopVars

AfterMin == IF autoScale THEN "scale" ELSE "idle"

SpawnMin(p) ==
  /\ spawner = "min" /\ count < clusterMin
  /\ Launch(p)
  /\ count' = count + 1
  /\ spawner' = IF SlowStart THEN "idle" ELSE "min"
  /\ UNCHANGED <<list, upTicks, boot, tickC>> /\ UNCHANGED stopVars

SpawnMinFails ==
  /\ spawner = "min" /\ count < clusterMin
  /\ spawner' = AfterMin
  /\ UNCHANGED <<life, processes, list, count, upTicks, downTicks, boot, tickC>>
  /\ UNCHANGED stopVars

MinReached ==
  /\ spawner = "min" /\ count >= clusterMin
  /\ spawner' = AfterMin
  /\ UNCHANGED <<life, processes, list, count, upTicks, downTicks, boot, tickC>>
  /\ UNCHANGED stopVars

(* A streak counter; only its comparison with the threshold matters, so it *)
(* stops there.                                                            *)
Bump(n) == IF n < AutoScaleStreak THEN n + 1 ELSE n

(* MUTANT: the upper bound is compared with <=.                            *)
MayGrowOffByOne(ticks, total) == ticks >= AutoScaleStreak /\ total <= cluterN

MayGrow(ticks, total) == ticks >= AutoScaleStreak /\ total < cluterN

MayShrink(total, up, down, neutral) ==
  total > clusterMin /\ down > neutral /\ up = 0

(* The auto-scaling measurements.  Every instance of the list that is not  *)
(* terminating is in one class: busier than upscale_percent, idler than    *)
(* downscale_percent, or neutral (which the young ones are).  An instance  *)
(* that died since the list was taken may or may not have been terminating.*)
Measure ==
  /\ spawner = "scale"
  /\ \E seen \in SUBSET (list \ {p \in Procs : life[p] = "term"}) :
       /\ list \cap Running \subseteq seen
       /\ \E up, down, young \in SUBSET seen :
            /\ up \cap down = {} /\ young \cap (up \cup down) = {}
            /\ LET neutral == seen \ (up \cup down)
                   nu == Cardinality(up)
                   nd == Cardinality(down)
                   nn == Cardinality(neutral)
                   total == nu + nd + nn
                   ticks == IF nd = 0 /\ nu > nn THEN Bump(upTicks) ELSE 0
               IN /\ upTicks' = ticks
                  /\ downTicks' = [p \in Procs |->
                       IF p \in down THEN Bump(downTicks[p])
                       ELSE IF p \in seen \ young THEN 0 ELSE downTicks[p]]
                  /\ spawner' = IF MayGrow(ticks, total) THEN "grow"
                                ELSE IF MayShrink(total, nu, nd, nn) THEN "shrink"
                                ELSE "idle"
  /\ UNCHANGED <<life, processes, list, count, boot, tickC>>
  /\ UNCHANGED stopVars

Grow(p) ==
  /\ spawner = "grow"
  /\ Launch(p)
  /\ spawner' = "idle"
  /\ UNCHANGED <<list, count, upTicks, boot, tickC>> /\ UNCHANGED stopVars

GrowFails ==
  /\ spawner = "grow"
  /\ spawner' = "idle"
  /\ UNCHANGED <<life, processes, list, count, upTicks, downTicks, boot, tickC>>
  /\ UNCHANGED stopVars

(* One instance with a long enough idle streak is asked to terminate.  The *)
(* slice's order decides which; the model leaves it open.                  *)
Shrink(p) ==
  /\ spawner = "shrink"
  /\ p \in list /\ life[p] # "term" /\ downTicks[p] >= AutoScaleStreak
  /\ life' = Terminating({p})
  /\ spawner' = "idle"
  /\ UNCHANGED <<processes, list, count, upTicks, downTicks, boot, tickC>>
  /\ UNCHANGED stopVars

ShrinkNone ==
  /\ spawner = "shrink"
  /\ \A p \in list : life[p] # "run" \/ downTicks[p] < AutoScaleStreak
  /\ spawner' = "idle"
  /\ UNCHANGED <<life, processes, list, count, upTicks, downTicks, boot, tickC>>
  /\ UNCHANGED stopVars

-----------------------------------------------------------------------------
(* What happens to an instance: it exits or is killed, or its unhealthy    *)
(* timer asks it to terminate (never before its ready check is over, as    *)
(* Monitor.Observe is called after it).                                    *)

InstanceDies(p) ==
  /\ life[p] # "dead"
  /\ life' = [life EXCEPT ![p] = "dead"]
  /\ UNCHANGED <<processes, downTicks, tickC>>
  /\ UNCHANGED tickVars /\ UNCHANGED stopVars

TurnsUnhealthy(p) ==
  /\ life[p] = "run" /\ p \notin boot
  /\ life' = Terminating({p})
  /\ UNCHANGED <<processes, downTicks, tickC>>
  /\ UNCHANGED tickVars /\ UNCHANGED stopVars

-----------------------------------------------------------------------------
(* Stop, and the cancellation of run.Context that follows it.              *)

Started == spawner \notin {"init", "initReady", "failed"}

(* ticker.Stop, then the shutdown commands run.                            *)
StopBegin ==
  /\ Started /\ stop = "no"
  /\ stop' = "shutdown" /\ tickerOn' = FALSE
  /\ UNCHANGED <<life, processes, downTicks, tickC, stopSet, runDone>>
  /\ UNCHANGED tickVars

(* getProcesses, and one goroutine per instance.                           *)
StopSnapshot ==
  /\ stop = "shutdown"
  /\ stop' = "wait"
  /\ processes' = getProcesses
  /\ stopSet' = getProcesses
  /\ UNCHANGED <<life, downTicks, tickC, tickerOn, runDone>>
  /\ UNCHANGED tickVars

StopTerminate(p) ==
  /\ p \in stopSet /\ life[p] = "run"
  /\ life' = Terminating({p})
  /\ UNCHANGED <<processes, downTicks, tickC>>
  /\ UNCHANGED tickVars /\ UNCHANGED stopVars

StopReaped(p) ==
  /\ p \in stopSet /\ life[p] = "dead"
  /\ stopSet' = stopSet \ {p}
  /\ UNCHANGED <<life, processes, downTicks, tickC, tickerOn, stop, runDone>>
  /\ UNCHANGED tickVars

StopReturns ==
  /\ stop = "wait" /\ stopSet = {}
  /\ stop' = "done"
  /\ UNCHANGED <<life, processes, downTicks, tickC, tickerOn, stopSet, runDone>>
  /\ UNCHANGED tickVars

(* The session cancels the context: after Stop, 30 seconds into a Stop     *)
(* that did not return, after a failed Start, or at any time when it ends  *)
(* itself.  Every instance context derives from it.                        *)
CancelContext ==
  /\ ~runDone
  /\ runDone' = TRUE /\ tickerOn' = FALSE
  /\ life' = [p \in Procs |-> "dead"]
  /\ UNCHANGED <<processes, downTicks, tickC, stop, stopSet>>
  /\ UNCHANGED tickVars

-----------------------------------------------------------------------------
Ticker ==
  \/ TickBegin \/ TickExits \/ CheckMemory \/ MinReached \/ Measure
  \/ SpawnFirstFails \/ SpawnMinFails \/ GrowFails
  \/ FirstReady \/ FirstNotReady \/ ShrinkNone
  \/ \E p \in Procs : SpawnFirst(p) \/ SpawnMin(p) \/ Grow(p) \/ Shrink(p)

ServerNext ==
  \/ Ticker \/ TickFires
  \/ \E p \in Procs : InstanceDies(p) \/ TurnsUnhealthy(p)
  \/ \E p \in Procs : StopTerminate(p) \/ StopReaped(p)
  \/ StopBegin \/ StopSnapshot \/ StopReturns \/ CancelContext

(* The scheduler runs every goroutine and the clock advances.  Spawning is *)
(* not for ever refused and an awaited instance not for ever late: strong  *)
(* fairness on the successful outcomes.  Nothing forces an instance to     *)
(* exit, one that was told to terminate included: only Stop's loop and the *)
(* cancelled context kill.  Nothing forces a Stop or the end of the        *)
(* session; a Stop is followed by the cancellation (ServiceState.Shutdown).*)
ServerFairness ==
  /\ WF_serverVars(Ticker) /\ WF_serverVars(TickFires)
  /\ SF_serverVars(FirstReady)
  /\ SF_serverVars(\E p \in Procs : SpawnFirst(p))
  /\ \A p \in Procs : /\ WF_serverVars(StopTerminate(p))
                      /\ WF_serverVars(StopReaped(p))
  /\ WF_serverVars(StopSnapshot) /\ WF_serverVars(StopReturns)
  /\ WF_serverVars((stop # "no" \/ spawner = "failed") /\ CancelContext)

ServerSpec == ServerInit /\ [][ServerNext]_serverVars

-----------------------------------------------------------------------------
(* Never more running (not terminating) instances than cluterN, whatever   *)
(* dies, is terminated or fails to spawn between the ticker's snapshot and *)
(* its decisions (tick's fill loop and auto-scaling branch).               *)
RunningBound == Cardinality(Running) <= cluterN

(* An initial spawn happens only when no other instance of the service is  *)
(* left, terminating ones included: tick waits for them ("Wait for         *)
(* termination to complete").                                              *)
ReplacementIsAlone ==
  /\ spawner = "first" => Live = {}
  /\ spawner = "firstReady" => Live \subseteq boot

Serving == Running # {} /\ spawner # "firstReady"

(* While nobody stops it and its context lasts, a started service whose    *)
(* instances are all dead gets one that passed its ready check, however    *)
(* many spawns and ready checks of tick fail first ("ensures services are  *)
(* always running", README).                                               *)
ServiceComesBack ==
  (Started /\ Live = {}) ~> (Serving \/ stop # "no" \/ runDone)

(* Once Stop is called it returns, and with the cancellation no instance   *)
(* survives, nor is one launched later by a tick still under way.          *)
StopLeavesNothing == (stop # "no") ~> [](runDone /\ Live = {})

(* A service comes back by itself from the death of all its instances, and *)
(* a Stop leaves nothing of it running (tick, Stop).                       *)
ServerSettles == ServiceComesBack /\ StopLeavesNothing
=============================================================================
