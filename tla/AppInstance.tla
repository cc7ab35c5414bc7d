----------------------------- MODULE AppInstance -----------------------------
(***************************************************************************)
(* One instance of an application from its start to its death, seen from   *)
(* the load balancer: spawnProcess after cmd.Start, the exit watcher, the  *)
(* health observer with its unhealthy timer (service/svc_app.go), and the  *)
(* upstream's health flag and registration (lb).  How a termination that   *)
(* was asked for proceeds is the module AppProcess, the streaks behind a   *)
(* change of health the module HealthMonitor.                              *)
(***************************************************************************)
EXTENDS Integers

VARIABLES
  process,      (* the process: "alive" or "exited"                         *)
  pctxDone,    (* pctx is cancelled                                        *)
  terminating,  (* tryTerminate was called                                  *)
  healthy,      (* upstream.Healthy                                         *)
  inLB,         (* the upstream is in run.LoadBalancer                      *)
  sp,           (* spawner                                                  *)
  wt,           (* exit watcher: "wait", "remove", "done"                   *)
  mon,          (* observer: "off", "tcp", "check", "flag", "timer", "done" *)
  prev,         (* observer's prevHealthy: 1, 0 or -1                       *)
  timer         (* the unhealthy timer: "nil", "armed", "fired"             *)

instVars == <<process, pctxDone, terminating, healthy, inLB, sp, wt, mon,
                 prev,
              timer>>

(* The values of the instance's flags and of its goroutines. *)
InstTypeOK ==
  /\ process \in {"alive", "exited"}
  /\ pctxDone \in BOOLEAN /\ terminating \in BOOLEAN
  /\ healthy \in BOOLEAN /\ inLB \in BOOLEAN
  /\ sp \in {"check", "set", "assume", "observe", "add", "done", "failed"}
  /\ wt \in {"wait", "remove", "done"}
  /\ mon \in {"off", "tcp", "check", "flag", "timer", "done"}
  /\ prev \in {-1, 0, 1}
  /\ timer \in {"nil", "armed", "fired"}

(* cmd.Start succeeded and the state was appended to run.processes; a new  *)
(* upstream counts as healthy.  Only the initial instance of a service     *)
(* (spawnProcess(true)) has a ready check.                                 *)
InstInit ==
  /\ process = "alive" /\ pctxDone = FALSE /\ terminating = FALSE
  /\ healthy = TRUE /\ inLB = FALSE
  /\ sp \in {"check", "assume"}
  /\ wt = "wait"
  /\ mon = "off" /\ prev = 0 /\ timer = "nil"

-----------------------------------------------------------------------------
(* The process, and terminations.                                          *)

ProcessExits ==
  /\ process = "alive"
  /\ process' = "exited"
  /\ UNCHANGED <<pctxDone, terminating, healthy, inLB, sp, wt, mon, prev,
                 timer>>

(* Somebody cancels the context: die, or the service's own.  The AfterFunc *)
(* kills the process tree.                                                 *)
Dies ==
  /\ ~pctxDone
  /\ pctxDone' = TRUE /\ process' = "exited"
  /\ UNCHANGED <<terminating, healthy, inLB, sp, wt, mon, prev, timer>>

(* tryTerminate by the ticker or by Stop.                                  *)
TryTerminate ==
  /\ ~pctxDone
  /\ terminating' = TRUE /\ healthy' = FALSE
  /\ UNCHANGED <<process, pctxDone, inLB, sp, wt, mon, prev, timer>>

(* The exit watcher: cmd.Wait returns, die; then RemoveUpstream.           *)
WatcherReaps ==
  /\ wt = "wait" /\ process = "exited"
  /\ pctxDone' = TRUE /\ wt' = "remove"
  /\ UNCHANGED <<process, terminating, healthy, inLB, sp, mon, prev, timer>>

WatcherRemoves ==
  /\ wt = "remove"
  /\ inLB' = FALSE /\ wt' = "done"
  /\ UNCHANGED <<process, pctxDone, terminating, healthy, sp, mon, prev,
                 timer>>

-----------------------------------------------------------------------------
(* spawnProcess after the process is started.                              *)

(* The ready check of the initial instance succeeds.                       *)
ReadyCheckOk ==
  /\ sp = "check" /\ process = "alive" /\ ~pctxDone
  /\ sp' = "set"
  /\ UNCHANGED <<process, pctxDone, terminating, healthy, inLB, wt, mon,
                 prev, timer>>

(* Rundown, ReadyTimeout, or the instance died: the deferred die.          *)
ReadyCheckGivesUp ==
  /\ sp = "check"
  /\ sp' = "failed"
  /\ pctxDone' = TRUE /\ process' = "exited"
  /\ UNCHANGED <<terminating, healthy, inLB, wt, mon, prev, timer>>

(* SetHealthy(true) for the initial one, SetHealthy(false) for the others. *)
SpawnSetHealthy ==
  /\ sp \in {"set", "assume"}
  /\ sp' = "observe"
  /\ healthy' = (sp = "set")
  /\ UNCHANGED <<process, pctxDone, terminating, inLB, wt, mon, prev, timer>>

SpawnObserves ==
  /\ sp = "observe"
  /\ sp' = "add" /\ mon' = "tcp"
  /\ UNCHANGED <<process, pctxDone, terminating, healthy, inLB, wt, prev,
                 timer>>

SpawnAdds ==
  /\ sp = "add"
  /\ sp' = "done" /\ inLB' = TRUE
  /\ UNCHANGED <<process, pctxDone, terminating, healthy, wt, mon, prev,
                 timer>>

-----------------------------------------------------------------------------
(* Monitor.observe, and the observer function that spawnProcess gives it.  *)

(* The first TCP connection succeeds.                                      *)
ObserverConnects ==
  /\ mon = "tcp" /\ process = "alive"
  /\ mon' = "check"
  /\ UNCHANGED <<process, pctxDone, terminating, healthy, inLB, sp, wt,
                 prev, timer>>

(* It failed and the context is done: SetHealthy(false), return.           *)
ObserverNeverConnects ==
  /\ mon = "tcp" /\ pctxDone
  /\ mon' = "done"
  /\ healthy' = FALSE
  /\ timer' = IF timer = "nil" THEN "armed" ELSE timer
  /\ UNCHANGED <<process, pctxDone, terminating, inLB, sp, wt, prev>>

(* A round of checks ends with a health other than the last; a known one   *)
(* is notified.                                                            *)
ObserverChecks ==
  /\ mon = "check" /\ ~pctxDone
  /\ \E new \in {-1, 0, 1} \ {prev} :
       /\ new = 1 => process = "alive"
       /\ prev' = new
       /\ mon' = IF new = 0 THEN "check" ELSE "flag"
  /\ UNCHANGED <<process, pctxDone, terminating, healthy, inLB, sp, wt,
                 timer>>

(* The observer function stores the flag, then sees to the timer.          *)
ObserverFlags ==
  /\ mon = "flag"
  /\ mon' = "timer"
  /\ healthy' = (prev = 1)
  /\ UNCHANGED <<process, pctxDone, terminating, inLB, sp, wt, prev, timer>>

ObserverSetsTimer ==
  /\ mon = "timer"
  /\ mon' = "check"
  /\ timer' = IF prev = 1 THEN "nil"
              ELSE IF timer = "nil" THEN "armed" ELSE timer
  /\ UNCHANGED <<process, pctxDone, terminating, healthy, inLB, sp, wt, prev>>

ObserverEnds ==
  /\ mon = "check" /\ pctxDone
  /\ mon' = "done"
  /\ UNCHANGED <<process, pctxDone, terminating, healthy, inLB, sp, wt,
                 prev, timer>>

(* The unhealthy timer goes off; if the flag is still down it calls        *)
(* tryTerminate.                                                           *)
TimerFires ==
  /\ timer = "armed"
  /\ timer' = "fired"
  /\ terminating' = (terminating \/ (~healthy /\ ~pctxDone))
  /\ UNCHANGED <<process, pctxDone, healthy, inLB, sp, wt, mon, prev>>

-----------------------------------------------------------------------------
Spawner == \/ ReadyCheckOk \/ ReadyCheckGivesUp \/ SpawnSetHealthy
           \/ SpawnObserves \/ SpawnAdds
Watcher == WatcherReaps \/ WatcherRemoves
Observer == \/ ObserverConnects \/ ObserverNeverConnects \/ ObserverChecks
            \/ ObserverFlags \/ ObserverSetsTimer \/ ObserverEnds

InstNext == \/ ProcessExits \/ Dies \/ TryTerminate
            \/ Spawner \/ Watcher \/ Observer \/ TimerFires

(* What the observer does without an answer of the process.                *)
ObserverGoesOn == \/ ObserverNeverConnects \/ ObserverFlags
                  \/ ObserverSetsTimer \/ ObserverEnds

(* The goroutines run and the timer expires; whether the process listens,  *)
(* changes its health, exits or is told to terminate is left open.  With   *)
(* the default healthy threshold of one an unknown health does not last:   *)
(* one success or enough failures in a row decide it.                      *)
InstFairness ==
  /\ WF_instVars(Spawner) /\ WF_instVars(Watcher) /\ WF_instVars(TimerFires)
  /\ WF_instVars(ObserverGoesOn)
  /\ WF_instVars(prev = 0 /\ ObserverChecks)

-----------------------------------------------------------------------------
(* The exit watcher ends before the spawner adds the upstream: it stays.   *)
RemovedTooEarly == wt = "done" /\ sp \notin {"done", "failed"}

(* An instance that died, at whatever point of its start, is out of the    *)
(* load balancer in the end, unless its exit was handled to the end before *)
(* it was added (the exit watcher against the spawner's AddUpstream).      *)
DeadIsRemoved == <>[](pctxDone => ~inLB) \/ <>RemovedTooEarly

(* An instance that the observer reported unhealthy recovers, is asked to  *)
(* terminate or is dead: the unhealthy timer is armed again for each       *)
(* unhealthy period, however often the health changes.                     *)
UnhealthyIsResolved ==
  (mon = "check" /\ prev = -1 /\ ~healthy)
     ~> (healthy \/ terminating \/ pctxDone)

(* However spawner, watcher, observer and timer interleave, an instance    *)
(* that died is out of the load balancer but for a removal that came       *)
(* before the addition, and one that was reported unhealthy recovers, dies *)
(* or is terminated (spawnProcess).                                        *)
InstanceSettles ==
  []InstTypeOK /\ DeadIsRemoved /\ UnhealthyIsResolved
=============================================================================
