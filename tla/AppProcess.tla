------------------------------ MODULE AppProcess ------------------------------
(***************************************************************************)
(* Termination of one instance of an application (appProcessState of       *)
(* service/svc_app.go): tryTerminate and terminate called concurrently by  *)
(* the ticker, the unhealthy timer and Stop, the shared deadline, the      *)
(* drain goroutine and the process it finally signals or kills.  How the   *)
(* instance is spawned, observed and registered is the module AppInstance. *)
(*                                                                         *)
(* One unit of time is the 200ms poll of drain.  Deadlines are absolute;   *)
(* 0 is "not terminating" and 1 the deadline in the past that bumpDeadline *)
(* stores, so the clock starts at 2.                                       *)
(***************************************************************************)
EXTENDS Integers

CONSTANTS
  Requests,     (* requests that the load balancer may send here            *)
  StopTimeout,  (* yaml stop_timeout                                        *)
  StartBy,      (* BOUND: callers of tryTerminate enter by this time        *)
  MaxTime       (* BOUND: the clock stops here                              *)

ASSUME ProcessAssumption ==
  /\ StopTimeout \in Nat \ {0}
  /\ StartBy \in Nat /\ StartBy >= 2
  /\ MaxTime \in Nat /\ MaxTime > StartBy + StopTimeout + 1

(* Who calls tryTerminate: tick (memory, downscale), the unhealthy timer,  *)
(* and the terminate loop of Stop.                                         *)
Callers == {"tick", "timer", "stop"}

VARIABLES
  now,         (* the clock                                                 *)
  os,          (* the process: "alive" or "exited"                          *)
  dead,        (* ctx.Err() != nil                                          *)
  deadline,    (* terminateDeadline                                         *)
  signalSent,  (* signalSent                                                *)
  drain,       (* drain goroutine: "off", "loop", "signal", "done"          *)
  signalled,   (* the process was sent its signal                           *)
  req,         (* per request: "new", "served", "done"                      *)
  cohort,      (* HISTORY: requests in service when the drain began         *)
  pc,          (* per caller                                                *)
  at,          (* per caller: bumpDeadline's now                            *)
  into,        (* per caller: the deadline it wants                         *)
  old          (* per caller: the deadline it loaded                        *)

callerVars == <<pc, at, into, old>>
reqVars == <<req, cohort>>
drainVars == <<signalSent, drain, signalled>>
procVars == <<now, os, dead, deadline, signalSent, drain, signalled, req, cohort,
          pc, at, into, old>>

(* LoadFactor of the upstream is the number of these.                      *)
InService == {r \in Requests : req[r] = "served"}

Times == 0..(MaxTime + StopTimeout)

(* The values of the deadline, the flags and each caller's copies. *)
ProcTypeOK ==
  /\ now \in 2..MaxTime
  /\ os \in {"alive", "exited"}
  /\ dead \in BOOLEAN /\ signalSent \in BOOLEAN /\ signalled \in BOOLEAN
  /\ deadline \in Times
  /\ drain \in {"off", "loop", "signal", "done"}
  /\ req \in [Requests -> {"new", "served", "done"}]
  /\ cohort \subseteq Requests
  /\ pc \in [Callers -> {"idle", "load", "cas", "signal", "sleep", "done"}]
  /\ at \in [Callers -> Times] /\ into \in [Callers -> Times]
  /\ old \in [Callers -> Times]

ProcInit ==
  /\ now = 2
  /\ os = "alive" /\ dead = FALSE
  /\ deadline = 0 /\ signalSent = FALSE /\ drain = "off" /\ signalled = FALSE
  /\ req = [r \in Requests |-> "new"] /\ cohort = {}
  /\ pc = [c \in Callers |-> "idle"] /\ at = [c \in Callers |-> 0]
  /\ into = [c \in Callers |-> 0] /\ old = [c \in Callers |-> 0]

Clock ==
  /\ now < MaxTime
  /\ now' = now + 1
  /\ UNCHANGED <<os, dead, deadline>>
  /\ UNCHANGED drainVars /\ UNCHANGED reqVars /\ UNCHANGED callerVars

-----------------------------------------------------------------------------
(* The process and its requests.                                           *)

Exits ==
  /\ os = "alive"
  /\ os' = "exited"
  /\ UNCHANGED <<now, dead, deadline>>
  /\ UNCHANGED drainVars /\ UNCHANGED reqVars /\ UNCHANGED callerVars

(* The AfterFunc of the instance's context kills the process tree.         *)
Kill ==
  /\ dead /\ os = "alive"
  /\ os' = "exited"
  /\ UNCHANGED <<now, dead, deadline>>
  /\ UNCHANGED drainVars /\ UNCHANGED reqVars /\ UNCHANGED callerVars

(* cmd.Wait returns and the exit watcher calls die.                        *)
Reaped ==
  /\ os = "exited" /\ ~dead
  /\ dead' = TRUE
  /\ UNCHANGED <<now, os, deadline>>
  /\ UNCHANGED drainVars /\ UNCHANGED reqVars /\ UNCHANGED callerVars

(* The load balancer sends a request here, also after the health flag went *)
(* down: a pick made before, or an upstream that is the only one.          *)
Arrive(r) ==
  /\ req[r] = "new"
  /\ req' = [req EXCEPT ![r] = "served"]
  /\ UNCHANGED <<now, os, dead, deadline, cohort>>
  /\ UNCHANGED drainVars /\ UNCHANGED callerVars

Finish(r) ==
  /\ req[r] = "served"
  /\ req' = [req EXCEPT ![r] = "done"]
  /\ UNCHANGED <<now, os, dead, deadline, cohort>>
  /\ UNCHANGED drainVars /\ UNCHANGED callerVars

-----------------------------------------------------------------------------
(* bumpDeadline.                                                           *)

(* Up to its loop: a deadline in the past is a timeout, one too far away   *)
(* is cut to StopTimeout.                                                  *)
BumpDeadline(c, want) ==
  IF want < now
  THEN /\ deadline' = 1 /\ dead' = TRUE
       /\ pc' = [pc EXCEPT ![c] = "done"]
       /\ UNCHANGED <<at, into>>
  ELSE /\ at' = [at EXCEPT ![c] = now]
       /\ into' = [into EXCEPT ![c] = IF want > now + StopTimeout
                                      THEN now + StopTimeout ELSE want]
       /\ pc' = [pc EXCEPT ![c] = "load"]
       /\ UNCHANGED <<deadline, dead>>

(* Its loop: a deadline that is not later stands, and is over or not.      *)
LoadDeadline(c) ==
  /\ pc[c] = "load"
  /\ old' = [old EXCEPT ![c] = deadline]
  /\ IF deadline # 0 /\ deadline <= into[c]
     THEN /\ dead' = (dead \/ deadline < at[c])
          /\ pc' = [pc EXCEPT ![c] = IF deadline < at[c] THEN "done" ELSE "signal"]
     ELSE /\ pc' = [pc EXCEPT ![c] = "cas"]
          /\ UNCHANGED dead
  /\ UNCHANGED <<now, os, deadline, at, into>>
  /\ UNCHANGED drainVars /\ UNCHANGED reqVars

(* MUTANT: a plain store instead of the compare-and-swap.                  *)
CasDeadlineStore(c) ==
  /\ pc[c] = "cas"
  /\ deadline' = into[c]
  /\ pc' = [pc EXCEPT ![c] = "signal"]
  /\ UNCHANGED <<now, os, dead, at, into, old>>
  /\ UNCHANGED drainVars /\ UNCHANGED reqVars

CasDeadline(c) ==
  /\ pc[c] = "cas"
  /\ IF deadline = old[c]
     THEN deadline' = into[c] /\ pc' = [pc EXCEPT ![c] = "signal"]
     ELSE UNCHANGED deadline /\ pc' = [pc EXCEPT ![c] = "load"]
  /\ UNCHANGED <<now, os, dead, at, into, old>>
  /\ UNCHANGED drainVars /\ UNCHANGED reqVars

-----------------------------------------------------------------------------
(* tryTerminate and terminate.                                             *)

Returns(c) ==
  /\ pc' = [pc EXCEPT ![c] = "done"]
  /\ UNCHANGED <<dead, deadline, at, into>>

(* With a context that has no deadline.                                    *)
EnterBackground(c) ==
  IF dead THEN Returns(c)
  ELSE IF deadline = 0 THEN BumpDeadline(c, now + StopTimeout)
  ELSE /\ dead' = (deadline < now)
       /\ pc' = [pc EXCEPT ![c] = IF deadline < now THEN "done" ELSE "signal"]
       /\ UNCHANGED <<deadline, at, into>>

(* tick looks whether the instance is terminating some time before it asks *)
(* (it reads the memory usage in between), the timer does not look at all: *)
(* both may find a deadline set.                                           *)
AskToTerminate(c) ==
  /\ c \in {"tick", "timer"} /\ pc[c] = "idle" /\ now <= StartBy
  /\ EnterBackground(c)
  /\ UNCHANGED <<now, os, old>>
  /\ UNCHANGED drainVars /\ UNCHANGED reqVars

(* Stop: terminate(ctx) under a deadline no later than StopTimeout from    *)
(* now, and possibly past already.                                         *)
StopTerminates ==
  /\ pc["stop"] = "idle" /\ now <= StartBy
  /\ \E want \in (now - 1)..(now + StopTimeout) :
       IF dead THEN Returns("stop") ELSE BumpDeadline("stop", want)
  /\ UNCHANGED <<now, os, old>>
  /\ UNCHANGED drainVars /\ UNCHANGED reqVars

(* MUTANT: terminate only waits, it does not try again.                    *)
StopWaitsOnly ==
  /\ pc["stop"] = "sleep" /\ dead
  /\ Returns("stop")
  /\ UNCHANGED <<now, os, old>>
  /\ UNCHANGED drainVars /\ UNCHANGED reqVars

(* terminate: it is dead, or 500ms later tryTerminate(Background).         *)
StopPolls ==
  /\ pc["stop"] = "sleep"
  /\ EnterBackground("stop")
  /\ UNCHANGED <<now, os, old>>
  /\ UNCHANGED drainVars /\ UNCHANGED reqVars

(* signalSent.Swap(true): the first caller starts the drain goroutine.     *)
StartDrain(c) ==
  /\ pc[c] = "signal"
  /\ signalSent' = TRUE
  /\ IF signalSent THEN UNCHANGED <<drain, cohort>>
                   ELSE drain' = "loop" /\ cohort' = InService
  /\ pc' = [pc EXCEPT ![c] = IF c = "stop" THEN "sleep" ELSE "done"]
  /\ UNCHANGED <<now, os, dead, deadline, signalled, req, at, into, old>>

(* Half of what is left of the deadline is less than one poll.             *)
NoTimeToDrain == (deadline - now) \div 2 < 1

(* drain returns: no request in service, no time left, or dead.            *)
DrainReturns ==
  /\ drain = "loop"
  /\ InService = {} \/ NoTimeToDrain \/ dead
  /\ drain' = "signal"
  /\ UNCHANGED <<now, os, dead, deadline, signalSent, signalled>>
  /\ UNCHANGED reqVars /\ UNCHANGED callerVars

(* requestTermination: nothing for a dead one, die if no signal goes out.  *)
RequestTermination ==
  /\ drain = "signal"
  /\ drain' = "done"
  /\ \/ dead /\ UNCHANGED <<dead, signalled>>
     \/ ~dead /\ signalled' = TRUE /\ UNCHANGED dead
     \/ ~dead /\ dead' = TRUE /\ UNCHANGED signalled
  /\ UNCHANGED <<now, os, deadline, signalSent>>
  /\ UNCHANGED reqVars /\ UNCHANGED callerVars

-----------------------------------------------------------------------------
Caller(c) == LoadDeadline(c) \/ CasDeadline(c) \/ StartDrain(c)
Drainer == DrainReturns \/ RequestTermination

ProcNext ==
  \/ Clock \/ Exits \/ Kill \/ Reaped
  \/ \E r \in Requests : Arrive(r) \/ Finish(r)
  \/ \E c \in Callers : AskToTerminate(c) \/ Caller(c)
  \/ StopTerminates \/ StopPolls
  \/ Drainer

(* The clock advances, goroutines run, SIGKILL works.  Nothing makes the   *)
(* process honour the gentle signal, a request end or a caller appear.     *)
ProcFairness ==
  /\ WF_procVars(Clock) /\ WF_procVars(Kill) /\ WF_procVars(Reaped)
  /\ WF_procVars(Drainer) /\ WF_procVars(StopPolls)
  /\ \A c \in Callers : WF_procVars(Caller(c))

ProcSpec == ProcInit /\ [][ProcNext]_procVars
ProcFairSpec == ProcSpec /\ ProcFairness

-----------------------------------------------------------------------------
(* However tick, the unhealthy timer and Stop race in bumpDeadline, a      *)
(* deadline once set is never withdrawn and never moved later.             *)
DeadlineOnlyShrinks ==
  [][deadline # 0 => deadline' # 0 /\ deadline' <= deadline]_procVars

(* The process is signalled only when the requests it was serving when the *)
(* drain began are over, or less than two polls of its deadline are left   *)
(* (drain, then requestTermination).                                       *)
GracefulSignal ==
  [][signalled' # signalled =>
       cohort \cap InService = {} \/ deadline - now < 2]_procVars

(* Whoever terminates a process, and however they race, its time only gets *)
(* shorter and the signal waits for its requests (tryTerminate).           *)
TerminationSound == DeadlineOnlyShrinks /\ GracefulSignal

(* A process that Stop terminates is gone in the end even if it ignores    *)
(* the signal and its requests never finish: terminate keeps polling and   *)
(* the deadline kills.                                                     *)
StopEndsProcess == (pc["stop"] # "idle") ~> (os = "exited" /\ dead)
=============================================================================
