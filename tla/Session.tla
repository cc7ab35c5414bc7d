------------------------------- MODULE Session -------------------------------
(***************************************************************************)
(* The service table of a session (session/session.go): StartService,      *)
(* StopService, RestartService and ServiceState.Shutdown, called by the    *)
(* API without a lock, next to ReloadLocked under the session's mutex and  *)
(* the shutdown of the session.  What Start and Stop do inside a service   *)
(* is the module AppServer; of a proxy service (service/svc_proxy.go) the  *)
(* model keeps whether its load balancer has upstreams, because all        *)
(* states started from one manifest share that load balancer.              *)
(*                                                                         *)
(* An element of States is a ServiceState; one that is cancelled and that  *)
(* nothing refers to may be used again.                                    *)
(***************************************************************************)
EXTENDS Integers, FiniteSets

CONSTANTS
  Names,    (* service names                                                *)
  Proxies,  (* those of them that are proxy services                        *)
  States,   (* identities of ServiceStates                                  *)
  MaxGen    (* BOUND: manifests that are loaded                             *)

Nil == "none"

ASSUME SessionAssumption ==
  /\ IsFiniteSet(Names) /\ Proxies \subseteq Names
  /\ IsFiniteSet(States) /\ Nil \notin States
  /\ MaxGen \in Nat \ {0}

VARIABLES
  phase,     (* per state: "none", "starting", "started", "up", "failed"    *)
  done,      (* per state: its context is cancelled                         *)
  name, gen, (* per state: service name, generation of its manifest         *)
  asked,     (* per state: a Stop waits to run                              *)
  stopping,  (* per state: Instance.Stop is running                         *)
  smap,      (* ServiceMap                                                  *)
  manifest,  (* s.manifest: generation and names; generation 0 is nil       *)
  loaded,    (* the manifest that ReloadLocked works with                   *)
  rpc,       (* ReloadLocked: "idle", "range", "waitStop", "start",         *)
             (* "waitStart", "listen"; the lock is held unless "idle"       *)
  must, visited,(* Range: keys it has to visit, keys visited; then the names   *)
             (* started                                                     *)
  rx,        (* the state that the reload waits for                         *)
  started,   (* ReloadLocked's states                                       *)
  subs,      (* per name: the state its svc.* listener serves               *)
  hasUp,     (* per proxy and generation: its load balancer has upstreams   *)
  shut,      (* Shutdown: "no", "wait", "closed"                            *)
  sdone      (* Session.Context is cancelled                                *)

stateVars == <<phase, done, name, gen, asked, stopping>>
reloadVars == <<loaded, rpc, must, visited, rx, started>>
sessionVars == <<phase, done, name, gen, asked, stopping, smap, manifest, loaded, rpc,
          must, visited, rx, started, subs, hasUp, shut, sdone>>

Manifests == [gen : 0..MaxGen, names : SUBSET Names]

(* The values of the service map, its states and the calls. *)
SessionTypeOK ==
  /\ phase \in [States -> {"none", "starting", "started", "up", "failed"}]
  /\ done \in [States -> BOOLEAN]
  /\ name \in [States -> Names \cup {Nil}] /\ gen \in [States -> 0..MaxGen]
  /\ asked \in [States -> BOOLEAN] /\ stopping \in [States -> BOOLEAN]
  /\ smap \in [Names -> States \cup {Nil}]
  /\ manifest \in Manifests /\ loaded \in Manifests
  /\ rpc \in {"idle", "range", "waitStop", "start", "waitStart", "listen"}
  /\ must \subseteq Names /\ visited \subseteq Names
  /\ rx \in States \cup {Nil}
  /\ started \in [Names -> States \cup {Nil}]
  /\ subs \in [Names -> States \cup {Nil}]
  /\ hasUp \in [Proxies \X (0..MaxGen) -> BOOLEAN]
  /\ shut \in {"no", "wait", "closed"} /\ sdone \in BOOLEAN

NoStates == [n \in Names |-> Nil]

SessionInit ==
  /\ phase = [x \in States |-> "none"]
  /\ done = [x \in States |-> TRUE]
  /\ name = [x \in States |-> Nil] /\ gen = [x \in States |-> 0]
  /\ asked = [x \in States |-> FALSE] /\ stopping = [x \in States |-> FALSE]
  /\ smap = NoStates
  /\ manifest = [gen |-> 0, names |-> {}] /\ loaded = manifest
  /\ rpc = "idle" /\ must = {} /\ visited = {} /\ rx = Nil
  /\ started = NoStates /\ subs = NoStates
  /\ hasUp = [o \in Proxies \X (0..MaxGen) |-> FALSE]
  /\ shut = "no" /\ sdone = FALSE

LiveState(x) == phase[x] = "up" /\ ~done[x]

Fresh(x) ==
  /\ phase[x] \in {"none", "up", "failed"} /\ done[x]
  /\ ~asked[x] /\ ~stopping[x]
  /\ rx # x
  /\ \A n \in Names : x \notin {smap[n], started[n], subs[n]}

-----------------------------------------------------------------------------
(* StartService.                                                           *)

StartState(x, n, g) ==
  /\ Fresh(x)
  /\ phase' = [phase EXCEPT ![x] = "starting"]
  /\ done' = [done EXCEPT ![x] = sdone]
  /\ name' = [name EXCEPT ![x] = n] /\ gen' = [gen EXCEPT ![x] = g]

(* sv.Start returns an instance; a proxy has added its upstreams.          *)
StartReturns(x) ==
  /\ phase[x] = "starting"
  /\ phase' = [phase EXCEPT ![x] = "started"]
  /\ hasUp' = [o \in DOMAIN hasUp |-> hasUp[o] \/ o = <<name[x], gen[x]>>]
  /\ UNCHANGED <<done, name, gen, asked, stopping, smap, manifest, subs, shut, sdone>>
  /\ UNCHANGED reloadVars

(* MUTANT: the failed state is stored in any case.                         *)
StoreFailedAlways(x) == [smap EXCEPT ![name[x]] = x]

(* "If first instance, store anyway for observability": LoadOrStore.       *)
StoreFailed(x) == [smap EXCEPT ![name[x]] = IF @ = Nil THEN x ELSE @]

StartFails(x) ==
  /\ phase[x] = "starting"
  /\ phase' = [phase EXCEPT ![x] = "failed"] /\ done' = [done EXCEPT ![x] = TRUE]
  /\ smap' = StoreFailed(x)
  /\ UNCHANGED <<name, gen, asked, stopping, manifest, subs, hasUp, shut, sdone>>
  /\ UNCHANGED reloadVars

(* MUTANT: the state that was there is forgotten.                          *)
StopPreviousNot(prev) == asked

(* go prevState.Stop() for the state that Swap returned, if any.           *)
StopPrevious(prev) == [x \in States |-> asked[x] \/ x = prev]

Publish(x) ==
  /\ phase[x] = "started"
  /\ phase' = [phase EXCEPT ![x] = "up"]
  /\ smap' = [smap EXCEPT ![name[x]] = x]
  /\ asked' = StopPrevious(smap[name[x]])
  /\ UNCHANGED <<done, name, gen, stopping, manifest, subs, hasUp, shut, sdone>>
  /\ UNCHANGED reloadVars

-----------------------------------------------------------------------------
(* ServiceState.Shutdown.                                                  *)

(* Nothing for a cancelled one, otherwise Instance.Stop starts.            *)
StopBegins(x) ==
  /\ asked[x]
  /\ asked' = [asked EXCEPT ![x] = FALSE]
  /\ stopping' = [stopping EXCEPT ![x] = @ \/ ~done[x]]
  /\ UNCHANGED <<phase, done, name, gen, smap, manifest, subs, hasUp, shut, sdone>>
  /\ UNCHANGED reloadVars

(* Instance.Stop returns, cancel; a proxy has cleared its load balancer.   *)
InstanceStopped(x) ==
  /\ stopping[x]
  /\ stopping' = [stopping EXCEPT ![x] = FALSE]
  /\ done' = [done EXCEPT ![x] = TRUE]
  /\ hasUp' = [o \in DOMAIN hasUp |-> hasUp[o] /\ o # <<name[x], gen[x]>>]
  /\ UNCHANGED <<phase, name, gen, asked, smap, manifest, subs, shut, sdone>>
  /\ UNCHANGED reloadVars

(* MUTANT: no timeout.                                                     *)
StopTimesOutNever(x) == FALSE /\ UNCHANGED sessionVars

(* "Service took too long to stop": cancel, Instance.Stop goes on.         *)
StopTimesOut(x) ==
  /\ stopping[x] /\ ~done[x]
  /\ done' = [done EXCEPT ![x] = TRUE]
  /\ UNCHANGED <<phase, name, gen, asked, stopping, smap, manifest, subs, hasUp,
                 shut, sdone>>
  /\ UNCHANGED reloadVars

-----------------------------------------------------------------------------
(* RestartService and StopService, for one name each.  RestartService has  *)
(* read s.manifest when it launches, and holds no lock.                    *)

RestartService(n, x) ==
  /\ manifest.gen # 0 /\ n \in manifest.names
  /\ StartState(x, n, manifest.gen)
  /\ UNCHANGED <<asked, stopping, smap, manifest, subs, hasUp, shut, sdone>>
  /\ UNCHANGED reloadVars

StopService(n) ==
  /\ smap[n] # Nil
  /\ asked' = [asked EXCEPT ![smap[n]] = TRUE]
  /\ UNCHANGED <<phase, done, name, gen, stopping, smap, manifest, subs, hasUp,
                 shut, sdone>>
  /\ UNCHANGED reloadVars

-----------------------------------------------------------------------------
(* ReloadLocked.                                                           *)

(* LoadManifest, then hosts, error pages and streams are set up.  An error *)
(* on the way ends it; only the first manifest is stored already.          *)
ReloadLoads(names, fails) ==
  /\ rpc = "idle" /\ loaded.gen < MaxGen
  /\ loaded' = [gen |-> loaded.gen + 1, names |-> names]
  /\ manifest' = IF manifest.gen = 0 THEN loaded' ELSE manifest
  /\ IF fails THEN rpc' = "idle" /\ UNCHANGED must
              ELSE rpc' = "range" /\ must' = {n \in Names : smap[n] # Nil}
  /\ visited' = {} /\ started' = NoStates
  /\ UNCHANGED <<smap, rx, subs, hasUp, shut, sdone>> /\ UNCHANGED stateVars

(* Range visits a key; a service that is not in the manifest is stopped,   *)
(* and the reload waits for that.                                          *)
ReloadVisits(n) ==
  /\ rpc = "range" /\ smap[n] # Nil /\ n \notin visited
  /\ visited' = visited \cup {n}
  /\ IF n \in loaded.names
     THEN UNCHANGED <<asked, rpc, rx>>
     ELSE /\ asked' = [asked EXCEPT ![smap[n]] = TRUE]
          /\ rpc' = "waitStop" /\ rx' = smap[n]
  /\ UNCHANGED <<phase, done, name, gen, stopping, smap, manifest, loaded, must,
                 started, subs, hasUp, shut, sdone>>

ReloadStopped ==
  /\ rpc = "waitStop" /\ done[rx]
  /\ rpc' = "range" /\ rx' = Nil
  /\ UNCHANGED <<smap, manifest, loaded, must, visited, started, subs, hasUp, shut, sdone>>
  /\ UNCHANGED stateVars

ReloadRangeEnds ==
  /\ rpc = "range" /\ must \subseteq visited
  /\ rpc' = "start" /\ visited' = {} /\ must' = {}
  /\ UNCHANGED <<smap, manifest, loaded, rx, started, subs, hasUp, shut, sdone>>
  /\ UNCHANGED stateVars

ReloadStarts(n, x) ==
  /\ rpc = "start" /\ n \in loaded.names \ visited
  /\ StartState(x, n, loaded.gen)
  /\ visited' = visited \cup {n} /\ rx' = x /\ rpc' = "waitStart"
  /\ UNCHANGED <<asked, stopping, smap, manifest, loaded, must, started, subs,
                 hasUp, shut, sdone>>

(* StartService returned; a failed start gives no state.                   *)
ReloadStarted ==
  /\ rpc = "waitStart" /\ phase[rx] \in {"up", "failed"}
  /\ started' = IF phase[rx] = "up" THEN [started EXCEPT ![name[rx]] = rx]
                ELSE started
  /\ rpc' = "start" /\ rx' = Nil
  /\ UNCHANGED <<smap, manifest, loaded, must, visited, subs, hasUp, shut, sdone>>
  /\ UNCHANGED stateVars

(* The old listeners stop, the new ones start.                             *)
ReloadListens ==
  /\ rpc = "start" /\ visited = loaded.names
  /\ subs' = started
  /\ rpc' = "listen"
  /\ UNCHANGED <<smap, manifest, loaded, must, visited, rx, started, hasUp, shut, sdone>>
  /\ UNCHANGED stateVars

(* s.manifest.Store, unless a listener failed.                             *)
ReloadEnds ==
  /\ rpc = "listen"
  /\ manifest' \in {loaded, manifest}
  /\ rpc' = "idle" /\ visited' = {} /\ started' = NoStates
  /\ UNCHANGED <<smap, loaded, must, rx, subs, hasUp, shut, sdone>>
  /\ UNCHANGED stateVars

-----------------------------------------------------------------------------
(* Session.Shutdown: every service that is in the map is told to stop...   *)
ShutdownBegins ==
  /\ shut = "no"
  /\ shut' = "wait"
  /\ asked' = [x \in States |-> asked[x] \/ \E n \in Names : smap[n] = x]
  /\ UNCHANGED <<phase, done, name, gen, stopping, smap, manifest, subs, hasUp, sdone>>
  /\ UNCHANGED reloadVars

(* ... and when they have, or its context is done, Close cancels them and  *)
(* the context of the session, from which all the others derive.           *)
Close ==
  /\ shut = "wait"
  /\ shut' = "closed" /\ sdone' = TRUE
  /\ done' = [x \in States |-> TRUE]
  /\ UNCHANGED <<phase, name, gen, asked, stopping, smap, manifest, subs, hasUp>>
  /\ UNCHANGED reloadVars

-----------------------------------------------------------------------------
Service(x) ==
  \/ StartReturns(x) \/ StartFails(x) \/ Publish(x)
  \/ StopBegins(x) \/ InstanceStopped(x) \/ StopTimesOut(x)

Reload ==
  \/ \E n \in Names : ReloadVisits(n)
  \/ ReloadStopped \/ ReloadRangeEnds \/ ReloadStarted \/ ReloadListens \/ ReloadEnds
  \/ \E n \in Names, x \in States : ReloadStarts(n, x)

SessionNext ==
  \/ \E x \in States : Service(x)
  \/ \E n \in Names, x \in States : RestartService(n, x)
  \/ \E n \in Names : StopService(n)
  \/ \E names \in SUBSET Names, fails \in BOOLEAN : ReloadLoads(names, fails)
  \/ Reload \/ ShutdownBegins \/ Close

(* Starts end (ready timeout), goroutines run, the 30 seconds of a Stop    *)
(* run out.  An Instance.Stop need not return; nobody has to call.         *)
SessionFairness ==
  /\ \A x \in States : /\ WF_sessionVars(StartReturns(x) \/ StartFails(x))
                       /\ WF_sessionVars(Publish(x))
                       /\ WF_sessionVars(StopBegins(x))
                       /\ WF_sessionVars(StopTimesOut(x))
  /\ WF_sessionVars(Reload) /\ WF_sessionVars(Close)

SessionSpec == SessionInit /\ [][SessionNext]_sessionVars

-----------------------------------------------------------------------------
(* However restarts, reloads and stops overlap, no service runs outside    *)
(* the table for good: a live state that is not in ServiceMap is being     *)
(* stopped (StartService's Swap).                                          *)
NoOrphans ==
  \A x \in States : LiveState(x) => smap[name[x]] = x \/ asked[x] \/ stopping[x]

(* A service name that resolves to a live state is only ever given a live  *)
(* one instead ("zero-downtime hot-swaps", README): a start that fails     *)
(* displaces nothing, unless the whole session has ended.                  *)
HotSwap ==
  [][\A n \in Names :
       smap'[n] # smap[n] /\ smap[n] # Nil =>
         done[smap[n]] \/ ~done'[smap'[n]] \/ sdone]_sessionVars

(* Nothing runs that the service map does not know of or that is not being *)
(* stopped, and a service that serves gives way to one that serves only    *)
(* (StartService, StopService, ReloadLocked, Shutdown).                    *)
SessionSound == [](SessionTypeOK /\ NoOrphans) /\ HotSwap

(* BOUND: the reload needs a state and the pool of the model has none.     *)
OutOfStates == rpc = "start" /\ \A x \in States : ~Fresh(x)

(* A reload gives the lock back, although it waits for services to stop    *)
(* that may hang in their shutdown commands.                               *)
ReloadReturns == (rpc # "idle") ~> (rpc = "idle" \/ OutOfStates)

(* After a shutdown nothing runs, the services included that a reload or a *)
(* restart was starting meanwhile.                                         *)
ShutdownEndsAll == (shut # "no") ~> [](\A x \in States : done[x])

Quiet == /\ rpc = "idle" /\ manifest = loaded
         /\ \A x \in States : ~asked[x] /\ ~stopping[x]
                                /\ phase[x] \in {"none", "up", "failed"}

(* "zero-downtime hot-swaps" for a proxy: when all is quiet a live proxy   *)
(* has its upstreams.                                                      *)
ProxyHasUpstreams ==
  Quiet => \A n \in Proxies : smap[n] # Nil /\ LiveState(smap[n]) =>
             hasUp[<<n, gen[smap[n]]>>]

(* The session does not wait for those that hang: a reload returns, and    *)
(* Shutdown ends every state, one that a start publishes later too         *)
(* (ReloadLocked, Shutdown).                                               *)
SessionSettles == ReloadReturns /\ ShutdownEndsAll
=============================================================================
