---------------------------- MODULE App_proofs -----------------------------
(***************************************************************************)
(* Proofs about the service of an app: the size of its cluster, for every  *)
(* set of instances and every configuration; the termination of one        *)
(* instance, for any number of requests and any times; the reports of its  *)
(* monitor, for any checks and thresholds; the log and those who follow    *)
(* it, for any number of lines, writers and tails; and the writer that     *)
(* merges logs, for any hosts and any lines.                               *)
(***************************************************************************)
EXTENDS AppServer, AppProcess, HealthMonitor, LogTail, FiniteSetTheorems,
        SequenceTheorems, WellFoundedInduction, TLAPS

-----------------------------------------------------------------------------
(* The cluster.                                                            *)

(* The configurations for which the bound holds.  Without it tick fills to *)
(* the minimum and then grows on the counts of the list taken before.      *)
Headroom == autoScale => clusterMin < cluterN

(* What the ticker knows of the cluster at each point of an iteration.     *)
(* Only this goroutine launches, so the running instances are among its    *)
(* list, or it has itself filled the cluster up to the minimum.            *)
BootInv ==
  /\ spawner \in {"init", "first"} => Live = {}
  /\ spawner \in {"initReady", "firstReady"} => Live \subseteq boot
  /\ spawner \in {"initReady", "firstReady"} => \E p \in Procs : boot = {p}

ListInv ==
  /\ Live \subseteq processes
  /\ spawner = "mem" => Running \subseteq list
  /\ spawner = "min" => /\ Cardinality(Running) <= count
                        /\ Running \subseteq list \/ count <= clusterMin
  /\ spawner = "scale" => Running \subseteq list \/ Cardinality(Running) <= clusterMin
  /\ spawner = "grow" => Cardinality(Running) < cluterN
  /\ spawner \in {"scale", "grow", "shrink"} => autoScale

ServerInv == ServerTypeOK /\ BootInv /\ ListInv /\ RunningBound

-----------------------------------------------------------------------------
(* The bounds that Prepare computes are positive and ordered.              *)
LEMMA PrepareBounds ==
  /\ cluterN \in Nat /\ clusterMin \in Nat
  /\ 1 <= clusterMin /\ clusterMin <= cluterN
BY ClusterAssumption DEF cluterN, clusterMin, irange

(* Type correctness of every step of the cluster controller.               *)
LEMMA ServerTypeStep == ServerTypeOK /\ [ServerNext]_serverVars => ServerTypeOK'
<1> SUFFICES ASSUME ServerTypeOK, [ServerNext]_serverVars PROVE ServerTypeOK'
  OBVIOUS
<1> USE ClusterAssumption DEF ServerTypeOK, TickSteps, stopVars, tickVars
<1>1. CASE UNCHANGED serverVars
  BY <1>1 DEF serverVars
<1>2. ASSUME NEW p \in Procs, SpawnFirst(p) PROVE ServerTypeOK'
  BY <1>2 DEF SpawnFirst, Launch
<1>3. ASSUME NEW p \in Procs, SpawnMin(p) PROVE ServerTypeOK'
  BY <1>3 DEF SpawnMin, Launch
<1>4. ASSUME NEW p \in Procs, Grow(p) PROVE ServerTypeOK'
  BY <1>4 DEF Grow, Launch
<1>5. ASSUME NEW p \in Procs, Shrink(p) PROVE ServerTypeOK'
  BY <1>5 DEF Shrink, Terminating
<1>6. CASE SpawnFirstFails \/ SpawnMinFails \/ GrowFails \/ ShrinkNone
  BY <1>6 DEF SpawnFirstFails, SpawnMinFails, GrowFails, ShrinkNone, AfterMin
<1>7. CASE FirstReady \/ FirstNotReady
  BY <1>7 DEF FirstReady, FirstNotReady
<1>8. CASE TickBegin \/ TickExits \/ TickFires \/ MinReached
  BY <1>8, ZenonT(60) DEF TickBegin, TickExits, TickFires, MinReached, getProcesses,
              AfterList, AfterMin
<1>9. CASE CheckMemory
  <2>1. Cardinality(list) \in Nat
    BY FS_Subset, FS_CardinalityType
  <2> QED BY <1>9, <2>1 DEF CheckMemory, Terminating
<1>10. CASE Measure
  <2>1. upTicks' \in 0..AutoScaleStreak /\ spawner' \in TickSteps
    BY <1>10 DEF Measure, Bump
  <2>2. downTicks' \in [Procs -> 0..AutoScaleStreak]
    BY <1>10 DEF Measure, Bump
  <2> QED BY <1>10, <2>1, <2>2 DEF Measure
<1>11. ASSUME NEW p \in Procs, InstanceDies(p) \/ TurnsUnhealthy(p) PROVE ServerTypeOK'
  BY <1>11 DEF InstanceDies, TurnsUnhealthy, Terminating
<1>12. ASSUME NEW p \in Procs, StopTerminate(p) \/ StopReaped(p) PROVE ServerTypeOK'
  BY <1>12 DEF StopTerminate, StopReaped, Terminating
<1>13. CASE StopBegin \/ StopSnapshot \/ StopReturns \/ CancelContext
  BY <1>13, ZenonT(60) DEF StopBegin, StopSnapshot, StopReturns, CancelContext, getProcesses
<1> QED
  BY <1>1, <1>2, <1>3, <1>4, <1>5, <1>6, <1>7, <1>8, <1>9, <1>10, <1>11,
     <1>12, <1>13 DEF ServerNext, Ticker

(* The initial states have the types.                                      *)
LEMMA ServerInitTyped == ServerInit => ServerTypeOK
<1> SUFFICES ASSUME ServerInit PROVE ServerTypeOK
  OBVIOUS
<1>1. /\ tickC \in BOOLEAN /\ tickerOn \in BOOLEAN /\ runDone \in BOOLEAN
  BY Zenon DEF ServerInit
<1>2. /\ life \in [Procs -> {"run", "term", "dead"}]
      /\ downTicks \in [Procs -> 0..AutoScaleStreak]
      /\ upTicks \in 0..AutoScaleStreak
  BY ClusterAssumption DEF ServerInit
<1>3. /\ count \in Nat /\ spawner \in TickSteps
      /\ stop \in {"no", "shutdown", "wait", "done"}
      /\ processes \subseteq Procs /\ list \subseteq Procs
      /\ boot \subseteq Procs /\ stopSet \subseteq Procs
  BY DEF ServerInit, TickSteps
<1> QED BY <1>1, <1>2, <1>3 DEF ServerTypeOK

(* Every state of the cluster controller is well typed.                    *)
THEOREM ServerTyped == ServerSpec => []ServerTypeOK
<1>1. ServerInit => ServerTypeOK
  BY ServerInitTyped
<1> QED BY <1>1, ServerTypeStep, PTL DEF ServerSpec

-----------------------------------------------------------------------------
(* A launch adds one running instance.                                     *)
LEMMA LaunchCounts ==
  ASSUME ServerTypeOK, NEW p \in Procs, Launch(p)
  PROVE  /\ Running' = Running \cup {p} /\ Live' = Live \cup {p}
         /\ Cardinality(Running)' = Cardinality(Running) + 1
         /\ Cardinality(Running) \in Nat
<1>1. /\ p \notin Running /\ IsFiniteSet(Running)
      /\ Running' = Running \cup {p} /\ Live' = Live \cup {p}
  BY ClusterAssumption, FS_Subset DEF Launch, ServerTypeOK, Running, Live
<1> QED BY <1>1, FS_AddElement, FS_CardinalityType

(* A step that starts nothing leaves no more running instances than before.*)
LEMMA FewerRunning ==
  ASSUME ServerTypeOK, Running' \subseteq Running
  PROVE  /\ Cardinality(Running) \in Nat /\ Cardinality(Running)' \in Nat
         /\ Cardinality(Running)' <= Cardinality(Running)
<1>1. IsFiniteSet(Running)
  BY ClusterAssumption, FS_Subset DEF Running
<1> QED BY <1>1, FS_Subset, FS_CardinalityType

(* The steps that start nothing and do not move the ticker.                *)
LEMMA QuietStep ==
  ASSUME ServerInv, Running' \subseteq Running, Live' \subseteq Live,
         UNCHANGED <<spawner, list, count, boot>>,
         processes' = processes \/ processes' = processes \cap Live
  PROVE  BootInv' /\ ListInv' /\ RunningBound'
<1>1. /\ Cardinality(Running) \in Nat /\ Cardinality(Running)' \in Nat
      /\ Cardinality(Running)' <= Cardinality(Running)
  BY FewerRunning DEF ServerInv
<1>2. BootInv'
  BY DEF ServerInv, BootInv
<1>3. RunningBound'
  BY <1>1, PrepareBounds DEF ServerInv, RunningBound
<1>4. ListInv'
  BY <1>1, PrepareBounds DEF ServerInv, ListInv, ServerTypeOK
<1> QED BY <1>2, <1>3, <1>4

(* A union has at most as many elements as its parts together.             *)
LEMMA UnionBound ==
  ASSUME NEW S, IsFiniteSet(S), NEW T, IsFiniteSet(T)
  PROVE  /\ IsFiniteSet(S \cup T) /\ Cardinality(S \cup T) \in Nat
         /\ Cardinality(S \cup T) <= Cardinality(S) + Cardinality(T)
<1>1. Cardinality(S \cup T)
        = Cardinality(S) + Cardinality(T) - Cardinality(S \cap T)
  BY FS_Union
<1>2. /\ Cardinality(S) \in Nat /\ Cardinality(T) \in Nat
      /\ Cardinality(S \cap T) \in Nat
  BY FS_Intersection, FS_CardinalityType
<1>3. IsFiniteSet(S \cup T) /\ Cardinality(S \cup T) \in Nat
  BY FS_Union, FS_CardinalityType
<1> QED BY <1>1, <1>2, <1>3

(* Auto-scaling grows only if fewer than cluterN instances run: each class *)
(* counted is finite and together they cover the running ones of the list. *)
LEMMA GrowHasRoom ==
  ASSUME Headroom, ServerInv, Measure, spawner' = "grow"
  PROVE  Cardinality(Running) < cluterN
<1>1. CASE Running \subseteq list
  <2>1. PICK seen \in SUBSET (list \ {p \in Procs : life[p] = "term"}) :
          /\ list \cap Running \subseteq seen
          /\ \E up, down \in SUBSET seen :
               LET neutral == seen \ (up \cup down)
               IN Cardinality(up) + Cardinality(down) + Cardinality(neutral)
                    < cluterN
    BY ZenonT(60) DEF Measure, MayGrow
  <2>2. PICK up, down \in SUBSET seen :
          Cardinality(up) + Cardinality(down)
            + Cardinality(seen \ (up \cup down)) < cluterN
    BY <2>1
  <2> DEFINE neutral == seen \ (up \cup down)
  <2>3. /\ IsFiniteSet(seen) /\ IsFiniteSet(up) /\ IsFiniteSet(down)
        /\ IsFiniteSet(neutral)
    BY <2>1, <2>2, ClusterAssumption, FS_Subset DEF ServerInv, ServerTypeOK
  <2>4. /\ IsFiniteSet(up \cup down)
        /\ Cardinality(up \cup down) <= Cardinality(up) + Cardinality(down)
        /\ Cardinality(up \cup down) \in Nat
    BY <2>3, UnionBound
  <2>5. Cardinality((up \cup down) \cup neutral)
          <= Cardinality(up \cup down) + Cardinality(neutral)
    BY <2>3, <2>4, UnionBound
  <2>6. seen = (up \cup down) \cup neutral
    BY <2>2
  <2>7. Cardinality(Running) <= Cardinality(seen) /\ Cardinality(Running) \in Nat
    <3>1. Running \subseteq seen
      BY <1>1, <2>1
    <3>2. IsFiniteSet(Running)
      BY <3>1, <2>3, FS_Subset
    <3> QED BY <3>1, <3>2, <2>3, FS_Subset, FS_CardinalityType
  <2>8. /\ Cardinality(up) \in Nat /\ Cardinality(down) \in Nat
        /\ Cardinality(neutral) \in Nat /\ Cardinality(seen) \in Nat
    BY <2>3, FS_CardinalityType
  <2> HIDE DEF neutral
  <2>9. Cardinality(up) + Cardinality(down) + Cardinality(neutral) < cluterN
    BY <2>2 DEF neutral
  <2>10. Cardinality(seen) <= Cardinality(up \cup down) + Cardinality(neutral)
    BY <2>5, <2>6
  <2> QED BY <2>4, <2>7, <2>8, <2>9, <2>10, PrepareBounds
<1>2. CASE Cardinality(Running) <= clusterMin
  <2>1. Cardinality(Running) \in Nat
    BY ClusterAssumption, FS_Subset, FS_CardinalityType DEF Running
  <2> QED BY <1>2, <2>1, PrepareBounds DEF Headroom, ServerInv, ListInv, Measure
<1> QED BY <1>1, <1>2 DEF Measure, ServerInv, ListInv

(* The ticker's knowledge is preserved by every action.                    *)
LEMMA ServerStep ==
  ASSUME Headroom, ServerInv, [ServerNext]_serverVars
  PROVE  ServerInv'
<1>0. ServerTypeOK /\ ServerTypeOK'
  BY ServerTypeStep DEF ServerInv
<1>q. SUFFICES BootInv' /\ ListInv' /\ RunningBound'
  BY <1>0 DEF ServerInv
<1>c. Cardinality(Running) \in Nat /\ IsFiniteSet(Running)
  BY ClusterAssumption, FS_Subset, FS_CardinalityType DEF Running
<1> USE DEF stopVars, tickVars
<1>1. CASE UNCHANGED serverVars
  <2>1. Running' = Running /\ Live' = Live /\ processes' = processes
    BY <1>1 DEF serverVars, Running, Live
  <2> QED BY <1>1, <2>1, QuietStep DEF serverVars
<1>2. ASSUME NEW p \in Procs, SpawnFirst(p) PROVE BootInv' /\ ListInv' /\ RunningBound'
  <2>1. Running' = Running \cup {p} /\ Live' = Live \cup {p}
        /\ Cardinality(Running)' = Cardinality(Running) + 1
    BY <1>0, <1>2, LaunchCounts DEF SpawnFirst
  <2>2. Live = {} /\ Running = {} /\ Cardinality(Running) = 0
    <3>1. Live = {} /\ Running = {}
      BY <1>2 DEF SpawnFirst, ServerInv, BootInv, Live, Running
    <3> QED BY <3>1, FS_EmptySet
  <2>3. BootInv'
    BY <1>2, <2>1, <2>2 DEF SpawnFirst, BootInv
  <2>4. ListInv'
    BY <1>2, <2>1, <2>2 DEF SpawnFirst, Launch, ListInv
  <2>5. RunningBound'
    BY <2>1, <2>2, PrepareBounds DEF RunningBound
  <2> QED BY <2>3, <2>4, <2>5
<1>3. ASSUME NEW p \in Procs, SpawnMin(p) PROVE BootInv' /\ ListInv' /\ RunningBound'
  <2>1. Running' = Running \cup {p} /\ Live' = Live \cup {p}
        /\ Cardinality(Running)' = Cardinality(Running) + 1
    BY <1>0, <1>3, LaunchCounts DEF SpawnMin
  <2>2. Cardinality(Running) <= count /\ count < clusterMin /\ count \in Nat
    BY <1>3 DEF SpawnMin, ServerInv, ListInv, ServerTypeOK
  <2>3. BootInv'
    BY <1>3 DEF SpawnMin, BootInv
  <2>4. ListInv'
    BY <1>3, <1>c, <2>1, <2>2, PrepareBounds DEF SpawnMin, Launch, ServerInv, ListInv
  <2>5. RunningBound'
    BY <1>c, <2>1, <2>2, PrepareBounds DEF RunningBound
  <2> QED BY <2>3, <2>4, <2>5
<1>4. ASSUME NEW p \in Procs, Grow(p) PROVE BootInv' /\ ListInv' /\ RunningBound'
  <2>1. Running' = Running \cup {p} /\ Live' = Live \cup {p}
        /\ Cardinality(Running)' = Cardinality(Running) + 1
    BY <1>0, <1>4, LaunchCounts DEF Grow
  <2>2. BootInv'
    BY <1>4 DEF Grow, BootInv
  <2>3. ListInv'
    BY <1>4, <2>1 DEF Grow, Launch, ServerInv, ListInv
  <2>4. RunningBound'
    BY <1>4, <1>c, <2>1, PrepareBounds DEF Grow, RunningBound, ServerInv, ListInv
  <2> QED BY <2>2, <2>3, <2>4
<1>5. ASSUME NEW p \in Procs, Shrink(p) PROVE BootInv' /\ ListInv' /\ RunningBound'
  <2>1. /\ Running' \subseteq Running /\ Live' \subseteq Live
        /\ processes' = processes /\ spawner' = "idle"
    BY <1>5 DEF Shrink, Terminating, Running, Live
  <2>2. Cardinality(Running)' <= Cardinality(Running) /\ Cardinality(Running)' \in Nat
    BY <1>0, <2>1, FewerRunning
  <2> QED
    BY <1>c, <2>1, <2>2, PrepareBounds DEF ServerInv, BootInv, ListInv, RunningBound
<1>6. CASE SpawnFirstFails \/ GrowFails \/ ShrinkNone \/ FirstReady \/ TickExits
  <2>1. /\ Running' = Running /\ Live' = Live /\ processes' = processes
        /\ spawner' \in {"failed", "idle", "exited"}
    BY <1>6 DEF SpawnFirstFails, GrowFails, ShrinkNone, FirstReady, TickExits,
                Running, Live
  <2> QED BY <2>1 DEF ServerInv, BootInv, ListInv, RunningBound
<1>7. CASE SpawnMinFails \/ MinReached
  <2>1. /\ Running' = Running /\ Live' = Live /\ processes' = processes
        /\ list' = list /\ spawner = "min" /\ spawner' = AfterMin
    BY <1>7 DEF SpawnMinFails, MinReached, Running, Live
  <2>2. /\ spawner' \in {"scale", "idle"} /\ (spawner' = "scale" => autoScale)
    BY <2>1 DEF AfterMin
  <2>3. count \in Nat
    BY <1>0 DEF ServerTypeOK
  <2> QED
    BY <1>c, <2>1, <2>2, <2>3, PrepareBounds DEF ServerInv, BootInv, ListInv, RunningBound
<1>8. CASE FirstNotReady
  <2>1. /\ Running' \subseteq Running /\ Live' \subseteq Live
        /\ processes' = processes /\ spawner' \in {"failed", "idle"}
    BY <1>8 DEF FirstNotReady, Running, Live
  <2>2. Cardinality(Running)' <= Cardinality(Running) /\ Cardinality(Running)' \in Nat
    BY <1>0, <2>1, FewerRunning
  <2> QED
    BY <1>c, <2>1, <2>2, PrepareBounds DEF ServerInv, BootInv, ListInv, RunningBound
<1>9. CASE TickBegin
  <2>1. /\ Running' = Running /\ Live' = Live
        /\ processes' = processes \cap Live /\ list' = processes \cap Live
        /\ spawner' \in {"mem", "first", "idle"}
        /\ spawner' = "first" => processes \cap Live = {}
    BY <1>9 DEF TickBegin, getProcesses, AfterList, Running, Live
  <2>2. Running \subseteq Live
    BY DEF Running, Live
  <2> QED BY <2>1, <2>2 DEF ServerInv, BootInv, ListInv, RunningBound
<1>10. CASE CheckMemory
  <2>1. /\ Running' \subseteq Running /\ Live' \subseteq Live
        /\ processes' = processes /\ list' = list
        /\ spawner = "mem" /\ spawner' = "min" /\ count' = Cardinality(list)
    BY <1>10 DEF CheckMemory, Terminating, Running, Live
  <2>2. Cardinality(Running)' <= Cardinality(Running) /\ Cardinality(Running)' \in Nat
    BY <1>0, <2>1, FewerRunning
  <2>3. Running \subseteq list
    BY <2>1 DEF ServerInv, ListInv
  <2>4. Cardinality(Running) <= Cardinality(list) /\ Cardinality(list) \in Nat
    BY <1>0, <2>3, ClusterAssumption, FS_Subset, FS_CardinalityType DEF ServerTypeOK
  <2>5. BootInv' /\ RunningBound'
    BY <1>c, <2>1, <2>2, PrepareBounds DEF ServerInv, BootInv, RunningBound
  <2>6. ListInv'
    BY <1>c, <2>1, <2>2, <2>3, <2>4 DEF ServerInv, ListInv
  <2> QED BY <2>5, <2>6
<1>11. CASE Measure
  <2>1. /\ Running' = Running /\ Live' = Live /\ processes' = processes
        /\ spawner = "scale" /\ spawner' \in {"grow", "shrink", "idle"}
    BY <1>11 DEF Measure, Running, Live
  <2>2. spawner' = "grow" => Cardinality(Running) < cluterN
    BY <1>11, GrowHasRoom
  <2> QED BY <2>1, <2>2 DEF ServerInv, BootInv, ListInv, RunningBound
<1>12. CASE TickFires
  <2>1. Running' = Running /\ Live' = Live
    BY <1>12 DEF TickFires, Running, Live
  <2> QED BY <1>12, <2>1, QuietStep DEF TickFires
<1>13. ASSUME NEW p \in Procs, InstanceDies(p) \/ TurnsUnhealthy(p) \/ StopTerminate(p)
       PROVE BootInv' /\ ListInv' /\ RunningBound'
  <2>1. Running' \subseteq Running /\ Live' \subseteq Live
    BY <1>0, <1>13 DEF InstanceDies, TurnsUnhealthy, StopTerminate, Terminating, Running,
                       Live, ServerTypeOK
  <2> QED BY <1>13, <2>1, QuietStep DEF InstanceDies, TurnsUnhealthy, StopTerminate
<1>14. ASSUME NEW p \in Procs, StopReaped(p) PROVE BootInv' /\ ListInv' /\ RunningBound'
  <2>1. Running' = Running /\ Live' = Live
    BY <1>14 DEF StopReaped, Running, Live
  <2> QED BY <1>14, <2>1, QuietStep DEF StopReaped
<1>15. CASE StopBegin \/ StopSnapshot \/ StopReturns \/ CancelContext
  <2>1. Running' \subseteq Running /\ Live' \subseteq Live
    BY <1>15 DEF StopBegin, StopSnapshot, StopReturns, CancelContext, Running, Live
  <2> QED
    BY <1>15, <2>1, QuietStep DEF StopBegin, StopSnapshot, StopReturns,
                                  CancelContext, getProcesses
<1> QED
  BY <1>1, <1>2, <1>3, <1>4, <1>5, <1>6, <1>7, <1>8, <1>9, <1>10, <1>11,
     <1>12, <1>13, <1>14, <1>15 DEF ServerNext, Ticker

(* The initial state satisfies the ticker's knowledge.                     *)
LEMMA ServerInitInv == ServerInit => ServerInv
<1> SUFFICES ASSUME ServerInit PROVE ServerInv
  OBVIOUS
<1>1. Running = {} /\ Live = {}
  BY DEF ServerInit, Running, Live
<1>2. BootInv /\ ListInv
  BY <1>1 DEF ServerInit, BootInv, ListInv
<1>3. RunningBound
  BY <1>1, FS_EmptySet, PrepareBounds DEF RunningBound
<1> QED BY <1>2, <1>3, ServerInitTyped DEF ServerInv

(* With room above the minimum, or without auto-scaling, the service never *)
(* runs more than cluterN instances, for every Procs and every             *)
(* configuration.                                                          *)
THEOREM ClusterBound == Headroom => (ServerSpec => []RunningBound)
<1> SUFFICES ASSUME Headroom PROVE ServerSpec => []RunningBound
  OBVIOUS
<1>1. ServerInv /\ [ServerNext]_serverVars => ServerInv'
  BY ServerStep
<1>2. ServerInv => RunningBound
  BY DEF ServerInv
<1> QED BY <1>1, <1>2, ServerInitInv, PTL DEF ServerSpec

-----------------------------------------------------------------------------
(* ReplacementIsAlone needs no assumption on the configuration.            *)
AloneInv == ServerTypeOK /\ BootInv /\ Live \subseteq processes

(* Every step of the ticker, the instances and Stop keeps it.              *)
LEMMA AloneStep ==
  ASSUME AloneInv, [ServerNext]_serverVars
  PROVE  AloneInv'
<1>0. ServerTypeOK /\ ServerTypeOK'
  BY ServerTypeStep DEF AloneInv
<1> USE DEF stopVars, tickVars
<1>1. CASE UNCHANGED serverVars
  BY <1>0, <1>1 DEF serverVars, AloneInv, BootInv, Live
<1>2. ASSUME NEW p \in Procs, SpawnFirst(p) \/ SpawnMin(p) \/ Grow(p)
      PROVE  AloneInv'
  <2>1. Launch(p)
    BY <1>2 DEF SpawnFirst, SpawnMin, Grow
  <2>2. Live' = Live \cup {p} /\ processes' = processes \cup {p}
    BY <1>0, <2>1, LaunchCounts DEF Launch
  <2>3. CASE SpawnFirst(p)
    BY <1>0, <2>2, <2>3 DEF SpawnFirst, AloneInv, BootInv
  <2>4. CASE SpawnMin(p) \/ Grow(p)
    BY <1>0, <2>2, <2>4 DEF SpawnMin, Grow, AloneInv, BootInv
  <2> QED BY <1>2, <2>3, <2>4
<1>3. CASE TickBegin
  <2>1. /\ Live' = Live /\ processes' = processes \cap Live
        /\ spawner' \in {"mem", "first", "idle"}
        /\ spawner' = "first" => processes \cap Live = {}
    BY <1>3 DEF TickBegin, getProcesses, AfterList, Live
  <2> QED BY <1>0, <2>1 DEF AloneInv, BootInv
<1>4. CASE FirstNotReady
  <2>1. Live' \subseteq Live /\ processes' = processes /\ spawner' \in {"failed", "idle"}
    BY <1>4 DEF FirstNotReady, Live
  <2> QED BY <1>0, <2>1 DEF AloneInv, BootInv
<1>5. CASE \/ TickExits \/ CheckMemory \/ MinReached \/ Measure \/ FirstReady
           \/ SpawnFirstFails \/ SpawnMinFails \/ GrowFails \/ ShrinkNone
           \/ \E p \in Procs : Shrink(p)
  <2>1. Live' \subseteq Live /\ processes' = processes
    BY <1>5 DEF TickExits, CheckMemory, MinReached, Measure, FirstReady, Shrink,
                SpawnFirstFails, SpawnMinFails, GrowFails, ShrinkNone,
                Terminating, Live
  <2>2. spawner' \in {"exited", "min", "scale", "idle", "grow", "shrink", "failed"}
    BY <1>5, ZenonT(60) DEF TickExits, CheckMemory, MinReached, Measure, FirstReady, Shrink,
                SpawnFirstFails, SpawnMinFails, GrowFails, ShrinkNone, AfterMin
  <2> QED BY <1>0, <2>1, <2>2 DEF AloneInv, BootInv
<1>6. CASE \/ TickFires \/ StopBegin \/ StopSnapshot \/ StopReturns
           \/ CancelContext
           \/ \E p \in Procs : \/ InstanceDies(p) \/ TurnsUnhealthy(p)
                               \/ StopTerminate(p) \/ StopReaped(p)
  <2>1. /\ Live' \subseteq Live /\ UNCHANGED <<spawner, boot>>
        /\ processes' = processes \/ processes' = processes \cap Live
    BY <1>0, <1>6 DEF TickFires, StopBegin, StopSnapshot, StopReturns,
         CancelContext, InstanceDies, TurnsUnhealthy, StopTerminate, StopReaped,
         Terminating, getProcesses, Live, ServerTypeOK
  <2> QED BY <1>0, <2>1 DEF AloneInv, BootInv
<1> QED BY <1>1, <1>2, <1>3, <1>4, <1>5, <1>6 DEF ServerNext, Ticker

(* tick starts a replacement only when nothing of the service is left.     *)
THEOREM Replacement == ServerSpec => []ReplacementIsAlone
<1>1. ServerInit => AloneInv
  BY ServerInitInv DEF ServerInv, AloneInv, ListInv
<1>2. AloneInv /\ [ServerNext]_serverVars => AloneInv'
  BY AloneStep
<1>3. AloneInv => ReplacementIsAlone
  BY DEF AloneInv, BootInv, ReplacementIsAlone
<1> QED BY <1>1, <1>2, <1>3, PTL DEF ServerSpec

-----------------------------------------------------------------------------
(* Termination.                                                            *)

(* A caller inside bumpDeadline's loop wants a real time, and at the       *)
(* compare-and-swap one that precedes the deadline it loaded.              *)
CasInv ==
  \A c \in Callers :
    /\ pc[c] \in {"load", "cas"} => into[c] >= 2
    /\ pc[c] = "cas" => old[c] = 0 \/ into[c] < old[c]

(* A caller past bumpDeadline has left a deadline behind, and the drain    *)
(* goroutine starts after that.  Requests of the cohort never come back.   *)
DrainInv ==
  /\ \A c \in Callers : pc[c] \in {"signal", "sleep"} => deadline # 0
  /\ drain # "off" => deadline # 0
  /\ \A r \in cohort : req[r] # "new"
  /\ drain = "signal" => \/ dead
                         \/ cohort \cap InService = {}
                         \/ deadline - now < 2

ProcInv == ProcTypeOK /\ CasInv /\ DrainInv

-----------------------------------------------------------------------------
(* Initially there is no deadline and no caller.                           *)
LEMMA ProcInitInv == ProcInit => ProcInv
<1> SUFFICES ASSUME ProcInit PROVE ProcInv
  OBVIOUS
<1>1. dead \in BOOLEAN /\ signalSent \in BOOLEAN /\ signalled \in BOOLEAN
  BY Zenon DEF ProcInit
<1>2. /\ now \in 2..MaxTime /\ deadline \in Times
      /\ at \in [Callers -> Times] /\ into \in [Callers -> Times]
      /\ old \in [Callers -> Times]
  BY ProcessAssumption DEF ProcInit, Times
<1>3. /\ os \in {"alive", "exited"}
      /\ drain \in {"off", "loop", "signal", "done"}
      /\ req \in [Requests -> {"new", "served", "done"}]
      /\ cohort \subseteq Requests
      /\ pc \in [Callers -> {"idle", "load", "cas", "signal", "sleep", "done"}]
  BY DEF ProcInit
<1>4. CasInv /\ DrainInv
  BY DEF ProcInit, CasInv, DrainInv
<1> QED BY <1>1, <1>2, <1>3, <1>4 DEF ProcInv, ProcTypeOK

(* What the two entries of tryTerminate leave behind.                      *)
LEMMA EnterStep ==
  ASSUME ProcInv, NEW c \in Callers, NEW want \in Int,
         want <= now + StopTimeout, ~dead,
         BumpDeadline(c, want), UNCHANGED <<now, os, old>>,
         UNCHANGED drainVars, UNCHANGED reqVars
  PROVE  ProcInv'
<1> USE ProcessAssumption DEF ProcTypeOK, Times, drainVars, reqVars
<1>0. ProcTypeOK
  BY DEF ProcInv
<1>1. CASE want < now
  <2>1. /\ deadline' = 1 /\ dead' = TRUE /\ pc' = [pc EXCEPT ![c] = "done"]
        /\ UNCHANGED <<at, into>>
    BY <1>1 DEF BumpDeadline
  <2>2. ProcTypeOK'
    BY <1>0, <2>1
  <2>3. CasInv' /\ DrainInv'
    BY <1>0, <2>1 DEF ProcInv, CasInv, DrainInv, InService
  <2> QED BY <2>2, <2>3 DEF ProcInv
<1>2. CASE ~(want < now)
  <2> DEFINE w == IF want > now + StopTimeout THEN now + StopTimeout ELSE want
  <2>1. /\ at' = [at EXCEPT ![c] = now] /\ into' = [into EXCEPT ![c] = w]
        /\ pc' = [pc EXCEPT ![c] = "load"]
        /\ UNCHANGED <<deadline, dead>>
    BY <1>2 DEF BumpDeadline
  <2>2. w \in Times /\ w >= 2 /\ now \in Times
    BY <1>0, <1>2
  <2> HIDE DEF w
  <2>3. ProcTypeOK'
    BY <1>0, <2>1, <2>2
  <2>4. CasInv'
    BY <1>0, <2>1, <2>2 DEF ProcInv, CasInv
  <2>5. DrainInv'
    BY <1>0, <2>1 DEF ProcInv, DrainInv, InService
  <2> QED BY <2>3, <2>4, <2>5 DEF ProcInv
<1> QED BY <1>1, <1>2

(* A call that returns keeps it.                                           *)
LEMMA ReturnStep ==
  ASSUME ProcInv, NEW c \in Callers, Returns(c), UNCHANGED <<now, os, old>>,
         UNCHANGED drainVars, UNCHANGED reqVars
  PROVE  ProcInv'
<1> USE DEF drainVars, reqVars, Returns
<1>1. ProcTypeOK'
  BY DEF ProcInv, ProcTypeOK
<1>2. CasInv' /\ DrainInv'
  BY DEF ProcInv, ProcTypeOK, CasInv, DrainInv, InService
<1> QED BY <1>1, <1>2 DEF ProcInv

(* A call that goes on in the background keeps it.                         *)
LEMMA BackgroundStep ==
  ASSUME ProcInv, NEW c \in Callers, EnterBackground(c), UNCHANGED <<now, os, old>>,
         UNCHANGED drainVars, UNCHANGED reqVars
  PROVE  ProcInv'
<1>1. CASE dead
  BY <1>1, ReturnStep DEF EnterBackground
<1>2. CASE ~dead /\ deadline = 0
  <2>1. now + StopTimeout \in Int
    BY ProcessAssumption DEF ProcInv, ProcTypeOK
  <2> QED BY <1>2, <2>1, EnterStep DEF EnterBackground
<1>3. CASE ~dead /\ deadline # 0
  <2>1. /\ dead' = (deadline < now)
        /\ pc' = [pc EXCEPT ![c] = IF deadline < now THEN "done" ELSE "signal"]
        /\ UNCHANGED <<deadline, at, into>>
    BY <1>3 DEF EnterBackground
  <2>2. ProcTypeOK'
    BY <2>1 DEF ProcInv, ProcTypeOK, drainVars, reqVars
  <2>3. CasInv' /\ DrainInv'
    BY <1>3, <2>1 DEF ProcInv, ProcTypeOK, CasInv, DrainInv, InService, drainVars, reqVars
  <2> QED BY <2>2, <2>3 DEF ProcInv
<1> QED BY <1>1, <1>2, <1>3

(* Every action preserves the inductive invariant.                         *)
LEMMA ProcStep ==
  ASSUME ProcInv, [ProcNext]_procVars
  PROVE  ProcInv'
<1>0. ProcTypeOK
  BY DEF ProcInv
<1> USE DEF drainVars, reqVars, callerVars
<1>1. CASE UNCHANGED procVars
  BY <1>1 DEF procVars, ProcInv, ProcTypeOK, CasInv, DrainInv, InService
<1>2. CASE Clock
  <2>1. ProcTypeOK'
    BY <1>0, <1>2, ProcessAssumption DEF Clock, ProcTypeOK
  <2>2. CasInv'
    BY <1>2 DEF Clock, ProcInv, CasInv
  <2>3. now' = now + 1 /\ deadline' = deadline /\ now \in Int /\ deadline \in Int
    BY <1>0, <1>2 DEF Clock, ProcTypeOK, Times
  <2>4. DrainInv'
    BY <1>2, <2>3 DEF Clock, ProcInv, DrainInv, InService
  <2> QED BY <2>1, <2>2, <2>4 DEF ProcInv
<1>3. CASE Exits \/ Kill \/ Reaped
  <2>1. ProcTypeOK'
    BY <1>0, <1>3 DEF Exits, Kill, Reaped, ProcTypeOK
  <2>2. CasInv' /\ DrainInv'
    BY <1>3 DEF Exits, Kill, Reaped, ProcInv, CasInv, DrainInv, InService
  <2> QED BY <2>1, <2>2 DEF ProcInv
<1>4. ASSUME NEW r \in Requests, Arrive(r) \/ Finish(r) PROVE ProcInv'
  <2>1. ProcTypeOK'
    BY <1>0, <1>4 DEF Arrive, Finish, ProcTypeOK
  <2>2. CasInv'
    BY <1>4 DEF Arrive, Finish, ProcInv, CasInv
  <2>3. \A q \in cohort' : req'[q] # "new"
    BY <1>0, <1>4 DEF Arrive, Finish, ProcInv, DrainInv, ProcTypeOK
  <2>4. cohort' \cap InService' \subseteq cohort \cap InService
    BY <1>0, <1>4 DEF Arrive, Finish, ProcInv, DrainInv, ProcTypeOK, InService
  <2>5. DrainInv'
    BY <1>4, <2>3, <2>4 DEF Arrive, Finish, ProcInv, DrainInv
  <2> QED BY <2>1, <2>2, <2>5 DEF ProcInv
<1>5. ASSUME NEW c \in Callers, AskToTerminate(c) PROVE ProcInv'
  BY <1>5, BackgroundStep DEF AskToTerminate
<1>6. CASE StopPolls
  BY <1>6, BackgroundStep DEF StopPolls, Callers
<1>7. CASE StopTerminates
  <2>1. CASE dead
    BY <1>7, <2>1, ReturnStep DEF StopTerminates, Callers
  <2>2. CASE ~dead
    <3>1. PICK want \in (now - 1)..(now + StopTimeout) : BumpDeadline("stop", want)
      BY <1>7, <2>2 DEF StopTerminates
    <3>2. want \in Int /\ want <= now + StopTimeout
      BY <1>0, <3>1, ProcessAssumption DEF ProcTypeOK
    <3> QED BY <1>7, <2>2, <3>1, <3>2, EnterStep DEF StopTerminates, Callers
  <2> QED BY <2>1, <2>2
<1>8. ASSUME NEW c \in Callers, LoadDeadline(c) PROVE ProcInv'
  <2>1. ProcTypeOK'
    BY <1>0, <1>8 DEF LoadDeadline, ProcTypeOK
  <2>2. CasInv'
    <3> SUFFICES ASSUME NEW d \in Callers PROVE CasInv!(d)'
      BY DEF CasInv
    <3>1. /\ pc' = [pc EXCEPT ![c] = pc'[c]] /\ old' = [old EXCEPT ![c] = deadline]
          /\ into' = into /\ pc'[c] \in {"done", "signal", "cas"}
          /\ pc'[c] = "cas" => ~(deadline # 0 /\ deadline <= into[c])
      BY <1>0, <1>8 DEF LoadDeadline, ProcTypeOK
    <3>2. into[c] >= 2 /\ into[c] \in Int /\ deadline \in Int
      BY <1>0, <1>8 DEF LoadDeadline, ProcInv, CasInv, ProcTypeOK, Times
    <3>3. CASE d = c
      BY <1>0, <3>1, <3>2, <3>3 DEF ProcTypeOK
    <3>4. CASE d # c
      BY <1>0, <3>1, <3>4 DEF ProcTypeOK, ProcInv, CasInv
    <3> QED BY <3>3, <3>4
  <2>3. DrainInv'
    BY <1>0, <1>8 DEF LoadDeadline, ProcInv, DrainInv, InService, ProcTypeOK
  <2> QED BY <2>1, <2>2, <2>3 DEF ProcInv
<1>9. ASSUME NEW c \in Callers, CasDeadline(c) PROVE ProcInv'
  <2>1. ProcTypeOK'
    BY <1>0, <1>9 DEF CasDeadline, ProcTypeOK
  <2>2. CasInv'
    BY <1>0, <1>9 DEF CasDeadline, ProcInv, CasInv, ProcTypeOK
  <2>3. /\ into[c] \in Int /\ old[c] \in Int /\ deadline \in Int /\ now \in Int
        /\ into[c] >= 2 /\ (old[c] = 0 \/ into[c] < old[c])
    BY <1>0, <1>9 DEF CasDeadline, ProcInv, CasInv, ProcTypeOK, Times
  <2>4. /\ deadline' # 0 \/ deadline' = deadline
        /\ deadline # 0 => deadline' <= deadline
        /\ pc'[c] = "signal" => deadline' # 0
        /\ deadline' \in Int
    BY <1>0, <1>9, <2>3 DEF CasDeadline, ProcTypeOK
  <2>5. \A d \in Callers : pc'[d] \in {"signal", "sleep"} => deadline' # 0
    BY <1>0, <1>9, <2>3, <2>4 DEF CasDeadline, ProcInv, DrainInv, ProcTypeOK
  <2>6. /\ UNCHANGED <<now, dead, drain, req, cohort>>
        /\ InService' = InService
    BY <1>9 DEF CasDeadline, InService
  <2>7. drain # "off" => deadline # 0 /\ deadline' # 0
    BY <2>4 DEF ProcInv, DrainInv
  <2>8. deadline # 0 /\ deadline - now < 2 => deadline' - now < 2
    <3>1. ASSUME NEW x \in Int, NEW y \in Int, NEW z \in Int, y <= x, x - z < 2
          PROVE  y - z < 2
      BY <3>1
    <3> QED BY <2>3, <2>4, <3>1
  <2>9. DrainInv'
    BY <2>5, <2>6, <2>7, <2>8 DEF ProcInv, DrainInv
  <2> QED BY <2>1, <2>2, <2>9 DEF ProcInv
<1>10. ASSUME NEW c \in Callers, StartDrain(c) PROVE ProcInv'
  <2>1. ProcTypeOK'
    BY <1>0, <1>10 DEF StartDrain, ProcTypeOK, InService
  <2>2. CasInv'
    BY <1>0, <1>10 DEF StartDrain, ProcInv, CasInv, ProcTypeOK
  <2>3. DrainInv'
    BY <1>0, <1>10 DEF StartDrain, ProcInv, DrainInv, InService, ProcTypeOK
  <2> QED BY <2>1, <2>2, <2>3 DEF ProcInv
<1>11. CASE DrainReturns
  <2>1. ProcTypeOK'
    BY <1>0, <1>11 DEF DrainReturns, ProcTypeOK
  <2>2. CasInv'
    BY <1>11 DEF DrainReturns, ProcInv, CasInv
  <2>3. NoTimeToDrain => deadline - now < 2
    BY <1>0 DEF NoTimeToDrain, ProcTypeOK, Times
  <2>4. DrainInv'
    BY <1>11, <2>3 DEF DrainReturns, ProcInv, DrainInv, InService
  <2> QED BY <2>1, <2>2, <2>4 DEF ProcInv
<1>12. CASE RequestTermination
  <2>1. ProcTypeOK'
    BY <1>0, <1>12 DEF RequestTermination, ProcTypeOK
  <2>2. CasInv' /\ DrainInv'
    BY <1>12 DEF RequestTermination, ProcInv, CasInv, DrainInv, InService
  <2> QED BY <2>1, <2>2 DEF ProcInv
<1> QED
  BY <1>1, <1>2, <1>3, <1>4, <1>5, <1>6, <1>7, <1>8, <1>9, <1>10, <1>11,
     <1>12 DEF ProcNext, Caller, Drainer

(* Every state of the termination protocol is well typed.                  *)
THEOREM ProcessTyped == ProcSpec => []ProcTypeOK
<1>1. ProcInv /\ [ProcNext]_procVars => ProcInv'
  BY ProcStep
<1>2. ProcInv => ProcTypeOK
  BY DEF ProcInv
<1> QED BY <1>1, <1>2, ProcInitInv, PTL DEF ProcSpec

(* No interleaving of the callers of bumpDeadline withdraws or prolongs a  *)
(* deadline.                                                               *)
THEOREM DeadlineShrinks == ProcSpec => DeadlineOnlyShrinks
<1> DEFINE A == deadline # 0 => deadline' # 0 /\ deadline' <= deadline
<1>1. ASSUME ProcInv, [ProcNext]_procVars PROVE A
  <2>0. deadline \in Int /\ deadline >= 0
    BY <1>1 DEF ProcInv, ProcTypeOK, Times
  <2>1. CASE UNCHANGED deadline
    BY <2>0, <2>1
  <2>2. ASSUME NEW c \in Callers, CasDeadline(c) PROVE A
    <3>1. /\ into[c] \in Int /\ old[c] \in Int
          /\ into[c] >= 2 /\ (old[c] = 0 \/ into[c] < old[c])
      BY <1>1, <2>2 DEF CasDeadline, ProcInv, CasInv, ProcTypeOK, Times
    <3> QED BY <2>0, <2>2, <3>1 DEF CasDeadline
  <2>3. ASSUME NEW c \in Callers, NEW want, BumpDeadline(c, want) PROVE A
    <3>1. deadline' = 1 \/ deadline' = deadline
      BY <2>3 DEF BumpDeadline
    <3> QED BY <2>0, <3>1
  <2>4. ASSUME NEW c \in Callers, Returns(c) \/ EnterBackground(c) PROVE A
    <3>1. CASE BumpDeadline(c, now + StopTimeout)
      BY <3>1, <2>3
    <3>2. CASE UNCHANGED deadline
      BY <3>2, <2>1
    <3> QED BY <2>4, <3>1, <3>2 DEF EnterBackground, Returns
  <2>5. CASE StopTerminates
    BY <2>5, <2>3, <2>4 DEF StopTerminates, Callers
  <2>6. ASSUME NEW c \in Callers, AskToTerminate(c) PROVE A
    BY <2>6, <2>4 DEF AskToTerminate
  <2>7. CASE StopPolls
    BY <2>7, <2>4 DEF StopPolls, Callers
  <2>8. CASE \/ UNCHANGED procVars \/ Clock \/ Exits \/ Kill \/ Reaped \/ Drainer
             \/ \E r \in Requests : Arrive(r) \/ Finish(r)
             \/ \E c \in Callers : LoadDeadline(c) \/ StartDrain(c)
    BY <2>1, <2>8 DEF procVars, Clock, Exits, Kill, Reaped, Drainer, DrainReturns,
      RequestTermination, Arrive, Finish, LoadDeadline, StartDrain
  <2> QED BY <1>1, <2>2, <2>5, <2>6, <2>7, <2>8 DEF ProcNext, Caller
<1>2. ProcInv /\ [ProcNext]_procVars => [A]_procVars
  BY <1>1
<1>3. ProcInv /\ [ProcNext]_procVars => ProcInv'
  BY ProcStep
<1> QED BY <1>2, <1>3, ProcInitInv, PTL DEF ProcSpec, DeadlineOnlyShrinks

(* No request of the cohort is cut off by the signal while there is time.  *)
THEOREM SignalIsGraceful == ProcSpec => GracefulSignal
<1> DEFINE A == signalled' # signalled =>
                  cohort \cap InService = {} \/ deadline - now < 2
<1>1. ASSUME ProcInv, [ProcNext]_procVars PROVE A
  <2>1. CASE UNCHANGED signalled
    BY <2>1
  <2>2. CASE RequestTermination
    BY <1>1, <2>2 DEF RequestTermination, ProcInv, DrainInv
  <2>3. UNCHANGED signalled \/ RequestTermination
    BY <1>1 DEF ProcNext, procVars, Clock, Exits, Kill, Reaped, Drainer, DrainReturns,
      Arrive, Finish, Caller, LoadDeadline, CasDeadline, StartDrain,
      AskToTerminate, StopTerminates, StopPolls, drainVars
  <2> QED BY <2>1, <2>2, <2>3
<1>2. ProcInv /\ [ProcNext]_procVars => [A]_procVars
  BY <1>1
<1>3. ProcInv /\ [ProcNext]_procVars => ProcInv'
  BY ProcStep
<1> QED BY <1>2, <1>3, ProcInitInv, PTL DEF ProcSpec, GracefulSignal

(* Termination by the ticker, the timer and Stop at once is sound, for any *)
(* deadlines, requests and callers (tryTerminate, bumpDeadline, drain).    *)
THEOREM TerminatesSoundly == ProcSpec => TerminationSound
  BY DeadlineShrinks, SignalIsGraceful DEF TerminationSound

-----------------------------------------------------------------------------
(* The monitor.                                                            *)

(* The thresholds are positive, whatever is configured.                    *)
LEMMA Thresholds ==
  /\ Th \in Nat \ {0} /\ Tu \in Nat \ {0} /\ Window \in Nat
  /\ Th <= Window /\ Tu <= Window
  BY MonitorAssumption DEF MonitorAssumption, Th, Tu, Or, Window

(* A positive streak: as many of the last rounds succeeded; one that is    *)
(* not full began after a failure.                                         *)
Rising ==
  /\ state > 0 => \A k \in 0..(state - 1) :
                    k < Len(hist) => hist[Len(hist) - k] = TRUE
  /\ state > 0 /\ state < Th /\ Len(hist) > 0
       => state < Len(hist) /\ hist[Len(hist) - state] = FALSE

(* A negative one likewise, but the first round may have begun it.         *)
Falling ==
  /\ state < 0 => /\ 0 - state <= Len(hist)
                  /\ \A k \in 0..(0 - state - 1) : hist[Len(hist) - k] = FALSE
  /\ state < 0 /\ state > 0 - Tu
       => Len(hist) = 0 - state \/ hist[Len(hist) + state] = TRUE

(* No streak is left once a round has ended, and the first round needs one *)
(* success only.                                                           *)
Fresh ==
  /\ state = 0 => Len(hist) = 0
  /\ Len(hist) = 0 => state = Th - 1
  /\ stage = "connect" => Len(hist) = 0

Streaks == Rising /\ Falling /\ Fresh

(* What the observer was told agrees with what was acted upon, and that    *)
(* with the streak.                                                        *)
Told ==
  /\ stage \in {"connect", "idle", "checking"} => prevHealthy = NewHealthy
  /\ stage \in {"connect", "idle", "checking", "judge"} =>
       /\ prevHealthy = Healthy => reported = "up"
       /\ prevHealthy = Unhealthy => reported = "down"
  /\ stage = "notify" => prevHealthy = NewHealthy /\ prevHealthy # Unknown
  /\ state = Th /\ Len(hist) > 1 /\ Len(hist) < Th => reported = "up"

(* The counter counts the checks that have not succeeded.                  *)
Counted ==
  stage = "checking" => /\ counter = Cardinality(Checks \ passed)
                        /\ pend \cap passed = {}
                        /\ outcome = "ok" => passed = Checks

MonInv == MonTypeOK /\ Streaks /\ Told /\ Counted

(* The last rounds after one more: the window moves by one or grows.       *)
LEMMA Remembered ==
  ASSUME MonTypeOK, NEW ok \in BOOLEAN, Remember(ok)
  PROVE  /\ hist' \in Seq(BOOLEAN) /\ Len(hist') \in Nat \ {0}
         /\ Len(hist') <= Window + 1 /\ hist'[Len(hist')] = ok
         /\ \/ Len(hist') = Len(hist) + 1
            \/ Len(hist') = Len(hist) /\ Len(hist) = Window + 1
         /\ \A k \in 1..(Len(hist') - 1) :
              hist'[Len(hist') - k] = hist[Len(hist) + 1 - k]
  <1>1. hist \in Seq(BOOLEAN) /\ Len(hist) \in Nat /\ Len(hist) <= Window + 1
    BY DEF MonTypeOK
  <1>2. PICK h : h = Append(hist, ok)
    OBVIOUS
  <1>3. /\ h \in Seq(BOOLEAN) /\ Len(h) = Len(hist) + 1
        /\ h[Len(hist) + 1] = ok
        /\ \A i \in 1..Len(hist) : h[i] = hist[i]
    BY <1>1, <1>2
  <1>4. hist' = IF Len(h) > Window + 1 THEN Tail(h) ELSE h
    BY <1>2 DEF Remember
  <1>5. CASE Len(h) > Window + 1
    <2>1. Len(hist) = Window + 1
      BY <1>1, <1>3, <1>5, Thresholds
    <2>2. /\ hist' \in Seq(BOOLEAN) /\ Len(hist') = Len(hist)
          /\ \A i \in 1..Len(hist) : hist'[i] = h[i + 1]
      BY <1>1, <1>3, <1>4, <1>5
    <2>3. hist'[Len(hist')] = ok
      BY <1>1, <1>3, <2>1, <2>2, Thresholds
    <2>4. ASSUME NEW k \in 1..(Len(hist') - 1)
          PROVE  hist'[Len(hist') - k] = hist[Len(hist) + 1 - k]
      <3>1. Len(hist) - k \in 1..Len(hist) /\ Len(hist) + 1 - k \in 1..Len(hist)
        BY <1>1, <2>2
      <3>2. hist'[Len(hist) - k] = h[Len(hist) - k + 1]
        BY <2>2, <3>1
      <3>3. Len(hist) - k + 1 = Len(hist) + 1 - k
        BY <1>1
      <3> QED
        BY <1>3, <2>2, <3>1, <3>2, <3>3
    <2> QED
      BY <1>1, <2>1, <2>2, <2>3, <2>4, Thresholds
  <1>6. CASE ~(Len(h) > Window + 1)
    <2>1. hist' = h
      BY <1>4, <1>6
    <2>2. ASSUME NEW k \in 1..(Len(hist') - 1)
          PROVE  hist'[Len(hist') - k] = hist[Len(hist) + 1 - k]
      <3>1. Len(hist) + 1 - k \in 1..Len(hist)
        BY <1>1, <1>3, <2>1
      <3> QED
        BY <1>3, <2>1, <3>1
    <2> QED
      BY <1>1, <1>3, <1>6, <2>1, <2>2, Thresholds
  <1> QED
    BY <1>5, <1>6

(* A round that succeeds lengthens a positive streak or begins one.        *)
LEMMA RoundSucceeds ==
  ASSUME MonInv, stage = "checking", RoundEnds(TRUE)
  PROVE  /\ Rising' /\ Falling' /\ state' \in 1..Th
         /\ state' = Th /\ Len(hist') > 1 /\ Len(hist') < Th => reported = "up"
  <1> DEFINE L == Len(hist)
             M == Len(hist')
  <1>1. /\ M \in Nat \ {0} /\ M <= Window + 1 /\ hist'[M] = TRUE
        /\ (M = L + 1 \/ (M = L /\ L = Window + 1))
        /\ \A k \in 1..(M - 1) : hist'[M - k] = hist[L + 1 - k]
    BY Remembered DEF RoundEnds, MonInv
  <1>2. L \in Nat /\ L <= Window + 1 /\ state \in Int /\ state >= 0 - Tu
        /\ state <= Th
    BY Thresholds DEF MonInv, MonTypeOK
  <1>3. PICK z \in Int : z = state'
    BY <1>2, Thresholds DEF RoundEnds, StepStreak, BigMin, BigMax
  <1>4. \/ state >= 0 /\ state < Th /\ z = state + 1
        \/ state = Th /\ z = Th
        \/ state < 0 /\ z = 1
    BY <1>2, <1>3, Thresholds DEF RoundEnds, StepStreak, BigMin, BigMax
  <1>5. z \in 1..Th
    BY <1>2, <1>4, Thresholds
  <1>6. /\ state > 0 => \A k \in 0..(state - 1) : k < L => hist[L - k] = TRUE
        /\ state > 0 /\ state < Th /\ L > 0
             => state < L /\ hist[L - state] = FALSE
        /\ state < 0 => /\ 0 - state <= L
                        /\ \A k \in 0..(0 - state - 1) : hist[L - k] = FALSE
        /\ state = 0 => L = 0
        /\ L = 0 => state = Th - 1
    BY DEF MonInv, Streaks, Rising, Falling, Fresh
  <1> HIDE DEF L, M
  <1>7. ASSUME NEW k \in 0..(z - 1), k < M
        PROVE  hist'[M - k] = TRUE
    <2>1. CASE k = 0
      BY <1>1, <2>1
    <2>2. CASE k > 0
      <3>1. k \in 1..(M - 1) /\ k - 1 \in Nat /\ L + 1 - k = L - (k - 1)
        BY <1>1, <1>2, <1>7, <2>2
      <3>2. state > 0 /\ k - 1 \in 0..(state - 1)
        BY <1>2, <1>4, <1>6, <1>7, <2>2, <1>1
      <3>3. k - 1 < L
        BY <1>1, <1>2, <3>1
      <3>4. hist[L - (k - 1)] = TRUE
        BY <1>6, <3>2, <3>3
      <3> QED
        BY <1>1, <3>1, <3>4
    <2>3. k = 0 \/ k > 0
      BY <1>5
    <2> QED
      BY <2>1, <2>2, <2>3
  <1>8. ASSUME z < Th
        PROVE  z < M /\ hist'[M - z] = FALSE
    <2>1. L > 0
      BY <1>2, <1>4, <1>6, <1>8, Thresholds
    <2>2. CASE state > 0
      <3>1. z = state + 1 /\ state < L /\ hist[L - state] = FALSE
        BY <1>2, <1>4, <1>6, <1>8, <2>1, <2>2
      <3>2. z < M
        BY <1>1, <1>2, <1>8, <3>1, Thresholds
      <3>3. z \in 1..(M - 1) /\ L + 1 - z = L - state
        BY <1>1, <1>2, <1>5, <3>1, <3>2
      <3> QED
        BY <1>1, <3>1, <3>2, <3>3
    <2>3. CASE state < 0
      <3>1. z = 1 /\ hist[L] = FALSE
        <4>1. 0 \in 0..(0 - state - 1) /\ z = 1 /\ L - 0 = L
          BY <1>2, <1>4, <2>3, Thresholds
        <4>2. hist[L - 0] = FALSE
          BY <1>6, <2>3, <4>1
        <4> QED
          BY <4>1, <4>2
      <3>2. 1 < M
        BY <1>1, <1>2, <2>1, Thresholds
      <3>3. 1 \in 1..(M - 1) /\ L + 1 - 1 = L
        BY <1>1, <1>2, <3>2
      <3> QED
        BY <1>1, <3>1, <3>2, <3>3
    <2> QED
      <3>1. state > 0 \/ state < 0
        BY <1>2, <1>6, <2>1
      <3> QED
        BY <2>2, <2>3, <3>1
  <1>9. ASSUME z = Th, M > 1, M < Th
        PROVE  reported = "up"
    <2>1. M = L + 1 /\ L > 0
      BY <1>1, <1>2, <1>9, Thresholds
    <2>2. state = Th
      BY <1>2, <1>4, <1>6, <1>9, <2>1
    <2>3. NewHealthy = Healthy
      BY <2>2, Thresholds DEF NewHealthy
    <2> QED
      BY <2>3 DEF MonInv, Told
  <1>10. Rising'
    <2>1. \A k \in 0..(state' - 1) : k < Len(hist') => hist'[Len(hist') - k] = TRUE
      BY <1>3, <1>7 DEF M
    <2>2. state' < Th => state' < Len(hist') /\ hist'[Len(hist') - state'] = FALSE
      BY <1>3, <1>8 DEF M
    <2> QED
      BY <2>1, <2>2 DEF Rising
  <1>11. Falling'
    <2>1. ~(state' < 0)
      BY <1>3, <1>5, Thresholds
    <2> QED
      BY <2>1 DEF Falling
  <1> QED
    BY <1>3, <1>5, <1>9, <1>10, <1>11 DEF M

(* A round that fails lengthens a negative streak or begins one.           *)
LEMMA RoundFails ==
  ASSUME MonInv, RoundEnds(FALSE)
  PROVE  Rising' /\ Falling' /\ state' \in (0 - Tu)..(0 - 1)
  <1> DEFINE L == Len(hist)
             M == Len(hist')
  <1>1. /\ M \in Nat \ {0} /\ M <= Window + 1 /\ hist'[M] = FALSE
        /\ (M = L + 1 \/ (M = L /\ L = Window + 1))
        /\ \A k \in 1..(M - 1) : hist'[M - k] = hist[L + 1 - k]
    BY Remembered DEF RoundEnds, MonInv
  <1>2. L \in Nat /\ L <= Window + 1 /\ state \in Int /\ state >= 0 - Tu
        /\ state <= Th
    BY Thresholds DEF MonInv, MonTypeOK
  <1>a. PICK y \in Int : y = state'
    BY <1>2, Thresholds DEF RoundEnds, StepStreak, BigMin, BigMax
  <1>b. \/ state < 0 /\ state > 0 - Tu /\ y = state - 1
        \/ state = 0 - Tu /\ y = 0 - Tu
        \/ state >= 0 /\ y = 0 - 1
    BY <1>2, <1>a, Thresholds DEF RoundEnds, StepStreak, BigMin, BigMax
  <1>3. PICK z \in Int : z = 0 - y
    OBVIOUS
  <1>c. y = 0 - z
    BY <1>3
  <1>4. \/ state < 0 /\ state > 0 - Tu /\ z = 1 - state
        \/ state = 0 - Tu /\ z = Tu
        \/ state >= 0 /\ z = 1
    BY <1>2, <1>b, <1>3, Thresholds
  <1>5. z \in 1..Tu
    BY <1>2, <1>4, Thresholds
  <1>6. /\ state > 0 => \A k \in 0..(state - 1) : k < L => hist[L - k] = TRUE
        /\ state < 0 => /\ 0 - state <= L
                        /\ \A k \in 0..(0 - state - 1) : hist[L - k] = FALSE
        /\ state < 0 /\ state > 0 - Tu => L = 0 - state \/ hist[L + state] = TRUE
        /\ state = 0 => L = 0
    BY DEF MonInv, Streaks, Rising, Falling, Fresh
  <1> HIDE DEF L, M
  <1>7. z <= M
    BY <1>1, <1>2, <1>4, <1>6, Thresholds
  <1>8. ASSUME NEW k \in 0..(z - 1)
        PROVE  hist'[M - k] = FALSE
    <2>1. CASE k = 0
      BY <1>1, <2>1
    <2>2. CASE k > 0
      <3>1. k \in 1..(M - 1) /\ k - 1 \in Nat /\ L + 1 - k = L - (k - 1)
        BY <1>1, <1>2, <1>5, <1>7, <1>8, <2>2
      <3>2. state < 0 /\ k - 1 \in 0..(0 - state - 1)
        BY <1>2, <1>4, <1>8, <2>2, Thresholds
      <3>3. hist[L - (k - 1)] = FALSE
        BY <1>6, <3>2
      <3> QED
        BY <1>1, <3>1, <3>3
    <2>3. k = 0 \/ k > 0
      BY <1>5
    <2> QED
      BY <2>1, <2>2, <2>3
  <1>9. ASSUME z < Tu
        PROVE  M = z \/ hist'[M - z] = TRUE
    <2>1. CASE state < 0
      <3>1. z = 1 - state /\ state > 0 - Tu
        BY <1>2, <1>4, <1>9, <2>1
      <3>2. CASE L = 0 - state
        BY <1>1, <1>2, <1>9, <3>1, <3>2, Thresholds
      <3>3. CASE L # 0 - state
        <4>1. hist[L + state] = TRUE
          BY <1>6, <2>1, <3>1, <3>3
        <4>2. z \in 1..(M - 1) /\ L + 1 - z = L + state
          BY <1>1, <1>2, <1>6, <1>9, <2>1, <3>1, <3>3, Thresholds
        <4> QED
          BY <1>1, <4>1, <4>2
      <3> QED
        BY <3>2, <3>3
    <2>2. CASE state >= 0
      <3>1. z = 1
        BY <1>2, <1>4, <2>2, Thresholds
      <3>2. CASE M = 1
        BY <3>1, <3>2
      <3>3. CASE M # 1
        <4>1. L > 0 /\ state > 0
          BY <1>1, <1>2, <1>6, <2>2, <3>3
        <4>2. hist[L - 0] = TRUE /\ L - 0 = L
          <5>1. 0 \in 0..(state - 1)
            BY <1>2, <4>1
          <5> QED
            BY <1>2, <1>6, <4>1, <5>1
        <4>3. 1 \in 1..(M - 1) /\ L + 1 - 1 = L
          BY <1>1, <1>2, <3>3
        <4> QED
          BY <1>1, <3>1, <4>2, <4>3
      <3> QED
        BY <3>2, <3>3
    <2>3. state < 0 \/ state >= 0
      BY <1>2
    <2> QED
      BY <2>1, <2>2, <2>3
  <1>10. Falling'
    <2>1. 0 - state' <= Len(hist')
      BY <1>a, <1>3, <1>7 DEF M
    <2>2. \A k \in 0..(0 - state' - 1) : hist'[Len(hist') - k] = FALSE
      BY <1>a, <1>3, <1>8 DEF M
    <2>3. ASSUME state' > 0 - Tu
          PROVE  \/ Len(hist') = 0 - state'
                 \/ hist'[Len(hist') + state'] = TRUE
      <3>a. y > 0 - Tu
        BY <1>a, <2>3
      <3>b. z < Tu
        BY <1>3, <3>a, Thresholds
      <3>1. z < Tu /\ M + y = M - z
        BY <1>1, <1>c, <3>b
      <3> QED
        BY <1>a, <1>3, <1>9, <3>1 DEF M
    <2> QED
      BY <2>1, <2>2, <2>3 DEF Falling
  <1>11. y \in (0 - Tu)..(0 - 1)
    BY <1>3, <1>5, Thresholds
  <1>12. Rising'
    <2>1. ~(y > 0)
      BY <1>11, Thresholds
    <2> QED
      BY <1>a, <2>1 DEF Rising
  <1> QED
    BY <1>a, <1>10, <1>11, <1>12

(* So the end of a round keeps what is known of the streak.                *)
LEMMA RoundEnded ==
  ASSUME MonInv, stage = "checking", NEW ok \in BOOLEAN, RoundEnds(ok)
  PROVE  MonInv'
  <1>1. hist' \in Seq(BOOLEAN) /\ Len(hist') \in Nat \ {0}
        /\ Len(hist') <= Window + 1
    BY Remembered DEF RoundEnds, MonInv
  <1>2. /\ Rising' /\ Falling' /\ state' \in -Tu..Th /\ state' # 0
        /\ state' = Th /\ Len(hist') > 1 /\ Len(hist') < Th => reported = "up"
    <2>1. CASE ok = TRUE
      <3>1. RoundEnds(TRUE)
        BY <2>1
      <3>2. /\ Rising' /\ Falling' /\ state' \in 1..Th
            /\ state' = Th /\ Len(hist') > 1 /\ Len(hist') < Th
                 => reported = "up"
        BY <3>1, RoundSucceeds
      <3>3. \A z \in 1..Th : z \in -Tu..Th /\ z # 0
        BY Thresholds
      <3> QED
        BY <3>2, <3>3
    <2>2. CASE ok = FALSE
      <3>1. RoundEnds(FALSE)
        BY <2>2
      <3>2. Rising' /\ Falling' /\ state' \in (0 - Tu)..(0 - 1)
        BY <3>1, RoundFails
      <3>3. \A z \in (0 - Tu)..(0 - 1) : z \in -Tu..Th /\ z # 0 /\ z # Th
        BY Thresholds
      <3> QED
        BY <3>2, <3>3
    <2> QED
      BY <2>1, <2>2
  <1>3. UNCHANGED <<ctxDone, prevHealthy, reported, pend, counter, outcome, passed>>
        /\ stage' = "judge"
    BY DEF RoundEnds, roundVars
  <1>4. MonTypeOK'
    BY <1>1, <1>2, <1>3 DEF MonInv, MonTypeOK
  <1>5. Fresh'
    BY <1>1, <1>2, <1>3 DEF Fresh
  <1>6. Told'
    BY <1>2, <1>3 DEF MonInv, Told
  <1>7. Counted'
    BY <1>3 DEF Counted
  <1> QED
    BY <1>2, <1>4, <1>5, <1>6, <1>7 DEF MonInv, Streaks

(* Before the first round nothing is known and nothing was told.           *)
LEMMA MonInitInv == MonInit => MonInv
  <1> SUFFICES ASSUME MonInit
               PROVE  MonInv
    OBVIOUS
  <1> USE DEF MonInit
  <1>1. Cardinality(Checks) \in Nat
    BY MonitorAssumption, FS_CardinalityType DEF MonitorAssumption
  <1>2. hist \in Seq(BOOLEAN) /\ Len(hist) = 0
    OBVIOUS
  <1>3. state \in -Tu..Th /\ state < Th /\ state > -Tu /\ state >= 0
    BY Thresholds
  <1>4. MonTypeOK
    <2>1. counter \in 0..Cardinality(Checks)
      BY <1>1
    <2>2. Len(hist) <= Window + 1
      BY <1>2, Thresholds
    <2>3. prevHealthy \in {Healthy, Unknown, Unhealthy} /\ ctxDone \in BOOLEAN
      OBVIOUS
    <2> QED
      BY <1>2, <1>3, <2>1, <2>2, <2>3 DEF MonTypeOK
  <1>5. Rising /\ Falling /\ Fresh
    BY <1>2, <1>3, Thresholds DEF Rising, Falling, Fresh
  <1>6. NewHealthy = Unknown
    BY <1>3, Thresholds DEF NewHealthy
  <1>7. Told
    BY <1>2, <1>6 DEF Told, Healthy, Unhealthy, Unknown
  <1> QED
    BY <1>4, <1>5, <1>7 DEF MonInv, Streaks, Counted

(* A step that leaves the streak alone keeps it.                           *)
LEMMA StreakStays ==
  ASSUME MonInv, UNCHANGED <<state, hist>>, stage' # "connect" \/ UNCHANGED stage
  PROVE  Streaks' /\ NewHealthy' = NewHealthy
  BY DEF MonInv, Streaks, Rising, Falling, Fresh, NewHealthy

(* Every step of the observer and of the checks keeps it.                  *)
LEMMA MonStep == MonInv /\ [MonNext]_monVars => MonInv'
  <1> SUFFICES ASSUME MonInv, [MonNext]_monVars
               PROVE  MonInv'
    OBVIOUS
  <1>t. /\ MonTypeOK /\ Told /\ Counted
    BY DEF MonInv
  <1>f. /\ IsFiniteSet(Checks) /\ Cardinality(Checks) \in Nat
    BY MonitorAssumption, FS_CardinalityType DEF MonitorAssumption
  <1>1. CASE Cancel
    <2>1. Streaks' /\ NewHealthy' = NewHealthy
      BY <1>1, StreakStays DEF Cancel
    <2> QED
      BY <1>1, <1>t, <2>1 DEF Cancel, roundVars, MonInv, MonTypeOK, Told, Counted
  <1>2. CASE Connects
    <2>1. Streaks' /\ NewHealthy' = NewHealthy
      BY <1>2, StreakStays DEF Connects
    <2> QED
      BY <1>2, <1>t, <2>1 DEF Connects, roundVars, MonInv, MonTypeOK, Told, Counted
  <1>3. CASE NeverConnects
    <2>1. Streaks' /\ NewHealthy' = NewHealthy
      BY <1>3, StreakStays DEF NeverConnects
    <2>2. Len(hist') = 0
      BY <1>3 DEF NeverConnects, MonInv, Streaks, Fresh
    <2> QED
      BY <1>3, <1>t, <2>1, <2>2
      DEF NeverConnects, roundVars, MonInv, MonTypeOK, Told, Counted
  <1>4. CASE StartRound
    <2>1. Streaks' /\ NewHealthy' = NewHealthy
      BY <1>4, StreakStays DEF StartRound
    <2>2. Checks \ {} = Checks
      OBVIOUS
    <2> QED
      BY <1>4, <1>t, <1>f, <2>1, <2>2
      DEF StartRound, MonInv, MonTypeOK, Told, Counted
  <1>5. ASSUME NEW c \in Checks, CheckSucceeds(c)
        PROVE  MonInv'
    <2>1. Streaks' /\ NewHealthy' = NewHealthy
      BY <1>5, StreakStays DEF CheckSucceeds
    <2> DEFINE open == Checks \ passed
    <2>2. IsFiniteSet(open) /\ c \in open
      BY <1>5, <1>f, <1>t, FS_Subset DEF CheckSucceeds, Counted
    <2>3. PICK rest : rest = open \ {c}
      OBVIOUS
    <2>4. /\ IsFiniteSet(rest) /\ Cardinality(rest) = Cardinality(open) - 1
          /\ Cardinality(open) \in Nat /\ Cardinality(rest) \in Nat
      <3> HIDE DEF open
      <3> QED
        BY <2>2, <2>3, FS_RemoveElement, FS_CardinalityType
    <2>5. rest = Checks \ passed' /\ counter' = Cardinality(rest)
      BY <1>5, <1>t, <2>3, <2>4 DEF CheckSucceeds, Counted
    <2>6. Cardinality(rest) = 0 => rest = {}
      BY <2>4, FS_EmptySet
    <2>7. passed' \subseteq Checks /\ pend' \subseteq Checks
          /\ pend' \cap passed' = {}
      BY <1>5, <1>t DEF CheckSucceeds, MonTypeOK, Counted
    <2>8. outcome' = "ok" => passed' = Checks
      <3>1. counter = Cardinality(open) /\ (outcome = "ok" => passed = Checks)
        BY <1>5, <1>t DEF CheckSucceeds, Counted
      <3>2. CASE counter = 1
        BY <2>4, <2>5, <2>6, <2>7, <3>1, <3>2
      <3>3. CASE counter # 1
        BY <1>5, <2>2, <3>1, <3>3 DEF CheckSucceeds
      <3> QED
        BY <3>2, <3>3
    <2>9. Cardinality(rest) <= Cardinality(Checks)
      BY <1>f, <2>5, FS_Subset, rest \subseteq Checks
    <2>10. outcome' \in {"empty", "ok", "err"}
      BY <1>5, <1>t DEF CheckSucceeds, SendResult, MonTypeOK
    <2>11. MonTypeOK'
      BY <1>5, <1>t, <1>f, <2>4, <2>5, <2>7, <2>9, <2>10
      DEF CheckSucceeds, MonTypeOK
    <2>12. Told'
      BY <1>5, <1>t, <2>1 DEF CheckSucceeds, Told
    <2>13. Counted'
      BY <2>5, <2>7, <2>8 DEF Counted
    <2> QED
      BY <2>1, <2>11, <2>12, <2>13 DEF MonInv
  <1>6. ASSUME NEW c \in Checks, CheckFails(c)
        PROVE  MonInv'
    <2>1. Streaks' /\ NewHealthy' = NewHealthy
      BY <1>6, StreakStays DEF CheckFails
    <2>2. MonTypeOK'
      BY <1>6, <1>t DEF CheckFails, SendResult, MonTypeOK
    <2>3. Told' /\ Counted'
      BY <1>6, <1>t, <2>1 DEF CheckFails, SendResult, Told, Counted
    <2> QED
      BY <2>1, <2>2, <2>3 DEF MonInv
  <1>7. CASE RoundResult \/ RoundTimesOut
    <2>1. (outcome = "ok") \in BOOLEAN
      OBVIOUS
    <2> QED
      BY <1>7, <2>1, RoundEnded DEF RoundResult, RoundTimesOut
  <1>8. CASE Judge
    <2>1. Streaks' /\ NewHealthy' = NewHealthy
      BY <1>8, StreakStays DEF Judge
    <2>2. NewHealthy \in {Healthy, Unknown, Unhealthy}
      BY DEF NewHealthy
    <2>3. MonTypeOK'
      BY <1>8, <1>t, <2>2 DEF Judge, roundVars, MonTypeOK
    <2>4. Told'
      BY <1>8, <1>t, <2>1, <2>2
      DEF Judge, Told, Healthy, Unknown, Unhealthy
    <2>5. Counted'
      BY <1>8 DEF Judge, Counted
    <2> QED
      BY <2>1, <2>3, <2>4, <2>5 DEF MonInv
  <1>9. CASE Notify
    <2>1. Streaks' /\ NewHealthy' = NewHealthy
      BY <1>9, StreakStays DEF Notify
    <2>2. MonTypeOK'
      BY <1>9, <1>t DEF Notify, roundVars, MonTypeOK
    <2>3. state = Th => NewHealthy = Healthy
      BY Thresholds DEF NewHealthy
    <2>4. Told'
      BY <1>9, <1>t, <2>1, <2>3
      DEF Notify, Told, MonTypeOK, Healthy, Unknown, Unhealthy
    <2>5. Counted'
      BY <1>9 DEF Notify, Counted
    <2> QED
      BY <2>1, <2>2, <2>4, <2>5 DEF MonInv
  <1>10. CASE ObserverStops
    <2>1. Streaks' /\ NewHealthy' = NewHealthy
      BY <1>10, StreakStays DEF ObserverStops
    <2> QED
      BY <1>10, <1>t, <2>1
      DEF ObserverStops, roundVars, MonInv, MonTypeOK, Told, Counted
  <1>11. CASE UNCHANGED monVars
    <2>1. Streaks' /\ NewHealthy' = NewHealthy
      BY <1>11, StreakStays DEF monVars
    <2> QED
      BY <1>11, <1>t, <2>1 DEF monVars, MonInv, MonTypeOK, Told, Counted
  <1> QED
    BY <1>1, <1>2, <1>3, <1>4, <1>5, <1>6, <1>7, <1>8, <1>9, <1>10, <1>11
    DEF MonNext, Observe

(* A full streak is what NewHealthy says it is.                            *)
LEMMA FullStreak ==
  ASSUME MonInv
  PROVE  /\ LastRounds(Th, TRUE) => NewHealthy = Healthy
         /\ LastRounds(Tu, FALSE) => NewHealthy = Unhealthy
         /\ NewHealthy = Healthy /\ Len(hist) >= Th => LastRounds(Th, TRUE)
         /\ NewHealthy = Unhealthy => LastRounds(Tu, FALSE)
  <1> DEFINE L == Len(hist)
  <1>1. L \in Nat /\ state \in Int /\ state >= 0 - Tu /\ state <= Th
    BY Thresholds DEF MonInv, MonTypeOK
  <1>2. /\ state > 0 => \A k \in 0..(state - 1) : k < L => hist[L - k] = TRUE
        /\ state > 0 /\ state < Th /\ L > 0
             => state < L /\ hist[L - state] = FALSE
        /\ state < 0 => 0 - state <= L
        /\ state < 0 => \A k \in 0..(0 - state - 1) : hist[L - k] = FALSE
        /\ state < 0 /\ state > 0 - Tu => L = 0 - state \/ hist[L + state] = TRUE
        /\ state = 0 => L = 0
    BY DEF MonInv, Streaks, Rising, Falling, Fresh
  <1>3. /\ NewHealthy = Healthy <=> state = Th
        /\ NewHealthy = Unhealthy <=> state = 0 - Tu
    BY <1>1, Thresholds DEF NewHealthy, Healthy, Unhealthy, Unknown
  <1>l. ASSUME L > 0
        PROVE  /\ state > 0 => hist[L] = TRUE
               /\ state < 0 => hist[L] = FALSE
    <2>1. L - 0 = L
      BY <1>1
    <2>2. state > 0 => 0 \in 0..(state - 1)
      BY <1>1
    <2>3. state < 0 => 0 \in 0..(0 - state - 1)
      BY <1>1
    <2> QED
      BY <1>2, <1>l, <2>1, <2>2, <2>3
  <1>4. ASSUME LastRounds(Th, TRUE)
        PROVE  state = Th
    <2>1. L >= Th /\ \A i \in (L - Th + 1)..L : hist[i] = TRUE
      BY <1>4 DEF LastRounds
    <2> HIDE DEF L
    <2>2. L > 0 /\ L \in (L - Th + 1)..L
      BY <1>1, <2>1, Thresholds
    <2>3. hist[L] = TRUE
      BY <2>1, <2>2
    <2>4. state > 0
      BY <1>1, <1>2, <1>l, <2>2, <2>3
    <2>5. ASSUME state < Th
          PROVE  FALSE
      <3>1. hist[L - state] = FALSE
        BY <1>2, <2>2, <2>4, <2>5
      <3>2. L - state \in (L - Th + 1)..L
        BY <1>1, <2>1, <2>4, <2>5, Thresholds
      <3> QED
        BY <2>1, <3>1, <3>2
    <2> QED
      BY <1>1, <2>5, Thresholds
  <1>5. ASSUME LastRounds(Tu, FALSE)
        PROVE  state = 0 - Tu
    <2>1. L >= Tu /\ \A i \in (L - Tu + 1)..L : hist[i] = FALSE
      BY <1>5 DEF LastRounds
    <2> HIDE DEF L
    <2>2. L > 0 /\ L \in (L - Tu + 1)..L
      BY <1>1, <2>1, Thresholds
    <2>3. hist[L] = FALSE
      BY <2>1, <2>2
    <2>4. state < 0
      BY <1>1, <1>2, <1>l, <2>2, <2>3
    <2>5. ASSUME state > 0 - Tu
          PROVE  FALSE
      <3>1. L # 0 - state
        BY <1>1, <2>1, <2>5, Thresholds
      <3>2. hist[L + state] = TRUE
        BY <1>2, <2>4, <2>5, <3>1
      <3>3. L + state \in (L - Tu + 1)..L
        BY <1>1, <2>1, <2>4, <2>5, Thresholds
      <3> QED
        BY <2>1, <3>2, <3>3
    <2> QED
      BY <1>1, <2>5, Thresholds
  <1>6. ASSUME state = Th, L >= Th
        PROVE  LastRounds(Th, TRUE)
    <2>1. ASSUME NEW i \in (L - Th + 1)..L
          PROVE  hist[i] = TRUE
      <3> HIDE DEF L
      <3>1. i \in Int /\ i >= L - Th + 1 /\ i <= L
        BY <1>1, Thresholds
      <3>2. L - i \in 0..(state - 1) /\ L - i < L /\ L - (L - i) = i
        BY <1>1, <1>6, <3>1, Thresholds
      <3>3. hist[L - (L - i)] = TRUE
        BY <1>2, <1>6, <3>2, Thresholds
      <3> QED
        BY <3>2, <3>3
    <2> QED
      BY <1>6, <2>1 DEF LastRounds
  <1>7. ASSUME state = 0 - Tu
        PROVE  LastRounds(Tu, FALSE)
    <2>0. state < 0 /\ Tu <= L
      BY <1>1, <1>2, <1>7, Thresholds
    <2>1. ASSUME NEW i \in (L - Tu + 1)..L
          PROVE  hist[i] = FALSE
      <3> HIDE DEF L
      <3>1. i \in Int /\ i >= L - Tu + 1 /\ i <= L
        BY <1>1, Thresholds
      <3>2. L - i \in 0..(0 - state - 1) /\ L - (L - i) = i
        BY <1>1, <1>7, <3>1, Thresholds
      <3>3. hist[L - (L - i)] = FALSE
        BY <1>2, <2>0, <3>2
      <3> QED
        BY <3>2, <3>3
    <2> QED
      BY <2>0, <2>1 DEF LastRounds
  <1> HIDE DEF L
  <1> QED
    BY <1>3, <1>4, <1>5, <1>6, <1>7 DEF L

(* Between rounds a full streak has been reported.                         *)
LEMMA StreakTold == MonInv => StreakIsReported
  BY FullStreak DEF MonInv, Told, StreakIsReported

(* A round is remembered as a success when all its checks succeeded.       *)
LEMMA OutcomeStep ==
  MonInv /\ [MonNext]_monVars
    => [hist' # hist /\ hist'[Len(hist')] = TRUE => passed = Checks]_monVars
  <1> SUFFICES ASSUME MonInv, MonNext, hist' # hist, hist'[Len(hist')] = TRUE
               PROVE  passed = Checks
    BY DEF monVars
  <1>1. PICK ok \in BOOLEAN : /\ stage = "checking" /\ Remember(ok)
                              /\ ok = TRUE => outcome = "ok"
    <2>1. RoundResult \/ RoundTimesOut
      BY DEF MonNext, Observe, Cancel, Connects, NeverConnects, StartRound,
             Judge, Notify, ObserverStops, CheckSucceeds, CheckFails
    <2>2. (outcome = "ok") \in BOOLEAN
      OBVIOUS
    <2> QED
      BY <2>1, <2>2 DEF RoundResult, RoundTimesOut, RoundEnds
  <1>2. hist'[Len(hist')] = ok
    BY <1>1, Remembered DEF MonInv
  <1> QED
    BY <1>1, <1>2 DEF MonInv, Counted

(* A sequence of length one is its element.                                *)
LEMMA OneRound ==
  ASSUME NEW S, NEW s \in Seq(S), Len(s) = 1
  PROVE  s = <<s[1]>>
  OBVIOUS

(* A report has its streak.                                                *)
LEMMA ReportStep ==
  MonInv /\ [MonNext]_monVars
    => [/\ reported' # reported /\ reported' = "up" =>
             LastRounds(Th, TRUE) \/ hist = <<TRUE>>
        /\ reported' # reported /\ reported' = "down" =>
             LastRounds(Tu, FALSE) \/ stage = "connect"]_monVars
  <1> SUFFICES ASSUME MonInv, MonNext, reported' # reported
               PROVE  /\ reported' = "up" =>
                           LastRounds(Th, TRUE) \/ hist = <<TRUE>>
                      /\ reported' = "down" =>
                           LastRounds(Tu, FALSE) \/ stage = "connect"
    BY DEF monVars
  <1>1. Notify \/ NeverConnects
    BY DEF MonNext, Observe, Cancel, Connects, StartRound, RoundResult,
           RoundTimesOut, RoundEnds, Judge, ObserverStops, CheckSucceeds,
           CheckFails
  <1>2. CASE NeverConnects
    BY <1>2 DEF NeverConnects
  <1>3. CASE Notify /\ prevHealthy = Healthy
    <2>1. NewHealthy = Healthy /\ reported' = "up"
      BY <1>3 DEF Notify, MonInv, Told
    <2>2. CASE Len(hist) >= Th
      BY <2>1, <2>2, FullStreak
    <2>3. CASE ~(Len(hist) >= Th)
      <3>1. /\ hist \in Seq(BOOLEAN) /\ Len(hist) \in Nat
            /\ state \in Int /\ state <= Th
        BY Thresholds DEF MonInv, MonTypeOK
      <3>2. state = Th
        BY <2>1, <3>1, Thresholds DEF NewHealthy, Healthy, Unhealthy, Unknown
      <3>3. Len(hist) # 0
        BY <3>2, Thresholds DEF MonInv, Streaks, Fresh
      <3>4. ~(Len(hist) > 1)
        BY <2>1, <2>3, <3>1, <3>2, Thresholds DEF MonInv, Told
      <3>5. Len(hist) = 1
        <4>1. \A n \in Nat : n = 0 \/ n = 1 \/ n > 1
          OBVIOUS
        <4> QED
          BY <3>1, <3>3, <3>4, <4>1
      <3>6. hist[1] = TRUE
        <4>1. 0 \in 0..(state - 1) /\ 0 < Len(hist) /\ Len(hist) - 0 = 1
          BY <3>1, <3>2, <3>5, Thresholds
        <4>2. hist[Len(hist) - 0] = TRUE
          BY <3>2, <4>1, Thresholds DEF MonInv, Streaks, Rising
        <4> QED
          BY <4>1, <4>2
      <3>7. hist = <<TRUE>>
        BY <3>1, <3>5, <3>6, OneRound
      <3> QED
        BY <2>1, <3>7
    <2> QED
      BY <2>2, <2>3
  <1>4. CASE Notify /\ prevHealthy # Healthy
    <2>1. NewHealthy = Unhealthy /\ reported' = "down"
      BY <1>4 DEF Notify, MonInv, MonTypeOK, Told
    <2> QED
      BY <2>1, FullStreak
  <1> QED
    BY <1>1, <1>2, <1>3, <1>4

(* Whatever the checks, the thresholds and the order of goroutines,        *)
(* timeouts and cancellation: a round succeeds only if all its checks did, *)
(* the observer is told of a change only by the streak that the threshold  *)
(* asks for, and of every such streak (Check, observe).                    *)
THEOREM ReportsHold == MonSpec => ReportsSound
  <1>1. MonInv => MonTypeOK
    BY DEF MonInv
  <1> QED
    BY <1>1, MonInitInv, MonStep, StreakTold, OutcomeStep, ReportStep, PTL
    DEF MonSpec, ReportsSound, OutcomeSound, ReportJustified

-----------------------------------------------------------------------------
(* The log and its tails.                                                  *)

(* A line, and a line in the file of its writer.                           *)
LogLines == [w : Writers, n : Nat \ {0}, t : Nat]
InFile(l) ==
  /\ l.w \in Writers /\ l.n \in 1..Len(logFile[l.w])
  /\ logFile[l.w][l.n] = l

Distinct(seq) == \A i, j \in DOMAIN seq : seq[i] = seq[j] => i = j
Stamped == {l \in Writers \X (1..MaxLines) : l[2] <= writer[l[1]].n}
Limit(t) == IF tail[t].limit = 0 THEN NoLimit ELSE tail[t].limit
Active(t) == tail[t].at \in {"files", "history", "copy"}

TailTypeOK ==
  /\ logClock \in Nat /\ logFile \in [Writers -> Seq(LogLines)]
  /\ writer \in [Writers -> [at : {"idle", "file", "collect", "send"}, n : Nat,
                             line : LogLines \cup {NoLine}, left : SUBSET Tails]]
  /\ collectors \in SUBSET Tails
  /\ tail \in [Tails -> [at : {"off", "register", "files", "history", "copy",
                               "cancelled", "remove", "done"},
                         now : Nat, limit : Nat,
                         todo : [Writers -> Seq(LogLines)] \cup {<<>>},
                         open : BOOLEAN]]
  /\ quota \in [Tails -> Int] /\ history \in [Tails -> Seq(LogLines)]
  /\ followed \in [Tails -> Seq(LogLines)]
  /\ sure \in [Tails -> [past : SUBSET LogLines, from : Nat]]

(* The lines of a file are numbered and not of the future, and its writer  *)
(* is one line ahead of it at most.                                        *)
FileOk(w) ==
  /\ \A i \in 1..Len(logFile[w]) : /\ logFile[w][i].w = w /\ logFile[w][i].n = i
                                   /\ logFile[w][i].t <= logClock
  /\ writer[w].at # "file" => Len(logFile[w]) = writer[w].n
  /\ writer[w].at = "file" =>
       /\ Len(logFile[w]) = writer[w].n - 1 /\ writer[w].line \in LogLines
       /\ writer[w].line.w = w /\ writer[w].line.n = writer[w].n
       /\ writer[w].line.t <= logClock
  /\ writer[w].at \in {"collect", "send"} =>
       InFile(writer[w].line) /\ writer[w].line.w = w

CountInv ==
  /\ \A w \in Writers : writer[w].n <= MaxLines
  /\ Cardinality(Stamped) <= MaxLines

(* A tail that is registered stays so until it is cancelled; now is before *)
(* the time of registration, and what was logged by then is in the files.  *)
StateOk(t) ==
  /\ tail[t].at \in {"off", "register"} => followed[t] = <<>>
  /\ tail[t].at \in {"off", "register", "files"} => history[t] = <<>>
  /\ tail[t].at \in {"register", "files"} => quota[t] = Limit(t)
  /\ tail[t].at = "register" => tail[t].now <= logClock
  /\ Active(t) => /\ t \in collectors /\ tail[t].open
                  /\ tail[t].now <= sure[t].from /\ sure[t].from <= logClock
  /\ tail[t].at = "register" \/ Active(t) =>
       \A l \in sure[t].past : InFile(l) /\ l.t <= tail[t].now
  /\ ~(tail[t].at = "register" \/ Active(t)) => tail[t].limit = 0

(* What the parsers have still to read is the beginning of each file       *)
(* backwards, what is behind it and not after now has been taken, once,    *)
(* unless the quota ended before.                                          *)
TodoOk(t) ==
  /\ tail[t].todo \in [Writers -> Seq(LogLines)]
  /\ \A w \in Writers :
       /\ Len(tail[t].todo[w]) <= Len(logFile[w])
       /\ \A i \in 1..Len(tail[t].todo[w]) :
            tail[t].todo[w][i] = logFile[w][Len(tail[t].todo[w]) + 1 - i]
       /\ tail[t].at = "copy" => tail[t].todo[w] = <<>>
TakenOk(t) ==
  /\ Distinct(history[t])
  /\ \A l \in ToSet(history[t]) :
       InFile(l) /\ l.t <= tail[t].now /\ l.n > Len(tail[t].todo[l.w])
  /\ quota[t] >= 0 =>
       /\ Len(history[t]) = Limit(t) - quota[t]
       /\ \A l \in sure[t].past :
            l.n > Len(tail[t].todo[l.w]) => l \in ToSet(history[t])
  /\ quota[t] < 0 => Len(history[t]) = Limit(t)
HistoryOk(t) == tail[t].at \in {"history", "copy"} => TodoOk(t) /\ TakenOk(t)

(* A line that is on its way to the collectors has not reached the ones    *)
(* that are left, and reaches them before it is done.                      *)
Coming(w, t) ==
  \/ writer[w].at = "collect"
  \/ writer[w].at = "send" /\ t \in writer[w].left
FollowOk(t) ==
  Active(t) =>
    /\ Distinct(followed[t])
    /\ \A l \in ToSet(followed[t]) : InFile(l)
    /\ \A w \in Writers : Coming(w, t) => writer[w].line \notin ToSet(followed[t])
    /\ \A w \in Writers : \A l \in ToSet(logFile[w]) :
         l.t > sure[t].from /\ ~(Coming(w, t) /\ l = writer[w].line) =>
           l \in ToSet(followed[t])

TailInv ==
  /\ TailTypeOK /\ (\A w \in Writers : FileOk(w)) /\ CountInv
  /\ \A t \in Tails : StateOk(t) /\ HistoryOk(t) /\ FollowOk(t)


(* A list with one more element.                                           *)
LEMMA AppendSet ==
  ASSUME NEW S, NEW s \in Seq(S), NEW e \in S
  PROVE  /\ Append(s, e) \in Seq(S) /\ Len(Append(s, e)) = Len(s) + 1
         /\ ToSet(Append(s, e)) = ToSet(s) \cup {e}
         /\ Distinct(s) /\ e \notin ToSet(s) => Distinct(Append(s, e))
  <1> DEFINE a == Append(s, e)
  <1>1. /\ a \in Seq(S) /\ Len(a) = Len(s) + 1
        /\ \A i \in 1..Len(s) : a[i] = s[i]
        /\ a[Len(s) + 1] = e
    BY AppendProperties
  <1>2. DOMAIN s = 1..Len(s) /\ Len(s) \in Nat
    BY LenProperties
  <1>3. DOMAIN a = 1..(Len(s) + 1)
    BY <1>1, LenProperties
  <1> HIDE DEF a
  <1>4. \A i : i \in DOMAIN a <=> i \in DOMAIN s \/ i = Len(s) + 1
    BY <1>2, <1>3
  <1>5. ToSet(a) = ToSet(s) \cup {e}
    <2>1. ASSUME NEW x \in ToSet(a) PROVE x \in ToSet(s) \cup {e}
      BY <1>1, <1>2, <1>4 DEF ToSet
    <2>2. ASSUME NEW x \in ToSet(s) \cup {e} PROVE x \in ToSet(a)
      BY <1>1, <1>2, <1>4 DEF ToSet
    <2> QED BY <2>1, <2>2
  <1>6. ASSUME Distinct(s), e \notin ToSet(s) PROVE Distinct(a)
    <2> SUFFICES ASSUME NEW i \in DOMAIN a, NEW j \in DOMAIN a, a[i] = a[j] PROVE i = j
      BY DEF Distinct
    <2>1. \A k \in DOMAIN s : a[k] = s[k] /\ s[k] # e
      BY <1>1, <1>2, <1>6 DEF ToSet
    <2> QED BY <2>1, <1>1, <1>4, <1>6 DEF Distinct
  <1> QED BY <1>1, <1>5, <1>6 DEF a

(* In a list without repetitions an element occurs once or not at all.     *)
LEMMA OccursOnce ==
  ASSUME NEW S, NEW s \in Seq(S), Distinct(s), NEW l
  PROVE  Occurs(s, l) = IF l \in ToSet(s) THEN 1 ELSE 0
  <1>1. CASE l \in ToSet(s)
    <2>1. PICK i \in DOMAIN s : s[i] = l
      BY <1>1 DEF ToSet
    <2>2. {j \in DOMAIN s : s[j] = l} = {i}
      BY <2>1 DEF Distinct
    <2> QED BY <1>1, <2>2, FS_Singleton DEF Occurs
  <1>2. CASE l \notin ToSet(s)
    <2>1. {j \in DOMAIN s : s[j] = l} = {}
      BY <1>2 DEF ToSet
    <2> QED BY <1>2, <2>1, FS_EmptySet DEF Occurs
  <1> QED BY <1>1, <1>2

(* An empty list has nothing in it.                                        *)
LEMMA EmptyList == ToSet(<<>>) = {} /\ Distinct(<<>>)
  BY DEF ToSet, Distinct

(* The lines of a file are the ones with its name.                         *)
LEMMA FileSet ==
  ASSUME TailTypeOK, NEW w \in Writers, FileOk(w), NEW l
  PROVE  l \in ToSet(logFile[w]) <=> InFile(l) /\ l.w = w
  <1>1. logFile[w] \in Seq(LogLines)
    BY DEF TailTypeOK
  <1>2. DOMAIN logFile[w] = 1..Len(logFile[w])
    BY <1>1, LenProperties
  <1>3. ASSUME l \in ToSet(logFile[w]) PROVE InFile(l) /\ l.w = w
    <2>1. PICK i \in 1..Len(logFile[w]) : logFile[w][i] = l
      BY <1>2, <1>3 DEF ToSet
    <2>2. l.w = w /\ l.n = i
      BY <2>1 DEF FileOk
    <2> QED BY <2>1, <2>2 DEF InFile
  <1>4. ASSUME InFile(l), l.w = w PROVE l \in ToSet(logFile[w])
    BY <1>2, <1>4 DEF InFile, ToSet
  <1> QED BY <1>3, <1>4

(* What is known of a tail stays when neither it nor the log changes.      *)
TailSame(t) ==
  /\ tail'[t] = tail[t] /\ quota'[t] = quota[t] /\ history'[t] = history[t]
  /\ sure'[t] = sure[t] /\ logFile' = logFile

(* The state and the history of a tail that is left alone: time may pass,  *)
(* lines may be handed to it.                                              *)
LEMMA StateStays ==
  ASSUME NEW t \in Tails, TailSame(t), StateOk(t), HistoryOk(t),
         t \in collectors => t \in collectors',
         followed'[t] = followed[t] \/ Active(t),
         logClock \in Nat, logClock' \in Nat, logClock <= logClock', TailTypeOK
  PROVE  StateOk(t)' /\ HistoryOk(t)'
  <1>1. /\ tail'[t] = tail[t] /\ quota'[t] = quota[t] /\ history'[t] = history[t]
        /\ sure'[t] = sure[t] /\ logFile' = logFile
    BY DEF TailSame
  <1>2. /\ Active(t)' <=> Active(t)
        /\ Limit(t)' = Limit(t)
        /\ \A l : InFile(l)' <=> InFile(l)
    BY <1>1 DEF Active, Limit, InFile
  <1>3. tail[t].now \in Nat /\ sure[t].from \in Nat
    BY DEF TailTypeOK
  <1>4. StateOk(t)'
    <2>1. Active(t) => tail[t].at \notin {"off", "register"}
      BY DEF Active
    <2>2. /\ tail'[t].at \in {"off", "register"} => followed'[t] = <<>>
          /\ tail'[t].at \in {"off", "register", "files"} => history'[t] = <<>>
          /\ tail'[t].at \in {"register", "files"} => quota'[t] = Limit(t)
      BY <1>1, <2>1 DEF StateOk
    <2>3. /\ tail'[t].at = "register" => tail'[t].now <= logClock'
          /\ Active(t) => /\ t \in collectors' /\ tail'[t].open
                          /\ tail'[t].now <= sure'[t].from /\ sure'[t].from <= logClock'
      BY <1>1, <1>3 DEF StateOk
    <2>4. /\ tail'[t].at = "register" \/ Active(t) =>
               \A l \in sure'[t].past : InFile(l) /\ l.t <= tail'[t].now
          /\ ~(tail'[t].at = "register" \/ Active(t)) => tail'[t].limit = 0
      BY <1>1 DEF StateOk
    <2> QED BY <2>2, <2>3, <2>4, <1>2 DEF StateOk
  <1>5. HistoryOk(t)'
    <2>1. TodoOk(t) => TodoOk(t)'
      BY <1>1 DEF TodoOk
    <2>2. TakenOk(t) => TakenOk(t)'
      BY <1>1, <1>2 DEF TakenOk
    <2> QED BY <1>1, <2>1, <2>2 DEF HistoryOk
  <1> QED BY <1>4, <1>5

(* What a tail has followed, when the step is not about it.                *)
LEMMA FollowStays ==
  ASSUME NEW t \in Tails, tail'[t] = tail[t], sure'[t] = sure[t], followed'[t] = followed[t],
         logFile' = logFile, FollowOk(t),
         \A w \in Writers : \/ writer'[w] = writer[w]
                            \/ ~Coming(w, t) /\ ~Coming(w, t)'
                            \/ Coming(w, t) /\ Coming(w, t)' /\ writer'[w].line = writer[w].line
  PROVE  FollowOk(t)'
  <1>1. Active(t)' <=> Active(t)
    BY DEF Active
  <1>2. \A l : InFile(l)' <=> InFile(l)
    BY DEF InFile
  <1>3. \A w \in Writers : /\ Coming(w, t)' <=> Coming(w, t)
                           /\ Coming(w, t) => writer'[w].line = writer[w].line
    <2> SUFFICES ASSUME NEW w \in Writers
                 PROVE  /\ Coming(w, t)' <=> Coming(w, t)
                        /\ Coming(w, t) => writer'[w].line = writer[w].line
      OBVIOUS
    <2>1. CASE writer'[w] = writer[w]
      BY <2>1 DEF Coming
    <2> QED BY <2>1
  <1>4. ASSUME Active(t), NEW w \in Writers, NEW l \in ToSet(logFile[w]), l.t > sure[t].from,
               ~(Coming(w, t)' /\ l = writer'[w].line)
        PROVE  l \in ToSet(followed[t])
    BY <1>3, <1>4 DEF FollowOk
  <1>5. ASSUME Active(t), NEW w \in Writers, Coming(w, t)'
        PROVE  writer'[w].line \notin ToSet(followed[t])
    BY <1>3, <1>5 DEF FollowOk
  <1> QED BY <1>1, <1>2, <1>4, <1>5 DEF FollowOk, Distinct, ToSet

(* The types of what a writer's step changes.                              *)
WriterTypes ==
  [at : {"idle", "file", "collect", "send"}, n : Nat,
   line : LogLines \cup {NoLine}, left : SUBSET Tails]

(* What the types say of one writer.                                       *)
LEMMA WriterFacts ==
  ASSUME TailTypeOK, NEW w \in Writers
  PROVE  /\ logFile[w] \in Seq(LogLines) /\ writer[w] \in WriterTypes
         /\ writer[w].n \in Nat /\ writer[w].line \in LogLines \cup {NoLine}
         /\ writer[w].left \in SUBSET Tails /\ logClock \in Nat
         /\ writer[w].line.t \in Nat /\ Len(logFile[w]) \in Nat
         /\ \A i \in 1..Len(logFile[w]) : logFile[w][i] \in LogLines /\ logFile[w][i].t \in Nat
  <1>1. logFile[w] \in Seq(LogLines) /\ writer[w] \in WriterTypes /\ logClock \in Nat
    BY DEF TailTypeOK, WriterTypes
  <1>2. /\ writer[w].n \in Nat /\ writer[w].line \in LogLines \cup {NoLine}
        /\ writer[w].left \in SUBSET Tails
    BY <1>1 DEF WriterTypes
  <1>3. \A l \in LogLines \cup {NoLine} : l.t \in Nat
    BY DEF LogLines, NoLine
  <1>4. Len(logFile[w]) \in Nat /\ \A i \in 1..Len(logFile[w]) : logFile[w][i] \in LogLines
    BY <1>1, LenProperties, ElementOfSeq
  <1> QED BY <1>1, <1>2, <1>3, <1>4

(* Only one writer changes.                                                *)
LEMMA OneWriter ==
  ASSUME TailTypeOK, NEW w \in Writers, NEW r \in WriterTypes,
         writer' = [writer EXCEPT ![w] = r]
  PROVE  /\ writer' \in [Writers -> WriterTypes] /\ writer'[w] = r
         /\ \A v \in Writers : v # w => writer'[v] = writer[v]
  BY DEF TailTypeOK, WriterTypes

(* LogTick: time passes.                                                   *)
LEMMA TailTick ==
  ASSUME TailInv, LogTick
  PROVE  TailInv'
  <1>1. /\ TailTypeOK /\ (\A w \in Writers : FileOk(w)) /\ CountInv
        /\ \A t \in Tails : StateOk(t) /\ HistoryOk(t) /\ FollowOk(t)
    BY DEF TailInv
  <1>2. /\ logClock' = logClock + 1 /\ logClock \in Nat
        /\ UNCHANGED <<logFile, writer, collectors, readers, wanting, tail, quota,
                       history, followed, sure>>
    BY <1>1 DEF LogTick, TailTypeOK
  <1>3. logClock' \in Nat /\ logClock <= logClock'
    BY <1>2
  <1>4. TailTypeOK'
    BY <1>1, <1>2, <1>3 DEF TailTypeOK
  <1>5. ASSUME NEW w \in Writers PROVE FileOk(w)'
    <2>1. writer[w].line.t \in Nat
      BY <1>1, WriterFacts
    <2>2. \A i \in 1..Len(logFile[w]) : logFile[w][i].t \in Nat
      BY <1>1, WriterFacts
    <2>3. FileOk(w)
      BY <1>1
    <2>4. \A l : InFile(l)' <=> InFile(l)
      BY <1>2 DEF InFile
    <2>5. \A x \in Nat : x <= logClock => x <= logClock'
      BY <1>2
    <2> QED BY <1>2, <2>1, <2>2, <2>3, <2>4, <2>5 DEF FileOk
  <1>6. CountInv'
    BY <1>1, <1>2 DEF CountInv, Stamped
  <1>7. ASSUME NEW t \in Tails PROVE StateOk(t)' /\ HistoryOk(t)'
    BY <1>1, <1>2, <1>3, StateStays DEF TailSame
  <1>8. ASSUME NEW t \in Tails PROVE FollowOk(t)'
    BY <1>1, <1>2, FollowStays
  <1> QED BY <1>4, <1>5, <1>6, <1>7, <1>8 DEF TailInv

(* A writer's step that leaves the files and the tails alone.              *)
LEMMA WriterMoves ==
  ASSUME TailInv, NEW w \in Writers, NEW r \in WriterTypes,
         writer' = [writer EXCEPT ![w] = r],
         UNCHANGED <<logClock, logFile, collectors, tail, quota, history, sure>>,
         followed' \in [Tails -> Seq(LogLines)],
         \A t \in Tails : followed'[t] = followed[t] \/ Active(t),
         FileOk(w)', CountInv', \A t \in Tails : FollowOk(t)'
  PROVE  TailInv'
  <1>1. /\ TailTypeOK /\ (\A v \in Writers : FileOk(v)) /\ CountInv
        /\ \A t \in Tails : StateOk(t) /\ HistoryOk(t) /\ FollowOk(t)
    BY DEF TailInv
  <1>2. /\ writer' \in [Writers -> WriterTypes]
        /\ \A v \in Writers : v # w => writer'[v] = writer[v]
    BY <1>1, OneWriter
  <1>3. TailTypeOK'
    BY <1>1, <1>2 DEF TailTypeOK, WriterTypes
  <1>4. ASSUME NEW v \in Writers, v # w PROVE FileOk(v)'
    <2>1. writer'[v] = writer[v]
      BY <1>2, <1>4
    <2>2. \A l : InFile(l)' <=> InFile(l)
      BY DEF InFile
    <2> QED BY <1>1, <2>1, <2>2 DEF FileOk
  <1>5. ASSUME NEW t \in Tails PROVE StateOk(t)' /\ HistoryOk(t)'
    <2>1. logClock \in Nat /\ logClock' \in Nat /\ logClock <= logClock'
      BY <1>1 DEF TailTypeOK
    <2>2. TailSame(t)
      BY DEF TailSame
    <2>3. t \in collectors => t \in collectors'
      OBVIOUS
    <2> QED BY <1>1, <2>1, <2>2, <2>3, StateStays
  <1> QED BY <1>3, <1>4, <1>5 DEF TailInv

(* The numbers of lines that have been stamped.                            *)
LEMMA StampedFinite ==
  ASSUME TailTypeOK
  PROVE  IsFiniteSet(Stamped) /\ Cardinality(Stamped) \in Nat
  <1>1. IsFiniteSet(1..MaxLines)
    BY FS_Interval, TailAssumption DEF TailAssumption
  <1>2. IsFiniteSet(Writers \X (1..MaxLines))
    BY <1>1, FS_Product, TailAssumption DEF TailAssumption
  <1>3. Stamped \in SUBSET (Writers \X (1..MaxLines))
    BY DEF Stamped
  <1>4. IsFiniteSet(Stamped)
    BY <1>2, <1>3, FS_Subset
  <1> QED BY <1>4, FS_CardinalityType

(* Lines that differ in writer or number are not more than were stamped.   *)
LEMMA StampedBound ==
  ASSUME TailTypeOK, CountInv, NEW k \in Nat, NEW f \in [1..k -> Stamped],
         \A i, j \in 1..k : f[i] = f[j] => i = j
  PROVE  k <= Cardinality(Stamped)
  <1>1. f \in Injection(1..k, Stamped)
    BY DEF Injection, IsInjective
  <1>2. IsFiniteSet(Stamped) /\ Cardinality(Stamped) \in Nat
    BY StampedFinite
  <1>3. Cardinality(1..k) <= Cardinality(Stamped)
    BY <1>1, <1>2, FS_Injection
  <1>4. Cardinality(1..k) = k
    BY FS_Interval
  <1> QED BY <1>3, <1>4

(* Stamp: a line that is not in its file yet.                              *)
LEMMA TailStamps ==
  ASSUME TailInv, NEW w \in Writers, Stamp(w)
  PROVE  TailInv'
  <1>1. /\ TailTypeOK /\ FileOk(w) /\ CountInv
        /\ \A t \in Tails : FollowOk(t)
    BY DEF TailInv
  <1>2. PICK l \in LogLines : l = [w |-> w, n |-> writer[w].n + 1, t |-> logClock]
    <2>1. writer[w].n \in Nat /\ logClock \in Nat
      BY <1>1, WriterFacts
    <2>2. writer[w].n + 1 \in Nat \ {0}
      BY <2>1
    <2> QED BY <2>1, <2>2 DEF LogLines
  <1>3. PICK r \in WriterTypes :
          r = [writer[w] EXCEPT !.at = "file", !.n = writer[w].n + 1, !.line = l]
    <2>1. writer[w] \in WriterTypes /\ writer[w].n + 1 \in Nat
      BY <1>1, WriterFacts
    <2> QED BY <2>1 DEF WriterTypes
  <1>4. r.at = "file" /\ r.n = writer[w].n + 1 /\ r.line = l
    <2>1. writer[w] \in WriterTypes
      BY <1>1, WriterFacts
    <2> QED BY <2>1, <1>3 DEF WriterTypes
  <1>5. /\ writer[w].at = "idle" /\ Cardinality(Stamped) < MaxLines
        /\ writer' = [writer EXCEPT ![w] = r]
        /\ UNCHANGED <<logClock, logFile, collectors, tail, quota, history, sure, followed>>
    BY <1>2, <1>3 DEF Stamp, Stamped
  <1>6. /\ writer'[w] = r /\ writer[w].n \in Nat /\ logClock \in Nat
        /\ \A v \in Writers : v # w => writer'[v] = writer[v]
    BY <1>1, <1>5, OneWriter, WriterFacts
  <1>7. FileOk(w)'
    <2>1. l.w = w /\ l.n = writer[w].n + 1 /\ l.t = logClock
      BY <1>2
    <2>2. Len(logFile[w]) = writer[w].n
      BY <1>1, <1>5 DEF FileOk
    <2>3. \A i \in 1..Len(logFile[w]) : /\ logFile[w][i].w = w /\ logFile[w][i].n = i
                                        /\ logFile[w][i].t <= logClock
      BY <1>1 DEF FileOk
    <2> QED BY <1>4, <1>5, <1>6, <2>1, <2>2, <2>3 DEF FileOk
  <1>8. CountInv'
    <2>1. writer[w].n < MaxLines
      <3> SUFFICES ASSUME ~(writer[w].n < MaxLines) PROVE FALSE
        OBVIOUS
      <3>1. MaxLines \in Nat /\ MaxLines <= writer[w].n
        BY <1>6, TailAssumption DEF TailAssumption
      <3>2. PICK f : f = [i \in 1..MaxLines |-> <<w, i>>]
        OBVIOUS
      <3>3. \A i \in 1..MaxLines : <<w, i>> \in Stamped
        BY <3>1, <1>6 DEF Stamped
      <3>4. f \in [1..MaxLines -> Stamped]
        BY <3>2, <3>3
      <3>5. \A i, j \in 1..MaxLines : f[i] = f[j] => i = j
        BY <3>2
      <3>6. MaxLines <= Cardinality(Stamped)
        BY <1>1, <3>1, <3>4, <3>5, StampedBound
      <3> QED BY <1>1, <1>5, <3>1, <3>6, StampedFinite
    <2>2. Stamped' = Stamped \cup {<<w, writer[w].n + 1>>}
      <3>1. \A v \in Writers : writer'[v].n = IF v = w THEN writer[w].n + 1 ELSE writer[v].n
        BY <1>4, <1>6
      <3>2. ASSUME NEW x \in Writers, NEW i \in 1..MaxLines
            PROVE  i <= writer'[x].n <=> i <= writer[x].n \/ (x = w /\ i = writer[w].n + 1)
        BY <3>1, <1>6
      <3>3. <<w, writer[w].n + 1>> \in Writers \X (1..MaxLines)
        BY <2>1, <1>6, TailAssumption DEF TailAssumption
      <3>4. \A p \in Writers \X (1..MaxLines) : /\ p[1] \in Writers /\ p[2] \in 1..MaxLines
                                                /\ p = <<p[1], p[2]>>
        OBVIOUS
      <3>5. \A p \in Writers \X (1..MaxLines) :
              p[2] <= writer'[p[1]].n <=> p[2] <= writer[p[1]].n \/ p = <<w, writer[w].n + 1>>
        BY <3>2, <3>4
      <3> QED BY <3>3, <3>5 DEF Stamped
    <2>3. Cardinality(Stamped') <= Cardinality(Stamped) + 1 /\ Cardinality(Stamped) \in Nat
      <3>1. IsFiniteSet(Stamped) /\ Cardinality(Stamped) \in Nat
        BY <1>1, StampedFinite
      <3>2. \/ Cardinality(Stamped') = Cardinality(Stamped)
            \/ Cardinality(Stamped') = Cardinality(Stamped) + 1
        BY <2>2, <3>1, FS_AddElement
      <3> QED BY <3>1, <3>2
    <2>4. \A v \in Writers : writer'[v].n <= MaxLines
      BY <1>1, <1>4, <1>6, <2>1, TailAssumption DEF CountInv, TailAssumption
    <2>5. Cardinality(Stamped') <= MaxLines
      <3>1. \A a, b, c \in Int : a <= b + 1 /\ b < c => a <= c
        OBVIOUS
      <3>2. Cardinality(Stamped') \in Nat
        BY <1>1, <2>2, StampedFinite, FS_AddElement, FS_CardinalityType
      <3> QED BY <2>3, <3>1, <3>2, <1>5, TailAssumption DEF TailAssumption
    <2> QED BY <2>4, <2>5 DEF CountInv
  <1>9. ASSUME NEW t \in Tails PROVE FollowOk(t)'
    <2>1. ~Coming(w, t) /\ ~Coming(w, t)'
      BY <1>4, <1>5, <1>6 DEF Coming
    <2>2. \A v \in Writers : \/ writer'[v] = writer[v]
                             \/ ~Coming(v, t) /\ ~Coming(v, t)'
      BY <2>1, <1>6
    <2> QED BY <1>1, <1>5, <2>2, FollowStays
  <1>10. /\ followed' \in [Tails -> Seq(LogLines)]
         /\ \A t \in Tails : followed'[t] = followed[t]
    BY <1>1, <1>5 DEF TailTypeOK
  <1> QED BY <1>5, <1>7, <1>8, <1>9, <1>10, WriterMoves

(* WriteLog: a line that is in its file and on its way to all collectors.  *)
LEMMA TailWrites ==
  ASSUME TailInv, NEW w \in Writers, WriteLog(w)
  PROVE  TailInv'
  <1>1. /\ TailTypeOK /\ (\A v \in Writers : FileOk(v)) /\ CountInv
        /\ \A t \in Tails : StateOk(t) /\ HistoryOk(t) /\ FollowOk(t)
    BY DEF TailInv
  <1>0. PICK line : line = writer[w].line
    OBVIOUS
  <1>2. PICK r \in WriterTypes : r = [writer[w] EXCEPT !.at = "collect"]
    <2>1. writer[w] \in WriterTypes
      BY <1>1, WriterFacts
    <2> QED BY <2>1 DEF WriterTypes
  <1>3. r.at = "collect" /\ r.n = writer[w].n /\ r.line = line
    <2>1. writer[w] \in WriterTypes
      BY <1>1, WriterFacts
    <2> QED BY <2>1, <1>0, <1>2 DEF WriterTypes
  <1>4. /\ writer[w].at = "file" /\ writer' = [writer EXCEPT ![w] = r]
        /\ logFile' = [logFile EXCEPT ![w] = Append(@, line)]
        /\ UNCHANGED <<logClock, collectors, tail, quota, history, followed, sure>>
    BY <1>0, <1>2 DEF WriteLog
  <1>5. /\ writer' \in [Writers -> WriterTypes] /\ writer'[w] = r
        /\ \A v \in Writers : v # w => writer'[v] = writer[v]
    BY <1>1, <1>4, OneWriter
  <1>6. /\ Len(logFile[w]) = writer[w].n - 1 /\ line \in LogLines
        /\ line.w = w /\ line.n = writer[w].n /\ line.t <= logClock
        /\ writer[w].n \in Nat /\ logFile[w] \in Seq(LogLines) /\ Len(logFile[w]) \in Nat
    BY <1>0, <1>1, <1>4, WriterFacts DEF FileOk
  <1>7. /\ logFile' \in [Writers -> Seq(LogLines)]
        /\ logFile'[w] = Append(logFile[w], line)
        /\ \A v \in Writers : v # w => logFile'[v] = logFile[v]
    <2>1. Append(logFile[w], line) \in Seq(LogLines)
      BY <1>6, AppendProperties
    <2> QED BY <1>1, <1>4, <2>1 DEF TailTypeOK
  <1>8. /\ Len(logFile'[w]) = writer[w].n
        /\ \A i \in 1..Len(logFile[w]) : logFile'[w][i] = logFile[w][i]
        /\ logFile'[w][writer[w].n] = line
        /\ ToSet(logFile'[w]) = ToSet(logFile[w]) \cup {line}
    <2>1. Len(logFile[w]) + 1 = writer[w].n
      BY <1>6
    <2>2. /\ Len(Append(logFile[w], line)) = Len(logFile[w]) + 1
          /\ \A i \in 1..Len(logFile[w]) : Append(logFile[w], line)[i] = logFile[w][i]
          /\ Append(logFile[w], line)[Len(logFile[w]) + 1] = line
      BY <1>6, AppendProperties
    <2>3. ToSet(Append(logFile[w], line)) = ToSet(logFile[w]) \cup {line}
      BY <1>6, AppendSet
    <2> QED BY <1>7, <2>1, <2>2, <2>3
  <1>9. ASSUME NEW v \in Writers
        PROVE  /\ Len(logFile[v]) \in Nat /\ Len(logFile'[v]) \in Nat
               /\ Len(logFile[v]) <= Len(logFile'[v])
               /\ \A i \in 1..Len(logFile[v]) : logFile'[v][i] = logFile[v][i]
    <2>1. Len(logFile[v]) \in Nat
      BY <1>1, WriterFacts
    <2>2. CASE v = w
      BY <2>1, <2>2, <1>6, <1>8
    <2>3. CASE v # w
      BY <2>1, <2>3, <1>7
    <2> QED BY <2>2, <2>3
  <1>10. \A l : InFile(l) => InFile(l)'
    <2> SUFFICES ASSUME NEW l, InFile(l) PROVE InFile(l)'
      OBVIOUS
    <2>1. l.w \in Writers /\ l.n \in 1..Len(logFile[l.w]) /\ logFile[l.w][l.n] = l
      BY DEF InFile
    <2>2. l.n \in 1..Len(logFile'[l.w])
      BY <1>9, <2>1
    <2> QED BY <1>9, <2>1, <2>2 DEF InFile
  <1>11. InFile(line)' /\ ~InFile(line)
    <2>1. writer[w].n \in 1..writer[w].n
      BY <1>6
    <2> QED BY <1>6, <1>8, <2>1 DEF InFile
  <1>12. TailTypeOK'
    BY <1>1, <1>4, <1>5, <1>7 DEF TailTypeOK, WriterTypes
  <1>13. ASSUME NEW v \in Writers PROVE FileOk(v)'
    <2>1. FileOk(v)
      BY <1>1
    <2>2. CASE v = w
      <3>1. ASSUME NEW i \in 1..Len(logFile'[w])
            PROVE  /\ logFile'[w][i].w = w /\ logFile'[w][i].n = i
                   /\ logFile'[w][i].t <= logClock
        <4>1. i \in 1..Len(logFile[w]) \/ i = writer[w].n
          BY <1>6, <1>8
        <4>2. CASE i \in 1..Len(logFile[w])
          <5>1. /\ logFile[w][i].w = w /\ logFile[w][i].n = i
                /\ logFile[w][i].t <= logClock
            BY <4>2, <2>1, <2>2 DEF FileOk
          <5> QED BY <4>2, <5>1, <1>8
        <4>3. CASE i = writer[w].n
          BY <4>3, <1>6, <1>8
        <4> QED BY <4>1, <4>2, <4>3
      <3>2. writer'[w].at = "collect" /\ writer'[w].n = writer[w].n /\ writer'[w].line = line
        BY <1>3, <1>5
      <3> QED BY <2>2, <3>1, <3>2, <1>4, <1>6, <1>8, <1>11 DEF FileOk
    <2>3. CASE v # w
      <3>1. logFile'[v] = logFile[v] /\ writer'[v] = writer[v] /\ logClock' = logClock
        BY <2>3, <1>4, <1>5, <1>7
      <3> QED BY <2>1, <3>1, <1>10 DEF FileOk
    <2> QED BY <2>2, <2>3
  <1>14. CountInv'
    <2>1. \A v \in Writers : writer'[v].n = writer[v].n
      BY <1>3, <1>5
    <2>2. \A p \in Writers \X (1..MaxLines) : p[1] \in Writers
      OBVIOUS
    <2>3. Stamped' = Stamped
      BY <2>1, <2>2 DEF Stamped
    <2> QED BY <1>1, <2>1, <2>3 DEF CountInv
  <1>15. ASSUME NEW t \in Tails PROVE StateOk(t)'
    <2>1. StateOk(t)
      BY <1>1
    <2>2. (Active(t)' <=> Active(t)) /\ Limit(t)' = Limit(t)
      BY <1>4 DEF Active, Limit
    <2> QED BY <2>1, <2>2, <1>4, <1>10 DEF StateOk
  <1>16. ASSUME NEW t \in Tails PROVE HistoryOk(t)'
    <2> SUFFICES ASSUME tail[t].at \in {"history", "copy"}
                 PROVE  TodoOk(t)' /\ TakenOk(t)'
      BY <1>4 DEF HistoryOk
    <2>1. TodoOk(t) /\ TakenOk(t)
      BY <1>1 DEF HistoryOk
    <2>2. TodoOk(t)'
      <3>1. ASSUME NEW v \in Writers
            PROVE  /\ Len(tail[t].todo[v]) <= Len(logFile'[v])
                   /\ \A i \in 1..Len(tail[t].todo[v]) :
                        tail[t].todo[v][i] = logFile'[v][Len(tail[t].todo[v]) + 1 - i]
                   /\ tail[t].at = "copy" => tail[t].todo[v] = <<>>
        <4> DEFINE todo == tail[t].todo[v]
        <4>1. todo \in Seq(LogLines)
          BY <2>1 DEF TodoOk
        <4>2. Len(todo) \in Nat
          BY <4>1, LenProperties
        <4>3. /\ Len(todo) <= Len(logFile[v])
              /\ \A i \in 1..Len(todo) : todo[i] = logFile[v][Len(todo) + 1 - i]
              /\ tail[t].at = "copy" => todo = <<>>
          BY <2>1 DEF TodoOk
        <4> HIDE DEF todo
        <4>4. \A i \in 1..Len(todo) : Len(todo) + 1 - i \in 1..Len(logFile[v])
          BY <4>2, <4>3, <1>9
        <4>5. /\ Len(todo) <= Len(logFile'[v])
              /\ \A i \in 1..Len(todo) : todo[i] = logFile'[v][Len(todo) + 1 - i]
          BY <4>2, <4>3, <4>4, <1>9
        <4> QED BY <4>3, <4>5 DEF todo
      <3>2. tail[t].todo \in [Writers -> Seq(LogLines)]
        BY <2>1 DEF TodoOk
      <3> QED BY <3>1, <3>2, <1>4, ZenonT(60) DEF TodoOk
    <2>3. TakenOk(t)'
      <3>1. Limit(t)' = Limit(t)
        BY <1>4 DEF Limit
      <3> QED BY <2>1, <3>1, <1>4, <1>10 DEF TakenOk, Distinct, ToSet
    <2> QED BY <2>2, <2>3
  <1>17. ASSUME NEW t \in Tails PROVE FollowOk(t)'
    <2> SUFFICES ASSUME Active(t) PROVE FollowOk(t)'
      BY <1>4 DEF FollowOk, Active
    <2>1. /\ Distinct(followed[t])
          /\ \A l \in ToSet(followed[t]) : InFile(l)
          /\ \A v \in Writers : Coming(v, t) => writer[v].line \notin ToSet(followed[t])
          /\ \A v \in Writers : \A l \in ToSet(logFile[v]) :
               l.t > sure[t].from /\ ~(Coming(v, t) /\ l = writer[v].line) =>
                 l \in ToSet(followed[t])
      BY <1>1 DEF FollowOk
    <2>2. ~Coming(w, t) /\ Coming(w, t)' /\ writer'[w].line = line
      BY <1>3, <1>4, <1>5 DEF Coming
    <2>3. \A v \in Writers : v # w => (Coming(v, t)' <=> Coming(v, t)) /\ writer'[v] = writer[v]
      BY <1>5 DEF Coming
    <2>4. line \notin ToSet(followed[t])
      BY <2>1, <1>11
    <2>5. ASSUME NEW v \in Writers, Coming(v, t)'
          PROVE  writer'[v].line \notin ToSet(followed[t])
      BY <2>1, <2>2, <2>3, <2>4, <2>5
    <2>6. ASSUME NEW v \in Writers, NEW l \in ToSet(logFile'[v]), l.t > sure[t].from,
                 ~(Coming(v, t)' /\ l = writer'[v].line)
          PROVE  l \in ToSet(followed[t])
      <3>1. CASE v = w
        <4>1. l \in ToSet(logFile[w])
          BY <3>1, <2>2, <2>6, <1>8
        <4> QED BY <4>1, <2>1, <2>2, <2>6
      <3>2. CASE v # w
        <4>1. l \in ToSet(logFile[v])
          BY <3>2, <2>6, <1>7
        <4> QED BY <3>2, <4>1, <2>1, <2>3, <2>6
      <3> QED BY <3>1, <3>2
    <2>7. \A l \in ToSet(followed[t]) : InFile(l)'
      BY <2>1, <1>10
    <2> QED BY <2>1, <2>5, <2>6, <2>7, <1>4 DEF FollowOk, Distinct
  <1> QED BY <1>12, <1>13, <1>14, <1>15, <1>16, <1>17 DEF TailInv

(* A step that changes neither the number nor the line of a writer that    *)
(* has written it.                                                         *)
LEMMA LineStays ==
  ASSUME TailInv, NEW w \in Writers, NEW r \in WriterTypes,
         writer' = [writer EXCEPT ![w] = r], r.n = writer[w].n,
         writer[w].at \in {"collect", "send"}, r.at # "file",
         r.at \in {"collect", "send"} => r.line = writer[w].line,
         UNCHANGED <<logClock, logFile>>
  PROVE  FileOk(w)' /\ CountInv'
  <1>1. TailTypeOK /\ FileOk(w) /\ CountInv
    BY DEF TailInv
  <1>2. writer'[w] = r /\ \A v \in Writers : v # w => writer'[v] = writer[v]
    BY <1>1, OneWriter
  <1>3. FileOk(w)'
    <2>1. \A l : InFile(l)' <=> InFile(l)
      BY DEF InFile
    <2>2. r.at \in {"collect", "send"} => InFile(r.line) /\ r.line.w = w
      BY <1>1 DEF FileOk
    <2>3. r.at \in {"collect", "send"} => InFile(r.line)'
      BY <2>1, <2>2
    <2>4. Len(logFile[w]) = writer[w].n
      BY <1>1 DEF FileOk
    <2>5. \A i \in 1..Len(logFile[w]) : /\ logFile[w][i].w = w /\ logFile[w][i].n = i
                                        /\ logFile[w][i].t <= logClock
      BY <1>1 DEF FileOk
    <2>6. writer'[w].at \in {"collect", "send"} => InFile(writer[w].line)' /\ writer'[w].line.w = w
      BY <1>2, <2>2, <2>3
    <2> QED BY <1>2, <2>4, <2>5, <2>6 DEF FileOk
  <1>4. CountInv'
    <2>1. \A v \in Writers : writer'[v].n = writer[v].n
      BY <1>2
    <2>2. \A p \in Writers \X (1..MaxLines) : p[1] \in Writers
      OBVIOUS
    <2>3. Stamped' = Stamped
      BY <2>1, <2>2 DEF Stamped
    <2> QED BY <1>1, <2>1, <2>3 DEF CountInv
  <1> QED BY <1>3, <1>4

(* RLock: the line is on its way to those who are registered now.          *)
LEMMA TailLocks ==
  ASSUME TailInv, NEW w \in Writers, RLock(w)
  PROVE  TailInv'
  <1>1. /\ TailTypeOK /\ (\A v \in Writers : FileOk(v)) /\ CountInv
        /\ \A t \in Tails : StateOk(t) /\ HistoryOk(t) /\ FollowOk(t)
    BY DEF TailInv
  <1>2. writer[w] \in WriterTypes /\ collectors \in SUBSET Tails
    BY <1>1, WriterFacts DEF TailTypeOK
  <1>3. PICK r \in WriterTypes : r = [writer[w] EXCEPT !.at = "send", !.left = collectors]
    BY <1>2 DEF WriterTypes
  <1>4. /\ r.at = "send" /\ r.left = collectors /\ r.n = writer[w].n
        /\ r.line = writer[w].line
    BY <1>2, <1>3 DEF WriterTypes
  <1>5. /\ writer[w].at = "collect" /\ writer' = [writer EXCEPT ![w] = r]
        /\ UNCHANGED <<logClock, logFile, collectors, tail, quota, history, sure, followed>>
    BY <1>3 DEF RLock
  <1>6. writer'[w] = r /\ \A v \in Writers : v # w => writer'[v] = writer[v]
    BY <1>1, <1>5, OneWriter
  <1>7. FileOk(w)' /\ CountInv'
    BY <1>4, <1>5, LineStays
  <1>8. ASSUME NEW t \in Tails PROVE FollowOk(t)'
    <2>1. CASE Active(t)
      <3>1. t \in collectors
        BY <1>1, <2>1 DEF StateOk
      <3>2. Coming(w, t) /\ Coming(w, t)' /\ writer'[w].line = writer[w].line
        BY <3>1, <1>4, <1>5, <1>6 DEF Coming
      <3>3. \A v \in Writers : \/ writer'[v] = writer[v]
                               \/ /\ Coming(v, t) /\ Coming(v, t)'
                                  /\ writer'[v].line = writer[v].line
        BY <3>2, <1>6
      <3> QED BY <3>3, <1>1, <1>5, FollowStays
    <2>2. CASE ~Active(t)
      BY <2>2, <1>5 DEF FollowOk, Active
    <2> QED BY <2>1, <2>2
  <1>9. /\ followed' \in [Tails -> Seq(LogLines)]
        /\ \A t \in Tails : followed'[t] = followed[t]
    BY <1>1, <1>5 DEF TailTypeOK
  <1> QED BY <1>5, <1>7, <1>8, <1>9, WriterMoves

(* RUnlock: the line has been handed to all of them.                       *)
LEMMA TailUnlocks ==
  ASSUME TailInv, NEW w \in Writers, RUnlock(w)
  PROVE  TailInv'
  <1>1. /\ TailTypeOK /\ (\A v \in Writers : FileOk(v)) /\ CountInv
        /\ \A t \in Tails : StateOk(t) /\ HistoryOk(t) /\ FollowOk(t)
    BY DEF TailInv
  <1>2. writer[w] \in WriterTypes
    BY <1>1, WriterFacts
  <1>3. PICK r \in WriterTypes : r = [writer[w] EXCEPT !.at = "idle", !.line = NoLine]
    BY <1>2 DEF WriterTypes
  <1>4. r.at = "idle" /\ r.n = writer[w].n
    BY <1>2, <1>3 DEF WriterTypes
  <1>5. /\ writer[w].at = "send" /\ writer[w].left = {} /\ writer' = [writer EXCEPT ![w] = r]
        /\ UNCHANGED <<logClock, logFile, collectors, tail, quota, history, sure, followed>>
    BY <1>3 DEF RUnlock
  <1>6. writer'[w] = r /\ \A v \in Writers : v # w => writer'[v] = writer[v]
    BY <1>1, <1>5, OneWriter
  <1>7. FileOk(w)' /\ CountInv'
    BY <1>4, <1>5, LineStays
  <1>8. ASSUME NEW t \in Tails PROVE FollowOk(t)'
    <2>1. ~Coming(w, t) /\ ~Coming(w, t)'
      BY <1>4, <1>5, <1>6 DEF Coming
    <2>2. \A v \in Writers : \/ writer'[v] = writer[v]
                             \/ ~Coming(v, t) /\ ~Coming(v, t)'
      BY <2>1, <1>6
    <2> QED BY <2>2, <1>1, <1>5, FollowStays
  <1>9. /\ followed' \in [Tails -> Seq(LogLines)]
        /\ \A t \in Tails : followed'[t] = followed[t]
    BY <1>1, <1>5 DEF TailTypeOK
  <1> QED BY <1>5, <1>7, <1>8, <1>9, WriterMoves

(* Send: one more of them has the line, and did not have it before.        *)
LEMMA TailSends ==
  ASSUME TailInv, NEW w \in Writers, NEW t \in Tails, Send(w, t)
  PROVE  TailInv'
  <1>1. /\ TailTypeOK /\ (\A v \in Writers : FileOk(v)) /\ CountInv
        /\ \A u \in Tails : StateOk(u) /\ HistoryOk(u) /\ FollowOk(u)
    BY DEF TailInv
  <1>2. writer[w] \in WriterTypes /\ writer[w].left \in SUBSET Tails
    BY <1>1, WriterFacts
  <1>3. PICK r \in WriterTypes : r = [writer[w] EXCEPT !.left = writer[w].left \ {t}]
    BY <1>2 DEF WriterTypes
  <1>4. /\ r.at = writer[w].at /\ r.left = writer[w].left \ {t} /\ r.n = writer[w].n
        /\ r.line = writer[w].line
    BY <1>2, <1>3 DEF WriterTypes
  <1>5. /\ writer[w].at = "send" /\ t \in writer[w].left
        /\ writer' = [writer EXCEPT ![w] = r]
        /\ UNCHANGED <<logClock, logFile, collectors, tail, quota, history, sure>>
        /\ \/ ~tail[t].open /\ UNCHANGED followed
           \/ /\ tail[t].open /\ tail[t].at = "copy"
              /\ followed' = [followed EXCEPT ![t] = Append(@, writer[w].line)]
    BY <1>3 DEF Send
  <1>6. writer'[w] = r /\ \A v \in Writers : v # w => writer'[v] = writer[v]
    BY <1>1, <1>5, OneWriter
  <1>7. FileOk(w)' /\ CountInv'
    BY <1>4, <1>5, LineStays
  <1>8. PICK line \in LogLines : line = writer[w].line /\ InFile(line) /\ line.w = w
    <2>1. InFile(writer[w].line) /\ writer[w].line.w = w
      BY <1>1, <1>5 DEF FileOk
    <2>2. writer[w].line \in LogLines
      BY <1>1, <2>1, WriterFacts DEF InFile
    <2> QED BY <2>1, <2>2
  <1>9. /\ followed' \in [Tails -> Seq(LogLines)]
        /\ \A u \in Tails : u # t => followed'[u] = followed[u]
        /\ \/ followed'[t] = followed[t] /\ ~Active(t)
           \/ followed'[t] = Append(followed[t], line) /\ Active(t)
    <2>1. followed \in [Tails -> Seq(LogLines)] /\ followed[t] \in Seq(LogLines)
      BY <1>1 DEF TailTypeOK
    <2>2. CASE ~tail[t].open /\ UNCHANGED followed
      BY <2>1, <2>2, <1>1 DEF StateOk
    <2>3. CASE /\ tail[t].open /\ tail[t].at = "copy"
               /\ followed' = [followed EXCEPT ![t] = Append(@, writer[w].line)]
      <3>1. Append(followed[t], line) \in Seq(LogLines)
        BY <2>1, AppendProperties
      <3> QED BY <2>1, <2>3, <3>1, <1>8 DEF Active
    <2> QED BY <2>2, <2>3, <1>5
  <1>10. ASSUME NEW u \in Tails, u # t PROVE FollowOk(u)'
    <2>1. Coming(w, u)' <=> Coming(w, u)
      BY <1>4, <1>5, <1>6, <1>10 DEF Coming
    <2>2. \A v \in Writers : \/ writer'[v] = writer[v]
                             \/ ~Coming(v, u) /\ ~Coming(v, u)'
                             \/ /\ Coming(v, u) /\ Coming(v, u)'
                                /\ writer'[v].line = writer[v].line
      BY <2>1, <1>4, <1>6
    <2> QED BY <2>2, <1>1, <1>5, <1>9, <1>10, FollowStays
  <1>11. FollowOk(t)'
    <2>1. CASE ~Active(t)
      BY <2>1, <1>5 DEF FollowOk, Active
    <2>2. CASE Active(t)
      <3>1. /\ Distinct(followed[t])
            /\ \A l \in ToSet(followed[t]) : InFile(l)
            /\ \A v \in Writers : Coming(v, t) => writer[v].line \notin ToSet(followed[t])
            /\ \A v \in Writers : \A l \in ToSet(logFile[v]) :
                 l.t > sure[t].from /\ ~(Coming(v, t) /\ l = writer[v].line) =>
                   l \in ToSet(followed[t])
        BY <1>1, <2>2 DEF FollowOk
      <3>2. Coming(w, t) /\ ~Coming(w, t)'
        BY <1>4, <1>5, <1>6 DEF Coming
      <3>3. line \notin ToSet(followed[t])
        BY <3>1, <3>2, <1>8
      <3>4. followed'[t] = Append(followed[t], line) /\ followed[t] \in Seq(LogLines)
        BY <1>1, <1>9, <2>2 DEF TailTypeOK
      <3>5. ToSet(followed'[t]) = ToSet(followed[t]) \cup {line} /\ Distinct(followed'[t])
        BY <3>1, <3>3, <3>4, AppendSet
      <3>6. \A l : InFile(l)' <=> InFile(l)
        BY <1>5 DEF InFile
      <3>7. \A v \in Writers : v # w => (Coming(v, t)' <=> Coming(v, t)) /\ writer'[v] = writer[v]
        BY <1>6 DEF Coming
      <3>8. \A l \in ToSet(followed'[t]) : InFile(l)'
        BY <3>1, <3>5, <3>6, <1>8
      <3>9. ASSUME NEW v \in Writers, Coming(v, t)'
            PROVE  writer'[v].line \notin ToSet(followed'[t])
        <4>1. v # w /\ Coming(v, t) /\ writer'[v] = writer[v]
          BY <3>2, <3>7, <3>9
        <4>2. writer[v].line \notin ToSet(followed[t])
          BY <3>1, <4>1
        <4>3. writer[v].line # line
          <5>1. writer[v].at \in {"collect", "send"}
            BY <4>1 DEF Coming
          <5>2. writer[v].line.w = v
            BY <5>1, <1>1 DEF FileOk
          <5> QED BY <5>2, <4>1, <1>8
        <4> QED BY <4>1, <4>2, <4>3, <3>5
      <3>10. ASSUME NEW v \in Writers, NEW l \in ToSet(logFile[v]), l.t > sure[t].from,
                    ~(Coming(v, t)' /\ l = writer'[v].line)
             PROVE  l \in ToSet(followed'[t])
        <4>1. CASE v = w
          BY <4>1, <3>1, <3>2, <3>5, <3>10, <1>8
        <4>2. CASE v # w
          BY <4>2, <3>1, <3>5, <3>7, <3>10
        <4> QED BY <4>1, <4>2
      <3> QED BY <3>5, <3>8, <3>9, <3>10, <1>5 DEF FollowOk
    <2> QED BY <2>1, <2>2
  <1>12. \A u \in Tails : FollowOk(u)'
    BY <1>10, <1>11
  <1>13. \A u \in Tails : followed'[u] = followed[u] \/ Active(u)
    BY <1>9
  <1> QED BY <1>5, <1>7, <1>9, <1>12, <1>13, WriterMoves

(* The types of what a tail's step changes.                                *)
TailTypes ==
  [at : {"off", "register", "files", "history", "copy", "cancelled", "remove", "done"},
   now : Nat, limit : Nat, todo : [Writers -> Seq(LogLines)] \cup {<<>>}, open : BOOLEAN]
SureTypes == [past : SUBSET LogLines, from : Nat]

(* What the types say of one tail.                                         *)
LEMMA TailFacts ==
  ASSUME TailTypeOK, NEW t \in Tails
  PROVE  /\ tail[t] \in TailTypes /\ tail[t].now \in Nat /\ tail[t].limit \in Nat
         /\ quota[t] \in Int /\ history[t] \in Seq(LogLines)
         /\ followed[t] \in Seq(LogLines) /\ sure[t] \in SureTypes
         /\ sure[t].past \in SUBSET LogLines /\ sure[t].from \in Nat
         /\ logClock \in Nat /\ Len(history[t]) \in Nat
  <1>1. /\ tail[t] \in TailTypes /\ quota[t] \in Int /\ history[t] \in Seq(LogLines)
        /\ followed[t] \in Seq(LogLines) /\ sure[t] \in SureTypes /\ logClock \in Nat
    BY DEF TailTypeOK, TailTypes, SureTypes
  <1>2. tail[t].now \in Nat /\ tail[t].limit \in Nat
    BY <1>1 DEF TailTypes
  <1>3. sure[t].past \in SUBSET LogLines /\ sure[t].from \in Nat
    BY <1>1 DEF SureTypes
  <1> QED BY <1>1, <1>2, <1>3, LenProperties

(* A step of one tail: what of the others and of the writers stays.        *)
OneTail(t) ==
  /\ UNCHANGED <<logClock, logFile, writer>> /\ collectors' \in SUBSET Tails
  /\ tail' \in [Tails -> TailTypes] /\ quota' \in [Tails -> Int]
  /\ history' \in [Tails -> Seq(LogLines)] /\ followed' \in [Tails -> Seq(LogLines)]
  /\ sure' \in [Tails -> SureTypes]
  /\ \A u \in Tails : u # t =>
       /\ tail'[u] = tail[u] /\ quota'[u] = quota[u] /\ history'[u] = history[u]
       /\ sure'[u] = sure[u] /\ followed'[u] = followed[u]
       /\ u \in collectors => u \in collectors'

(* Such a step keeps the invariant when it does so for its tail.           *)
LEMMA TailMoves ==
  ASSUME TailInv, NEW t \in Tails, OneTail(t), StateOk(t)', HistoryOk(t)', FollowOk(t)'
  PROVE  TailInv'
  <1>1. /\ TailTypeOK /\ (\A v \in Writers : FileOk(v)) /\ CountInv
        /\ \A u \in Tails : StateOk(u) /\ HistoryOk(u) /\ FollowOk(u)
    BY DEF TailInv
  <1>2. TailTypeOK'
    BY <1>1 DEF TailTypeOK, OneTail, TailTypes, SureTypes
  <1>3. UNCHANGED <<logClock, logFile, writer>>
    BY DEF OneTail
  <1>4. ASSUME NEW v \in Writers PROVE FileOk(v)'
    <2>1. \A l : InFile(l)' <=> InFile(l)
      BY <1>3 DEF InFile
    <2> QED BY <1>1, <1>3, <2>1 DEF FileOk
  <1>5. CountInv'
    BY <1>1, <1>3 DEF CountInv, Stamped
  <1>6. ASSUME NEW u \in Tails, u # t PROVE StateOk(u)' /\ HistoryOk(u)' /\ FollowOk(u)'
    <2>1. /\ tail'[u] = tail[u] /\ quota'[u] = quota[u] /\ history'[u] = history[u]
          /\ sure'[u] = sure[u] /\ followed'[u] = followed[u]
          /\ u \in collectors => u \in collectors'
      BY <1>6 DEF OneTail
    <2>2. TailSame(u)
      BY <1>3, <2>1 DEF TailSame
    <2>3. logClock \in Nat /\ logClock' \in Nat /\ logClock <= logClock'
      BY <1>1, <1>3 DEF TailTypeOK
    <2>4. StateOk(u)' /\ HistoryOk(u)'
      BY <1>1, <2>1, <2>2, <2>3, StateStays
    <2>5. FollowOk(u)'
      BY <1>1, <1>3, <2>1, FollowStays
    <2> QED BY <2>4, <2>5
  <1> QED BY <1>2, <1>4, <1>5, <1>6 DEF TailInv

(* Follow: what is in the files is not after now.                          *)
LEMMA TailFollows ==
  ASSUME TailInv, NEW t \in Tails, NEW limit \in LineLimits, Follow(t, limit)
  PROVE  TailInv'
  <1>1. /\ TailTypeOK /\ (\A v \in Writers : FileOk(v)) /\ StateOk(t)
    BY DEF TailInv
  <1>2. /\ tail[t] \in TailTypes /\ logClock \in Nat /\ limit \in Nat /\ sure[t] \in SureTypes
    BY <1>1, TailFacts, TailAssumption DEF TailAssumption
  <1>3. PICK r \in TailTypes :
          r = [tail[t] EXCEPT !.at = "register", !.now = logClock, !.limit = limit]
    BY <1>2 DEF TailTypes
  <1>4. r.at = "register" /\ r.now = logClock /\ r.limit = limit
    BY <1>2, <1>3 DEF TailTypes
  <1>5. PICK past \in SUBSET LogLines : past = UNION {ToSet(logFile[w]) : w \in Writers}
    <2>1. \A w \in Writers : ToSet(logFile[w]) \in SUBSET LogLines
      <3> SUFFICES ASSUME NEW w \in Writers, NEW l \in ToSet(logFile[w]) PROVE l \in LogLines
        OBVIOUS
      <3>1. logFile[w] \in Seq(LogLines) /\ DOMAIN logFile[w] = 1..Len(logFile[w])
        BY <1>1, WriterFacts, LenProperties
      <3> QED BY <3>1, <1>1, WriterFacts DEF ToSet
    <2> QED BY <2>1
  <1>6. PICK s \in SureTypes : s = [sure[t] EXCEPT !.past = past]
    BY <1>2 DEF SureTypes
  <1>7. s.past = past
    BY <1>2, <1>6 DEF SureTypes
  <1>8. PICK q \in Int : q = IF limit = 0 THEN NoLimit ELSE limit
    BY <1>2 DEF NoLimit
  <1>9. /\ tail[t].at = "off" /\ tail' = [tail EXCEPT ![t] = r]
        /\ quota' = [quota EXCEPT ![t] = q] /\ sure' = [sure EXCEPT ![t] = s]
        /\ UNCHANGED <<logClock, logFile, writer, collectors, history, followed>>
    BY <1>3, <1>5, <1>6, <1>8 DEF Follow
  <1>10. tail'[t] = r /\ quota'[t] = q /\ sure'[t] = s
    BY <1>1, <1>9 DEF TailTypeOK
  <1>11. OneTail(t)
    BY <1>1, <1>9 DEF OneTail, TailTypeOK, TailTypes, SureTypes
  <1>12. ~Active(t)'
    BY <1>4, <1>10 DEF Active
  <1>13. StateOk(t)'
    <2>1. followed'[t] = <<>> /\ history'[t] = <<>>
      BY <1>1, <1>9 DEF StateOk
    <2>2. quota'[t] = Limit(t)'
      BY <1>4, <1>8, <1>10 DEF Limit
    <2>3. ASSUME NEW l \in past PROVE InFile(l)' /\ l.t <= logClock
      <3>1. PICK w \in Writers : l \in ToSet(logFile[w])
        BY <1>5, <2>3
      <3>2. InFile(l) /\ l.w = w
        BY <3>1, <1>1, FileSet
      <3>3. l.t <= logClock
        BY <3>2, <1>1 DEF InFile, FileOk
      <3> QED BY <3>2, <3>3, <1>9 DEF InFile
    <2>4. tail'[t].at = "register" /\ tail'[t].now = logClock /\ sure'[t].past = past
      BY <1>4, <1>7, <1>10
    <2> QED BY <2>1, <2>2, <2>3, <2>4, <1>2, <1>9, <1>12 DEF StateOk
  <1>14. HistoryOk(t)' /\ FollowOk(t)'
    BY <1>4, <1>10, <1>12 DEF HistoryOk, FollowOk
  <1> QED BY <1>11, <1>13, <1>14, TailMoves

(* Register: no line is stamped later than the time of registration.       *)
LEMMA TailRegisters ==
  ASSUME TailInv, NEW t \in Tails, Register(t)
  PROVE  TailInv'
  <1>1. /\ TailTypeOK /\ (\A v \in Writers : FileOk(v)) /\ StateOk(t)
    BY DEF TailInv
  <1>2. /\ tail[t] \in TailTypes /\ logClock \in Nat /\ sure[t] \in SureTypes
        /\ tail[t].now \in Nat
    BY <1>1, TailFacts
  <1>3. PICK r \in TailTypes : r = [tail[t] EXCEPT !.at = "files", !.open = TRUE]
    BY <1>2 DEF TailTypes
  <1>4. /\ r.at = "files" /\ r.open /\ r.now = tail[t].now /\ r.limit = tail[t].limit
    BY <1>2, <1>3 DEF TailTypes
  <1>5. PICK s \in SureTypes : s = [sure[t] EXCEPT !.from = logClock]
    BY <1>2 DEF SureTypes
  <1>6. s.past = sure[t].past /\ s.from = logClock
    BY <1>2, <1>5 DEF SureTypes
  <1>7. /\ tail[t].at = "register" /\ tail' = [tail EXCEPT ![t] = r]
        /\ collectors' = collectors \cup {t} /\ sure' = [sure EXCEPT ![t] = s]
        /\ UNCHANGED <<logClock, logFile, writer, quota, history, followed>>
    BY <1>3, <1>5 DEF Register
  <1>8. tail'[t] = r /\ sure'[t] = s
    BY <1>1, <1>7 DEF TailTypeOK
  <1>9. OneTail(t)
    BY <1>1, <1>7 DEF OneTail, TailTypeOK, TailTypes, SureTypes
  <1>10. followed'[t] = <<>> /\ history'[t] = <<>>
    BY <1>1, <1>7 DEF StateOk
  <1>11. \A l : InFile(l)' <=> InFile(l)
    BY <1>7 DEF InFile
  <1>12. StateOk(t)'
    <2>1. quota'[t] = Limit(t)'
      BY <1>1, <1>4, <1>7, <1>8 DEF Limit, StateOk
    <2>2. tail'[t].now <= logClock
      BY <1>1, <1>4, <1>7, <1>8 DEF StateOk
    <2>3. \A l \in sure'[t].past : InFile(l)' /\ l.t <= tail'[t].now
      BY <1>1, <1>4, <1>6, <1>7, <1>8, <1>11 DEF StateOk
    <2>4. tail'[t].at = "files" /\ tail'[t].open /\ sure'[t].from = logClock /\ t \in collectors'
      BY <1>4, <1>6, <1>7, <1>8
    <2> QED BY <2>1, <2>2, <2>3, <2>4, <1>2, <1>7, <1>10 DEF StateOk, Active
  <1>13. FollowOk(t)'
    <2>1. ASSUME NEW v \in Writers, NEW l \in ToSet(logFile[v]) PROVE ~(l.t > sure'[t].from)
      <3>1. InFile(l) /\ l.w = v
        BY <2>1, <1>1, FileSet
      <3>2. l.t <= logClock /\ l.t \in Nat
        BY <3>1, <1>1, WriterFacts DEF InFile, FileOk
      <3> QED BY <3>2, <1>2, <1>6, <1>8
    <2>2. ToSet(followed'[t]) = {} /\ Distinct(followed'[t])
      BY <1>10, EmptyList
    <2> QED BY <2>1, <2>2, <1>7 DEF FollowOk
  <1>14. HistoryOk(t)'
    BY <1>4, <1>8 DEF HistoryOk
  <1> QED BY <1>9, <1>12, <1>13, <1>14, TailMoves

(* A step in which only the entry of a tail in the table changes.          *)
LEMMA OnlyTail ==
  ASSUME TailTypeOK, NEW t \in Tails, NEW r \in TailTypes, tail' = [tail EXCEPT ![t] = r],
         UNCHANGED <<logClock, logFile, writer, quota, history, followed, sure>>,
         collectors' \in SUBSET Tails,
         \A u \in Tails : u # t => (u \in collectors => u \in collectors')
  PROVE  OneTail(t) /\ tail'[t] = r
  BY DEF OneTail, TailTypeOK, TailTypes, SureTypes

(* What a collector was handed stays while its tail reads the files.       *)
LEMMA FollowKept ==
  ASSUME NEW t \in Tails, FollowOk(t), Active(t),
         UNCHANGED <<logFile, writer, followed, sure>>
  PROVE  FollowOk(t)'
  <1>1. \A l : InFile(l)' <=> InFile(l)
    BY DEF InFile
  <1>2. \A w \in Writers : Coming(w, t)' <=> Coming(w, t)
    BY DEF Coming
  <1>3. /\ Distinct(followed[t])
        /\ \A l \in ToSet(followed[t]) : InFile(l)
        /\ \A w \in Writers : Coming(w, t) => writer[w].line \notin ToSet(followed[t])
        /\ \A w \in Writers : \A l \in ToSet(logFile[w]) :
             l.t > sure[t].from /\ ~(Coming(w, t) /\ l = writer[w].line) =>
               l \in ToSet(followed[t])
    BY DEF FollowOk
  <1> QED BY <1>1, <1>2, <1>3 DEF FollowOk

(* The state of a tail that reads the files.                               *)
LEMMA StateKept ==
  ASSUME NEW t \in Tails, StateOk(t), Active(t),
         tail'[t].at \in {"history", "copy"}, tail'[t].now = tail[t].now,
         tail'[t].limit = tail[t].limit, tail'[t].open = tail[t].open,
         UNCHANGED <<logClock, logFile, collectors, sure>>
  PROVE  StateOk(t)'
  <1>1. \A l : InFile(l)' <=> InFile(l)
    BY DEF InFile
  <1>2. Active(t)'
    BY DEF Active
  <1>3. /\ t \in collectors /\ tail[t].open
        /\ tail[t].now <= sure[t].from /\ sure[t].from <= logClock
        /\ \A l \in sure[t].past : InFile(l) /\ l.t <= tail[t].now
    BY DEF StateOk
  <1> QED BY <1>1, <1>2, <1>3 DEF StateOk

(* OpenFiles: all of each file is to be read, the last line first.         *)
LEMMA TailOpens ==
  ASSUME TailInv, NEW t \in Tails, OpenFiles(t)
  PROVE  TailInv'
  <1>1. /\ TailTypeOK /\ StateOk(t) /\ FollowOk(t) /\ \A v \in Writers : FileOk(v)
    BY DEF TailInv
  <1>2. tail[t] \in TailTypes /\ quota[t] \in Int /\ tail[t].limit \in Nat
    BY <1>1, TailFacts
  <1>3. PICK todo \in [Writers -> Seq(LogLines)] :
          /\ todo = [w \in Writers |-> Reverse(logFile[w])]
          /\ \A w \in Writers :
               /\ Len(todo[w]) = Len(logFile[w])
               /\ \A i \in 1..Len(todo[w]) : todo[w][i] = logFile[w][Len(todo[w]) + 1 - i]
    <2>1. ASSUME NEW w \in Writers
          PROVE  /\ Reverse(logFile[w]) \in Seq(LogLines)
                 /\ Len(Reverse(logFile[w])) = Len(logFile[w])
                 /\ \A i \in 1..Len(logFile[w]) :
                      Reverse(logFile[w])[i] = logFile[w][Len(logFile[w]) + 1 - i]
      <3>1. /\ Len(logFile[w]) \in Nat
            /\ \A i \in 1..Len(logFile[w]) : logFile[w][i] \in LogLines
        BY <1>1, WriterFacts
      <3>2. PICK n \in Nat : n = Len(logFile[w])
        BY <3>1
      <3>3. \A i \in 1..n : n + 1 - i \in 1..n /\ (n - i) + 1 = n + 1 - i
        BY <3>2
      <3>4. \A i \in 1..n : logFile[w][n + 1 - i] \in LogLines
        BY <3>1, <3>2, <3>3
      <3>5. PICK s : s = [i \in 1..n |-> logFile[w][n + 1 - i]]
        OBVIOUS
      <3>6. s \in Seq(LogLines) /\ Len(s) = n
        <4>1. s \in [1..n -> LogLines]
          BY <3>4, <3>5
        <4> QED BY <4>1, LenProperties
      <3>7. Reverse(logFile[w]) = s
        BY <3>2, <3>3, <3>5 DEF Reverse
      <3> QED BY <3>2, <3>5, <3>6, <3>7
    <2>2. PICK f : f = [w \in Writers |-> Reverse(logFile[w])]
      OBVIOUS
    <2>3. \A w \in Writers : f[w] = Reverse(logFile[w])
      BY <2>2
    <2>4. f \in [Writers -> Seq(LogLines)]
      BY <2>1, <2>2
    <2> QED BY <2>1, <2>2, <2>3, <2>4
  <1>4. PICK r \in TailTypes : r = [tail[t] EXCEPT !.at = "history", !.todo = todo]
    BY <1>2 DEF TailTypes
  <1>5. /\ r.at = "history" /\ r.todo = todo /\ r.now = tail[t].now
        /\ r.limit = tail[t].limit /\ r.open = tail[t].open
    BY <1>2, <1>4 DEF TailTypes
  <1>6. /\ tail[t].at = "files" /\ tail' = [tail EXCEPT ![t] = r]
        /\ UNCHANGED <<logClock, logFile, writer, collectors, quota, history, followed, sure>>
    BY <1>3, <1>4 DEF OpenFiles
  <1>7. OneTail(t) /\ tail'[t] = r
    <2>1. collectors' \in SUBSET Tails
      BY <1>1, <1>6 DEF TailTypeOK
    <2> QED BY <1>1, <1>6, <2>1, OnlyTail
  <1>8. Active(t)
    BY <1>6 DEF Active
  <1>9. StateOk(t)' /\ FollowOk(t)'
    BY <1>1, <1>5, <1>6, <1>7, <1>8, FollowKept, StateKept
  <1>10. TodoOk(t)'
    <2>1. \A w \in Writers : Len(todo[w]) <= Len(logFile[w])
      BY <1>1, <1>3, WriterFacts
    <2> QED BY <2>1, <1>3, <1>5, <1>6, <1>7 DEF TodoOk
  <1>11. TakenOk(t)'
    <2>1. history'[t] = <<>> /\ quota'[t] = Limit(t) /\ Limit(t)' = Limit(t)
      BY <1>1, <1>5, <1>6, <1>7 DEF StateOk, Limit
    <2>2. Limit(t) \in Nat
      BY <1>2 DEF Limit, NoLimit
    <2>3. ASSUME NEW l \in sure'[t].past PROVE ~(l.n > Len(tail'[t].todo[l.w]))
      <3>1. InFile(l)
        BY <1>1, <1>6, <1>8, <2>3 DEF StateOk
      <3>2. l.w \in Writers /\ l.n \in 1..Len(logFile[l.w]) /\ Len(logFile[l.w]) \in Nat
        BY <3>1, <1>1, WriterFacts DEF InFile
      <3>3. Len(todo[l.w]) = Len(logFile[l.w])
        BY <3>2, <1>3
      <3> QED BY <3>2, <3>3, <1>5, <1>7
    <2>4. ToSet(history'[t]) = {} /\ Distinct(history'[t]) /\ Len(history'[t]) = 0
      BY <2>1, EmptyList
    <2> QED BY <2>1, <2>2, <2>3, <2>4 DEF TakenOk
  <1> QED BY <1>7, <1>9, <1>10, <1>11, TailMoves DEF HistoryOk

(* HistoryEnds: all of the files has been read.                            *)
LEMMA TailCopies ==
  ASSUME TailInv, NEW t \in Tails, HistoryEnds(t)
  PROVE  TailInv'
  <1>1. /\ TailTypeOK /\ StateOk(t) /\ FollowOk(t) /\ HistoryOk(t)
    BY DEF TailInv
  <1>2. tail[t] \in TailTypes
    BY <1>1, TailFacts
  <1>3. PICK r \in TailTypes : r = [tail[t] EXCEPT !.at = "copy"]
    BY <1>2 DEF TailTypes
  <1>4. /\ r.at = "copy" /\ r.todo = tail[t].todo /\ r.now = tail[t].now
        /\ r.limit = tail[t].limit /\ r.open = tail[t].open
    BY <1>2, <1>3 DEF TailTypes
  <1>5. /\ tail[t].at = "history" /\ tail' = [tail EXCEPT ![t] = r]
        /\ \A w \in Writers : tail[t].todo[w] = <<>>
        /\ UNCHANGED <<logClock, logFile, writer, collectors, quota, history, followed, sure>>
    BY <1>3 DEF HistoryEnds
  <1>6. OneTail(t) /\ tail'[t] = r
    <2>1. collectors' \in SUBSET Tails
      BY <1>1, <1>5 DEF TailTypeOK
    <2> QED BY <1>1, <1>5, <2>1, OnlyTail
  <1>7. Active(t)
    BY <1>5 DEF Active
  <1>8. StateOk(t)' /\ FollowOk(t)'
    BY <1>1, <1>4, <1>5, <1>6, <1>7, FollowKept, StateKept
  <1>9. TodoOk(t) /\ TakenOk(t)
    BY <1>1, <1>5 DEF HistoryOk
  <1>10. TodoOk(t)'
    BY <1>4, <1>5, <1>6, <1>9 DEF TodoOk
  <1>11. TakenOk(t)'
    <2>1. Limit(t)' = Limit(t) /\ \A l : InFile(l)' <=> InFile(l)
      BY <1>4, <1>5, <1>6 DEF Limit, InFile
    <2> QED BY <1>4, <1>5, <1>6, <1>9, <2>1 DEF TakenOk
  <1> QED BY <1>6, <1>8, <1>10, <1>11, TailMoves DEF HistoryOk

(* CancelTail: nothing is promised to whoever is gone.                     *)
LEMMA TailCancels ==
  ASSUME TailInv, NEW t \in Tails, CancelTail(t)
  PROVE  TailInv'
  <1>1. TailTypeOK
    BY DEF TailInv
  <1>2. tail[t] \in TailTypes
    BY <1>1, TailFacts
  <1>3. PICK r \in TailTypes :
          r = [tail[t] EXCEPT !.at = "cancelled", !.todo = <<>>, !.now = 0, !.limit = 0]
    BY <1>2 DEF TailTypes
  <1>4. r.at = "cancelled" /\ r.limit = 0
    BY <1>2, <1>3 DEF TailTypes
  <1>5. PICK s \in SureTypes : s = [past |-> {}, from |-> 0]
    BY DEF SureTypes
  <1>6. /\ tail' = [tail EXCEPT ![t] = r] /\ quota' = [quota EXCEPT ![t] = 0]
        /\ history' = [history EXCEPT ![t] = <<>>]
        /\ followed' = [followed EXCEPT ![t] = <<>>] /\ sure' = [sure EXCEPT ![t] = s]
        /\ UNCHANGED <<logClock, logFile, writer, collectors>>
    BY <1>3, <1>5 DEF CancelTail
  <1>7. tail'[t] = r
    BY <1>1, <1>6 DEF TailTypeOK
  <1>8. OneTail(t)
    <2>1. /\ tail \in [Tails -> TailTypes] /\ sure \in [Tails -> SureTypes]
      BY <1>1 DEF TailTypeOK, TailTypes, SureTypes
    <2>2. <<>> \in Seq(LogLines)
      OBVIOUS
    <2> QED BY <1>1, <1>6, <2>1, <2>2 DEF OneTail, TailTypeOK
  <1>9. ~Active(t)' /\ tail'[t].at = "cancelled" /\ tail'[t].limit = 0
    BY <1>4, <1>7 DEF Active
  <1> QED BY <1>8, <1>9, TailMoves DEF StateOk, HistoryOk, FollowOk

(* ClosePipe and RemoveCollector: nor after that.                          *)
LEMMA TailCloses ==
  ASSUME TailInv, NEW t \in Tails, ClosePipe(t) \/ RemoveCollector(t)
  PROVE  TailInv'
  <1>1. TailTypeOK /\ StateOk(t)
    BY DEF TailInv
  <1>2. tail[t] \in TailTypes
    BY <1>1, TailFacts
  <1>3. PICK r \in TailTypes :
          /\ r.at \in {"remove", "done"} /\ r.limit = tail[t].limit
          /\ tail' = [tail EXCEPT ![t] = r]
    <2>1. CASE ClosePipe(t)
      <3>1. PICK r \in TailTypes : r = [tail[t] EXCEPT !.open = FALSE, !.at = "remove"]
        BY <1>2 DEF TailTypes
      <3>2. r.at = "remove" /\ r.limit = tail[t].limit
        BY <1>2, <3>1 DEF TailTypes
      <3> QED BY <2>1, <3>1, <3>2 DEF ClosePipe
    <2>2. CASE RemoveCollector(t)
      <3>1. PICK r \in TailTypes : r = [tail[t] EXCEPT !.at = "done", !.open = FALSE]
        BY <1>2 DEF TailTypes
      <3>2. r.at = "done" /\ r.limit = tail[t].limit
        BY <1>2, <3>1 DEF TailTypes
      <3> QED BY <2>2, <3>1, <3>2 DEF RemoveCollector
    <2> QED BY <2>1, <2>2
  <1>4. /\ tail[t].at \in {"cancelled", "remove"}
        /\ collectors' \in SUBSET Tails
        /\ \A u \in Tails : u # t => (u \in collectors => u \in collectors')
        /\ UNCHANGED <<logClock, logFile, writer, quota, history, followed, sure>>
    BY <1>1 DEF ClosePipe, RemoveCollector, TailTypeOK
  <1>5. OneTail(t) /\ tail'[t] = r
    BY <1>1, <1>3, <1>4, OnlyTail
  <1>6. tail[t].limit = 0
    BY <1>1, <1>4 DEF StateOk, Active
  <1>7. ~Active(t)' /\ tail'[t].at \in {"remove", "done"} /\ tail'[t].limit = 0
    BY <1>3, <1>5, <1>6 DEF Active
  <1> QED BY <1>5, <1>7, TailMoves DEF StateOk, HistoryOk, FollowOk

(* What is left of a file after its next line, or after the quota.         *)
Rest(s, t, line) == IF line.t > tail[t].now \/ ConsumeLine(t) THEN Tail(s) ELSE <<>>

(* NextLine: a line is passed over because it is after now, or taken, or   *)
(* ends its file; it was not taken before.                                 *)
LEMMA TailReads ==
  ASSUME TailInv, NEW t \in Tails, NEW w \in Writers, NextLine(t, w)
  PROVE  TailInv'
  <1>1. /\ TailTypeOK /\ StateOk(t) /\ FollowOk(t) /\ HistoryOk(t)
        /\ \A v \in Writers : FileOk(v)
    BY DEF TailInv
  <1>2. /\ tail[t] \in TailTypes /\ quota[t] \in Int /\ history[t] \in Seq(LogLines)
        /\ tail[t].now \in Nat /\ Len(history[t]) \in Nat /\ tail[t].limit \in Nat
    BY <1>1, TailFacts
  <1>3. tail[t].at = "history" /\ TodoOk(t) /\ TakenOk(t)
    BY <1>1 DEF NextLine, HistoryOk
  <1>4. PICK todo \in [Writers -> Seq(LogLines)] : todo = tail[t].todo
    BY <1>3 DEF TodoOk
  <1>5. todo[w] \in Seq(LogLines) /\ todo[w] # <<>>
    BY <1>4 DEF NextLine
  <1>6. PICK n \in Nat \ {0} : n = Len(todo[w])
    BY <1>5, LenProperties, EmptySeq
  <1>7. PICK line \in LogLines : line = Head(todo[w])
    BY <1>5, HeadTailProperties
  <1>8. line = logFile[w][n] /\ n <= Len(logFile[w]) /\ Len(logFile[w]) \in Nat
    <2>1. line = todo[w][1]
      BY <1>5, <1>7
    <2>2. todo[w][1] = logFile[w][n + 1 - 1]
      BY <1>3, <1>4, <1>6 DEF TodoOk
    <2> QED BY <2>1, <2>2, <1>1, <1>3, <1>4, <1>6, WriterFacts DEF TodoOk
  <1>9. InFile(line) /\ line.w = w /\ line.n = n /\ line.t \in Nat
    <2>1. n \in 1..Len(logFile[w])
      BY <1>8
    <2>2. line.w = w /\ line.n = n
      BY <2>1, <1>1, <1>8 DEF FileOk
    <2> QED BY <2>1, <2>2, <1>7, <1>8 DEF InFile, LogLines
  <1>10. PICK rest \in Seq(LogLines) : rest = Rest(todo[w], t, line)
    <2>1. Tail(todo[w]) \in Seq(LogLines) /\ <<>> \in Seq(LogLines)
      BY <1>5, HeadTailProperties
    <2> QED BY <2>1 DEF Rest
  <1>11. PICK newTodo \in [Writers -> Seq(LogLines)] : newTodo = [todo EXCEPT ![w] = rest]
    OBVIOUS
  <1>12. newTodo[w] = rest /\ \A v \in Writers : v # w => newTodo[v] = todo[v]
    BY <1>11
  <1>13. PICK r \in TailTypes : r = [tail[t] EXCEPT !.todo = newTodo]
    BY <1>2 DEF TailTypes
  <1>14. /\ r.at = "history" /\ r.todo = newTodo /\ r.now = tail[t].now
         /\ r.limit = tail[t].limit /\ r.open = tail[t].open
    BY <1>2, <1>3, <1>13 DEF TailTypes
  <1>15. tail' = [tail EXCEPT ![t] = r]
    <2>1. tail' = [tail EXCEPT ![t].todo[w] =
                     IF line.t > tail[t].now \/ (~(line.t > tail[t].now) /\ ConsumeLine(t))
                     THEN Tail(@) ELSE <<>>]
      BY <1>4, <1>7 DEF NextLine
    <2>2. rest = IF line.t > tail[t].now \/ (~(line.t > tail[t].now) /\ ConsumeLine(t))
                 THEN Tail(tail[t].todo[w]) ELSE <<>>
      BY <1>4, <1>10 DEF Rest
    <2> QED BY <2>1, <2>2, <1>4, <1>11, <1>13
  <1>16. /\ UNCHANGED <<logClock, logFile, writer, collectors, followed, sure>>
         /\ quota' = IF line.t > tail[t].now THEN quota ELSE [quota EXCEPT ![t] = @ - 1]
         /\ history' = IF ~(line.t > tail[t].now) /\ ConsumeLine(t)
                       THEN [history EXCEPT ![t] = Append(@, line)] ELSE history
    BY <1>4, <1>7 DEF NextLine
  <1>17. Append(history[t], line) \in Seq(LogLines) /\ quota[t] - 1 \in Int
    BY <1>2, AppendProperties
  <1>18. OneTail(t) /\ tail'[t] = r
    BY <1>1, <1>15, <1>16, <1>17 DEF OneTail, TailTypeOK, TailTypes, SureTypes
  <1>19. Active(t)
    BY <1>3 DEF Active
  <1>20. StateOk(t)' /\ FollowOk(t)'
    BY <1>1, <1>14, <1>16, <1>18, <1>19, FollowKept, StateKept
  <1>21. /\ Len(rest) \in Nat /\ Len(rest) <= n - 1
         /\ rest = Tail(todo[w]) => Len(rest) = n - 1
         /\ \A i \in 1..Len(rest) : rest[i] = logFile[w][Len(rest) + 1 - i]
    <2>1. CASE rest = <<>> /\ rest # Tail(todo[w])
      BY <2>1
    <2>2. CASE rest = Tail(todo[w])
      <3>1. Len(rest) = n - 1 /\ \A i \in 1..(n - 1) : rest[i] = todo[w][i + 1]
        BY <2>2, <1>5, <1>6, HeadTailProperties
      <3>2. ASSUME NEW i \in 1..(n - 1) PROVE rest[i] = logFile[w][(n - 1) + 1 - i]
        <4>1. i + 1 \in 1..n /\ n + 1 - (i + 1) = (n - 1) + 1 - i
          OBVIOUS
        <4>2. todo[w][i + 1] = logFile[w][n + 1 - (i + 1)]
          BY <4>1, <1>3, <1>4, <1>6 DEF TodoOk
        <4> QED BY <4>1, <4>2, <3>1
      <3> QED BY <3>1, <3>2, SMTT(60)
    <2> QED BY <2>1, <2>2, <1>10 DEF Rest
  <1>22. TodoOk(t)'
    <2>1. ASSUME NEW v \in Writers
          PROVE  /\ Len(newTodo[v]) <= Len(logFile[v])
                 /\ \A i \in 1..Len(newTodo[v]) :
                      newTodo[v][i] = logFile[v][Len(newTodo[v]) + 1 - i]
      <3>1. CASE v = w
        BY <3>1, <1>8, <1>12, <1>21
      <3>2. CASE v # w
        BY <3>2, <1>3, <1>4, <1>12 DEF TodoOk
      <3> QED BY <3>1, <3>2
    <2> QED BY <2>1, <1>14, <1>16, <1>18 DEF TodoOk
  <1>23. /\ Distinct(history[t])
         /\ \A l \in ToSet(history[t]) :
              InFile(l) /\ l.t <= tail[t].now /\ l.n > Len(todo[l.w])
         /\ quota[t] >= 0 =>
              /\ Len(history[t]) = Limit(t) - quota[t]
              /\ \A l \in sure[t].past : l.n > Len(todo[l.w]) => l \in ToSet(history[t])
         /\ quota[t] < 0 => Len(history[t]) = Limit(t)
    BY <1>3, <1>4 DEF TakenOk
  <1>24. \A l : InFile(l) => /\ l.w \in Writers /\ l.n \in Nat /\ Len(todo[l.w]) \in Nat
                             /\ (l.w = w /\ l.n = n => l = line)
    BY <1>1, <1>4, <1>8, WriterFacts, LenProperties, SMTT(60) DEF InFile
  <1>25. \A l : InFile(l) /\ l.n > Len(todo[l.w]) => l.n > Len(newTodo[l.w])
    <2> SUFFICES ASSUME NEW l, InFile(l), l.n > Len(todo[l.w]) PROVE l.n > Len(newTodo[l.w])
      OBVIOUS
    <2>1. CASE l.w = w
      BY <2>1, <1>6, <1>12, <1>21, <1>24
    <2>2. CASE l.w # w
      BY <2>2, <1>12, <1>24
    <2> QED BY <2>1, <2>2
  <1>26. ASSUME NEW l \in sure[t].past, l.n > Len(newTodo[l.w]), rest = Tail(todo[w])
         PROVE  InFile(l) /\ l.t <= tail[t].now /\ (l = line \/ l.n > Len(todo[l.w]))
    <2>1. InFile(l) /\ l.t <= tail[t].now
      BY <1>1, <1>19, <1>26 DEF StateOk
    <2>2. CASE l.w = w
      <3>1. l.n > n - 1
        BY <2>2, <1>12, <1>21, <1>26
      <3>2. l.n = n \/ l.n > n
        BY <3>1, <2>1, <1>24
      <3> QED BY <3>2, <2>1, <2>2, <1>6, <1>24
    <2>3. CASE l.w # w
      BY <2>1, <2>3, <1>12, <1>24, <1>26
    <2> QED BY <2>1, <2>2, <2>3
  <1>27. Limit(t)' = Limit(t) /\ Limit(t) \in Nat /\ (\A l : InFile(l)' <=> InFile(l))
    BY <1>2, <1>14, <1>16, <1>18 DEF Limit, NoLimit, InFile
  <1>28. TakenOk(t)'
    <2>1. CASE line.t > tail[t].now
      <3>1. quota'[t] = quota[t] /\ history'[t] = history[t] /\ rest = Tail(todo[w])
        BY <2>1, <1>10, <1>16 DEF Rest
      <3>2. \A l \in sure[t].past : l.n > Len(newTodo[l.w]) => l.n > Len(todo[l.w])
        <4> SUFFICES ASSUME NEW l \in sure[t].past, l.n > Len(newTodo[l.w])
                     PROVE  l.n > Len(todo[l.w])
          OBVIOUS
        <4>1. l.t <= tail[t].now /\ (l = line \/ l.n > Len(todo[l.w]))
          BY <3>1, <1>26
        <4>2. ~(line.t <= tail[t].now)
          <5>1. \A a, b \in Nat : a > b => ~(a <= b)
            OBVIOUS
          <5> QED BY <5>1, <2>1, <1>2, <1>9
        <4> QED BY <4>1, <4>2
      <3> QED BY <3>1, <3>2, <1>14, <1>16, <1>18, <1>23, <1>25, <1>27 DEF TakenOk
    <2>2. CASE ~(line.t > tail[t].now) /\ ConsumeLine(t)
      <3>1. /\ quota'[t] = quota[t] - 1 /\ history'[t] = Append(history[t], line)
            /\ rest = Tail(todo[w]) /\ quota[t] > 0
        BY <2>2, <1>1, <1>10, <1>16 DEF Rest, ConsumeLine, TailTypeOK
      <3>2. line \notin ToSet(history[t])
        BY <1>4, <1>6, <1>9, <1>23
      <3>3. /\ ToSet(history'[t]) = ToSet(history[t]) \cup {line}
            /\ Distinct(history'[t]) /\ Len(history'[t]) = Len(history[t]) + 1
        BY <3>1, <3>2, <1>2, <1>23, AppendSet
      <3>4. line.t <= tail[t].now /\ line.n > Len(newTodo[line.w])
        BY <2>2, <1>2, <1>9, <1>12, <1>21
      <3>5. \A l \in ToSet(history'[t]) :
              InFile(l)' /\ l.t <= tail[t].now /\ l.n > Len(newTodo[l.w])
        BY <3>3, <3>4, <1>9, <1>23, <1>25, <1>27
      <3>6. quota'[t] >= 0 /\ Len(history'[t]) = Limit(t) - quota'[t]
        <4>1. \A q, k, m \in Int : q > 0 /\ k = m - q => q - 1 >= 0 /\ k + 1 = m - (q - 1)
          OBVIOUS
        <4>2. quota[t] >= 0
          BY <3>1, <1>2
        <4>3. Len(history[t]) = Limit(t) - quota[t]
          BY <4>2, <1>23
        <4> QED BY <4>1, <4>3, <3>1, <3>3, <1>2, <1>27
      <3>7. \A l \in sure[t].past : l.n > Len(newTodo[l.w]) => l \in ToSet(history'[t])
        <4>1. quota[t] >= 0
          BY <3>1, <1>2
        <4>2. \A l \in sure[t].past : l.n > Len(todo[l.w]) => l \in ToSet(history[t])
          BY <4>1, <1>23
        <4> QED BY <4>2, <3>1, <3>3, <1>26
      <3>8. ~(quota'[t] < 0)
        BY <3>1, <1>2
      <3> QED BY <3>3, <3>5, <3>6, <3>7, <3>8, <1>14, <1>16, <1>18, <1>27 DEF TakenOk
    <2>3. CASE ~(line.t > tail[t].now) /\ ~ConsumeLine(t)
      <3>1. quota'[t] = quota[t] - 1 /\ history'[t] = history[t] /\ ~(quota[t] > 0)
        BY <2>3, <1>1, <1>16 DEF ConsumeLine, TailTypeOK
      <3>2. quota'[t] < 0 /\ ~(quota'[t] >= 0) /\ Len(history'[t]) = Limit(t)
        <4>1. \A q \in Int : ~(q > 0) => q - 1 < 0 /\ ~(q - 1 >= 0) /\ (q = 0 \/ q < 0)
          OBVIOUS
        <4>2. CASE quota[t] = 0
          <5>1. quota[t] >= 0
            BY <4>2
          <5>2. Len(history[t]) = Limit(t) - 0
            BY <4>2, <5>1, <1>23
          <5> QED BY <4>1, <5>2, <3>1, <1>2, <1>27
        <4>3. CASE quota[t] < 0
          BY <4>1, <4>3, <3>1, <1>2, <1>23
        <4> QED BY <4>1, <4>2, <4>3, <3>1, <1>2
      <3> QED BY <3>1, <3>2, <1>14, <1>16, <1>18, <1>23, <1>25, <1>27 DEF TakenOk
    <2> QED BY <2>1, <2>2, <2>3
  <1> QED BY <1>18, <1>20, <1>22, <1>28, TailMoves DEF HistoryOk

(* Before the first line and the first tail.                               *)
LEMMA TailStart == TailInit => TailInv
  <1> SUFFICES ASSUME TailInit PROVE TailInv
    OBVIOUS
  <1>1. TailTypeOK
    <2>1. /\ Quiet \in WriterTypes /\ NoTail \in TailTypes
          /\ [past |-> {}, from |-> 0] \in SureTypes /\ <<>> \in Seq(LogLines)
      BY DEF Quiet, NoTail, WriterTypes, TailTypes, SureTypes
    <2>2. /\ logFile \in [Writers -> Seq(LogLines)] /\ writer \in [Writers -> WriterTypes]
          /\ tail \in [Tails -> TailTypes] /\ quota \in [Tails -> Int]
          /\ history \in [Tails -> Seq(LogLines)] /\ followed \in [Tails -> Seq(LogLines)]
          /\ sure \in [Tails -> SureTypes] /\ logClock \in Nat /\ collectors \in SUBSET Tails
      BY <2>1 DEF TailInit
    <2> QED BY <2>2 DEF TailTypeOK, WriterTypes, TailTypes, SureTypes
  <1>2. ASSUME NEW w \in Writers
        PROVE  writer[w].at = "idle" /\ writer[w].n = 0 /\ Len(logFile[w]) = 0
    BY DEF TailInit, Quiet
  <1>3. ASSUME NEW w \in Writers PROVE FileOk(w)
    BY <1>2 DEF FileOk
  <1>4. CountInv
    <2>1. MaxLines \in Nat
      BY TailAssumption DEF TailAssumption
    <2>2. \A p \in Writers \X (1..MaxLines) : p[1] \in Writers /\ p[2] \in 1..MaxLines
      OBVIOUS
    <2>3. \A p \in Writers \X (1..MaxLines) : ~(p[2] <= writer[p[1]].n)
      BY <2>1, <2>2, <1>2
    <2>4. Stamped = {}
      BY <2>3 DEF Stamped
    <2> QED BY <1>2, <2>1, <2>4, FS_EmptySet DEF CountInv
  <1>5. ASSUME NEW t \in Tails PROVE StateOk(t) /\ HistoryOk(t) /\ FollowOk(t)
    <2>1. /\ tail[t].at = "off" /\ tail[t].limit = 0 /\ history[t] = <<>> /\ followed[t] = <<>>
      BY DEF TailInit, NoTail
    <2> QED BY <2>1 DEF StateOk, HistoryOk, FollowOk, Active
  <1> QED BY <1>1, <1>3, <1>4, <1>5 DEF TailInv

(* Every step keeps what is known of the log and its tails.                *)
LEMMA TailStep == TailInv /\ [TailNext]_tailVars => TailInv'
  <1> SUFFICES ASSUME TailInv, [TailNext]_tailVars PROVE TailInv'
    OBVIOUS
  <1>1. CASE LogTick
    BY <1>1, TailTick
  <1>2. CASE \E w \in Writers : Stamp(w) \/ Logging(w)
    BY <1>2, TailStamps, TailWrites, TailLocks, TailUnlocks, TailSends DEF Logging
  <1>3. CASE \E t \in Tails : Tailing(t) \/ CancelTail(t)
    BY <1>3, TailRegisters, TailOpens, TailReads, TailCopies, TailCloses, TailCancels DEF Tailing
  <1>4. CASE \E t \in Tails : \E k \in LineLimits : Follow(t, k)
    BY <1>4, TailFollows
  <1>5. CASE UNCHANGED tailVars \/ \E t \in Tails : TakeLine(t)
    <2>1. /\ TailTypeOK /\ (\A w \in Writers : FileOk(w)) /\ CountInv
          /\ \A t \in Tails : StateOk(t) /\ HistoryOk(t) /\ FollowOk(t)
      BY DEF TailInv
    <2>2. UNCHANGED <<logClock, logFile, writer, collectors, readers, wanting, tail,
                      quota, history, followed, sure>>
      BY <1>5 DEF tailVars, TakeLine
    <2>3. TailTypeOK' /\ CountInv' /\ \A l : InFile(l)' <=> InFile(l)
      BY <2>1, <2>2 DEF TailTypeOK, CountInv, Stamped, InFile
    <2>4. ASSUME NEW w \in Writers PROVE FileOk(w)'
      BY <2>1, <2>2, <2>3 DEF FileOk
    <2>5. ASSUME NEW t \in Tails PROVE StateOk(t)' /\ HistoryOk(t)' /\ FollowOk(t)'
      <3>1. TailSame(t) /\ logClock \in Nat /\ logClock' \in Nat /\ logClock <= logClock'
        BY <2>1, <2>2 DEF TailSame, TailTypeOK
      <3>2. StateOk(t)' /\ HistoryOk(t)'
        BY <2>1, <2>2, <3>1, StateStays
      <3>3. FollowOk(t)'
        BY <2>1, <2>2, FollowStays
      <3> QED BY <3>2, <3>3
    <2> QED BY <2>3, <2>4, <2>5 DEF TailInv
  <1> QED BY <1>1, <1>2, <1>3, <1>4, <1>5 DEF TailNext

(* There are fewer lines than a tail without a limit may take: its quota   *)
(* does not end.                                                           *)
LEMMA QuotaLasts ==
  ASSUME TailInv, NEW t \in Tails, tail[t].at = "copy", tail[t].limit = 0
  PROVE  quota[t] >= 0
  <1> SUFFICES ASSUME ~(quota[t] >= 0) PROVE FALSE
    OBVIOUS
  <1>1. /\ TailTypeOK /\ HistoryOk(t) /\ CountInv /\ \A v \in Writers : FileOk(v)
    BY DEF TailInv
  <1>2. TakenOk(t) /\ quota[t] \in Int /\ history[t] \in Seq(LogLines)
    BY <1>1, TailFacts DEF HistoryOk
  <1>3. quota[t] < 0
    BY <1>2
  <1>4. Len(history[t]) = NoLimit
    BY <1>2, <1>3 DEF TakenOk, Limit
  <1>5. NoLimit \in Nat /\ MaxLines \in Nat /\ MaxLines < NoLimit
    BY TailAssumption DEF TailAssumption, NoLimit
  <1>6. DOMAIN history[t] = 1..NoLimit
    BY <1>2, <1>4, LenProperties
  <1>7. PICK f : f = [i \in 1..NoLimit |-> <<history[t][i].w, history[t][i].n>>]
    OBVIOUS
  <1>8. ASSUME NEW i \in 1..NoLimit
        PROVE  /\ f[i] = <<history[t][i].w, history[t][i].n>> /\ InFile(history[t][i])
               /\ f[i] \in Stamped
    <2>1. history[t][i] \in ToSet(history[t])
      BY <1>6 DEF ToSet
    <2>2. InFile(history[t][i])
      BY <2>1, <1>2 DEF TakenOk
    <2>3. PICK w \in Writers, n \in Nat : /\ w = history[t][i].w /\ n = history[t][i].n
                                          /\ n \in 1..Len(logFile[w])
      BY <2>2 DEF InFile
    <2>4. writer[w].n \in Nat /\ writer[w].n <= MaxLines /\ Len(logFile[w]) \in Nat
      BY <1>1, WriterFacts DEF CountInv
    <2>5. Len(logFile[w]) <= writer[w].n
      <3>1. Len(logFile[w]) = writer[w].n \/ Len(logFile[w]) = writer[w].n - 1
        BY <1>1 DEF FileOk
      <3> QED BY <3>1, <2>4
    <2>6. n \in 1..MaxLines /\ n <= writer[w].n
      <3>1. \A a, b, c, d \in Nat : a \in 1..b /\ b <= c /\ c <= d => a \in 1..d /\ a <= c
        OBVIOUS
      <3> QED BY <3>1, <2>3, <2>4, <2>5, <1>5
    <2>7. <<w, n>> \in Stamped
      BY <2>6 DEF Stamped
    <2> QED BY <1>7, <2>2, <2>3, <2>7
  <1>9. f \in [1..NoLimit -> Stamped]
    BY <1>7, <1>8
  <1>10. \A i, j \in 1..NoLimit : f[i] = f[j] => i = j
    <2> SUFFICES ASSUME NEW i \in 1..NoLimit, NEW j \in 1..NoLimit, f[i] = f[j] PROVE i = j
      OBVIOUS
    <2>1. history[t][i].w = history[t][j].w /\ history[t][i].n = history[t][j].n
      BY <1>8
    <2>2. history[t][i] = history[t][j]
      BY <2>1, <1>8 DEF InFile
    <2> QED BY <2>2, <1>2, <1>6 DEF TakenOk, Distinct
  <1>11. NoLimit <= Cardinality(Stamped)
    BY <1>1, <1>5, <1>9, <1>10, StampedBound
  <1>12. Cardinality(Stamped) <= MaxLines /\ Cardinality(Stamped) \in Nat
    BY <1>1, StampedFinite DEF CountInv
  <1> QED BY <1>5, <1>11, <1>12

(* What is known of the log and its tails is what a tail is promised.      *)
LEMMA TailImplies == TailInv => TailCorrect
  <1> SUFFICES ASSUME TailInv PROVE TailCorrect
    OBVIOUS
  <1>1. /\ TailTypeOK /\ (\A w \in Writers : FileOk(w)) /\ CountInv
        /\ \A t \in Tails : StateOk(t) /\ HistoryOk(t) /\ FollowOk(t)
    BY DEF TailInv
  <1>2. ASSUME NEW t \in Tails, tail[t].at = "copy" PROVE TodoOk(t) /\ TakenOk(t) /\ Active(t)
    BY <1>1, <1>2 DEF HistoryOk, Active
  <1>3. ASSUME NEW t \in Tails, tail[t].at = "copy", quota[t] >= 0
        PROVE  sure[t].past \subseteq ToSet(history[t])
    <2> SUFFICES ASSUME NEW l \in sure[t].past PROVE l \in ToSet(history[t])
      OBVIOUS
    <2>1. InFile(l)
      BY <1>1, <1>2, <1>3 DEF StateOk
    <2>2. l.w \in Writers /\ l.n \in 1..Len(logFile[l.w]) /\ Len(logFile[l.w]) \in Nat
      BY <2>1, <1>1, WriterFacts DEF InFile
    <2>3. tail[t].todo[l.w] = <<>>
      BY <2>2, <1>2, <1>3 DEF TodoOk
    <2>4. l.n > Len(tail[t].todo[l.w])
      BY <2>2, <2>3
    <2> QED BY <2>4, <1>2, <1>3 DEF TakenOk
  <1>4. TailExact
    <2> SUFFICES ASSUME NEW t \in Tails, tail[t].at = "copy", tail[t].limit = 0
                 PROVE  /\ \A l \in sure[t].past : Occurs(history[t], l) = 1
                        /\ \A w \in Writers : \A l \in Logged(w) : l.t > sure[t].from =>
                             Occurs(history[t], l) + Occurs(followed[t], l) = 1
      BY DEF TailExact
    <2>1. /\ history[t] \in Seq(LogLines) /\ followed[t] \in Seq(LogLines)
          /\ tail[t].now \in Nat /\ sure[t].from \in Nat
      BY <1>1, TailFacts
    <2>2. /\ Distinct(history[t]) /\ Distinct(followed[t])
          /\ \A l \in ToSet(history[t]) : InFile(l) /\ l.t <= tail[t].now
      BY <1>1, <1>2 DEF TakenOk, FollowOk
    <2>3. sure[t].past \subseteq ToSet(history[t])
      BY <1>3, QuotaLasts
    <2>4. ASSUME NEW l \in sure[t].past PROVE Occurs(history[t], l) = 1
      BY <2>1, <2>2, <2>3, <2>4, OccursOnce
    <2>5. ASSUME NEW w \in Writers, NEW l \in Logged(w), l.t > sure[t].from
          PROVE  Occurs(history[t], l) + Occurs(followed[t], l) = 1
      <3>1. l \in ToSet(logFile[w]) /\ (writer[w].at = "idle" \/ l # writer[w].line)
        BY <2>5 DEF Logged
      <3>2. InFile(l)
        BY <3>1, <1>1, FileSet
      <3>3. l.t \in Nat
        BY <3>2, <1>1, WriterFacts DEF InFile
      <3>4. tail[t].now <= sure[t].from
        BY <1>1, <1>2 DEF StateOk
      <3>5. l \notin ToSet(history[t])
        BY <2>1, <2>2, <2>5, <3>3, <3>4
      <3>6. ~(Coming(w, t) /\ l = writer[w].line)
        BY <3>1 DEF Coming
      <3>7. l \in ToSet(followed[t])
        BY <2>5, <3>1, <3>6, <1>1, <1>2 DEF FollowOk
      <3>8. Occurs(history[t], l) = 0 /\ Occurs(followed[t], l) = 1
        BY <3>5, <3>7, <2>1, <2>2, OccursOnce
      <3> QED BY <3>8
    <2> QED BY <2>4, <2>5
  <1>5. QuotaExact
    <2> SUFFICES ASSUME NEW t \in Tails, tail[t].limit # 0
                 PROVE  /\ Len(history[t]) <= tail[t].limit
                        /\ tail[t].at = "copy" => \/ Len(history[t]) = tail[t].limit
                                                  \/ sure[t].past \subseteq ToSet(history[t])
      BY DEF QuotaExact
    <2>1. /\ quota[t] \in Int /\ tail[t].limit \in Nat /\ Len(history[t]) \in Nat
      BY <1>1, TailFacts
    <2>2. Limit(t) = tail[t].limit /\ (tail[t].at = "register" \/ Active(t))
      BY <1>1 DEF Limit, StateOk
    <2>3. CASE tail[t].at \in {"register", "files"}
      <3>1. history[t] = <<>>
        BY <2>3, <1>1 DEF StateOk
      <3> QED BY <3>1, <2>1, <2>3
    <2>4. CASE tail[t].at \in {"history", "copy"}
      <3>1. TakenOk(t)
        BY <2>4, <1>1 DEF HistoryOk
      <3>2. CASE quota[t] >= 0
        <4>1. Len(history[t]) = tail[t].limit - quota[t]
          BY <3>1, <3>2, <2>2 DEF TakenOk
        <4> QED BY <4>1, <3>2, <2>1, <1>3
      <3>3. CASE quota[t] < 0
        BY <3>1, <3>3, <2>1, <2>2 DEF TakenOk
      <3> QED BY <3>2, <3>3, <2>1
    <2> QED BY <2>2, <2>3, <2>4 DEF Active
  <1> QED BY <1>4, <1>5 DEF TailCorrect

(* TailContext: for any number of writers, tails and lines, a tail without *)
(* a limit gets every line exactly once that was complete when it began or *)
(* was stamped after its collector was in place, and one with a limit no   *)
(* more history than that, and all there is when that is less.             *)
THEOREM TailsGetLines == TailSpec => []TailCorrect
  <1>1. TailInit => TailInv
    BY TailStart
  <1>2. TailInv /\ [TailNext]_tailVars => TailInv'
    BY TailStep
  <1>3. TailInv => TailCorrect
    BY TailImplies
  <1> QED BY <1>1, <1>2, <1>3, PTL DEF TailSpec

-----------------------------------------------------------------------------
(* The writer that merges the logs of several hosts.                       *)

(* A line of the log is found at most once in what was written and in what *)
(* is held back, and then its last half is not in the line buffer.         *)
Found(h, n) == Places(out, h, n) # {} \/ Places(buf, h, n) # {}

Halves == [h : Hosts, k : Nat \ {0}]
Entries == [halves : Seq(Halves), by : Hosts \cup {"none"}, t : Nat]

MuxTypeOK ==
  /\ sentHalves \in [Hosts -> Nat] /\ lnbuf \in Seq(Halves)
  /\ \A h \in Hosts : sentHalves[h] <= 2 * Len(LogTimes[h])
  /\ muxAt \in Hosts \cup {"idle"} /\ maxTime \in Nat /\ holding \in BOOLEAN
  /\ buf \in Seq(Entries) /\ out \in Seq(Entries) /\ outFails \in BOOLEAN
  /\ batch \in (Nat \ {0}) \X Nat

(* Halves come into the buffer once, so a line is put together once.       *)
OnceInv ==
  /\ \A i, j \in DOMAIN lnbuf : lnbuf[i] = lnbuf[j] => i = j
  /\ \A i \in DOMAIN lnbuf : lnbuf[i].k <= sentHalves[lnbuf[i].h]
  /\ \A h \in Hosts : \A n \in Lines(h) : Found(h, n) =>
       /\ 2 * n <= sentHalves[h]
       /\ \A i \in DOMAIN lnbuf : lnbuf[i] # Half(h, 2 * n)

SingleInv ==
  \A h \in Hosts : \A n \in Lines(h) :
    /\ \A i, j \in Places(out, h, n) : i = j
    /\ \A i, j \in Places(buf, h, n) : i = j
    /\ Places(out, h, n) = {} \/ Places(buf, h, n) = {}

(* As long as no write returns early the buffer holds the last halves of   *)
(* the host that writes, in order, and a line that came in one write is    *)
(* there or has been found.                                                *)
OrderInv ==
  ~outFails =>
    /\ muxAt = "idle" => lnbuf = <<>>
    /\ \A i \in DOMAIN lnbuf :
         lnbuf[i] = Half(muxAt, sentHalves[muxAt] - Len(lnbuf) + i)

WholeInv ==
  \A l \in whole :
    /\ l[1] \in Hosts /\ l[2] \in Lines(l[1]) /\ 2 * l[2] <= sentHalves[l[1]]
    /\ ~outFails => \/ Found(l[1], l[2])
                    \/ /\ muxAt = l[1]
                       /\ sentHalves[l[1]] - Len(lnbuf) < 2 * l[2] - 1

Named(e) == e.by # "none" => \E n \in Lines(e.by) : e.halves = Line(e.by, n)

NameInv ==
  /\ \A i \in DOMAIN out : Named(out[i])
  /\ ~outFails => \A i \in DOMAIN buf : Named(buf[i])

SortInv == batch[2] <= Len(out) /\ BatchSorted

MuxInv ==
  /\ MuxTypeOK /\ OnceInv /\ SingleInv /\ OrderInv /\ WholeInv /\ NameInv
  /\ SortInv

-----------------------------------------------------------------------------
(* Lists of lines.                                                         *)

(* A set of numbers that is not empty has a least one.                     *)
LEMMA LeastOf ==
  ASSUME NEW S, S \subseteq Nat, S # {}
  PROVE  \E m \in S : \A x \in S : m <= x
  <1> DEFINE Less == {ss \in Nat \X Nat : ss[1] < ss[2]}
  <1>1. IsWellFoundedOn(Less, Nat)
    BY NatLessThanWellFounded, Zenon DEF OpToRel
  <1>2. \A x, y \in Nat : <<x, y>> \in Less <=> x < y
    OBVIOUS
  <1> HIDE DEF Less
  <1>3. PICK m \in S : \A x \in S : ~(<<x, m>> \in Less)
    BY <1>1, WFMin
  <1>4. \A x \in S : ~(x < m) /\ x \in Nat /\ m \in Nat
    BY <1>2, <1>3
  <1> QED BY <1>4

(* Lines are told apart by their host and number.                          *)
LEMMA LinesDiffer ==
  ASSUME NEW g, NEW h, NEW m \in Nat, NEW n \in Nat, Line(g, m) = Line(h, n)
  PROVE  g = h /\ m = n
  <1>1. Half(g, 2 * m) = Half(h, 2 * n)
    <2>1. Line(g, m)[2] = Line(h, n)[2]
      OBVIOUS
    <2> QED BY <2>1 DEF Line
  <1> QED BY <1>1 DEF Half

(* A list with one more line has it at the end.                            *)
LEMMA PlacesAppend ==
  ASSUME NEW lines \in Seq(Entries), NEW e \in Entries, NEW h, NEW n
  PROVE  Places(Append(lines, e), h, n)
           = Places(lines, h, n)
             \cup {i \in {Len(lines) + 1} : e.halves = Line(h, n)}
  <1> HIDE DEF Line, Entries
  <1>1. /\ Append(lines, e) \in Seq(Entries)
        /\ Len(Append(lines, e)) = Len(lines) + 1
        /\ \A i \in 1..Len(lines) : Append(lines, e)[i] = lines[i]
        /\ Append(lines, e)[Len(lines) + 1] = e
    BY AppendProperties
  <1>2. /\ DOMAIN lines = 1..Len(lines) /\ Len(lines) \in Nat
        /\ DOMAIN Append(lines, e) = 1..(Len(lines) + 1)
    BY <1>1, LenProperties
  <1>3. \A i : i \in 1..(Len(lines) + 1) <=> i \in 1..Len(lines) \/ i = Len(lines) + 1
    BY <1>2
  <1> QED BY <1>1, <1>2, <1>3 DEF Places

(* Lines that are moved to another list in any order.                      *)
Moves(lines, held, p, moved) ==
  moved = lines \o [i \in DOMAIN held |-> held[p[i]]]

AllMoved(lines, held, p, moved) ==
  /\ moved \in Seq(Entries) /\ Len(moved) = Len(lines) + Len(held)
  /\ \A i \in 1..Len(lines) : moved[i] = lines[i]
  /\ \A i \in 1..Len(held) :
       moved[Len(lines) + i] = held[p[i]] /\ p[i] \in 1..Len(held)
  /\ \A h, n : \A i \in Places(moved, h, n) :
       \/ i \in Places(lines, h, n)
       \/ /\ i - Len(lines) \in 1..Len(held)
          /\ p[i - Len(lines)] \in Places(held, h, n)
  /\ \A h, n : Places(lines, h, n) \subseteq Places(moved, h, n)
  /\ \A h, n : Places(held, h, n) # {} => Places(moved, h, n) # {}

(* Each line is where it was before, or at one place behind.               *)
LEMMA PlacesMoved ==
  ASSUME NEW lines \in Seq(Entries), NEW held \in Seq(Entries),
         NEW p \in Bijection(DOMAIN held, DOMAIN held), NEW moved,
         Moves(lines, held, p, moved)
  PROVE  AllMoved(lines, held, p, moved)
  <1> DEFINE q == [i \in DOMAIN held |-> held[p[i]]]
  <1>1. /\ DOMAIN held = 1..Len(held) /\ Len(held) \in Nat
        /\ DOMAIN lines = 1..Len(lines) /\ Len(lines) \in Nat
        /\ \A i \in 1..Len(held) : held[i] \in Entries
    BY LenProperties, ElementOfSeq
  <1>2. /\ \A i \in 1..Len(held) : p[i] \in 1..Len(held)
        /\ \A j \in 1..Len(held) : \E i \in 1..Len(held) : p[i] = j
    BY <1>1 DEF Bijection, Surjection
  <1>3. q \in Seq(Entries) /\ Len(q) = Len(held) /\ \A i \in 1..Len(held) : q[i] = held[p[i]]
    <2>1. q \in [1..Len(held) -> Entries]
      BY <1>1, <1>2
    <2>2. q \in Seq(Entries)
      BY <2>1, <1>1, SeqDef
    <2>3. DOMAIN q = 1..Len(held)
      BY <2>1
    <2> QED
      <3> HIDE DEF Entries
      <3> QED BY <2>1, <2>2, <2>3, <1>1, LenProperties
  <1> HIDE DEF q, Entries, Line
  <1>4. /\ moved \in Seq(Entries) /\ Len(moved) = Len(lines) + Len(held)
        /\ \A i \in 1..(Len(lines) + Len(held)) :
             moved[i] = IF i <= Len(lines) THEN lines[i] ELSE q[i - Len(lines)]
    <2>1. q \in Seq(Entries) /\ Len(q) = Len(held)
      BY <1>3
    <2>2. /\ lines \o q \in Seq(Entries) /\ Len(lines \o q) = Len(lines) + Len(q)
          /\ \A i \in 1..(Len(lines) + Len(q)) :
               (lines \o q)[i] = IF i <= Len(lines) THEN lines[i] ELSE q[i - Len(lines)]
      BY <2>1, ConcatProperties, Zenon
    <2>3. moved = lines \o q
      BY DEF q, Moves
    <2> QED BY <2>1, <2>2, <2>3
  <1>5. DOMAIN moved = 1..(Len(lines) + Len(held))
    BY <1>4, LenProperties
  <1>6. /\ \A i \in 1..Len(lines) : moved[i] = lines[i]
        /\ \A i \in 1..Len(held) : moved[Len(lines) + i] = held[p[i]]
    <2>1. \A i \in 1..Len(held) : /\ Len(lines) + i \in 1..(Len(lines) + Len(held))
                                  /\ ~(Len(lines) + i <= Len(lines))
                                  /\ (Len(lines) + i) - Len(lines) = i
      BY <1>1
    <2>2. \A i \in 1..Len(lines) : i \in 1..(Len(lines) + Len(held)) /\ i <= Len(lines)
      BY <1>1
    <2> QED BY <2>1, <2>2, <1>3, <1>4, Zenon
  <1>7. ASSUME NEW h, NEW n, NEW i \in Places(moved, h, n)
        PROVE  \/ i \in Places(lines, h, n)
               \/ i - Len(lines) \in 1..Len(held)
                  /\ p[i - Len(lines)] \in Places(held, h, n)
    <2>1. i \in 1..(Len(lines) + Len(held)) /\ moved[i].halves = Line(h, n)
      BY <1>5 DEF Places
    <2>2. CASE i <= Len(lines)
      BY <1>1, <2>1, <2>2, <1>6 DEF Places
    <2>3. CASE ~(i <= Len(lines))
      <3>1. i - Len(lines) \in 1..Len(held) /\ i = Len(lines) + (i - Len(lines))
        BY <1>1, <2>1, <2>3
      <3>2. moved[i] = held[p[i - Len(lines)]]
        BY <3>1, <1>6
      <3> QED BY <1>1, <1>2, <2>1, <3>1, <3>2 DEF Places
    <2> QED BY <2>2, <2>3
  <1>8. \A h, n : Places(lines, h, n) \subseteq Places(moved, h, n)
    BY <1>1, <1>5, <1>6 DEF Places
  <1>9. ASSUME NEW h, NEW n, NEW j \in Places(held, h, n) PROVE Places(moved, h, n) # {}
    <2>1. PICK i \in 1..Len(held) : p[i] = j
      BY <1>1, <1>2 DEF Places
    <2>2. /\ Len(lines) + i \in 1..(Len(lines) + Len(held))
          /\ moved[Len(lines) + i].halves = Line(h, n)
      BY <1>1, <1>6, <2>1 DEF Places
    <2> QED BY <2>2, <1>5 DEF Places
  <1> QED
    BY <1>2, <1>4, <1>6, <1>7, <1>8, <1>9 DEF AllMoved

(* A set with at most one element has at most that many.                   *)
LEMMA AtMostOne ==
  ASSUME NEW S, \A i, j \in S : i = j
  PROVE  Cardinality(S) = IF S = {} THEN 0 ELSE 1
  <1>1. CASE S = {}
    BY <1>1, FS_EmptySet
  <1>2. CASE S # {}
    <2>1. PICK x : S = {x}
      BY <1>2
    <2> QED BY <2>1, FS_Singleton
  <1> QED BY <1>1, <1>2

-----------------------------------------------------------------------------
(* The multiplexed writer.                                                 *)

(* The first step of a write: the halves of a host are in the buffer.      *)
LEMMA MuxWrites ==
  ASSUME MuxInv, NEW h \in Hosts, NEW k \in 1..3, WriteAs(h, k)
  PROVE  MuxInv'
  <1> USE DEF MuxInv
  <1> DEFINE new == [i \in 1..k |-> Half(h, sentHalves[h] + i)]
  <1>1. /\ LogTimes[h] \in Seq(Nat) /\ Len(LogTimes[h]) \in Nat
        /\ sentHalves[h] \in Nat /\ sentHalves[h] + k <= 2 * Len(LogTimes[h])
        /\ muxAt = "idle" /\ h # "idle"
    <2>1. LogTimes[h] \in Seq(Nat) /\ h # "idle"
      BY MuxAssumption DEF MuxAssumption
    <2>2. Len(LogTimes[h]) \in Nat
      BY <2>1, LenProperties
    <2>3. sentHalves[h] \in Nat
      BY DEF MuxTypeOK
    <2> QED BY <2>1, <2>2, <2>3 DEF WriteAs
  <1>2. new \in Seq(Halves) /\ Len(new) = k
        /\ \A i \in 1..k : new[i] = Half(h, sentHalves[h] + i)
    <2>1. new \in [1..k -> Halves] /\ k \in Nat
      <3>0. \A x \in Nat, y \in 1..3 : y \in Nat /\ \A i \in 1..y : x + i \in Nat \ {0}
        OBVIOUS
      <3>1. k \in Nat /\ \A i \in 1..k : sentHalves[h] + i \in Nat \ {0}
        BY <1>1, <3>0
      <3>2. \A i \in 1..k : Half(h, sentHalves[h] + i) \in Halves
        BY <3>1 DEF Half, Halves
      <3> QED BY <3>1, <3>2
    <2>2. new \in Seq(Halves) /\ DOMAIN new = 1..k
      BY <2>1, SeqDef
    <2> HIDE DEF new, Halves
    <2>3. Len(new) = k
      BY <2>1, <2>2, LenProperties
    <2> QED BY <2>2, <2>3 DEF new
  <1> HIDE DEF new
  <1>3. /\ sentHalves' = [sentHalves EXCEPT ![h] = @ + k] /\ muxAt' = h
        /\ maxTime' = 0 /\ lnbuf' = lnbuf \o new
        /\ whole' = whole \cup
                {<<h, n>> : n \in {i \in Lines(h) : sentHalves[h] < 2 * i - 1
                                                   /\ 2 * i <= sentHalves[h] + k}}
        /\ UNCHANGED <<holding, buf, out, outFails, batch>>
    BY DEF WriteAs, new
  <1>4. lnbuf \in Seq(Halves) /\ Len(lnbuf) \in Nat /\ DOMAIN lnbuf = 1..Len(lnbuf)
    BY LenProperties DEF MuxTypeOK
  <1>5. /\ lnbuf' \in Seq(Halves) /\ Len(lnbuf') = Len(lnbuf) + k
        /\ \A i \in 1..(Len(lnbuf) + k) :
             lnbuf'[i] = IF i <= Len(lnbuf) THEN lnbuf[i] ELSE new[i - Len(lnbuf)]
    BY <1>2, <1>3, <1>4, ConcatProperties
  <1>6. DOMAIN lnbuf' = 1..(Len(lnbuf) + k)
    BY <1>5, LenProperties
  <1>7. \A i \in DOMAIN lnbuf' :
          \/ i \in DOMAIN lnbuf /\ i <= Len(lnbuf) /\ lnbuf'[i] = lnbuf[i]
          \/ /\ ~(i <= Len(lnbuf)) /\ i - Len(lnbuf) \in 1..k
             /\ lnbuf'[i] = Half(h, sentHalves[h] + (i - Len(lnbuf)))
    <2>1. \A i \in DOMAIN lnbuf' : i <= Len(lnbuf) => i \in DOMAIN lnbuf
      BY <1>4, <1>6
    <2>2. \A i \in DOMAIN lnbuf' : ~(i <= Len(lnbuf)) => i - Len(lnbuf) \in 1..k
      BY <1>4, <1>6
    <2> QED BY <2>1, <2>2, <1>2, <1>5, <1>6, Zenon
  <1>8. \A i \in DOMAIN lnbuf : lnbuf[i] \in Halves
    BY <1>4, ElementOfSeq
  <1>9. \A g \in Hosts : /\ sentHalves'[g] = IF g = h THEN sentHalves[g] + k ELSE sentHalves[g]
                         /\ sentHalves[g] \in Nat
    BY <1>3 DEF MuxTypeOK
  <1>10. \A g, n : Places(out, g, n)' = Places(out, g, n) /\ Places(buf, g, n)' = Places(buf, g, n)
    BY <1>3 DEF Places, Line, Half
  <1>11. \A g, n : Found(g, n)' <=> Found(g, n)
    BY <1>10 DEF Found
  <1>12. MuxTypeOK'
    <2>1. sentHalves' \in [Hosts -> Nat]
      BY <1>1, <1>3, k \in Nat, SMTT(60) DEF MuxTypeOK
    <2>2. \A g \in Hosts : sentHalves'[g] <= 2 * Len(LogTimes[g])
      BY <1>1, <1>9 DEF MuxTypeOK
    <2> QED BY <2>1, <2>2, <1>3, <1>5 DEF MuxTypeOK
  <1>13. OnceInv'
    <2>1. \A i, j \in DOMAIN lnbuf' : lnbuf'[i] = lnbuf'[j] => i = j
      <3> SUFFICES ASSUME NEW i \in DOMAIN lnbuf', NEW j \in DOMAIN lnbuf',
                          lnbuf'[i] = lnbuf'[j]
                   PROVE  i = j
        OBVIOUS
      <3>1. i \in Int /\ j \in Int
        BY <1>6
      <3>2. CASE i <= Len(lnbuf) /\ j <= Len(lnbuf)
        BY <3>2, <1>7 DEF OnceInv
      <3>3. CASE i <= Len(lnbuf) /\ ~(j <= Len(lnbuf))
        <4>1. lnbuf[i] = Half(h, sentHalves[h] + (j - Len(lnbuf))) /\ j - Len(lnbuf) \in 1..k
              /\ i \in DOMAIN lnbuf
          BY <3>3, <1>7
        <4>2. lnbuf[i].h = h /\ lnbuf[i].k = sentHalves[h] + (j - Len(lnbuf))
          BY <4>1 DEF Half
        <4> QED BY <4>1, <4>2, <1>1 DEF OnceInv
      <3>4. CASE ~(i <= Len(lnbuf)) /\ j <= Len(lnbuf)
        <4>1. lnbuf[j] = Half(h, sentHalves[h] + (i - Len(lnbuf))) /\ i - Len(lnbuf) \in 1..k
              /\ j \in DOMAIN lnbuf
          BY <3>4, <1>7
        <4>2. lnbuf[j].h = h /\ lnbuf[j].k = sentHalves[h] + (i - Len(lnbuf))
          BY <4>1 DEF Half
        <4> QED BY <4>1, <4>2, <1>1 DEF OnceInv
      <3>5. CASE ~(i <= Len(lnbuf)) /\ ~(j <= Len(lnbuf))
        <4>1. Half(h, sentHalves[h] + (i - Len(lnbuf))) = Half(h, sentHalves[h] + (j - Len(lnbuf)))
          BY <3>5, <1>7
        <4>2. sentHalves[h] + (i - Len(lnbuf)) = sentHalves[h] + (j - Len(lnbuf))
          BY <4>1 DEF Half
        <4>3. \A a, x, y, b \in Int : a + (x - b) = a + (y - b) => x = y
          OBVIOUS
        <4> QED BY <4>2, <4>3, <3>1, <1>1, <1>4
      <3> QED BY <3>2, <3>3, <3>4, <3>5
    <2>2. \A i \in DOMAIN lnbuf' : lnbuf'[i].k <= sentHalves'[lnbuf'[i].h]
      <3> SUFFICES ASSUME NEW i \in DOMAIN lnbuf' PROVE lnbuf'[i].k <= sentHalves'[lnbuf'[i].h]
        OBVIOUS
      <3>1. CASE i <= Len(lnbuf)
        <4>1. lnbuf'[i] = lnbuf[i] /\ i \in DOMAIN lnbuf
          BY <3>1, <1>7
        <4>2. lnbuf[i].k <= sentHalves[lnbuf[i].h] /\ lnbuf[i].h \in Hosts /\ lnbuf[i].k \in Nat
          BY <4>1, <1>8 DEF OnceInv, Halves
        <4> QED BY <4>1, <4>2, <1>9
      <3>2. CASE ~(i <= Len(lnbuf))
        <4>1. /\ i - Len(lnbuf) \in 1..k
              /\ lnbuf'[i] = Half(h, sentHalves[h] + (i - Len(lnbuf)))
          BY <3>2, <1>7
        <4> QED BY <4>1, <1>9 DEF Half
      <3> QED BY <3>1, <3>2
    <2>3. ASSUME NEW g \in Hosts, NEW n \in Lines(g), Found(g, n)
          PROVE  /\ 2 * n <= sentHalves'[g]
                 /\ \A i \in DOMAIN lnbuf' : lnbuf'[i] # Half(g, 2 * n)
      <3>1. /\ 2 * n <= sentHalves[g] /\ n \in Int
            /\ \A i \in DOMAIN lnbuf : lnbuf[i] # Half(g, 2 * n)
        BY <2>3 DEF OnceInv, Lines
      <3>2. \A j \in 1..k : Half(h, sentHalves[h] + j) # Half(g, 2 * n)
        BY <3>1, <1>1 DEF Half
      <3>3. \A i \in DOMAIN lnbuf' : lnbuf'[i] # Half(g, 2 * n)
        BY <3>1, <3>2, <1>7
      <3> QED BY <3>1, <3>3, <1>9
    <2> QED BY <2>1, <2>2, <2>3, <1>11 DEF OnceInv, Lines, Half
  <1>14. SingleInv'
    <2> SUFFICES ASSUME NEW g \in Hosts, NEW n \in Lines(g)
                 PROVE  (/\ \A i, j \in Places(out, g, n) : i = j
                         /\ \A i, j \in Places(buf, g, n) : i = j
                         /\ Places(out, g, n) = {} \/ Places(buf, g, n) = {})'
      BY DEF SingleInv, Lines
    <2> QED BY <1>10 DEF SingleInv
  <1>15. OrderInv'
    <2> SUFFICES ASSUME ~outFails
                 PROVE  \A i \in DOMAIN lnbuf' :
                          lnbuf'[i] = Half(h, sentHalves'[h] - Len(lnbuf') + i)
      BY <1>1, <1>3 DEF OrderInv, Half
    <2>1. lnbuf = <<>>
      BY <1>1 DEF OrderInv
    <2>2. Len(lnbuf) = 0
      BY <2>1
    <2> SUFFICES ASSUME NEW i \in DOMAIN lnbuf'
                 PROVE  lnbuf'[i] = Half(h, sentHalves'[h] - Len(lnbuf') + i)
      OBVIOUS
    <2>3. lnbuf'[i] = Half(h, sentHalves[h] + (i - Len(lnbuf))) /\ i \in 1..k
      BY <2>2, <1>6, <1>7
    <2>4. sentHalves[h] + (i - Len(lnbuf)) = sentHalves'[h] - Len(lnbuf') + i
      BY <2>2, <2>3, <1>1, <1>5, <1>9
    <2> QED BY <2>3, <2>4
  <1>16. WholeInv'
    <2> SUFFICES ASSUME NEW l \in whole'
                 PROVE  /\ l[1] \in Hosts /\ l[2] \in Lines(l[1])
                        /\ 2 * l[2] <= sentHalves'[l[1]]
                        /\ ~outFails => \/ Found(l[1], l[2])
                                        \/ /\ h = l[1]
                                           /\ sentHalves'[l[1]] - Len(lnbuf') < 2 * l[2] - 1
      BY <1>3, <1>11 DEF WholeInv, Lines
    <2>1. CASE l \in whole
      <3>1. /\ l[1] \in Hosts /\ l[2] \in Lines(l[1]) /\ 2 * l[2] <= sentHalves[l[1]]
            /\ ~outFails => Found(l[1], l[2])
        BY <2>1, <1>1, MuxAssumption DEF WholeInv, MuxAssumption
      <3>2. l[2] \in Int
        BY <3>1 DEF Lines
      <3> QED BY <3>1, <3>2, <1>9
    <2>2. CASE l \notin whole
      <3>1. PICK n \in Lines(h) : /\ sentHalves[h] < 2 * n - 1
                                  /\ 2 * n <= sentHalves[h] + k /\ l = <<h, n>>
        BY <2>2, <1>3
      <3>2. ~outFails => Len(lnbuf) = 0
        BY <1>1 DEF OrderInv
      <3>3. l[1] = h /\ l[2] = n
        BY <3>1
      <3>4. 2 * n <= sentHalves'[h] /\ (~outFails => sentHalves'[h] - Len(lnbuf') < 2 * n - 1)
        <4>1. /\ n \in Int /\ k \in Int /\ sentHalves'[h] = sentHalves[h] + k
              /\ Len(lnbuf') = Len(lnbuf) + k
          BY <1>5, <1>9 DEF Lines
        <4>2. ~outFails => sentHalves'[h] - Len(lnbuf') = sentHalves[h]
          BY <3>2, <4>1, <1>1, <1>4
        <4> QED BY <3>1, <4>1, <4>2
      <3> QED BY <3>1, <3>3, <3>4
    <2> QED BY <2>1, <2>2
  <1>17. NameInv'
    BY <1>3 DEF NameInv, Named, Lines, Line, Half
  <1>18. SortInv'
    BY <1>3 DEF SortInv, BatchSorted
  <1> QED BY <1>12, <1>13, <1>14, <1>15, <1>16, <1>17, <1>18

(* The first line of the buffer ends with a second half, of a line that    *)
(* was not found before and is not in the rest.                            *)
FirstEnd == CHOOSE i \in EndOf(lnbuf) : \A j \in EndOf(lnbuf) : i <= j
FirstHalves == SubSeq(lnbuf, 1, FirstEnd)
RestHalves == SubSeq(lnbuf, FirstEnd + 1, Len(lnbuf))

(* The first line of the buffer and what is behind it.                     *)
LEMMA FirstLine ==
  ASSUME MuxInv, EndOf(lnbuf) # {}
  PROVE  /\ FirstEnd \in 1..Len(lnbuf) /\ Len(lnbuf) \in Nat
         /\ lnbuf[FirstEnd] \in Halves /\ lnbuf[FirstEnd].k % 2 = 0
         /\ \A j \in 1..Len(lnbuf) : lnbuf[j].k % 2 = 0 => FirstEnd <= j
         /\ FirstHalves \in Seq(Halves) /\ Len(FirstHalves) = FirstEnd
         /\ \A i \in 1..FirstEnd : FirstHalves[i] = lnbuf[i]
         /\ RestHalves \in Seq(Halves) /\ Len(RestHalves) = Len(lnbuf) - FirstEnd
         /\ DOMAIN RestHalves = 1..(Len(lnbuf) - FirstEnd)
         /\ \A i \in 1..(Len(lnbuf) - FirstEnd) : RestHalves[i] = lnbuf[FirstEnd + i] /\ FirstEnd + i \in DOMAIN lnbuf
  <1>0. MuxTypeOK /\ OnceInv /\ OrderInv
    BY DEF MuxInv
  <1>1. lnbuf \in Seq(Halves) /\ Len(lnbuf) \in Nat /\ DOMAIN lnbuf = 1..Len(lnbuf)
    BY <1>0, LenProperties DEF MuxTypeOK
  <1>2. \A i \in 1..Len(lnbuf) : lnbuf[i] \in Halves
    BY <1>1, ElementOfSeq
  <1>3. EndOf(lnbuf) \subseteq Nat
    BY <1>1 DEF EndOf
  <1>4. FirstEnd \in EndOf(lnbuf) /\ \A j \in EndOf(lnbuf) : FirstEnd <= j
    BY <1>3, LeastOf DEF FirstEnd
  <1>5. /\ FirstEnd \in 1..Len(lnbuf) /\ lnbuf[FirstEnd].k % 2 = 0
        /\ \A j \in 1..Len(lnbuf) : lnbuf[j].k % 2 = 0 => FirstEnd <= j
    BY <1>1, <1>4 DEF EndOf
  <1>6. FirstEnd \in Int /\ 1 <= FirstEnd /\ FirstEnd <= Len(lnbuf) /\ Len(lnbuf) \in Int /\ FirstEnd + 1 \in Int
    BY <1>1, <1>5
  <1> HIDE DEF Halves
  <1>7. /\ FirstHalves \in Seq(Halves) /\ Len(FirstHalves) = IF 1 <= FirstEnd THEN FirstEnd - 1 + 1 ELSE 0
        /\ \A i \in 1..(FirstEnd - 1 + 1) : FirstHalves[i] = lnbuf[1 + i - 1]
    <2>1. \A i \in 1..FirstEnd : lnbuf[i] \in Halves
      BY <1>2, <1>6
    <2> QED BY <2>1, <1>6, SubSeqProperties DEF FirstHalves
  <1>8. /\ RestHalves \in Seq(Halves)
        /\ Len(RestHalves) = IF FirstEnd + 1 <= Len(lnbuf) THEN Len(lnbuf) - (FirstEnd + 1) + 1 ELSE 0
        /\ \A i \in 1..(Len(lnbuf) - (FirstEnd + 1) + 1) : RestHalves[i] = lnbuf[(FirstEnd + 1) + i - 1]
    <2>1. \A i \in (FirstEnd + 1)..Len(lnbuf) : lnbuf[i] \in Halves
      BY <1>2, <1>6
    <2> QED BY <2>1, <1>6, SubSeqProperties DEF RestHalves
  <1>9. Len(RestHalves) = Len(lnbuf) - FirstEnd
    BY <1>6, <1>8
  <1>10. DOMAIN RestHalves = 1..(Len(lnbuf) - FirstEnd)
    BY <1>8, <1>9, LenProperties
  <1>11. \A i \in 1..(Len(lnbuf) - FirstEnd) :
           /\ i \in 1..(Len(lnbuf) - (FirstEnd + 1) + 1) /\ (FirstEnd + 1) + i - 1 = FirstEnd + i
           /\ FirstEnd + i \in 1..Len(lnbuf)
    BY <1>6
  <1>12. \A i \in 1..FirstEnd : i \in 1..(FirstEnd - 1 + 1) /\ 1 + i - 1 = i
    BY <1>6
  <1>13. \A i \in 1..(Len(lnbuf) - FirstEnd) : RestHalves[i] = lnbuf[FirstEnd + i] /\ FirstEnd + i \in DOMAIN lnbuf
    BY <1>1, <1>8, <1>11, Zenon
  <1>14. Len(FirstHalves) = FirstEnd /\ \A i \in 1..FirstEnd : FirstHalves[i] = lnbuf[i]
    BY <1>6, <1>7, <1>12
  <1> QED BY <1>1, <1>2, <1>5, <1>7, <1>8, <1>9, <1>10, <1>13, <1>14, Zenon

(* What is found in the buffer is new.                                     *)
LEMMA FoundOnce ==
  ASSUME MuxInv, EndOf(lnbuf) # {},
         NEW g \in Hosts, NEW n \in Lines(g), FirstHalves = Line(g, n)
  PROVE  /\ FirstEnd = 2 /\ ~Found(g, n) /\ 2 * n <= sentHalves[g]
         /\ \A i \in DOMAIN RestHalves : RestHalves[i] # Half(g, 2 * n)
  <1>0. MuxTypeOK /\ OnceInv /\ OrderInv
    BY DEF MuxInv
  <1>1. /\ FirstEnd \in 1..Len(lnbuf) /\ Len(FirstHalves) = FirstEnd /\ Len(lnbuf) \in Nat
        /\ \A i \in 1..FirstEnd : FirstHalves[i] = lnbuf[i]
        /\ DOMAIN RestHalves = 1..(Len(lnbuf) - FirstEnd)
        /\ \A i \in 1..(Len(lnbuf) - FirstEnd) : RestHalves[i] = lnbuf[FirstEnd + i] /\ FirstEnd + i \in DOMAIN lnbuf
    BY FirstLine, Zenon
  <1>2. Len(Line(g, n)) = 2 /\ Line(g, n)[2] = Half(g, 2 * n)
    BY DEF Line
  <1>3. FirstEnd = 2 /\ lnbuf[2] = Half(g, 2 * n)
    <2>1. FirstEnd = 2
      BY <1>1, <1>2
    <2> QED BY <2>1, <1>1, <1>2
  <1>4. 2 \in DOMAIN lnbuf
    BY <1>0, <1>1, <1>3, LenProperties DEF MuxTypeOK
  <1>5. \A i \in DOMAIN RestHalves : RestHalves[i] = lnbuf[2 + i] /\ 2 + i \in DOMAIN lnbuf /\ i > 0
    BY <1>1, <1>3
  <1>6. \A i \in DOMAIN RestHalves : RestHalves[i] # Half(g, 2 * n)
    <2>1. \A i \in DOMAIN RestHalves : i \in Int
      BY <1>1
    <2> QED BY <2>1, <1>0, <1>3, <1>4, <1>5 DEF OnceInv
  <1>7. lnbuf[2].h = g /\ lnbuf[2].k = 2 * n
    BY <1>3 DEF Half
  <1> QED BY <1>0, <1>3, <1>4, <1>6, <1>7 DEF OnceInv

(* As long as the output lasts the first line is a line of the host that   *)
(* writes, or the rest of one whose beginning came before, and a line that *)
(* came in one write is the first one or in the rest.                      *)
LEMMA FirstIsNext ==
  ASSUME MuxInv, EndOf(lnbuf) # {}, ~outFails, muxAt # "idle"
  PROVE  LET s == sentHalves[muxAt] - Len(lnbuf)
         IN  /\ muxAt \in Hosts /\ s \in Int
             /\ \A n \in Int : s < 2 * n - 1 =>
                  \/ s + FirstEnd < 2 * n - 1
                  \/ FirstEnd = 2 /\ FirstHalves = Line(muxAt, n)
  <1>0. MuxTypeOK /\ OnceInv /\ OrderInv
    BY DEF MuxInv
  <1> DEFINE s == sentHalves[muxAt] - Len(lnbuf)
  <1>1. muxAt \in Hosts /\ sentHalves[muxAt] \in Nat
    BY <1>0 DEF MuxTypeOK
  <1>2. /\ FirstEnd \in 1..Len(lnbuf) /\ Len(FirstHalves) = FirstEnd /\ Len(lnbuf) \in Nat
        /\ lnbuf[FirstEnd].k % 2 = 0 /\ FirstHalves \in Seq(Halves)
        /\ \A j \in 1..Len(lnbuf) : lnbuf[j].k % 2 = 0 => FirstEnd <= j
        /\ \A i \in 1..FirstEnd : FirstHalves[i] = lnbuf[i]
    BY FirstLine, Zenon
  <1>3. s \in Int
    BY <1>1, <1>2
  <1>4. DOMAIN lnbuf = 1..Len(lnbuf)
    BY <1>0, LenProperties DEF MuxTypeOK
  <1>5. \A i \in 1..Len(lnbuf) : lnbuf[i] = Half(muxAt, s + i)
    BY <1>0, <1>4 DEF OrderInv
  <1> HIDE DEF s
  <1>6. \A i \in 1..Len(lnbuf) : lnbuf[i].k = s + i
    <2>1. \A x : Half(muxAt, x).k = x
      BY DEF Half
    <2> QED BY <2>1, <1>5
  <1>7. (s + FirstEnd) % 2 = 0 /\ \A j \in 1..Len(lnbuf) : (s + j) % 2 = 0 => FirstEnd <= j
    BY <1>2, <1>6
  <1>8. \/ FirstEnd = 1 /\ s % 2 = 1
        \/ FirstEnd = 2 /\ s % 2 = 0
    <2>1. CASE s % 2 = 1
      <3>1. (s + 1) % 2 = 0 /\ 1 \in 1..Len(lnbuf)
        BY <2>1, <1>2, <1>3
      <3> QED BY <2>1, <3>1, <1>2, <1>7
    <2>2. CASE s % 2 = 0
      <3>1. FirstEnd # 1
        BY <2>2, <1>3, <1>7
      <3>2. (s + 2) % 2 = 0 /\ 2 \in 1..Len(lnbuf)
        BY <2>2, <3>1, <1>2, <1>3
      <3> QED BY <2>2, <3>1, <3>2, <1>2, <1>7
    <2> QED BY <2>1, <2>2, <1>3
  <1>9. ASSUME NEW n \in Int, s < 2 * n - 1
        PROVE  \/ s + FirstEnd < 2 * n - 1
               \/ FirstEnd = 2 /\ FirstHalves = Line(muxAt, n)
    <2>1. CASE FirstEnd = 1 /\ s % 2 = 1
      BY <2>1, <1>3, <1>9
    <2>2. CASE FirstEnd = 2 /\ s % 2 = 0 /\ s # 2 * n - 2
      BY <2>2, <1>3, <1>9
    <2>3. CASE FirstEnd = 2 /\ s = 2 * n - 2
      <3>1. s + 1 = 2 * n - 1 /\ s + 2 = 2 * n
        BY <2>3, <1>3
      <3>2. FirstHalves[1] = Half(muxAt, 2 * n - 1) /\ FirstHalves[2] = Half(muxAt, 2 * n)
        BY <2>3, <3>1, <1>2, <1>5
      <3>3. FirstHalves = <<FirstHalves[1], FirstHalves[2]>>
        <4>1. FirstHalves \in Seq(Halves) /\ Len(FirstHalves) = 2
          BY <2>3, <1>2
        <4> HIDE DEF Halves
        <4> QED BY <4>1
      <3> QED BY <2>3, <3>2, <3>3 DEF Line
    <2> QED BY <1>8, <2>1, <2>2, <2>3
  <1> QED BY <1>1, <1>3, <1>9 DEF s

(* The entry for a line: the name is right as long as the output lasts.    *)
LEMMA EntryNamed ==
  ASSUME MuxInv, EndOf(lnbuf) # {}, muxAt # "idle", ~outFails,
         IsLine(FirstHalves)
  PROVE  \E n \in Lines(muxAt) : FirstHalves = Line(muxAt, n)
  <1>0. MuxTypeOK /\ OnceInv /\ OrderInv
    BY DEF MuxInv
  <1>1. /\ FirstEnd \in 1..Len(lnbuf) /\ Len(FirstHalves) = FirstEnd
        /\ Len(lnbuf) \in Nat /\ FirstHalves \in Seq(Halves)
        /\ lnbuf[FirstEnd].k % 2 = 0 /\ lnbuf[FirstEnd] \in Halves
        /\ \A i \in 1..FirstEnd : FirstHalves[i] = lnbuf[i]
    BY FirstLine, Zenon
  <1>2. FirstEnd = 2 /\ FirstHalves[1] = Half(lnbuf[2].h, lnbuf[2].k - 1)
        /\ FirstHalves[2] = lnbuf[2]
    BY <1>1 DEF IsLine
  <1>3. 2 \in DOMAIN lnbuf
    BY <1>0, <1>1, <1>2, LenProperties DEF MuxTypeOK
  <1>4. lnbuf[2].h = muxAt /\ lnbuf[2].k \in Nat \ {0} /\ muxAt \in Hosts
    BY <1>0, <1>1, <1>2, <1>3 DEF OrderInv, Half, Halves
  <1>5. /\ lnbuf[2].k <= sentHalves[muxAt] /\ sentHalves[muxAt] \in Nat
        /\ sentHalves[muxAt] <= 2 * Len(LogTimes[muxAt])
    BY <1>0, <1>3, <1>4 DEF OnceInv, MuxTypeOK
  <1>6. Len(LogTimes[muxAt]) \in Nat
    BY <1>4, MuxAssumption, LenProperties DEF MuxAssumption
  <1>7. PICK n \in 1..Len(LogTimes[muxAt]) : lnbuf[2].k = 2 * n
    <2>1. lnbuf[2].k % 2 = 0
      BY <1>1, <1>2
    <2>2. \A x \in Nat \ {0}, y \in Nat, z \in Nat :
            x % 2 = 0 /\ x <= y /\ y <= 2 * z => x \div 2 \in 1..z /\ x = 2 * (x \div 2)
      OBVIOUS
    <2> QED BY <2>1, <2>2, <1>4, <1>5, <1>6
  <1>8. FirstHalves = <<FirstHalves[1], FirstHalves[2]>>
    <2>1. FirstHalves \in Seq(Halves) /\ Len(FirstHalves) = 2
      BY <1>1, <1>2
    <2> HIDE DEF Halves
    <2> QED BY <2>1
  <1>9. lnbuf[2] = Half(muxAt, 2 * n)
    BY <1>1, <1>2, <1>4, <1>7 DEF Half, Halves
  <1> QED BY <1>2, <1>4, <1>7, <1>8, <1>9 DEF Line, Lines

(* The time of a line is one of its host's.                                *)
LEMMA TimeIsNat ==
  ASSUME MuxInv, EndOf(lnbuf) # {}
  PROVE  TimeOf(lnbuf[FirstEnd]) \in Nat
  <1>1. /\ FirstEnd \in 1..Len(lnbuf) /\ lnbuf[FirstEnd] \in Halves
        /\ lnbuf[FirstEnd].k % 2 = 0
    BY FirstLine, Zenon
  <1>2. MuxTypeOK /\ OnceInv
    BY DEF MuxInv
  <1>3. FirstEnd \in DOMAIN lnbuf
    BY <1>1, <1>2, LenProperties DEF MuxTypeOK
  <1>4. PICK h \in Hosts : h = lnbuf[FirstEnd].h
    BY <1>1 DEF Halves
  <1>5. PICK k \in Nat \ {0} : k = lnbuf[FirstEnd].k
    BY <1>1 DEF Halves
  <1>6. LogTimes[h] \in Seq(Nat)
    BY MuxAssumption DEF MuxAssumption
  <1>7. Len(LogTimes[h]) \in Nat
    BY <1>6, LenProperties
  <1>8. sentHalves[h] \in Nat /\ k <= sentHalves[h] /\ sentHalves[h] <= 2 * Len(LogTimes[h])
    BY <1>2, <1>3, <1>4, <1>5 DEF OnceInv, MuxTypeOK
  <1>9. k \div 2 \in 1..Len(LogTimes[h])
    <2>1. \A x \in Nat \ {0}, y \in Nat, z \in Nat :
            x % 2 = 0 /\ x <= y /\ y <= 2 * z => x \div 2 \in 1..z
      OBVIOUS
    <2> QED BY <2>1, <1>1, <1>5, <1>7, <1>8
  <1>10. LogTimes[h][k \div 2] \in Nat
    BY <1>6, <1>9, ElementOfSeq
  <1> QED BY <1>4, <1>5, <1>10 DEF TimeOf

(* The next line goes into the list that is held back or to the output, or *)
(* the write ends because the output is gone.                              *)
Taken(e) ==
  \/ /\ buf' = Append(buf, e) /\ out' = out /\ muxAt' = muxAt
     /\ e.t # 0 /\ e.by # "none" /\ IsLine(FirstHalves)
  \/ /\ out' = Append(out, e) /\ buf' = buf /\ muxAt' = muxAt /\ ~outFails
     /\ e.by # "none" => IsLine(FirstHalves)

(* The next line is written, held back, or lost with the output.           *)
LEMMA NextTakes ==
  ASSUME MuxInv, NextLogLine
  PROVE  /\ EndOf(lnbuf) # {} /\ muxAt # "idle"
         /\ lnbuf' = RestHalves /\ maxTime' \in Nat
         /\ UNCHANGED <<sentHalves, holding, outFails, batch, whole>>
         /\ \/ outFails /\ muxAt' = "idle" /\ UNCHANGED <<out, buf>>
            \/ \E e \in Entries : e.halves = FirstHalves /\ e.by \in {muxAt, "none"} /\ Taken(e)
  <1>0. MuxTypeOK
    BY DEF MuxInv
  <1>1. EndOf(lnbuf) # {} /\ muxAt # "idle"
    BY DEF NextLogLine
  <1> DEFINE t == TimeOf(lnbuf[FirstEnd])
  <1>2. t \in Nat
    BY <1>1, TimeIsNat
  <1>3. /\ FirstHalves \in Seq(Halves) /\ FirstEnd \in 1..Len(lnbuf) /\ Len(lnbuf) \in Nat
        /\ Len(FirstHalves) = FirstEnd /\ \A i \in 1..FirstEnd : FirstHalves[i] = lnbuf[i]
    BY <1>1, FirstLine, Zenon
  <1>4. muxAt \in Hosts /\ muxAt # "none" /\ maxTime \in Nat
    BY <1>0, <1>1, MuxAssumption DEF MuxTypeOK, MuxAssumption
  <1>5. IsLine(FirstHalves) => t # 0
    <2> SUFFICES ASSUME IsLine(FirstHalves) PROVE t # 0
      OBVIOUS
    <2>1. FirstEnd = 2 /\ TimeOf(FirstHalves[2]) # 0
      BY <1>3 DEF IsLine
    <2>2. FirstHalves[2] = lnbuf[FirstEnd]
      BY <2>1, <1>3
    <2> QED BY <2>1, <2>2
  <1>6. /\ lnbuf' = RestHalves
        /\ \/ /\ IsLine(FirstHalves) /\ holding
              /\ buf' = Append(buf, [halves |-> FirstHalves, by |-> muxAt, t |-> t])
              /\ maxTime' = IF t > maxTime THEN t ELSE maxTime
              /\ UNCHANGED <<muxAt, out>>
           \/ /\ IsLine(FirstHalves) /\ ~holding /\ WriteOut(FirstHalves, muxAt, t)
              /\ UNCHANGED <<buf, maxTime>>
           \/ /\ ~IsLine(FirstHalves) /\ WriteOut(FirstHalves, "none", 0)
              /\ UNCHANGED <<buf, maxTime>>
        /\ UNCHANGED <<sentHalves, holding, outFails, batch, whole>>
    BY Zenon DEF NextLogLine, FirstEnd, FirstHalves, RestHalves
  <1> HIDE DEF t
  <1>7. PICK e \in Entries : e = [halves |-> FirstHalves, by |-> muxAt, t |-> t]
    BY <1>2, <1>3, <1>4 DEF Entries
  <1>8. PICK f \in Entries : f = [halves |-> FirstHalves, by |-> "none", t |-> 0]
    BY <1>3 DEF Entries
  <1>9. /\ e.halves = FirstHalves /\ e.by = muxAt /\ e.t = t
        /\ f.halves = FirstHalves /\ f.by = "none"
    BY <1>7, <1>8
  <1>10. CASE /\ IsLine(FirstHalves) /\ holding
              /\ buf' = Append(buf, [halves |-> FirstHalves, by |-> muxAt, t |-> t])
              /\ maxTime' = IF t > maxTime THEN t ELSE maxTime
              /\ UNCHANGED <<muxAt, out>>
    <2>1. Taken(e)
      BY <1>4, <1>5, <1>7, <1>9, <1>10 DEF Taken
    <2> QED BY <2>1, <1>1, <1>2, <1>4, <1>6, <1>9, <1>10
  <1>11. CASE /\ IsLine(FirstHalves) /\ ~holding /\ WriteOut(FirstHalves, muxAt, t)
              /\ UNCHANGED <<buf, maxTime>>
    <2>1. CASE outFails
      BY <2>1, <1>1, <1>4, <1>6, <1>11 DEF WriteOut
    <2>2. CASE ~outFails
      <3>1. Taken(e)
        BY <2>2, <1>7, <1>9, <1>11 DEF Taken, WriteOut
      <3> QED BY <3>1, <1>1, <1>4, <1>6, <1>9, <1>11
    <2> QED BY <2>1, <2>2
  <1>12. CASE /\ ~IsLine(FirstHalves) /\ WriteOut(FirstHalves, "none", 0)
              /\ UNCHANGED <<buf, maxTime>>
    <2>1. CASE outFails
      BY <2>1, <1>1, <1>4, <1>6, <1>12 DEF WriteOut
    <2>2. CASE ~outFails
      <3>1. Taken(f)
        BY <2>2, <1>8, <1>9, <1>12 DEF Taken, WriteOut
      <3> QED BY <3>1, <1>1, <1>4, <1>6, <1>9, <1>12
    <2> QED BY <2>1, <2>2
  <1> QED BY <1>6, <1>10, <1>11, <1>12

(* What a step that takes an entry does to the places of a line.           *)
LEMMA TakenPlaces ==
  ASSUME MuxTypeOK, NEW e \in Entries, Taken(e), NEW g, NEW n
  PROVE  \/ /\ Places(out', g, n) = Places(out, g, n)
            /\ Places(buf', g, n) = Places(buf, g, n)
                 \cup {i \in {Len(buf) + 1} : e.halves = Line(g, n)}
         \/ /\ Places(buf', g, n) = Places(buf, g, n)
            /\ Places(out', g, n) = Places(out, g, n)
                 \cup {i \in {Len(out) + 1} : e.halves = Line(g, n)}
  <1>1. out \in Seq(Entries) /\ buf \in Seq(Entries)
    BY DEF MuxTypeOK
  <1>2. CASE buf' = Append(buf, e) /\ out' = out
    BY <1>1, <1>2, PlacesAppend
  <1>3. CASE out' = Append(out, e) /\ buf' = buf
    BY <1>1, <1>3, PlacesAppend
  <1> QED BY <1>2, <1>3 DEF Taken

(* A step that takes the first line of the buffer.                         *)
LEMMA MuxReads ==
  ASSUME MuxInv, NextLogLine
  PROVE  MuxInv'
  <1>0. /\ MuxTypeOK /\ OnceInv /\ SingleInv /\ OrderInv /\ WholeInv /\ NameInv
        /\ SortInv
    BY DEF MuxInv
  <1>1. /\ EndOf(lnbuf) # {} /\ muxAt # "idle"
        /\ lnbuf' = RestHalves /\ maxTime' \in Nat
        /\ UNCHANGED <<sentHalves, holding, outFails, batch, whole>>
        /\ \/ outFails /\ muxAt' = "idle" /\ UNCHANGED <<out, buf>>
           \/ \E e \in Entries : e.halves = FirstHalves /\ e.by \in {muxAt, "none"} /\ Taken(e)
    BY NextTakes
  <1>2. /\ FirstEnd \in 1..Len(lnbuf) /\ Len(lnbuf) \in Nat
        /\ lnbuf' \in Seq(Halves) /\ Len(lnbuf') = Len(lnbuf) - FirstEnd
        /\ DOMAIN lnbuf' = 1..(Len(lnbuf) - FirstEnd)
        /\ \A i \in 1..(Len(lnbuf) - FirstEnd) :
             lnbuf'[i] = lnbuf[FirstEnd + i] /\ FirstEnd + i \in DOMAIN lnbuf
    BY <1>1, FirstLine
  <1>3. out \in Seq(Entries) /\ buf \in Seq(Entries) /\ lnbuf \in Seq(Halves)
    BY <1>0 DEF MuxTypeOK
  <1>4. \A i, j \in DOMAIN lnbuf' : lnbuf'[i] = lnbuf'[j] => i = j
    <2> SUFFICES ASSUME NEW i \in DOMAIN lnbuf', NEW j \in DOMAIN lnbuf',
                        lnbuf'[i] = lnbuf'[j]
                 PROVE  i = j
      OBVIOUS
    <2>1. FirstEnd + i = FirstEnd + j
      BY <1>0, <1>2 DEF OnceInv
    <2> QED BY <2>1, <1>2
  <1>5. \A i \in DOMAIN lnbuf' : lnbuf'[i].k <= sentHalves'[lnbuf'[i].h]
    BY <1>0, <1>1, <1>2, ZenonT(60) DEF OnceInv
  <1>6. ASSUME NEW g \in Hosts, NEW n \in Lines(g), Found(g, n)
        PROVE  /\ 2 * n <= sentHalves[g]
               /\ \A i \in DOMAIN lnbuf' : lnbuf'[i] # Half(g, 2 * n)
    BY <1>0, <1>2, <1>6 DEF OnceInv
  <1>7. ASSUME NEW g \in Hosts, NEW n \in Lines(g), FirstHalves = Line(g, n)
        PROVE  /\ 2 * n <= sentHalves[g] /\ ~Found(g, n)
               /\ \A i \in DOMAIN lnbuf' : lnbuf'[i] # Half(g, 2 * n)
    BY <1>1, <1>7, FoundOnce
  <1>8. CASE outFails /\ muxAt' = "idle" /\ UNCHANGED <<out, buf>>
    <2>1. MuxTypeOK'
      BY <1>0, <1>1, <1>2, <1>8 DEF MuxTypeOK
    <2>2. \A g, n : Places(out', g, n) = Places(out, g, n) /\ Places(buf', g, n) = Places(buf, g, n)
      BY <1>8
    <2>3. \A g, n : Found(g, n)' <=> Found(g, n)
      BY <2>2, Zenon DEF Found
    <2>4. OnceInv'
      BY <1>1, <1>4, <1>5, <1>6, <2>3 DEF OnceInv, Lines, Half
    <2>5. SingleInv'
      <3> SUFFICES ASSUME NEW g \in Hosts, NEW n \in Lines(g)
                   PROVE  /\ \A i, j \in Places(out', g, n) : i = j
                          /\ \A i, j \in Places(buf', g, n) : i = j
                          /\ Places(out', g, n) = {} \/ Places(buf', g, n) = {}
        BY Zenon DEF SingleInv, Lines
      <3> QED BY <1>0, <2>2 DEF SingleInv
    <2>6. OrderInv' /\ WholeInv' /\ NameInv' /\ SortInv'
      BY <1>0, <1>1, <1>8 DEF OrderInv, WholeInv, NameInv, SortInv, BatchSorted, Named, Lines, Line, Half
    <2> QED BY <2>1, <2>4, <2>5, <2>6 DEF MuxInv
  <1>9. ASSUME NEW e \in Entries, e.halves = FirstHalves, e.by \in {muxAt, "none"}, Taken(e)
        PROVE  MuxInv'
    <2>1. /\ muxAt' = muxAt /\ out' \in Seq(Entries) /\ buf' \in Seq(Entries)
      <3>1. Append(out, e) \in Seq(Entries) /\ Append(buf, e) \in Seq(Entries)
        BY <1>3, AppendProperties
      <3> QED BY <3>1, <1>3, <1>9 DEF Taken
    <2>2. MuxTypeOK'
      BY <1>0, <1>1, <1>2, <2>1 DEF MuxTypeOK
    <2>3. \A g, n : \/ /\ Places(out', g, n) = Places(out, g, n)
                       /\ Places(buf', g, n) = Places(buf, g, n)
                            \cup {i \in {Len(buf) + 1} : FirstHalves = Line(g, n)}
                    \/ /\ Places(buf', g, n) = Places(buf, g, n)
                       /\ Places(out', g, n) = Places(out, g, n)
                            \cup {i \in {Len(out) + 1} : FirstHalves = Line(g, n)}
      BY <1>0, <1>9, TakenPlaces
    <2>4. \A g, n : Found(g, n)' <=> Found(g, n) \/ FirstHalves = Line(g, n)
      <3> SUFFICES ASSUME NEW g, NEW n
                   PROVE  (Places(out', g, n) # {} \/ Places(buf', g, n) # {}) <=> Found(g, n) \/ FirstHalves = Line(g, n)
        BY Zenon DEF Found
      <3> QED BY <2>3 DEF Found
    <2>5. OnceInv'
      <3>1. ASSUME NEW g \in Hosts, NEW n \in Lines(g), Found(g, n)'
            PROVE  /\ 2 * n <= sentHalves'[g]
                   /\ \A i \in DOMAIN lnbuf' : lnbuf'[i] # Half(g, 2 * n)
        BY <2>4, <3>1, <1>1, <1>6, <1>7
      <3> QED BY <3>1, <1>4, <1>5 DEF OnceInv, Lines, Half
    <2>6. SingleInv'
      <3> SUFFICES ASSUME NEW g \in Hosts, NEW n \in Lines(g)
                   PROVE  /\ \A i, j \in Places(out', g, n) : i = j
                          /\ \A i, j \in Places(buf', g, n) : i = j
                          /\ Places(out', g, n) = {} \/ Places(buf', g, n) = {}
        BY Zenon DEF SingleInv, Lines
      <3>1. /\ \A i, j \in Places(out, g, n) : i = j
            /\ \A i, j \in Places(buf, g, n) : i = j
            /\ Places(out, g, n) = {} \/ Places(buf, g, n) = {}
        BY <1>0 DEF SingleInv
      <3>2. CASE FirstHalves = Line(g, n)
        <4>1. Places(out, g, n) = {} /\ Places(buf, g, n) = {}
          BY <3>2, <1>7 DEF Found
        <4> QED BY <4>1, <2>3
      <3>3. CASE FirstHalves # Line(g, n)
        <4>1. Places(out', g, n) = Places(out, g, n) /\ Places(buf', g, n) = Places(buf, g, n)
          <5> DEFINE A == {i \in {Len(buf) + 1} : FirstHalves = Line(g, n)}
                     B == {i \in {Len(out) + 1} : FirstHalves = Line(g, n)}
          <5>1. A = {} /\ B = {}
            BY <3>3
          <5>2. \/ /\ Places(out', g, n) = Places(out, g, n)
                   /\ Places(buf', g, n) = Places(buf, g, n) \cup A
                \/ /\ Places(buf', g, n) = Places(buf, g, n)
                   /\ Places(out', g, n) = Places(out, g, n) \cup B
            BY <2>3
          <5> HIDE DEF A, B
          <5> QED BY <5>1, <5>2
        <4> QED BY <4>1, <3>1
      <3> QED BY <3>2, <3>3
    <2>7. OrderInv'
      <3> SUFFICES ASSUME ~outFails, NEW i \in DOMAIN lnbuf'
                   PROVE  lnbuf'[i] = Half(muxAt, sentHalves[muxAt] - Len(lnbuf') + i)
        BY <1>1, <2>1 DEF OrderInv, Half
      <3>1. lnbuf'[i] = lnbuf[FirstEnd + i] /\ FirstEnd + i \in DOMAIN lnbuf
        BY <1>2
      <3>2. lnbuf[FirstEnd + i] = Half(muxAt, sentHalves[muxAt] - Len(lnbuf) + (FirstEnd + i))
        BY <1>0, <3>1 DEF OrderInv
      <3>3. sentHalves[muxAt] \in Nat
        BY <1>0, <1>1 DEF MuxTypeOK
      <3>4. sentHalves[muxAt] - Len(lnbuf) + (FirstEnd + i) = sentHalves[muxAt] - Len(lnbuf') + i
        BY <1>2, <3>3
      <3> QED BY <3>1, <3>2, <3>4
    <2>8. WholeInv'
      <3> SUFFICES ASSUME NEW l \in whole
                   PROVE  /\ l[1] \in Hosts /\ l[2] \in Lines(l[1])
                          /\ 2 * l[2] <= sentHalves[l[1]]
                          /\ ~outFails => \/ Found(l[1], l[2])'
                                          \/ /\ muxAt = l[1]
                                             /\ sentHalves[l[1]] - Len(lnbuf') < 2 * l[2] - 1
        BY <1>1, <2>1 DEF WholeInv, Lines
      <3>1. /\ l[1] \in Hosts /\ l[2] \in Lines(l[1]) /\ 2 * l[2] <= sentHalves[l[1]]
            /\ ~outFails => \/ Found(l[1], l[2])
                            \/ /\ muxAt = l[1]
                               /\ sentHalves[l[1]] - Len(lnbuf) < 2 * l[2] - 1
        BY <1>0 DEF WholeInv
      <3>2. ASSUME ~outFails, muxAt = l[1], sentHalves[l[1]] - Len(lnbuf) < 2 * l[2] - 1
            PROVE  Found(l[1], l[2])' \/ sentHalves[l[1]] - Len(lnbuf') < 2 * l[2] - 1
        <4>1. l[2] \in Int
          BY <3>1 DEF Lines
        <4>2. \/ sentHalves[muxAt] - Len(lnbuf) + FirstEnd < 2 * l[2] - 1
              \/ FirstHalves = Line(muxAt, l[2])
          BY <1>1, <3>2, <4>1, FirstIsNext
        <4>3. sentHalves[muxAt] \in Nat
          BY <1>0, <1>1 DEF MuxTypeOK
        <4>4. sentHalves[muxAt] - Len(lnbuf) + FirstEnd = sentHalves[muxAt] - Len(lnbuf')
          BY <4>3, <1>2
        <4> QED BY <3>2, <4>2, <4>4, <2>4
      <3> QED BY <3>1, <3>2, <2>4
    <2>9. NameInv'
      <3>1. ~outFails => Named(e)
        BY <1>1, <1>9, EntryNamed DEF Named, Taken
      <3>2. CASE buf' = Append(buf, e) /\ out' = out
        <4>1. /\ Len(buf') = Len(buf) + 1 /\ DOMAIN buf' = 1..(Len(buf) + 1)
              /\ DOMAIN buf = 1..Len(buf) /\ Len(buf) \in Nat
              /\ \A i \in 1..Len(buf) : buf'[i] = buf[i]
              /\ buf'[Len(buf) + 1] = e
          BY <1>3, <3>2, <2>1, AppendProperties, LenProperties
        <4>2. \A i \in DOMAIN buf' : i \in DOMAIN buf \/ i = Len(buf) + 1
          BY <4>1
        <4>3. ~outFails => \A i \in DOMAIN buf' : Named(buf'[i])
          BY <1>0, <3>1, <4>1, <4>2 DEF NameInv
        <4>4. \A i \in DOMAIN out' : Named(out'[i])
          BY <1>0, <3>2 DEF NameInv
        <4> QED BY <4>3, <4>4, <1>1 DEF NameInv, Named, Lines, Line, Half
      <3>3. CASE out' = Append(out, e) /\ buf' = buf /\ ~outFails
        <4>1. /\ Len(out') = Len(out) + 1 /\ DOMAIN out' = 1..(Len(out) + 1)
              /\ DOMAIN out = 1..Len(out) /\ Len(out) \in Nat
              /\ \A i \in 1..Len(out) : out'[i] = out[i]
              /\ out'[Len(out) + 1] = e
          BY <1>3, <3>3, <2>1, AppendProperties, LenProperties
        <4>2. \A i \in DOMAIN out' : i \in DOMAIN out \/ i = Len(out) + 1
          BY <4>1
        <4>3. \A i \in DOMAIN out' : Named(out'[i])
          BY <1>0, <3>1, <3>3, <4>1, <4>2 DEF NameInv
        <4>4. \A i \in DOMAIN buf' : Named(buf'[i])
          BY <1>0, <3>3 DEF NameInv
        <4> QED BY <4>3, <4>4, <1>1 DEF NameInv, Named, Lines, Line, Half
      <3> QED BY <1>9, <3>2, <3>3 DEF Taken
    <2>10. SortInv'
      <3>1. batch \in (Nat \ {0}) \X Nat /\ batch' = batch
        BY <1>0, <1>1 DEF MuxTypeOK
      <3>2. Len(out) \in Nat /\ batch[2] <= Len(out) /\ batch[1] \in Nat \ {0} /\ batch[2] \in Nat
        BY <1>0, <1>3, <3>1, LenProperties DEF SortInv
      <3>3. /\ Len(out) <= Len(out') /\ Len(out') \in Nat
            /\ \A i \in 1..Len(out) : out'[i] = out[i]
        <4>1. /\ Len(Append(out, e)) = Len(out) + 1
              /\ \A i \in 1..Len(out) : Append(out, e)[i] = out[i]
          BY <1>3, AppendProperties
        <4>2. out' = out \/ out' = Append(out, e)
          BY <1>9 DEF Taken
        <4> QED BY <4>1, <4>2, <3>2
      <3>4. \A i \in batch[1]..batch[2] : i \in 1..Len(out)
        BY <3>2
      <3>5. batch'[2] <= Len(out')
        BY <3>1, <3>2, <3>3
      <3>6. \A i, j \in batch'[1]..batch'[2] : i < j => out'[i].t <= out'[j].t
        BY <1>0, <3>1, <3>3, <3>4 DEF SortInv, BatchSorted
      <3>7. \A i \in DOMAIN buf' : buf'[i].t # 0
        <4>1. CASE buf' = buf
          BY <1>0, <4>1 DEF SortInv, BatchSorted
        <4>2. CASE buf' = Append(buf, e) /\ e.t # 0
          <5>1. /\ DOMAIN buf' = 1..(Len(buf) + 1) /\ DOMAIN buf = 1..Len(buf) /\ Len(buf) \in Nat
                /\ \A i \in 1..Len(buf) : buf'[i] = buf[i]
                /\ buf'[Len(buf) + 1] = e
            BY <1>3, <4>2, <2>1, AppendProperties, LenProperties
          <5>2. \A i \in DOMAIN buf' : i \in DOMAIN buf \/ i = Len(buf) + 1
            BY <5>1
          <5> QED BY <1>0, <4>2, <5>1, <5>2 DEF SortInv, BatchSorted
        <4> QED BY <1>9, <4>1, <4>2 DEF Taken
      <3> QED BY <3>5, <3>6, <3>7 DEF SortInv, BatchSorted
    <2> QED BY <2>2, <2>5, <2>6, <2>7, <2>8, <2>9, <2>10 DEF MuxInv
  <1> QED BY <1>1, <1>8, <1>9

(* A flush moves what is held back, each line to one place of the output,  *)
(* or loses it when the output is gone.                                    *)
LEMMA FlushMoves ==
  ASSUME MuxInv, flushLocked, outFails' = outFails
  PROVE  /\ out' \in Seq(Entries) /\ buf' = <<>> /\ holding' \in BOOLEAN
         /\ batch' \in (Nat \ {0}) \X Nat
         /\ \A g \in Hosts : \A n \in Lines(g) : Found(g, n)' => Found(g, n)
         /\ ~outFails => \A g \in Hosts : \A n \in Lines(g) : Found(g, n) => Found(g, n)'
         /\ SingleInv' /\ NameInv' /\ SortInv'
  <1>0. MuxTypeOK /\ SingleInv /\ NameInv /\ SortInv
    BY DEF MuxInv
  <1>1. PICK p \in Bijection(DOMAIN buf, DOMAIN buf) :
          /\ \A i, j \in DOMAIN buf : i < j => buf[p[i]].t <= buf[p[j]].t
          /\ out' = IF outFails THEN out
                    ELSE out \o [i \in DOMAIN buf |-> buf[p[i]]]
    BY DEF flushLocked
  <1>2. /\ buf' = <<>> /\ holding' = FALSE
        /\ batch' = IF outFails \/ buf = <<>> THEN batch
                    ELSE <<Len(out) + 1, Len(out) + Len(buf)>>
    BY DEF flushLocked
  <1>3. out \in Seq(Entries) /\ buf \in Seq(Entries)
    BY <1>0 DEF MuxTypeOK
  <1>4. /\ Len(out) \in Nat /\ Len(buf) \in Nat
        /\ DOMAIN out = 1..Len(out) /\ DOMAIN buf = 1..Len(buf)
    BY <1>3, LenProperties
  <1>5. \A g, n : Places(buf', g, n) = {}
    BY <1>2 DEF Places
  <1>6. /\ batch \in (Nat \ {0}) \X Nat /\ batch[1] \in Nat \ {0} /\ batch[2] \in Nat
        /\ batch[2] <= Len(out)
    BY <1>0 DEF MuxTypeOK, SortInv
  <1>7. \A i \in DOMAIN buf' : FALSE
    BY <1>2
  <1>8. CASE outFails
    <2>1. out' = out /\ batch' = batch
      BY <1>1, <1>2, <1>8
    <2>2. \A g, n : Places(out', g, n) = Places(out, g, n)
      BY <2>1
    <2>3. \A g \in Hosts : \A n \in Lines(g) : Found(g, n)' => Found(g, n)
      <3> SUFFICES ASSUME NEW g \in Hosts, NEW n \in Lines(g),
                          Places(out', g, n) # {} \/ Places(buf', g, n) # {}
                   PROVE  Found(g, n)
        BY Zenon DEF Found
      <3> QED BY <1>5, <2>2 DEF Found
    <2>4. SingleInv'
      <3> SUFFICES ASSUME NEW g \in Hosts, NEW n \in Lines(g)
                   PROVE  /\ \A i, j \in Places(out', g, n) : i = j
                          /\ \A i, j \in Places(buf', g, n) : i = j
                          /\ Places(out', g, n) = {} \/ Places(buf', g, n) = {}
        BY Zenon DEF SingleInv, Lines
      <3> QED BY <1>0, <1>5, <2>2 DEF SingleInv
    <2>5. NameInv'
      <3>1. \A i \in DOMAIN out' : Named(out'[i])
        BY <1>0, <2>1 DEF NameInv
      <3> QED BY <3>1, <1>7 DEF NameInv, Named, Lines, Line, Half
    <2>6. SortInv'
      <3>1. /\ batch'[2] <= Len(out')
            /\ \A i, j \in batch'[1]..batch'[2] : i < j => out'[i].t <= out'[j].t
        BY <1>0, <2>1 DEF SortInv, BatchSorted
      <3> QED BY <3>1, <1>7 DEF SortInv, BatchSorted
    <2> QED BY <1>2, <1>3, <1>6, <1>8, <2>1, <2>3, <2>4, <2>5, <2>6
  <1>9. CASE ~outFails
    <2>1. out' = out \o [i \in DOMAIN buf |-> buf[p[i]]]
      BY <1>1, <1>9
    <2>2. AllMoved(out, buf, p, out')
      <3>1. Moves(out, buf, p, out')
        BY <2>1 DEF Moves
      <3> QED BY <3>1, <1>1, <1>3, PlacesMoved
    <2>3. /\ out' \in Seq(Entries) /\ Len(out') = Len(out) + Len(buf)
          /\ DOMAIN out' = 1..(Len(out) + Len(buf))
          /\ \A i \in 1..Len(out) : out'[i] = out[i]
          /\ \A i \in 1..Len(buf) : out'[Len(out) + i] = buf[p[i]] /\ p[i] \in 1..Len(buf)
      BY <2>2, LenProperties DEF AllMoved
    <2>4. /\ \A g, n : \A i \in Places(out', g, n) :
               \/ i \in Places(out, g, n)
               \/ /\ i - Len(out) \in 1..Len(buf)
                  /\ p[i - Len(out)] \in Places(buf, g, n)
          /\ \A g, n : Places(out, g, n) \subseteq Places(out', g, n)
          /\ \A g, n : Places(buf, g, n) # {} => Places(out', g, n) # {}
      BY <2>2, Zenon DEF AllMoved
    <2>5. \A g, n : Found(g, n)' <=> Found(g, n)
      <3> SUFFICES ASSUME NEW g, NEW n
                   PROVE  Places(out', g, n) # {} \/ Places(buf', g, n) # {} <=> Found(g, n)
        BY Zenon DEF Found
      <3> QED BY <1>5, <2>4 DEF Found
    <2>6. SingleInv'
      <3> SUFFICES ASSUME NEW g \in Hosts, NEW n \in Lines(g)
                   PROVE  \A i, j \in Places(out', g, n) : i = j
        BY <1>5 DEF SingleInv, Lines
      <3> SUFFICES ASSUME NEW i \in Places(out', g, n), NEW j \in Places(out', g, n)
                   PROVE  i = j
        OBVIOUS
      <3>1. /\ \A x, y \in Places(out, g, n) : x = y
            /\ \A x, y \in Places(buf, g, n) : x = y
            /\ Places(out, g, n) = {} \/ Places(buf, g, n) = {}
        BY <1>0 DEF SingleInv
      <3>2. i \in Int /\ j \in Int
        BY <2>3, <1>4 DEF Places
      <3>3. CASE Places(buf, g, n) = {}
        BY <3>1, <3>3, <2>4
      <3>4. CASE Places(out, g, n) = {}
        <4>1. /\ i - Len(out) \in 1..Len(buf) /\ p[i - Len(out)] \in Places(buf, g, n)
              /\ j - Len(out) \in 1..Len(buf) /\ p[j - Len(out)] \in Places(buf, g, n)
          BY <3>4, <2>4
        <4>2. p[i - Len(out)] = p[j - Len(out)]
          BY <3>1, <4>1
        <4>3. \A x, y \in 1..Len(buf) : p[x] = p[y] => x = y
          BY <1>4 DEF Bijection, Injection, IsInjective
        <4>4. i - Len(out) = j - Len(out)
          BY <4>1, <4>2, <4>3
        <4> QED BY <4>4, <3>2, <1>4
      <3> QED BY <3>1, <3>3, <3>4
    <2>7. \A i \in DOMAIN out' : \/ i \in DOMAIN out /\ out'[i] = out[i]
                                 \/ /\ i - Len(out) \in DOMAIN buf
                                    /\ p[i - Len(out)] \in DOMAIN buf
                                    /\ out'[i] = buf[p[i - Len(out)]]
      <3> SUFFICES ASSUME NEW i \in DOMAIN out', i \notin DOMAIN out
                   PROVE  /\ i - Len(out) \in DOMAIN buf
                          /\ p[i - Len(out)] \in DOMAIN buf
                          /\ out'[i] = buf[p[i - Len(out)]]
        BY <1>4, <2>3
      <3>1. i - Len(out) \in 1..Len(buf) /\ i = Len(out) + (i - Len(out))
        BY <1>4, <2>3
      <3> QED BY <3>1, <2>3, <1>4
    <2>8. NameInv'
      <3>1. \A i \in DOMAIN out' : Named(out'[i])
        BY <1>0, <1>9, <2>7 DEF NameInv
      <3> QED BY <3>1, <1>7 DEF NameInv, Named, Lines, Line, Half
    <2>9. batch' \in (Nat \ {0}) \X Nat /\ SortInv'
      <3>1. CASE buf = <<>>
        <4>1. batch' = batch /\ Len(buf) = 0
          BY <3>1, <1>2
        <4>2. \A i \in batch[1]..batch[2] : i \in 1..Len(out)
          BY <1>4, <1>6
        <4>3. \A i, j \in batch'[1]..batch'[2] : i < j => out'[i].t <= out'[j].t
          BY <1>0, <2>3, <4>1, <4>2 DEF SortInv, BatchSorted
        <4>4. batch'[2] <= Len(out')
          BY <1>4, <1>6, <2>3, <4>1
        <4> QED BY <4>1, <4>3, <4>4, <1>6, <1>7 DEF SortInv, BatchSorted
      <3>2. CASE buf # <<>>
        <4>1. batch' = <<Len(out) + 1, Len(out) + Len(buf)>>
          BY <3>2, <1>2, <1>9
        <4>2. batch'[1] = Len(out) + 1 /\ batch'[2] = Len(out) + Len(buf)
          BY <4>1
        <4>3. ASSUME NEW i \in batch'[1]..batch'[2], NEW j \in batch'[1]..batch'[2], i < j
              PROVE  out'[i].t <= out'[j].t
          <5>1. /\ i - Len(out) \in 1..Len(buf) /\ j - Len(out) \in 1..Len(buf)
                /\ i - Len(out) < j - Len(out) /\ i \in DOMAIN out' /\ j \in DOMAIN out'
                /\ i \notin DOMAIN out /\ j \notin DOMAIN out
            BY <4>2, <4>3, <1>4, <2>3
          <5>2. out'[i] = buf[p[i - Len(out)]] /\ out'[j] = buf[p[j - Len(out)]]
            BY <5>1, <2>7
          <5> QED BY <5>1, <5>2, <1>1, <1>4
        <4>4. batch'[2] <= Len(out')
          BY <4>2, <2>3, <1>4
        <4>5. batch' \in (Nat \ {0}) \X Nat
          BY <4>1, <1>4
        <4> QED BY <4>3, <4>4, <4>5, <1>7 DEF SortInv, BatchSorted
      <3> QED BY <3>1, <3>2
    <2> QED BY <1>2, <2>3, <2>5, <2>6, <2>8, <2>9
  <1> QED BY <1>8, <1>9

(* A step that writes nothing and holds nothing back.                      *)
LEMMA ListsStay ==
  ASSUME SingleInv, NameInv, SortInv, out' = out, buf' = buf, batch' = batch,
         outFails' = outFails \/ outFails' = TRUE
  PROVE  /\ SingleInv' /\ NameInv' /\ SortInv'
         /\ \A g, n : Found(g, n)' <=> Found(g, n)
  <1>1. \A g, n : Places(out', g, n) = Places(out, g, n) /\ Places(buf', g, n) = Places(buf, g, n)
    OBVIOUS
  <1>2. \A g, n : Found(g, n)' <=> Found(g, n)
    BY <1>1, Zenon DEF Found
  <1>3. SingleInv'
    <2> SUFFICES ASSUME NEW g \in Hosts, NEW n \in Lines(g)
                 PROVE  /\ \A i, j \in Places(out', g, n) : i = j
                        /\ \A i, j \in Places(buf', g, n) : i = j
                        /\ Places(out', g, n) = {} \/ Places(buf', g, n) = {}
      BY Zenon DEF SingleInv, Lines
    <2> QED BY <1>1 DEF SingleInv
  <1>4. NameInv'
    BY DEF NameInv, Named, Lines, Line, Half
  <1>5. SortInv'
    BY DEF SortInv, BatchSorted
  <1> QED BY <1>2, <1>3, <1>4, <1>5

(* The end of a write: no whole line is in what is dropped.                *)
LEMMA MuxEnds ==
  ASSUME MuxInv, EndWrite
  PROVE  MuxInv'
  <1>0. /\ MuxTypeOK /\ OnceInv /\ SingleInv /\ OrderInv /\ WholeInv /\ NameInv
        /\ SortInv
    BY DEF MuxInv
  <1>1. /\ muxAt # "idle" /\ EndOf(lnbuf) = {} /\ muxAt' = "idle" /\ lnbuf' = <<>>
        /\ UNCHANGED <<sentHalves, maxTime, outFails, whole>>
    BY DEF EndWrite
  <1>2. flushLocked \/ UNCHANGED <<holding, buf, out, batch>>
    BY DEF EndWrite
  <1>3. /\ out' \in Seq(Entries) /\ buf' \in Seq(Entries) /\ holding' \in BOOLEAN
        /\ batch' \in (Nat \ {0}) \X Nat
        /\ \A g \in Hosts : \A n \in Lines(g) : Found(g, n)' => Found(g, n)
        /\ ~outFails => \A g \in Hosts : \A n \in Lines(g) : Found(g, n) => Found(g, n)'
        /\ SingleInv' /\ NameInv' /\ SortInv'
    <2>1. CASE flushLocked
      <3>1. <<>> \in Seq(Entries)
        BY EmptySeq
      <3> QED BY <2>1, <3>1, <1>1, FlushMoves
    <2>2. CASE UNCHANGED <<holding, buf, out, batch>>
      <3>1. /\ SingleInv' /\ NameInv' /\ SortInv'
            /\ \A g, n : Found(g, n)' <=> Found(g, n)
        BY <2>2, <1>0, <1>1, ListsStay
      <3> QED BY <3>1, <2>2, <1>0 DEF MuxTypeOK
    <2> QED BY <1>2, <2>1, <2>2
  <1>4. lnbuf' \in Seq(Halves) /\ \A i \in DOMAIN lnbuf' : FALSE
    BY <1>1, EmptySeq
  <1>5. MuxTypeOK'
    BY <1>0, <1>1, <1>3, <1>4 DEF MuxTypeOK
  <1>6. OnceInv'
    <2>1. \A g \in Hosts : \A n \in Lines(g) : Found(g, n)' => 2 * n <= sentHalves'[g]
      BY <1>0, <1>1, <1>3 DEF OnceInv
    <2> QED BY <2>1, <1>4 DEF OnceInv, Lines
  <1>7. OrderInv'
    BY <1>1, <1>4 DEF OrderInv
  <1>8. WholeInv'
    <2> SUFFICES ASSUME NEW l \in whole
                 PROVE  /\ l[1] \in Hosts /\ l[2] \in Lines(l[1])
                        /\ 2 * l[2] <= sentHalves[l[1]]
                        /\ ~outFails => Found(l[1], l[2])'
      BY <1>1 DEF WholeInv, Lines
    <2>1. /\ l[1] \in Hosts /\ l[2] \in Lines(l[1]) /\ 2 * l[2] <= sentHalves[l[1]]
          /\ ~outFails => \/ Found(l[1], l[2])
                          \/ /\ muxAt = l[1]
                             /\ sentHalves[l[1]] - Len(lnbuf) < 2 * l[2] - 1
      BY <1>0 DEF WholeInv
    <2>2. ASSUME ~outFails, muxAt = l[1], sentHalves[l[1]] - Len(lnbuf) < 2 * l[2] - 1
          PROVE  FALSE
      <3> DEFINE i == 2 * l[2] - (sentHalves[muxAt] - Len(lnbuf))
      <3>1. sentHalves[muxAt] \in Nat /\ Len(lnbuf) \in Nat /\ DOMAIN lnbuf = 1..Len(lnbuf)
        BY <1>0, <2>1, <2>2, LenProperties DEF MuxTypeOK
      <3>2. l[2] \in Int
        BY <2>1 DEF Lines
      <3>3. i \in DOMAIN lnbuf /\ sentHalves[muxAt] - Len(lnbuf) + i = 2 * l[2]
        <4>1. \A a, b, c \in Int : a - b < 2 * c - 1 /\ 2 * c <= a =>
                 /\ 2 * c - (a - b) \in 1..b
                 /\ (a - b) + (2 * c - (a - b)) = 2 * c
          OBVIOUS
        <4> QED BY <2>1, <2>2, <3>1, <3>2, <4>1
      <3> HIDE DEF i
      <3>4. lnbuf[i] = Half(muxAt, 2 * l[2])
        BY <1>0, <2>2, <3>3 DEF OrderInv
      <3>5. lnbuf[i].k = 2 * l[2]
        BY <3>4 DEF Half
      <3>6. lnbuf[i].k % 2 = 0
        BY <3>2, <3>5
      <3> QED BY <1>1, <3>3, <3>6 DEF EndOf
    <2> QED BY <2>1, <2>2, <1>3
  <1> QED BY <1>3, <1>5, <1>6, <1>7, <1>8 DEF MuxInv

(* The timer flushes whatever is held back.                                *)
LEMMA MuxTimer ==
  ASSUME MuxInv, FlushTimer
  PROVE  MuxInv'
  <1>0. /\ MuxTypeOK /\ OnceInv /\ SingleInv /\ OrderInv /\ WholeInv /\ NameInv
        /\ SortInv
    BY DEF MuxInv
  <1>1. flushLocked /\ UNCHANGED <<sentHalves, lnbuf, muxAt, maxTime, outFails, whole>>
    BY DEF FlushTimer
  <1>2. /\ out' \in Seq(Entries) /\ buf' = <<>> /\ holding' \in BOOLEAN
        /\ batch' \in (Nat \ {0}) \X Nat
        /\ \A g \in Hosts : \A n \in Lines(g) : Found(g, n)' => Found(g, n)
        /\ ~outFails => \A g \in Hosts : \A n \in Lines(g) : Found(g, n) => Found(g, n)'
        /\ SingleInv' /\ NameInv' /\ SortInv'
    BY <1>1, FlushMoves
  <1>3. buf' \in Seq(Entries)
    BY <1>2, EmptySeq
  <1>4. MuxTypeOK'
    BY <1>0, <1>1, <1>2, <1>3 DEF MuxTypeOK
  <1>5. OnceInv'
    BY <1>0, <1>1, <1>2 DEF OnceInv, Lines, Half
  <1>6. OrderInv'
    BY <1>0, <1>1 DEF OrderInv, Half
  <1>7. WholeInv'
    BY <1>0, <1>1, <1>2 DEF WholeInv, Lines
  <1> QED BY <1>2, <1>4, <1>5, <1>6, <1>7 DEF MuxInv

(* The invariant holds as the writer is made ...                           *)
LEMMA MuxStart == MuxLogInit => MuxInv
  <1> SUFFICES ASSUME MuxLogInit PROVE MuxInv
    OBVIOUS
  <1>1. /\ sentHalves = [h \in Hosts |-> 0] /\ lnbuf = <<>> /\ muxAt = "idle"
        /\ maxTime = 0 /\ holding = TRUE /\ buf = <<>> /\ out = <<>>
        /\ outFails = FALSE /\ batch = <<1, 0>> /\ whole = {}
    BY DEF MuxLogInit
  <1>2. \A h \in Hosts : Len(LogTimes[h]) \in Nat
    BY MuxAssumption, LenProperties DEF MuxAssumption
  <1>3. MuxTypeOK
    <2>1. batch \in (Nat \ {0}) \X Nat
      BY <1>1
    <2>2. lnbuf \in Seq(Halves) /\ buf \in Seq(Entries) /\ out \in Seq(Entries)
      BY <1>1, EmptySeq
    <2>3. sentHalves \in [Hosts -> Nat] /\ \A h \in Hosts : sentHalves[h] <= 2 * Len(LogTimes[h])
      BY <1>1, <1>2
    <2> QED BY <1>1, <2>1, <2>2, <2>3 DEF MuxTypeOK
  <1>4. \A g, n : Places(out, g, n) = {} /\ Places(buf, g, n) = {}
    BY <1>1 DEF Places
  <1>5. OnceInv /\ SingleInv
    BY <1>1, <1>4 DEF OnceInv, SingleInv, Found
  <1>6. OrderInv /\ WholeInv /\ NameInv
    BY <1>1 DEF OrderInv, WholeInv, NameInv
  <1>7. SortInv
    BY <1>1 DEF SortInv, BatchSorted
  <1> QED BY <1>3, <1>5, <1>6, <1>7 DEF MuxInv

(* ... and in every step.                                                  *)
LEMMA MuxStep == MuxInv /\ [MuxLogNext]_muxLogVars => MuxInv'
  <1> SUFFICES ASSUME MuxInv, [MuxLogNext]_muxLogVars PROVE MuxInv'
    OBVIOUS
  <1>1. ASSUME UNCHANGED <<sentHalves, lnbuf, muxAt, maxTime, holding, buf, out, batch, whole>>,
               outFails' = outFails \/ outFails' = TRUE
        PROVE  MuxInv'
    <2>0. /\ MuxTypeOK /\ OnceInv /\ SingleInv /\ OrderInv /\ WholeInv /\ NameInv
          /\ SortInv
      BY DEF MuxInv
    <2>1. MuxTypeOK'
      BY <2>0, <1>1 DEF MuxTypeOK
    <2>2. /\ SingleInv' /\ NameInv' /\ SortInv'
          /\ \A g, n : Found(g, n)' <=> Found(g, n)
      BY <2>0, <1>1, ListsStay
    <2>3. OnceInv'
      BY <2>0, <2>2, <1>1 DEF OnceInv, Lines, Half
    <2>4. OrderInv' /\ WholeInv'
      BY <2>0, <2>2, <1>1 DEF OrderInv, WholeInv, Lines, Half
    <2> QED BY <2>1, <2>2, <2>3, <2>4 DEF MuxInv
  <1>2. CASE UNCHANGED muxLogVars
    BY <1>1, <1>2 DEF muxLogVars
  <1>3. CASE OutBreaks
    BY <1>1, <1>3 DEF OutBreaks
  <1>4. CASE \E h \in Hosts, k \in 1..3 : WriteAs(h, k)
    BY <1>4, MuxWrites
  <1>5. CASE NextLogLine \/ EndWrite \/ FlushTimer
    BY <1>5, MuxReads, MuxEnds, MuxTimer
  <1> QED BY <1>2, <1>3, <1>4, <1>5 DEF MuxLogNext

(* For any number of hosts and lines, however writes cut the lines and     *)
(* whenever the output fails: no line comes out twice, one that came in    *)
(* one write comes out or is held back as long as the output lasts, none   *)
(* comes out under the name of another host, and what was held back comes  *)
(* in the order of its times (WriteAs, flushLocked).                       *)
THEOREM MergesExactly == MuxLogSpec => []MergeExact
  <1>1. MuxInv => MergeExact
    <2> SUFFICES ASSUME MuxInv PROVE MergeExact
      OBVIOUS
    <2>0. SingleInv /\ OrderInv /\ WholeInv /\ NameInv /\ SortInv /\ MuxTypeOK
      BY DEF MuxInv
    <2>1. ASSUME NEW h \in Hosts, NEW n \in Lines(h)
          PROVE  Copies(h, n) = IF Found(h, n) THEN 1 ELSE 0
      <3>1. /\ Cardinality(Places(out, h, n)) = IF Places(out, h, n) = {} THEN 0 ELSE 1
            /\ Cardinality(Places(buf, h, n)) = IF Places(buf, h, n) = {} THEN 0 ELSE 1
            /\ Places(out, h, n) = {} \/ Places(buf, h, n) = {}
        BY <2>0, AtMostOne DEF SingleInv
      <3> QED BY <3>1 DEF Copies, Found
    <2>2. LinesIntact
      <3>1. \A h \in Hosts : \A n \in Lines(h) : Copies(h, n) <= 1
        BY <2>1
      <3>2. ASSUME ~outFails, muxAt = "idle", NEW l \in whole
            PROVE  Copies(l[1], l[2]) = 1
        <4>1. l[1] \in Hosts /\ l[2] \in Lines(l[1]) /\ Found(l[1], l[2])
          BY <2>0, <3>2, MuxAssumption DEF WholeInv, MuxAssumption
        <4> QED BY <4>1, <2>1
      <3> QED BY <3>1, <3>2 DEF LinesIntact
    <2>3. NamesRight
      BY <2>0 DEF NameInv, Named, NamesRight
    <2> QED BY <2>0, <2>2, <2>3 DEF MergeExact, SortInv
  <1> QED
    BY <1>1, MuxStart, MuxStep, PTL DEF MuxLogSpec
=============================================================================
