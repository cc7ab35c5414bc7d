---------------------------- MODULE Deploy_proofs ---------------------------
(***************************************************************************)
(* Proofs about how services come up.  The service table, for any number   *)
(* of services, states and manifests: types, NoOrphans and HotSwap.  The   *)
(* builds of an app: types; and for one start at a time, StartIsSound and  *)
(* RunDirKept: with two of one app root the last fails (AppBuild_two.cfg). *)
(* The walk of the sources and their checksum, for every tree and all      *)
(* options: WalkCorrect.                                                   *)
(***************************************************************************)
EXTENDS Session, AppBuild, GlobWalk, FiniteSetTheorems, SequenceTheorems,
        TLAPS

Settled(x) == phase[x] \in {"up", "failed"}

(* The table only names states whose start has returned, each under its    *)
(* own name.                                                               *)
MapInv == \A n \in Names : smap[n] # Nil => Settled(smap[n]) /\ name[smap[n]] = n

(* Only such states are ever told to stop.                                 *)
AskInv == \A x \in States : asked[x] \/ stopping[x] => Settled(x)

(* A state between StartState and Publish can only be cancelled by the session.*)
StartInv ==
  \A x \in States : /\ phase[x] # "none" => name[x] \in Names
                    /\ phase[x] \in {"starting", "started"} => (done[x] => sdone)

SessionInv == SessionTypeOK /\ MapInv /\ AskInv /\ StartInv /\ NoOrphans

(* Every initial state satisfies the inductive invariant.                  *)
LEMMA SessionInitInv == SessionInit => SessionInv
  <1> SUFFICES ASSUME SessionInit PROVE SessionInv
    OBVIOUS
  <1>b. sdone \in BOOLEAN
    BY Zenon DEF SessionInit
  <1>1. SessionTypeOK
    BY <1>b, SessionAssumption DEF SessionInit, SessionTypeOK, Manifests, NoStates
  <1>2. MapInv /\ AskInv /\ StartInv /\ NoOrphans
    BY DEF SessionInit, MapInv, AskInv, StartInv, NoOrphans, NoStates, LiveState, Settled
  <1> QED
    BY <1>1, <1>2 DEF SessionInv

(* Every step keeps the types.                                             *)
LEMMA SessionTypeStep == SessionTypeOK /\ [SessionNext]_sessionVars => SessionTypeOK'
  <1> SUFFICES ASSUME SessionTypeOK, [SessionNext]_sessionVars PROVE SessionTypeOK'
    OBVIOUS
  <1> USE SessionAssumption
  <1>1. ASSUME NEW x \in States, Service(x) PROVE SessionTypeOK'
    <2>1. CASE StartReturns(x)
      BY <2>1 DEF StartReturns, SessionTypeOK, reloadVars
    <2>2. CASE StartFails(x)
      BY <2>2 DEF StartFails, StoreFailed, SessionTypeOK, reloadVars
    <2>3. CASE Publish(x)
      BY <2>3 DEF Publish, StopPrevious, SessionTypeOK, reloadVars
    <2>4. CASE StopBegins(x)
      BY <2>4 DEF StopBegins, SessionTypeOK, reloadVars
    <2>5. CASE InstanceStopped(x)
      BY <2>5 DEF InstanceStopped, SessionTypeOK, reloadVars
    <2>6. CASE StopTimesOut(x)
      BY <2>6 DEF StopTimesOut, SessionTypeOK, reloadVars
    <2> QED
      BY <1>1, <2>1, <2>2, <2>3, <2>4, <2>5, <2>6 DEF Service
  <1>2. ASSUME NEW n \in Names, NEW x \in States, RestartService(n, x) PROVE SessionTypeOK'
    BY <1>2 DEF RestartService, StartState, SessionTypeOK, Manifests, reloadVars
  <1>3. ASSUME NEW n \in Names, StopService(n) PROVE SessionTypeOK'
    BY <1>3 DEF StopService, SessionTypeOK, reloadVars
  <1>4. ASSUME NEW names \in SUBSET Names, NEW fails \in BOOLEAN,
               ReloadLoads(names, fails)
        PROVE  SessionTypeOK'
    BY <1>4 DEF ReloadLoads, SessionTypeOK, Manifests, NoStates, stateVars
  <1>5. CASE Reload
    <2>1. ASSUME NEW n \in Names, ReloadVisits(n) PROVE SessionTypeOK'
      BY <2>1, ZenonT(60) DEF ReloadVisits, SessionTypeOK
    <2>2. CASE ReloadStopped
      BY <2>2 DEF ReloadStopped, SessionTypeOK, stateVars
    <2>3. CASE ReloadRangeEnds
      BY <2>3 DEF ReloadRangeEnds, SessionTypeOK, stateVars
    <2>4. CASE ReloadStarted
      BY <2>4 DEF ReloadStarted, SessionTypeOK, stateVars
    <2>5. CASE ReloadListens
      BY <2>5 DEF ReloadListens, SessionTypeOK, stateVars
    <2>6. CASE ReloadEnds
      BY <2>6 DEF ReloadEnds, SessionTypeOK, NoStates, stateVars
    <2>7. ASSUME NEW n \in Names, NEW x \in States, ReloadStarts(n, x) PROVE SessionTypeOK'
      BY <2>7 DEF ReloadStarts, StartState, SessionTypeOK, Manifests
    <2> QED
      BY <1>5, <2>1, <2>2, <2>3, <2>4, <2>5, <2>6, <2>7 DEF Reload
  <1>6. CASE ShutdownBegins
    BY <1>6 DEF ShutdownBegins, SessionTypeOK, reloadVars
  <1>7. CASE Close
    BY <1>7 DEF Close, SessionTypeOK, reloadVars
  <1>8. CASE UNCHANGED sessionVars
    BY <1>8 DEF sessionVars, SessionTypeOK
  <1> QED
    BY <1>1, <1>2, <1>3, <1>4, <1>5, <1>6, <1>7, <1>8 DEF SessionNext

(* The conjuncts of the invariant that are about states and the table.     *)
TableInv == MapInv /\ AskInv /\ StartInv /\ NoOrphans

(* Launching a fresh state, by a restart or by a reload, keeps them.       *)
LEMMA LaunchInv ==
  ASSUME SessionInv, NEW n \in Names, NEW x \in States, NEW g, StartState(x, n, g),
         UNCHANGED <<asked, stopping, smap, sdone>>
  PROVE  TableInv'
  <1>1. phase' = [phase EXCEPT ![x] = "starting"]
        /\ done' = [done EXCEPT ![x] = sdone] /\ name' = [name EXCEPT ![x] = n]
    BY DEF StartState
  <1>2. \A m \in Names : smap[m] # x
    BY DEF StartState, Fresh
  <1>3. ~asked[x] /\ ~stopping[x]
    BY DEF StartState, Fresh
  <1> QED
    BY <1>1, <1>2, <1>3
       DEF SessionInv, SessionTypeOK, TableInv, MapInv, AskInv, StartInv, NoOrphans, LiveState, Settled

(* So does every step.                                                     *)
LEMMA TableStep == SessionInv /\ [SessionNext]_sessionVars => TableInv'
  <1> SUFFICES ASSUME SessionInv, [SessionNext]_sessionVars PROVE TableInv'
    OBVIOUS
  <1> USE SessionAssumption
  <1>1. ASSUME NEW x \in States, Service(x) PROVE TableInv'
    <2> USE DEF SessionInv, SessionTypeOK, TableInv, MapInv, AskInv, StartInv, NoOrphans, LiveState, Settled
    <2>1. CASE StartReturns(x)
      BY <2>1 DEF StartReturns
    <2>2. CASE StartFails(x)
      BY <2>2 DEF StartFails, StoreFailed
    <2>3. CASE Publish(x)
      <3>1. name[x] \in Names
        BY <2>3 DEF Publish
      <3>2. \A y \in States : asked'[y] = (asked[y] \/ y = smap[name[x]])
        BY <2>3 DEF Publish, StopPrevious
      <3>3. MapInv' /\ StartInv'
        BY <2>3, <3>1 DEF Publish
      <3>4. AskInv'
        BY <2>3, <3>1, <3>2 DEF Publish
      <3>5. NoOrphans'
        <4> SUFFICES ASSUME NEW y \in States, LiveState(y)'
                     PROVE  (smap[name[y]] = y \/ asked[y] \/ stopping[y])'
          BY DEF NoOrphans
        <4>1. CASE y = x
          BY <2>3, <3>1, <4>1 DEF Publish
        <4>2. CASE y # x
          <5>1. LiveState(y) /\ name' = name /\ stopping' = stopping
            BY <2>3, <4>2 DEF Publish
          <5>2. smap[name[y]] = y \/ asked[y] \/ stopping[y]
            BY <5>1
          <5>3. CASE smap[name[y]] = y /\ name[y] = name[x]
            BY <5>3, <3>2
          <5>4. CASE smap[name[y]] = y /\ name[y] # name[x]
            BY <2>3, <5>1, <5>4, <3>1 DEF Publish
          <5>5. CASE asked[y] \/ stopping[y]
            BY <5>5, <5>1, <3>2
          <5> QED
            BY <5>2, <5>3, <5>4, <5>5
        <4> QED
          BY <4>1, <4>2
      <3> QED
        BY <3>3, <3>4, <3>5
    <2>4. CASE StopBegins(x)
      BY <2>4 DEF StopBegins
    <2>5. CASE InstanceStopped(x)
      BY <2>5 DEF InstanceStopped
    <2>6. CASE StopTimesOut(x)
      BY <2>6 DEF StopTimesOut
    <2> QED
      BY <1>1, <2>1, <2>2, <2>3, <2>4, <2>5, <2>6 DEF Service
  <1>2. ASSUME NEW n \in Names, NEW x \in States, RestartService(n, x) PROVE TableInv'
    BY <1>2, LaunchInv DEF RestartService
  <1>3. ASSUME NEW n \in Names, StopService(n) PROVE TableInv'
    BY <1>3 DEF StopService, SessionInv, SessionTypeOK, TableInv, MapInv, AskInv, StartInv,
                NoOrphans, LiveState, Settled
  <1>4. ASSUME NEW n \in Names, ReloadVisits(n) PROVE TableInv'
    BY <1>4 DEF ReloadVisits, SessionInv, SessionTypeOK, TableInv, MapInv, AskInv, StartInv,
                NoOrphans, LiveState, Settled
  <1>5. ASSUME NEW n \in Names, NEW x \in States, ReloadStarts(n, x) PROVE TableInv'
    BY <1>5, LaunchInv DEF ReloadStarts
  <1>6. CASE ShutdownBegins
    BY <1>6 DEF ShutdownBegins, SessionInv, SessionTypeOK, TableInv, MapInv, AskInv, StartInv,
                NoOrphans, LiveState, Settled
  <1>7. CASE Close
    BY <1>7 DEF Close, SessionInv, SessionTypeOK, TableInv, MapInv, AskInv, StartInv, NoOrphans,
                LiveState, Settled
  <1>8. CASE UNCHANGED <<phase, done, name, asked, stopping, smap, sdone>>
    BY <1>8 DEF SessionInv, TableInv, MapInv, AskInv, StartInv, NoOrphans, LiveState, Settled
  <1> QED
    BY <1>1, <1>2, <1>3, <1>4, <1>5, <1>6, <1>7, <1>8
       DEF SessionNext, Reload, ReloadLoads, ReloadStopped, ReloadRangeEnds, ReloadStarted,
           ReloadListens, ReloadEnds, stateVars, sessionVars

(* The inductive invariant holds of every behaviour of the session.        *)
THEOREM SessionInvariant == SessionSpec => []SessionInv
  <1>1. SessionInv /\ [SessionNext]_sessionVars => SessionInv'
    BY SessionTypeStep, TableStep DEF SessionInv, TableInv
  <1> QED
    BY SessionInitInv, <1>1, PTL DEF SessionSpec

(* Types: ServiceMap, manifests and the reload's variables stay in range.  *)
THEOREM SessionTyped == SessionSpec => []SessionTypeOK
BY SessionInvariant, PTL DEF SessionInv

(* However StartService, StopService, reloads and shutdowns interleave, a  *)
(* live service outside the table is being stopped.                        *)
THEOREM NothingOrphaned == SessionSpec => []NoOrphans
BY SessionInvariant, PTL DEF SessionInv

(* A live service is displaced by a live one only, unless the session has  *)
(* ended.                                                                  *)
THEOREM SwapsAreHot == SessionSpec => HotSwap
  <1>1. ASSUME SessionInv, [SessionNext]_sessionVars, NEW n \in Names, smap'[n] # smap[n], smap[n] # Nil
        PROVE  done[smap[n]] \/ ~done'[smap'[n]] \/ sdone
    <2>1. PICK x \in States : StartFails(x) \/ Publish(x)
      BY <1>1 DEF SessionNext, Service, StartReturns, StopBegins, InstanceStopped, StopTimesOut,
           RestartService, StopService, ReloadLoads, Reload, ReloadVisits,
           ReloadStopped, ReloadRangeEnds, ReloadStarts, ReloadStarted,
           ReloadListens, ReloadEnds, ShutdownBegins, Close, sessionVars
    <2>2. CASE StartFails(x)
      BY <1>1, <2>2 DEF StartFails, StoreFailed, SessionInv, SessionTypeOK
    <2>3. CASE Publish(x)
      BY <1>1, <2>3 DEF Publish, SessionInv, SessionTypeOK, StartInv
    <2> QED
      BY <2>1, <2>2, <2>3
  <1>2. SessionInv /\ [SessionNext]_sessionVars =>
          [\A n \in Names : smap'[n] # smap[n] /\ smap[n] # Nil =>
             done[smap[n]] \/ ~done'[smap'[n]] \/ sdone]_sessionVars
    BY <1>1
  <1> QED
    BY SessionInvariant, <1>2, PTL DEF SessionSpec, HotSwap

(* Both for every session: however StartService, StopService, reloads and  *)
(* a shutdown overlap, nothing that is alive is forgotten and nothing that *)
(* serves is displaced by what does not.                                   *)
THEOREM SessionIsSound == SessionSpec => SessionSound
BY SessionTyped, NothingOrphaned, SwapsAreHot, PTL DEF SessionSound

-----------------------------------------------------------------------------
SingleStart == \A s, t \in Starts : s = t

(* A build id names what the archive holds.                                *)
IdNamesContents ==
  \A a \in Archives : arch[a].id # Nothing => arch[a].has = arch[a].id

(* What a start knows of the files at each step, if it is alone.           *)
Knows(s) ==
  /\ step[s] = "clean" => run \notin doomed[s]
  /\ step[s] \in {"unlink", "rename"} => build = chk[s]
  /\ step[s] = "id" => /\ dir[s] \in Archives /\ dir[s] # run
                       /\ arch[dir[s]].has = chk[s]
  /\ step[s] = "link" => /\ dir[s] \in Archives
                         /\ arch[dir[s]] = [has |-> chk[s], id |-> chk[s]]
  /\ step[s] = "init" => /\ run # Nothing
                         /\ arch[run] = [has |-> chk[s], id |-> chk[s]]

BuildInv == BuildTypeOK /\ IdNamesContents /\ RunDirKept /\ \A s \in Starts : Knows(s)

-----------------------------------------------------------------------------
(* The name for no archive and no checksum is neither.                     *)
LEMMA NamesDistinct == Nothing \notin Archives /\ Nothing \notin Sums
  BY BuildAssumption

(* The initial states have the types.                                      *)
LEMMA BuildTypeInit == BuildInit => BuildTypeOK
  <1> SUFFICES ASSUME BuildInit PROVE BuildTypeOK
    OBVIOUS
  <1>1. src \in Sums /\ run \in Archives \cup {Nothing} /\ build \in Contents
    BY DEF BuildInit, Contents
  <1>2. arch \in [Archives -> [has : Contents, id : Sums \cup {Nothing}]]
    BY DEF BuildInit, Absent, Contents
  <1>3. force \in [Starts -> BOOLEAN] /\ last \in [Starts -> BOOLEAN]
    BY Zenon DEF BuildInit
  <1>4. QED
    BY <1>1, <1>2, <1>3 DEF BuildInit, BuildTypeOK

(* Every step of a start, of the sources or of the system keeps them.      *)
LEMMA BuildTypeStep == BuildTypeOK /\ [BuildNext]_buildVars => BuildTypeOK'
  <1> SUFFICES ASSUME BuildTypeOK, [BuildNext]_buildVars PROVE BuildTypeOK'
    OBVIOUS
  <1> USE DEF BuildTypeOK, Goto, fileVars
  <1>1. ASSUME NEW s \in Starts, NEW i \in BOOLEAN, Start(s, i) PROVE BuildTypeOK'
    BY <1>1 DEF Start
  <1>2. ASSUME NEW s \in Starts, CheckCache(s) PROVE BuildTypeOK'
    BY <1>2 DEF CheckCache
  <1>3. ASSUME NEW s \in Starts, InitReady(s) PROVE BuildTypeOK'
    BY <1>3 DEF InitReady
  <1>4. ASSUME NEW s \in Starts, InitFails(s) PROVE BuildTypeOK'
    BY <1>4, ZenonT(60) DEF InitFails
  <1>5. ASSUME NEW s \in Starts, Folders(s) PROVE BuildTypeOK'
    BY <1>5 DEF Folders, FoldersToClean, Dirs, Present
  <1>6. ASSUME NEW s \in Starts, NEW d \in doomed[s], CleanOne(s, d)
        PROVE BuildTypeOK'
    BY <1>6 DEF CleanOne, Absent, Contents
  <1>7. ASSUME NEW s \in Starts, NEW d \in doomed[s], CleanFails(s, d)
        PROVE BuildTypeOK'
    BY <1>7 DEF CleanFails
  <1>8. ASSUME NEW s \in Starts, Mkdir(s) PROVE BuildTypeOK'
    BY <1>8 DEF Mkdir, Contents
  <1>9. ASSUME NEW s \in Starts, MkdirFails(s) PROVE BuildTypeOK'
    BY <1>9 DEF MkdirFails
  <1>10. ASSUME NEW s \in Starts, Build(s) PROVE BuildTypeOK'
    BY <1>10 DEF Build, Contents
  <1>11. ASSUME NEW s \in Starts, BuildFails(s) PROVE BuildTypeOK'
    BY <1>11 DEF BuildFails
  <1>12. ASSUME NEW s \in Starts, UnlinkRun(s) PROVE BuildTypeOK'
    BY <1>12 DEF UnlinkRun
  <1>13. ASSUME NEW s \in Starts, NEW a \in Archives, Rename(s, a)
         PROVE BuildTypeOK'
    BY <1>13 DEF Rename, Contents
  <1>14. ASSUME NEW s \in Starts, WriteBuildId(s) PROVE BuildTypeOK'
    BY <1>14 DEF WriteBuildId
  <1>15. ASSUME NEW s \in Starts, LinkRun(s) PROVE BuildTypeOK'
    BY <1>15 DEF LinkRun
  <1>16. ASSUME NEW s \in Starts, PostBuildFails(s) PROVE BuildTypeOK'
    BY <1>16 DEF PostBuildFails
  <1>17. ASSUME NEW s \in Starts, AbortBuild(s) PROVE BuildTypeOK'
    BY <1>17 DEF AbortBuild, Contents
  <1>18. CASE Crash
    BY <1>18 DEF Crash
  <1>19. CASE Edit
    BY <1>19 DEF Edit
  <1>20. CASE UNCHANGED buildVars
    BY <1>20 DEF buildVars
  <1>21. QED
    BY <1>1, <1>2, <1>3, <1>4, <1>5, <1>6, <1>7, <1>8, <1>9, <1>10, <1>11,
       <1>12, <1>13, <1>14, <1>15, <1>16, <1>17, <1>18, <1>19, <1>20
       DEF BuildNext, Builder

(* The files and the starts always have their types, with any number of    *)
(* starts of one app root at once.                                         *)
THEOREM BuildTyped == BuildSpec => []BuildTypeOK
  BY BuildTypeInit, BuildTypeStep, PTL DEF BuildSpec
-----------------------------------------------------------------------------
(* The inductive invariant holds initially ...                             *)
LEMMA BuildInitInv == BuildInit => BuildInv
  BY BuildTypeInit
     DEF BuildInit, BuildInv, IdNamesContents, RunDirKept, Knows, Absent

(* ... and is kept by every step of a start that is alone.                 *)
LEMMA BuildStep ==
  ASSUME SingleStart, BuildInv, [BuildNext]_buildVars
  PROVE  BuildInv'
  <1> USE NamesDistinct
  <1> DEFINE J == IdNamesContents /\ RunDirKept /\ \A s \in Starts : Knows(s)
  <1>0. BuildTypeOK /\ BuildTypeOK' /\ J
    BY BuildTypeStep DEF BuildInv
  <1> USE <1>0 DEF Goto, fileVars, SingleStart
  <1>1. ASSUME NEW s \in Starts, NEW i \in BOOLEAN, Start(s, i) PROVE J'
    BY <1>1 DEF Start,
       BuildTypeOK, IdNamesContents, RunDirKept, Knows, Contents
  <1>2. ASSUME NEW s \in Starts, CheckCache(s) PROVE J'
    BY <1>2 DEF CheckCache, ReadBuildId,
       BuildTypeOK, IdNamesContents, RunDirKept, Knows, Contents
  <1>3. ASSUME NEW s \in Starts, InitReady(s) PROVE J'
    BY <1>3 DEF InitReady,
       BuildTypeOK, IdNamesContents, RunDirKept, Knows, Contents
  <1>4. ASSUME NEW s \in Starts, InitFails(s) PROVE J'
    BY <1>4 DEF InitFails,
       BuildTypeOK, IdNamesContents, RunDirKept, Knows, Contents
  <1>5. ASSUME NEW s \in Starts, Folders(s) PROVE J'
    BY <1>5 DEF Folders, FoldersToClean,
       BuildTypeOK, IdNamesContents, RunDirKept, Knows, Contents
  <1>6. ASSUME NEW s \in Starts, NEW d \in doomed[s], CleanOne(s, d)
        PROVE  J'
    <2>1. d # run /\ step[s] = "clean"
      BY <1>6 DEF CleanOne, Knows
    <2>2. arch' \in {arch, [arch EXCEPT ![d] = Absent]} /\ run' = run
      BY <1>6 DEF CleanOne
    <2>3. ASSUME NEW a \in Archives
          PROVE arch'[a] \in {arch[a], Absent} /\ (a # d => arch'[a] = arch[a])
      BY <2>2 DEF BuildTypeOK
    <2>4. IdNamesContents'
      BY <2>3 DEF IdNamesContents, Absent
    <2>5. RunDirKept'
      BY <2>1, <2>2, <2>3 DEF RunDirKept, BuildTypeOK
    <2>6. \A t \in Starts : Knows(t)'
      BY <1>6, <2>1 DEF CleanOne, Knows, BuildTypeOK
    <2>7. QED
      BY <2>4, <2>5, <2>6
  <1>7. ASSUME NEW s \in Starts, NEW d \in doomed[s], CleanFails(s, d)
        PROVE  J'
    BY <1>7 DEF CleanFails,
       BuildTypeOK, IdNamesContents, RunDirKept, Knows, Contents
  <1>8. ASSUME NEW s \in Starts, Mkdir(s) PROVE J'
    BY <1>8 DEF Mkdir,
       BuildTypeOK, IdNamesContents, RunDirKept, Knows, Contents
  <1>9. ASSUME NEW s \in Starts, MkdirFails(s) PROVE J'
    BY <1>9 DEF MkdirFails,
       BuildTypeOK, IdNamesContents, RunDirKept, Knows, Contents
  <1>10. ASSUME NEW s \in Starts, Build(s) PROVE J'
    BY <1>10 DEF Build,
       BuildTypeOK, IdNamesContents, RunDirKept, Knows, Contents
  <1>11. ASSUME NEW s \in Starts, BuildFails(s) PROVE J'
    BY <1>11 DEF BuildFails,
       BuildTypeOK, IdNamesContents, RunDirKept, Knows, Contents
  <1>12. ASSUME NEW s \in Starts, UnlinkRun(s) PROVE J'
    BY <1>12 DEF UnlinkRun,
       BuildTypeOK, IdNamesContents, RunDirKept, Knows, Contents
  <1>13. ASSUME NEW s \in Starts, NEW a \in Archives, Rename(s, a) PROVE J'
    <2>1. build = chk[s] /\ step'[s] = "id"
      BY <1>13, ZenonT(60) DEF Rename, Knows, BuildTypeOK
    <2>2. arch'[a] = [has |-> build, id |-> Nothing]
      BY <1>13 DEF Rename, BuildTypeOK
    <2>3. ASSUME NEW b \in Archives, b # a PROVE arch'[b] = arch[b]
      BY <2>3, <1>13 DEF Rename, BuildTypeOK
    <2>4. IdNamesContents'
      <3> SUFFICES ASSUME NEW b \in Archives, arch'[b].id # Nothing
                   PROVE  arch'[b].has = arch'[b].id
        BY DEF IdNamesContents
      <3>1. CASE b = a
        BY <3>1, <2>2
      <3>2. CASE b # a
        BY <3>2, <2>3 DEF IdNamesContents
      <3>3. QED
        BY <3>1, <3>2
    <2>5. dir'[s] = a /\ a # run /\ run' = run /\ chk' = chk
      BY <1>13 DEF Rename, BuildTypeOK
    <2>6. RunDirKept'
      BY <2>3, <2>5 DEF RunDirKept, BuildTypeOK
    <2>7. Knows(s)'
      BY <2>1, <2>2, <2>5 DEF Knows
    <2>8. QED
      BY <2>4, <2>6, <2>7
  <1>14. ASSUME NEW s \in Starts, WriteBuildId(s) PROVE J'
    <2>1. dir[s] \in Archives /\ arch[dir[s]].has = chk[s] /\ step'[s] = "link"
      BY <1>14, ZenonT(60) DEF WriteBuildId, Knows, BuildTypeOK
    <2>2. arch'[dir[s]] = [has |-> chk[s], id |-> chk[s]]
      BY <1>14, <2>1 DEF WriteBuildId, BuildTypeOK
    <2>3. ASSUME NEW b \in Archives, b # dir[s] PROVE arch'[b] = arch[b]
      BY <2>3, <1>14 DEF WriteBuildId, BuildTypeOK
    <2>4. IdNamesContents'
      <3> SUFFICES ASSUME NEW b \in Archives, arch'[b].id # Nothing
                   PROVE  arch'[b].has = arch'[b].id
        BY DEF IdNamesContents
      <3>1. CASE b = dir[s]
        BY <3>1, <2>2
      <3>2. CASE b # dir[s]
        BY <3>2, <2>3 DEF IdNamesContents
      <3>3. QED
        BY <3>1, <3>2
    <2>5. dir' = dir /\ chk' = chk /\ run' = run /\ chk[s] # Nothing
      BY <1>14 DEF WriteBuildId, BuildTypeOK
    <2>6. RunDirKept'
      BY <2>1, <2>2, <2>3, <2>5 DEF RunDirKept, BuildTypeOK
    <2>7. Knows(s)'
      BY <2>1, <2>2, <2>5 DEF Knows
    <2>8. QED
      BY <2>4, <2>6, <2>7
  <1>15. ASSUME NEW s \in Starts, LinkRun(s) PROVE J'
    <2>1. /\ dir[s] \in Archives /\ chk[s] # Nothing
          /\ arch[dir[s]] = [has |-> chk[s], id |-> chk[s]]
      BY <1>15 DEF LinkRun, Knows, BuildTypeOK
    <2>2. run' = dir[s] /\ arch' = arch /\ chk' = chk /\ step'[s] = "init"
      BY <1>15 DEF LinkRun, BuildTypeOK
    <2>3. RunDirKept'
      BY <2>1, <2>2 DEF RunDirKept
    <2>4. Knows(s)'
      BY <2>1, <2>2 DEF Knows
    <2>5. QED
      BY <2>2, <2>3, <2>4 DEF IdNamesContents
  <1>16. ASSUME NEW s \in Starts, PostBuildFails(s) PROVE J'
    BY <1>16 DEF PostBuildFails,
       BuildTypeOK, IdNamesContents, RunDirKept, Knows, Contents
  <1>17. ASSUME NEW s \in Starts, AbortBuild(s) PROVE J'
    BY <1>17 DEF AbortBuild,
       BuildTypeOK, IdNamesContents, RunDirKept, Knows, Contents
  <1>18. ASSUME Crash PROVE J'
    BY <1>18 DEF Crash,
       BuildTypeOK, IdNamesContents, RunDirKept, Knows, Contents
  <1>19. ASSUME Edit PROVE J'
    BY <1>19 DEF Edit,
       BuildTypeOK, IdNamesContents, RunDirKept, Knows, Contents
  <1>20. ASSUME UNCHANGED buildVars PROVE J'
    BY <1>20 DEF buildVars,
       BuildTypeOK, IdNamesContents, RunDirKept, Knows, Contents
  <1>21. QED
    BY <1>1, <1>2, <1>3, <1>4, <1>5, <1>6, <1>7, <1>8, <1>9, <1>10, <1>11,
       <1>12, <1>13, <1>14, <1>15, <1>16, <1>17, <1>18, <1>19, <1>20
       DEF BuildNext, Builder, BuildInv

(* What is left of earlier builds when Clean is done with a directory: the *)
(* one that runs, those that could not be removed and those still to come. *)
Cleans(s) ==
  /\ step[s] = "clean" => Present \subseteq {run} \cup stuck \cup doomed[s]
  /\ step[s] = "command" => Present \subseteq {run} \cup stuck

(* It holds at every step of a start that is alone.                        *)
LEMMA CleanStep ==
  ASSUME SingleStart, BuildTypeOK, \A s \in Starts : Cleans(s),
         [BuildNext]_buildVars
  PROVE  \A s \in Starts : Cleans(s)'
  <1> USE DEF Goto, fileVars, SingleStart
  <1>q. ASSUME NEW s \in Starts, step'[s] \notin {"clean", "command"}
        PROVE  \A t \in Starts : Cleans(t)'
    BY <1>q DEF Cleans
  <1>0. BuildTypeOK'
    BY BuildTypeStep
  <1>1. ASSUME NEW s \in Starts, Folders(s) PROVE Cleans(s)'
    BY <1>1 DEF Folders, FoldersToClean, Dirs, Present, Cleans, BuildTypeOK
  <1>2. ASSUME NEW s \in Starts, NEW d \in doomed[s], CleanOne(s, d)
        PROVE  Cleans(s)'
    <2>1. /\ step[s] = "clean" /\ step' = step /\ run' = run
          /\ doomed'[s] = doomed[s] \ {d} /\ stuck' = stuck \ {d}
      BY <1>2 DEF CleanOne, BuildTypeOK
    <2>2. Present' \subseteq Present \ {d}
      <3>1. CASE d = ".build"
        BY <1>2, <3>1, BuildAssumption DEF CleanOne, Present, BuildTypeOK
      <3>2. CASE d # ".build"
        BY <1>2, <3>2 DEF CleanOne, Present, BuildTypeOK, Absent
      <3> QED BY <3>1, <3>2
    <2> QED BY <2>1, <2>2 DEF Cleans
  <1>3. ASSUME NEW s \in Starts, NEW d \in doomed[s], CleanFails(s, d)
        PROVE  Cleans(s)'
    BY <1>3 DEF CleanFails, Cleans, Present, BuildTypeOK
  <1>4. ASSUME NEW s \in Starts, Mkdir(s) PROVE Cleans(s)'
    BY <1>4 DEF Mkdir, Cleans, Present, BuildTypeOK
  <1>5. CASE Edit
    BY <1>5 DEF Edit, Cleans, Present
  <1>6. CASE UNCHANGED buildVars
    BY <1>6 DEF buildVars, Cleans, Present
  <1>7. ASSUME NEW s \in Starts, NEW i \in BOOLEAN, Start(s, i)
        PROVE  step'[s] \notin {"clean", "command"}
    BY <1>7 DEF Start, BuildTypeOK
  <1>8. ASSUME NEW s \in Starts,
               \/ CheckCache(s) \/ InitReady(s) \/ InitFails(s)
               \/ MkdirFails(s) \/ Build(s) \/ BuildFails(s)
               \/ UnlinkRun(s) \/ (\E a \in Archives : Rename(s, a))
               \/ WriteBuildId(s) \/ LinkRun(s) \/ PostBuildFails(s)
               \/ AbortBuild(s)
        PROVE  step'[s] \notin {"clean", "command"}
    BY <1>8 DEF CheckCache, InitReady, InitFails, MkdirFails, Build,
       BuildFails, UnlinkRun, Rename, WriteBuildId, LinkRun, PostBuildFails,
       AbortBuild, BuildTypeOK
  <1>9. CASE Crash
    BY <1>9 DEF Crash, Cleans
  <1>10. CASE \E s \in Starts : Builder(s)
    <2> PICK s \in Starts : Builder(s)
      BY <1>10
    <2>1. CASE step'[s] \notin {"clean", "command"}
      BY <1>q, <2>1
    <2>2. CASE step'[s] \in {"clean", "command"}
      BY <1>1, <1>2, <1>3, <1>4, <1>8, <2>2 DEF Builder
    <2> QED BY <2>1, <2>2
  <1> QED
    BY <1>5, <1>6, <1>7, <1>9, <1>10, <1>q DEF BuildNext

(* With one start at a time, what Start runs is a complete build of the    *)
(* sources it hashed and a build begins with nothing left of failed ones,  *)
(* for every number of archives and checksums and after any crashes and    *)
(* failed steps (BuildApp, RunBuild, Clean).                               *)
THEOREM StartsSoundly ==
  ASSUME SingleStart
  PROVE  BuildSpec => []BuildSound
  <1> DEFINE I == BuildInv /\ \A s \in Starts : Cleans(s)
  <1>1. BuildInit => I
    BY BuildInitInv DEF BuildInit, Cleans
  <1>2. I /\ [BuildNext]_buildVars => I'
    BY BuildStep, CleanStep DEF BuildInv
  <1>3. I => BuildSound
    BY DEF BuildInv, Knows, Cleans, BuildSound, StartIsSound, NoLeftovers
  <1>4. QED
    BY <1>1, <1>2, <1>3, PTL DEF BuildSpec

(* With one start at a time, no step of a build and no crash leaves the    *)
(* link .run without its target (Clean, PostBuild).                        *)
THEOREM KeepsRunDir ==
  ASSUME SingleStart
  PROVE  BuildSpec => []RunDirKept
  <1>1. BuildInit => BuildInv
    BY BuildInitInv
  <1>2. BuildInv /\ [BuildNext]_buildVars => BuildInv'
    BY BuildStep
  <1>3. BuildInv => RunDirKept
    BY DEF BuildInv
  <1>4. QED
    BY <1>1, <1>2, <1>3, PTL DEF BuildSpec

-----------------------------------------------------------------------------
(* The walk of the sources.                                                *)

(* A node is somewhere below a directory.                                  *)
Below(d, n) == Len(d) < Len(n) /\ SubSeq(n, 1, Len(d)) = d

GitLists(w) == {GitRules(w, d, k) : d \in Nodes(w), k \in Nat}
IgnoreLists(w) == {IgnoreRules(w, d, k) : d \in Nodes(w), k \in Nat}
Frames(w) ==
  [dir : Nodes(w), at : {"enter", "files"}, files : SUBSET Nodes(w),
   dirs : SUBSET Nodes(w), gi : GitLists(w), ig : IgnoreLists(w)]
Locs(w) == {NormalLoc(n) : n \in Nodes(w)}
Modes == [mode : {"each", "hash"}, at : {"range", "done"}]

GlobTypeOK ==
  /\ \/ /\ reader = NoReader /\ walk = NoWalk /\ stack = <<>> /\ queue = <<>>
        /\ emitted = <<>> /\ hashing = {} /\ stableList = <<>> /\ closed = FALSE
     \/ reader \in Modes /\ walk \in Walks
  /\ stack \in Seq(Frames(walk)) /\ queue \in Seq(Nodes(walk)) /\ emitted \in Seq(Nodes(walk))
  /\ hashing \in SUBSET Nodes(walk) /\ stableList \in Seq(Locs(walk))

(* A directory that the walk may enter.                                    *)
DirOk(w, m) ==
  /\ ~Ruled(w, m) /\ ~NameIgnored(w.opt.dir, NameOf(m))
  /\ w.opt.hidden \/ ~Hidden(NameOf(m))

(* A frame has the rules of its directory and those above, and what is to  *)
(* be visited is in the directory.                                         *)
Ready(f) == IF f.at = "enter" THEN Len(f.dir) - 1 ELSE Len(f.dir)
FrameOk(w, f) ==
  /\ w.tree[f.dir].dir
  /\ f.dir # w.root => DirOk(w, f.dir)
  /\ f.gi = GitRules(w, f.dir, Ready(f)) /\ f.ig = IgnoreRules(w, f.dir, Ready(f))
  /\ f.at = "files" => f.dir \notin w.broken
  /\ \A n \in f.files : n \in Children(w, f.dir) /\ ~w.tree[n].dir
  /\ \A n \in f.dirs : n \in Children(w, f.dir) /\ w.tree[n].dir

(* A frame below the one of directory d.                                   *)
Waits(f, d) == f.at = "files" /\ f.files = {} /\ d \notin f.dirs

(* The frames are the directories on the way to the innermost one.         *)
Chain(w, s) ==
  /\ \A i \in 1..Len(s) : Len(s[i].dir) = i /\ FrameOk(w, s[i])
  /\ \A i, j \in 1..Len(s) : i <= j => s[i].dir = SubSeq(s[j].dir, 1, i)
  /\ \A i, j \in 1..Len(s) : i < j => Waits(s[i], SubSeq(s[j].dir, 1, i + 1))

(* A frame that has yet to come to a node, and a stack of them.            *)
Pending(f, n) ==
  IF f.at = "enter" THEN Below(f.dir, n)
  ELSE n \in f.files \/ \E d \in f.dirs : Below(d, n)
Comes(s, n) == \E i \in 1..Len(s) : Pending(s[i], n)

Distinct(seq) == \A i, j \in DOMAIN seq : seq[i] = seq[j] => i = j

SentOk ==
  /\ Distinct(emitted)
  /\ \A n \in ToSet(emitted) : Wanted1(walk, n) /\ ~Comes(stack, n)
  /\ ~cut => \A n \in WantedFiles(walk) : n \in ToSet(emitted) \/ Comes(stack, n)
  /\ closed => stack = <<>>

(* The files that were taken from the channel, and those that are hashed.  *)
Taken(e, q) == {e[i] : i \in 1..(Len(e) - Len(q))}
EndOf(e, q) ==
  Len(q) <= Len(e) /\ \A i \in 1..Len(q) : q[i] = e[(Len(e) - Len(q)) + i]
QueueOk == EndOf(emitted, queue)

Unfolded(w) == \A m, n \in WantedFiles(w) : NormalLoc(m) = NormalLoc(n) => m = n
Hashed(map, n) == NormalLoc(n) \in DOMAIN map /\ map[NormalLoc(n)] = n
SumOk ==
  /\ hashing \subseteq Taken(emitted, queue)
  /\ Unfolded(walk) =>
       /\ Distinct(stableList)
       /\ ToSet(stableList) = {NormalLoc(n) : n \in Taken(emitted, queue) \ hashing}
       /\ \A n \in Taken(emitted, queue) \ hashing : Hashed(hashMap, n)
DoneOk ==
  reader.at = "done" =>
    /\ closed
    /\ Unfolded(walk) => /\ DOMAIN sum = {NormalLoc(n) : n \in ToSet(emitted)}
                         /\ \A n \in ToSet(emitted) : sum[NormalLoc(n)] = <<1, n>>
HashOk == reader.mode = "hash" => SumOk /\ DoneOk

GlobInv == GlobTypeOK /\ Chain(walk, stack) /\ SentOk /\ QueueOk /\ HashOk

-----------------------------------------------------------------------------
(* Locations.                                                              *)

Paths == Seq(Seq(STRING))

(* The beginning of a list.                                                *)
LEMMA Prefix ==
  ASSUME NEW S, NEW s \in Seq(S), NEW k \in 0..Len(s)
  PROVE  /\ SubSeq(s, 1, k) \in Seq(S) /\ Len(SubSeq(s, 1, k)) = k
         /\ \A i \in 1..k : SubSeq(s, 1, k)[i] = s[i]
  <1>1. k \in Int /\ 1 \in Int /\ Len(s) \in Nat
    BY LenProperties
  <1>2. \A i \in 1..k : s[i] \in S
    BY <1>1, ElementOfSeq
  <1>3. /\ SubSeq(s, 1, k) \in Seq(S) /\ Len(SubSeq(s, 1, k)) = IF 1 <= k THEN k - 1 + 1 ELSE 0
        /\ \A i \in 1..(k - 1 + 1) : SubSeq(s, 1, k)[i] = s[1 + i - 1]
    BY <1>1, <1>2, SubSeqProperties
  <1> QED BY <1>1, <1>3

(* The beginning of a beginning.                                           *)
LEMMA PrefixOf ==
  ASSUME NEW S, NEW s \in Seq(S), NEW k \in 0..Len(s), NEW i \in 0..k
  PROVE  SubSeq(SubSeq(s, 1, k), 1, i) = SubSeq(s, 1, i)
  <1>1. PICK t \in Seq(S) : t = SubSeq(s, 1, k) /\ Len(t) = k /\ \A j \in 1..k : t[j] = s[j]
    BY Prefix, ZenonT(60)
  <1>2. i \in 0..Len(t) /\ i \in 0..Len(s)
    BY <1>1, LenProperties
  <1>3. /\ SubSeq(t, 1, i) \in Seq(S) /\ Len(SubSeq(t, 1, i)) = i
        /\ \A j \in 1..i : SubSeq(t, 1, i)[j] = t[j]
    BY <1>2, Prefix
  <1>4. /\ SubSeq(s, 1, i) \in Seq(S) /\ Len(SubSeq(s, 1, i)) = i
        /\ \A j \in 1..i : SubSeq(s, 1, i)[j] = s[j]
    BY <1>2, Prefix
  <1>5. \A j \in 1..i : j \in 1..k
    OBVIOUS
  <1>6. \A j \in 1..i : SubSeq(t, 1, i)[j] = SubSeq(s, 1, i)[j]
    BY <1>1, <1>3, <1>4, <1>5
  <1>7. SubSeq(t, 1, i) = SubSeq(s, 1, i)
    BY <1>3, <1>4, <1>6, SeqEqual
  <1> QED BY <1>1, <1>7

(* All but the last of a list.                                             *)
LEMMA FrontFacts ==
  ASSUME NEW S, NEW s \in Seq(S), s # <<>>
  PROVE  /\ Len(s) \in Nat \ {0} /\ Last(s) \in S /\ Last(s) = s[Len(s)]
         /\ Front(s) = SubSeq(s, 1, Len(s) - 1)
         /\ Front(s) \in Seq(S) /\ Len(Front(s)) = Len(s) - 1
         /\ \A i \in 1..(Len(s) - 1) : Front(s)[i] = s[i]
  <1>1. Len(s) \in Nat \ {0}
    BY EmptySeq
  <1>2. Len(s) - 1 \in 0..Len(s) /\ Len(s) \in 1..Len(s)
    BY <1>1
  <1>3. Last(s) \in S /\ Last(s) = s[Len(s)]
    BY <1>2, ElementOfSeq DEF Last
  <1> QED BY <1>1, <1>2, <1>3, Prefix DEF Front

(* A list with another last.                                               *)
LEMMA TopFacts ==
  ASSUME NEW S, NEW s \in Seq(S), s # <<>>, NEW x \in S
  PROVE  /\ Append(Front(s), x) \in Seq(S) /\ Append(Front(s), x) # <<>>
         /\ Len(Append(Front(s), x)) = Len(s)
         /\ \A i \in 1..Len(s) : Append(Front(s), x)[i] = IF i = Len(s) THEN x ELSE s[i]
  <1>1. /\ Len(s) \in Nat \ {0} /\ Front(s) \in Seq(S) /\ Len(Front(s)) = Len(s) - 1
        /\ \A i \in 1..(Len(s) - 1) : Front(s)[i] = s[i]
    BY FrontFacts
  <1>2. PICK n \in Nat \ {0} : n = Len(s)
    BY <1>1
  <1>3. /\ Append(Front(s), x) \in Seq(S) /\ Append(Front(s), x) # <<>>
        /\ Len(Append(Front(s), x)) = (n - 1) + 1
        /\ \A i \in 1..(n - 1) : Append(Front(s), x)[i] = Front(s)[i]
        /\ Append(Front(s), x)[(n - 1) + 1] = x
    BY <1>1, <1>2, AppendProperties
  <1>4. (n - 1) + 1 = n /\ \A i \in 1..n : i = n \/ i \in 1..(n - 1)
    BY <1>2
  <1>5. \A i \in 1..(n - 1) : i # n
    BY <1>2
  <1> QED BY <1>1, <1>2, <1>3, <1>4, <1>5

(* What the assumption says of a node and of those on the way to it.       *)
LEMMA NodeFacts ==
  ASSUME NEW w \in Walks, NEW n \in Nodes(w)
  PROVE  /\ n \in Paths /\ n # <<>> /\ Len(n) \in Nat \ {0} /\ DOMAIN n = 1..Len(n)
         /\ SubSeq(n, 1, 1) = w.root /\ SubSeq(n, 1, Len(n)) = n
         /\ Front(n) = SubSeq(n, 1, Len(n) - 1)
         /\ \A k \in 1..Len(n) : SubSeq(n, 1, k) \in Nodes(w) /\ Len(SubSeq(n, 1, k)) = k
         /\ \A k \in 1..(Len(n) - 1) : w.tree[SubSeq(n, 1, k)].dir
         /\ w.root \in Nodes(w) /\ Len(w.root) = 1 /\ w.tree[w.root].dir
         /\ n # w.root => Len(n) > 1
  <1>1. /\ w.root \in Nodes(w) /\ Len(w.root) = 1 /\ w.tree[w.root].dir
        /\ n \in Paths /\ n # <<>> /\ SubSeq(n, 1, 1) = w.root
        /\ \A k \in 1..(Len(n) - 1) : /\ SubSeq(n, 1, k) \in Nodes(w)
                                      /\ w.tree[SubSeq(n, 1, k)].dir
    BY WalkAssumption DEF WalkAssumption, Nodes, Paths
  <1>2. Len(n) \in Nat \ {0} /\ DOMAIN n = 1..Len(n)
    BY <1>1, EmptySeq, LenProperties DEF Paths
  <1>3. SubSeq(n, 1, Len(n)) = n
    BY <1>1, SubSeqFull DEF Paths
  <1>4. \A k \in 1..Len(n) : SubSeq(n, 1, k) \in Nodes(w)
    <2>1. \A l \in Nat : \A k \in 1..l : k = l \/ k \in 1..(l - 1)
      OBVIOUS
    <2>2. \A k \in 1..Len(n) : k = Len(n) \/ k \in 1..(Len(n) - 1)
      BY <1>2, <2>1
    <2> QED BY <2>2, <1>1, <1>3
  <1>5. \A k \in 1..Len(n) : Len(SubSeq(n, 1, k)) = k
    <2> SUFFICES ASSUME NEW k \in 1..Len(n) PROVE Len(SubSeq(n, 1, k)) = k
      OBVIOUS
    <2>1. k \in 0..Len(n) /\ n \in Seq(Seq(STRING))
      BY <1>1, <1>2 DEF Paths
    <2> QED BY <2>1, Prefix
  <1>6. n # w.root => Len(n) > 1
    <2>1. CASE Len(n) = 1
      BY <2>1, <1>1, <1>3
    <2> QED BY <2>1, <1>2
  <1> QED BY <1>1, <1>2, <1>3, <1>4, <1>5, <1>6 DEF Front

(* The beginning of a node is on the way to the beginnings behind it.      *)
LEMMA NodePrefix ==
  ASSUME NEW w \in Walks, NEW n \in Nodes(w), NEW k \in 1..Len(n), NEW i \in 1..k
  PROVE  SubSeq(SubSeq(n, 1, k), 1, i) = SubSeq(n, 1, i)
  <1>1. n \in Paths /\ Len(n) \in Nat
    BY NodeFacts
  <1>2. k \in 0..Len(n) /\ i \in 0..k
    BY <1>1
  <1> QED BY <1>1, <1>2, PrefixOf DEF Paths

(* A node is below its directory.                                          *)
LEMMA ChildBelow ==
  ASSUME NEW w \in Walks, NEW d \in Nodes(w), NEW n \in Children(w, d)
  PROVE  /\ n \in Nodes(w) /\ n # w.root /\ Front(n) = d
         /\ Len(n) = Len(d) + 1 /\ Below(d, n)
         /\ Path(n) = Path(d) \cup {n} /\ Above(n) = Path(d)
  <1>1. n \in Nodes(w) /\ n # w.root /\ Front(n) = d
    BY DEF Children
  <1>2. /\ Len(n) \in Nat \ {0} /\ Len(n) > 1 /\ d = SubSeq(n, 1, Len(n) - 1)
        /\ Len(d) \in Nat \ {0} /\ SubSeq(n, 1, Len(n)) = n
        /\ DOMAIN n = 1..Len(n) /\ DOMAIN d = 1..Len(d)
    BY <1>1, NodeFacts
  <1>3. Len(d) = Len(n) - 1
    <2>1. Len(n) - 1 \in 1..Len(n)
      BY <1>2
    <2> QED BY <1>1, <1>2, <2>1, NodeFacts
  <1>4. Len(n) = Len(d) + 1 /\ Below(d, n)
    BY <1>2, <1>3 DEF Below
  <1>5. ASSUME NEW k \in 1..Len(d) PROVE SubSeq(d, 1, k) = SubSeq(n, 1, k)
    <2>1. Len(n) - 1 \in 1..Len(n) /\ k \in 1..(Len(n) - 1)
      BY <1>2, <1>3
    <2> QED BY <1>1, <1>2, <2>1, NodePrefix
  <1>6. \A k : k \in 1..Len(n) <=> k \in 1..Len(d) \/ k = Len(n)
    BY <1>2, <1>3
  <1>7. Path(n) = Path(d) \cup {n}
    <2>1. ASSUME NEW x \in Path(n) PROVE x \in Path(d) \cup {n}
      BY <2>1, <1>2, <1>5, <1>6 DEF Path
    <2>2. ASSUME NEW x \in Path(d) \cup {n} PROVE x \in Path(n)
      BY <2>2, <1>2, <1>5, <1>6 DEF Path
    <2> QED BY <2>1, <2>2
  <1>8. n \notin Path(d)
    <2> SUFFICES ASSUME n \in Path(d) PROVE FALSE
      OBVIOUS
    <2>1. PICK k \in 1..Len(d) : n = SubSeq(d, 1, k)
      BY <1>2 DEF Path
    <2>2. Len(SubSeq(d, 1, k)) = k
      BY NodeFacts
    <2> QED BY <2>1, <2>2, <1>2, <1>3
  <1> QED BY <1>1, <1>4, <1>7, <1>8 DEF Above

(* What is below a node is below its directory.                            *)
LEMMA BelowChild ==
  ASSUME NEW w \in Walks, NEW d \in Nodes(w), NEW c \in Children(w, d), NEW n \in Nodes(w), Below(c, n)
  PROVE  Below(d, n)
  <1>1. c \in Nodes(w) /\ Len(c) = Len(d) + 1 /\ SubSeq(c, 1, Len(d)) = d
    <2>1. c \in Nodes(w) /\ Len(c) = Len(d) + 1 /\ Below(d, c)
      BY ChildBelow
    <2> QED BY <2>1 DEF Below
  <1>2. Len(c) < Len(n) /\ SubSeq(n, 1, Len(c)) = c
    BY DEF Below
  <1>3. Len(n) \in Nat /\ Len(d) \in Nat \ {0}
    BY NodeFacts
  <1>4. Len(c) \in 1..Len(n) /\ Len(d) \in 1..Len(c)
    BY <1>1, <1>2, <1>3
  <1>5. SubSeq(SubSeq(n, 1, Len(c)), 1, Len(d)) = SubSeq(n, 1, Len(d))
    BY <1>4, NodePrefix
  <1> QED BY <1>1, <1>2, <1>3, <1>5 DEF Below

(* What is below a directory is in it, or below a directory in it.         *)
LEMMA BelowStep ==
  ASSUME NEW w \in Walks, NEW d \in Nodes(w), NEW n \in Nodes(w), Below(d, n)
  PROVE  \/ n \in Children(w, d)
         \/ \E c \in Children(w, d) : w.tree[c].dir /\ Below(c, n)
  <1>1. Len(d) < Len(n) /\ SubSeq(n, 1, Len(d)) = d
    BY DEF Below
  <1>2. Len(n) \in Nat /\ Len(d) \in Nat \ {0}
    BY NodeFacts
  <1>3. Len(d) + 1 \in 1..Len(n) /\ Len(d) \in 1..(Len(d) + 1)
    BY <1>1, <1>2
  <1>4. PICK c \in Nodes(w) : c = SubSeq(n, 1, Len(d) + 1) /\ Len(c) = Len(d) + 1
    <2>1. \A k \in 1..Len(n) : SubSeq(n, 1, k) \in Nodes(w) /\ Len(SubSeq(n, 1, k)) = k
      BY NodeFacts
    <2> QED BY <2>1, <1>3
  <1>5. SubSeq(c, 1, Len(d)) = d
    BY <1>1, <1>3, <1>4, NodePrefix
  <1>6. c \in Children(w, d)
    <2>1. Len(w.root) = 1 /\ Front(c) = SubSeq(c, 1, Len(c) - 1)
      BY NodeFacts
    <2>2. Front(c) = d /\ c # w.root
      BY <1>2, <1>4, <1>5, <2>1
    <2> QED BY <2>2 DEF Children
  <1>7. CASE Len(d) + 1 = Len(n)
    <2>1. SubSeq(n, 1, Len(n)) = n
      BY NodeFacts
    <2> QED BY <2>1, <1>4, <1>6, <1>7
  <1>8. CASE Len(d) + 1 < Len(n)
    <2>1. Len(d) + 1 \in 1..(Len(n) - 1)
      BY <1>2, <1>8
    <2>2. w.tree[c].dir
      <3>1. \A k \in 1..(Len(n) - 1) : w.tree[SubSeq(n, 1, k)].dir
        BY NodeFacts
      <3> QED BY <2>1, <1>4, <3>1
    <2>3. Below(c, n)
      BY <1>4, <1>8 DEF Below
    <2> QED BY <2>2, <2>3, <1>6
  <1> QED BY <1>1, <1>2, <1>7, <1>8

-----------------------------------------------------------------------------
(* The frames.                                                             *)

(* What a list with one more element has.                                  *)
LEMMA AppendAt ==
  ASSUME NEW S, NEW s \in Seq(S), NEW g \in S
  PROVE  /\ Append(s, g) \in Seq(S) /\ Len(s) \in Nat /\ Len(Append(s, g)) = Len(s) + 1
         /\ \A i \in 1..Len(s) : i \in 1..(Len(s) + 1) /\ i # Len(s) + 1 /\ Append(s, g)[i] = s[i]
         /\ Append(s, g)[Len(s) + 1] = g /\ Len(s) + 1 \in 1..(Len(s) + 1)
         /\ \A i \in 1..(Len(s) + 1) : i \in 1..Len(s) \/ i = Len(s) + 1
  <1>1. Len(s) \in Nat
    BY LenProperties
  <1>2. /\ Append(s, g) \in Seq(S) /\ Len(Append(s, g)) = Len(s) + 1
        /\ \A i \in 1..Len(s) : Append(s, g)[i] = s[i]
        /\ Append(s, g)[Len(s) + 1] = g
    BY AppendProperties
  <1>3. \A l \in Nat : /\ l + 1 \in 1..(l + 1)
                       /\ \A i \in 1..l : i \in 1..(l + 1) /\ i # l + 1
                       /\ \A i \in 1..(l + 1) : i \in 1..l \/ i = l + 1
    OBVIOUS
  <1> QED BY <1>1, <1>2, <1>3

(* A list is its beginning and its last element.                           *)
LEMMA FrontLast ==
  ASSUME NEW S, NEW s \in Seq(S), s # <<>>
  PROVE  s = Append(Front(s), Last(s)) /\ Front(s) \in Seq(S) /\ Last(s) \in S
  <1>1. /\ Front(s) \in Seq(S) /\ Last(s) \in S /\ Last(s) = s[Len(s)]
        /\ Len(Front(s)) = Len(s) - 1 /\ Len(s) \in Nat \ {0}
        /\ \A i \in 1..(Len(s) - 1) : Front(s)[i] = s[i]
    BY FrontFacts
  <1>2. PICK t \in Seq(S) : t = Append(Front(s), Last(s))
    BY <1>1, AppendAt
  <1>3. /\ Len(t) = Len(s)
        /\ \A i \in 1..Len(s) : t[i] = IF i = Len(s) THEN Last(s) ELSE s[i]
    BY <1>1, <1>2, TopFacts
  <1>4. \A i \in 1..Len(s) : t[i] = s[i]
    BY <1>1, <1>3
  <1>5. t = s
    BY <1>3, <1>4, SeqEqual
  <1> QED BY <1>1, <1>2, <1>5

(* What is to come with one more frame.                                    *)
LEMMA ComesAppend ==
  ASSUME NEW S, NEW s \in Seq(S), NEW g \in S, NEW n
  PROVE  Comes(Append(s, g), n) <=> Comes(s, n) \/ Pending(g, n)
  <1>1. PICK t : t = Append(s, g)
    OBVIOUS
  <1>2. /\ Len(s) \in Nat /\ Len(t) = Len(s) + 1
        /\ \A i \in 1..Len(s) : i \in 1..(Len(s) + 1) /\ t[i] = s[i]
        /\ t[Len(s) + 1] = g /\ Len(s) + 1 \in 1..(Len(s) + 1)
        /\ \A i \in 1..(Len(s) + 1) : i \in 1..Len(s) \/ i = Len(s) + 1
    BY <1>1, AppendAt
  <1>3. Comes(t, n) <=> Comes(s, n) \/ Pending(g, n)
    BY <1>2 DEF Comes
  <1> QED BY <1>1, <1>3

(* A chain without its last frame.                                         *)
LEMMA ChainPop ==
  ASSUME NEW w, NEW S, NEW s \in Seq(S), NEW g \in S, Chain(w, Append(s, g))
  PROVE  Chain(w, s) /\ FrameOk(w, g) /\ Len(g.dir) = Len(s) + 1
  <1>1. PICK t : t = Append(s, g)
    OBVIOUS
  <1>2. /\ Len(s) \in Nat /\ Len(t) = Len(s) + 1
        /\ \A i \in 1..Len(s) : i \in 1..(Len(s) + 1) /\ t[i] = s[i]
        /\ t[Len(s) + 1] = g /\ Len(s) + 1 \in 1..(Len(s) + 1)
    BY <1>1, AppendAt
  <1>3. Chain(w, t)
    BY <1>1
  <1> QED BY <1>2, <1>3, ZenonT(60) DEF Chain

(* A chain with another frame of the same directory last.                  *)
LEMMA ChainTop ==
  ASSUME NEW w, NEW S, NEW s \in Seq(S), NEW f \in S, NEW g \in S,
         Chain(w, Append(s, f)), g.dir = f.dir, FrameOk(w, g)
  PROVE  Chain(w, Append(s, g))
  <1>1. PICK t, u : t = Append(s, f) /\ u = Append(s, g)
    OBVIOUS
  <1>2. /\ Len(s) \in Nat /\ Len(t) = Len(s) + 1
        /\ \A i \in 1..Len(s) : i \in 1..(Len(s) + 1) /\ i # Len(s) + 1 /\ t[i] = s[i]
        /\ t[Len(s) + 1] = f /\ Len(s) + 1 \in 1..(Len(s) + 1)
        /\ \A i \in 1..(Len(s) + 1) : i \in 1..Len(s) \/ i = Len(s) + 1
    BY <1>1, AppendAt
  <1>3. /\ Len(u) = Len(s) + 1 /\ u[Len(s) + 1] = g
        /\ \A i \in 1..Len(s) : u[i] = s[i]
    BY <1>1, AppendAt
  <1>4. \A i \in 1..Len(t) : u[i].dir = t[i].dir
    BY <1>2, <1>3
  <1>5. \A i \in 1..Len(t) : u[i] = t[i] \/ u[i] = g
    BY <1>2, <1>3
  <1>6. \A i, j \in 1..Len(t) : i < j => u[i] = t[i]
    BY <1>2, <1>3
  <1>7. Len(u) = Len(t) /\ Chain(w, t)
    BY <1>1, <1>2, <1>3
  <1>8. Chain(w, u)
    BY <1>4, <1>5, <1>6, <1>7, ZenonT(60) DEF Chain
  <1> QED BY <1>1, <1>8

(* What a frame holds.                                                     *)
LEMMA FrameFacts ==
  ASSUME NEW w \in Walks, NEW f \in Frames(w)
  PROVE  /\ f.dir \in Nodes(w) /\ f.at \in {"enter", "files"}
         /\ f.files \subseteq Nodes(w) /\ f.dirs \subseteq Nodes(w)
         /\ f.gi \in GitLists(w) /\ f.ig \in IgnoreLists(w)
         /\ Len(f.dir) \in Nat \ {0}
  <1>1. /\ f.dir \in Nodes(w) /\ f.at \in {"enter", "files"}
        /\ f.files \subseteq Nodes(w) /\ f.dirs \subseteq Nodes(w)
        /\ f.gi \in GitLists(w) /\ f.ig \in IgnoreLists(w)
    BY DEF Frames
  <1>2. Len(f.dir) \in Nat \ {0}
    BY <1>1, NodeFacts
  <1> QED BY <1>1, <1>2

(* A chain with a directory that is in the last one.                       *)
LEMMA ChainPush ==
  ASSUME NEW w \in Walks, NEW s \in Seq(Frames(w)), NEW f \in Frames(w), NEW g \in Frames(w),
         Chain(w, Append(s, f)), g.dir \in Children(w, f.dir), Waits(f, g.dir), FrameOk(w, g)
  PROVE  Chain(w, Append(Append(s, f), g))
  <1>1. PICK t \in Seq(Frames(w)) : t = Append(s, f)
    BY AppendAt
  <1>2. PICK u : u = Append(t, g)
    OBVIOUS
  <1>3. PICK L : L = Len(t) /\ L \in Nat /\ L \in 1..L /\ t[L] = f
    BY <1>1, AppendAt
  <1>4. /\ Len(u) = L + 1
        /\ \A i \in 1..L : u[i] = t[i]
        /\ u[L + 1] = g
        /\ \A i \in 1..(L + 1) : i \in 1..L \/ i = L + 1
    BY <1>2, <1>3, AppendAt
  <1>5. PICK c \in Nodes(w) : c = g.dir
    BY FrameFacts
  <1>6. f.dir \in Nodes(w) /\ c \in Children(w, f.dir)
    BY <1>5, FrameFacts
  <1>7. /\ \A i \in 1..L : Len(t[i].dir) = i /\ FrameOk(w, t[i])
        /\ \A i, j \in 1..L : i <= j => t[i].dir = SubSeq(t[j].dir, 1, i)
        /\ \A i, j \in 1..L : i < j => Waits(t[i], SubSeq(t[j].dir, 1, i + 1))
    BY <1>1, <1>3 DEF Chain
  <1>8. Len(f.dir) = L
    BY <1>3, <1>7
  <1>9. Len(c) = L + 1 /\ Below(f.dir, c)
    BY <1>6, <1>8, ChildBelow
  <1>10. SubSeq(c, 1, L) = f.dir /\ SubSeq(c, 1, L + 1) = c
    <2>1. SubSeq(c, 1, Len(c)) = c
      BY NodeFacts
    <2> QED BY <2>1, <1>8, <1>9 DEF Below
  <1>11. \A i \in 1..L : SubSeq(f.dir, 1, i) = SubSeq(c, 1, i)
    <2> SUFFICES ASSUME NEW i \in 1..L PROVE SubSeq(f.dir, 1, i) = SubSeq(c, 1, i)
      OBVIOUS
    <2>1. L \in 1..Len(c)
      BY <1>3, <1>9
    <2>2. SubSeq(SubSeq(c, 1, L), 1, i) = SubSeq(c, 1, i)
      BY <2>1, NodePrefix
    <2> QED BY <2>2, <1>10
  <1>12. \A i \in 1..(L + 1) : Len(u[i].dir) = i /\ FrameOk(w, u[i])
    BY <1>4, <1>5, <1>7, <1>9
  <1>13. ASSUME NEW i \in 1..(L + 1), NEW j \in 1..(L + 1), i <= j
         PROVE  u[i].dir = SubSeq(u[j].dir, 1, i)
    <2>1. CASE j \in 1..L
      <3>1. i \in 1..L
        BY <1>3, <1>13, <2>1
      <3> QED BY <2>1, <3>1, <1>4, <1>7, <1>13
    <2>2. CASE j = L + 1 /\ i \in 1..L
      <3>1. t[i].dir = SubSeq(f.dir, 1, i)
        BY <2>2, <1>3, <1>7
      <3> QED BY <3>1, <2>2, <1>4, <1>5, <1>11
    <2>3. CASE j = L + 1 /\ i = L + 1
      BY <2>3, <1>4, <1>5, <1>10
    <2> QED BY <2>1, <2>2, <2>3, <1>4
  <1>14. ASSUME NEW i \in 1..(L + 1), NEW j \in 1..(L + 1), i < j
         PROVE  Waits(u[i], SubSeq(u[j].dir, 1, i + 1))
    <2>1. i \in 1..L
      BY <1>3, <1>14
    <2>2. CASE j \in 1..L
      BY <2>1, <2>2, <1>4, <1>7, <1>14
    <2>3. CASE j = L + 1 /\ i < L
      <3>1. i + 1 \in 1..L
        BY <2>1, <2>3, <1>3
      <3>2. Waits(t[i], SubSeq(f.dir, 1, i + 1))
        BY <2>1, <2>3, <1>3, <1>7
      <3> QED BY <3>1, <3>2, <2>1, <2>3, <1>4, <1>5, <1>11
    <2>4. CASE j = L + 1 /\ i = L
      BY <2>1, <2>4, <1>3, <1>4, <1>5, <1>10
    <2> QED BY <2>1, <2>2, <2>3, <2>4, <1>3, <1>4
  <1>15. Chain(w, u)
    BY <1>4, <1>12, <1>13, <1>14 DEF Chain
  <1> QED BY <1>1, <1>2, <1>15

(* What is below the last directory does not come with another frame.      *)
LEMMA Elsewhere ==
  ASSUME NEW w \in Walks, NEW s \in Seq(Frames(w)), NEW f \in Frames(w),
         Chain(w, Append(s, f)), NEW n \in Nodes(w), Below(f.dir, n)
  PROVE  ~Comes(s, n)
  <1> SUFFICES ASSUME NEW i \in 1..Len(s), Pending(s[i], n) PROVE FALSE
    BY DEF Comes
  <1>1. PICK t : t = Append(s, f)
    OBVIOUS
  <1>2. PICK L \in Nat : L = Len(s)
    BY LenProperties
  <1>3. /\ Len(t) = L + 1 /\ t[i] = s[i] /\ t[L + 1] = f
        /\ i \in 1..(L + 1) /\ L + 1 \in 1..(L + 1) /\ i < L + 1
    BY <1>1, <1>2, AppendAt
  <1>4. PICK e \in Frames(w) : e = s[i]
    BY ElementOfSeq
  <1>5. /\ Len(e.dir) = i /\ FrameOk(w, e) /\ Len(f.dir) = L + 1
        /\ Waits(e, SubSeq(f.dir, 1, i + 1))
    <2>1. Chain(w, t)
      BY <1>1
    <2> QED BY <2>1, <1>3, <1>4 DEF Chain
  <1>6. PICK d \in e.dirs : Below(d, n)
    BY <1>4, <1>5 DEF Waits, Pending
  <1>7. e.dir \in Nodes(w) /\ d \in Children(w, e.dir)
    BY <1>5, <1>6, FrameFacts DEF FrameOk
  <1>8. Len(d) = i + 1
    BY <1>5, <1>7, ChildBelow
  <1>9. d = SubSeq(n, 1, i + 1)
    BY <1>6, <1>8 DEF Below
  <1>10. SubSeq(n, 1, L + 1) = f.dir /\ L + 1 < Len(n)
    BY <1>5 DEF Below
  <1>11. Len(n) \in Nat
    BY NodeFacts
  <1>12. L + 1 \in 1..Len(n) /\ i + 1 \in 1..(L + 1)
    BY <1>2, <1>3, <1>10, <1>11
  <1>13. SubSeq(SubSeq(n, 1, L + 1), 1, i + 1) = SubSeq(n, 1, i + 1)
    BY <1>12, NodePrefix
  <1> QED BY <1>5, <1>6, <1>9, <1>10, <1>13 DEF Waits

(* What is below a directory has it above.                                 *)
LEMMA BelowAbove ==
  ASSUME NEW w \in Walks, NEW d \in Nodes(w), NEW n \in Nodes(w), Below(d, n)
  PROVE  d \in Path(n) /\ d \in Above(n) /\ d # n
  <1>1. Len(d) < Len(n) /\ SubSeq(n, 1, Len(d)) = d
    BY DEF Below
  <1>2. Len(d) \in Nat \ {0} /\ Len(n) \in Nat /\ DOMAIN n = 1..Len(n)
    BY NodeFacts
  <1>3. Len(d) \in DOMAIN n /\ d # n
    BY <1>1, <1>2
  <1> QED BY <1>1, <1>3 DEF Path, Above
-----------------------------------------------------------------------------
(* The rules.                                                              *)

(* The rules that a walk may have at hand.                                 *)
RuleSet(w) ==
  ToSet(w.opt.outer) \cup {Added(w, d, nm) : d \in Nodes(w), nm \in {GitIgnore, Ignore}}

(* The rules of the options are a list.                                    *)
LEMMA OuterRules ==
  ASSUME NEW w \in Walks
  PROVE  AddGitIgnores(w) \in Seq(RuleSet(w))
  <1>1. w.opt.outer \in Seq(ToSet(w.opt.outer)) /\ w.root \in Nodes(w)
    BY WalkAssumption DEF WalkAssumption, Nodes
  <1>2. PICK o : o = w.opt.outer
    OBVIOUS
  <1>3. PICK L \in Nat : L = Len(o) /\ \A i \in 1..L : o[i] \in ToSet(o)
    BY <1>1, <1>2, LenProperties, ElementOfSeq
  <1>4. Reverse(o) \in Seq(RuleSet(w))
    <2>1. \A i \in 1..L : o[(L - i) + 1] \in RuleSet(w)
      <3>1. \A i \in 1..L : (L - i) + 1 \in 1..L
        OBVIOUS
      <3> QED BY <3>1, <1>2, <1>3 DEF RuleSet
    <2>2. Reverse(o) = [i \in 1..L |-> o[(L - i) + 1]]
      BY <1>3 DEF Reverse
    <2>3. [i \in 1..L |-> o[(L - i) + 1]] \in [1..L -> RuleSet(w)]
      BY <2>1
    <2> QED BY <2>2, <2>3, SeqDef
  <1>5. Added(w, w.root, GitIgnore) \in RuleSet(w)
    BY <1>1 DEF RuleSet
  <1>6. PICK x \in RuleSet(w) : x = Added(w, w.root, GitIgnore)
    BY <1>5
  <1>7. <<x>> \in Seq(RuleSet(w)) /\ <<>> \in Seq(RuleSet(w))
    OBVIOUS
  <1>8. Reverse(o) \o <<x>> \in Seq(RuleSet(w))
    BY <1>4, <1>7, ConcatProperties
  <1>9. AddGitIgnores(w) = IF w.opt.addGit THEN Reverse(o) \o <<x>> ELSE <<>>
    BY <1>2, <1>6 DEF AddGitIgnores
  <1> QED BY <1>7, <1>8, <1>9

(* The rules on the way to a directory are a list, and one directory adds  *)
(* its own.                                                                *)
LEMMA RulesGrow ==
  ASSUME NEW w \in Walks, NEW d \in Nodes(w), NEW nm \in {GitIgnore, Ignore}
  PROVE  /\ \A k \in 0..Len(d) : RulesOf(w, d, k, nm) \in Seq(RuleSet(w))
         /\ RulesOf(w, d, Len(d), nm) = RulesOf(w, d, Len(d) - 1, nm) \o <<Added(w, d, nm)>>
         /\ <<Added(w, d, nm)>> \in Seq(RuleSet(w))
  <1>1. PICK L \in Nat \ {0} : L = Len(d) /\ SubSeq(d, 1, L) = d
    BY NodeFacts
  <1>2. PICK a : a = [i \in 1..L |-> Added(w, SubSeq(d, 1, i), nm)]
    OBVIOUS
  <1>a. DOMAIN a = 1..L /\ \A i \in 1..L : a[i] = Added(w, SubSeq(d, 1, i), nm)
    BY <1>2
  <1>3. \A i \in 1..L : a[i] \in RuleSet(w)
    <2>1. \A i \in 1..L : SubSeq(d, 1, i) \in Nodes(w)
      BY <1>1, NodeFacts
    <2> QED BY <2>1, <1>a DEF RuleSet
  <1>4. \A k \in 0..L : RulesOf(w, d, k, nm) = [i \in 1..k |-> a[i]]
    <2> SUFFICES ASSUME NEW k \in 0..L
                 PROVE  RulesOf(w, d, k, nm) = [i \in 1..k |-> a[i]]
      OBVIOUS
    <2>1. \A i \in 1..k : i \in 1..L
      OBVIOUS
    <2> QED BY <2>1, <1>a DEF RulesOf
  <1>5. \A k \in 0..L : [i \in 1..k |-> a[i]] \in Seq(RuleSet(w))
    <2> SUFFICES ASSUME NEW k \in 0..L
                 PROVE  [i \in 1..k |-> a[i]] \in Seq(RuleSet(w))
      OBVIOUS
    <2>1. \A i \in 1..k : i \in 1..L
      OBVIOUS
    <2>2. [i \in 1..k |-> a[i]] \in [1..k -> RuleSet(w)]
      BY <2>1, <1>3
    <2> QED BY <2>2, SeqDef
  <1>6. a[L] = Added(w, d, nm) /\ a[L] \in RuleSet(w)
    <2>1. L \in 1..L
      OBVIOUS
    <2> QED BY <2>1, <1>1, <1>a, <1>3
  <1>7. PICK x \in RuleSet(w) : x = a[L]
    BY <1>6
  <1>8. <<x>> \in Seq(RuleSet(w)) /\ Len(<<x>>) = 1 /\ <<x>>[1] = x
    OBVIOUS
  <1>9. PICK r \in Seq(RuleSet(w)) : /\ r = [i \in 1..(L - 1) |-> a[i]] /\ Len(r) = L - 1
                                     /\ \A i \in 1..(L - 1) : r[i] = a[i]
    <2>1. L - 1 \in 0..L
      OBVIOUS
    <2>2. [i \in 1..(L - 1) |-> a[i]] \in Seq(RuleSet(w))
      BY <2>1, <1>5
    <2>3. PICK r \in Seq(RuleSet(w)) : r = [i \in 1..(L - 1) |-> a[i]]
      BY <2>2
    <2>4. DOMAIN r = 1..(L - 1) /\ L - 1 \in Nat /\ DOMAIN r = 1..Len(r) /\ Len(r) \in Nat
      BY <2>3, LenProperties
    <2>5. Len(r) = L - 1
      BY <2>4
    <2> QED BY <2>3, <2>5
  <1>10. r \o <<x>> = a
    <2>1. PICK t \in Seq(RuleSet(w)) : /\ t = r \o <<x>> /\ Len(t) = (L - 1) + 1
                                       /\ \A i \in 1..((L - 1) + 1) :
                                            t[i] = IF i <= L - 1 THEN r[i] ELSE <<x>>[i - (L - 1)]
      <3>1. /\ r \o <<x>> \in Seq(RuleSet(w)) /\ Len(r \o <<x>>) = Len(r) + Len(<<x>>)
            /\ \A i \in 1..(Len(r) + Len(<<x>>)) :
                 (r \o <<x>>)[i] = IF i <= Len(r) THEN r[i] ELSE <<x>>[i - Len(r)]
        BY <1>8, <1>9, ConcatProperties
      <3>2. Len(r) = L - 1 /\ Len(<<x>>) = 1
        BY <1>8, <1>9
      <3> QED BY <3>1, <3>2, ZenonT(60)
    <2>2. Len(t) = L /\ \A i \in 1..L : t[i] = a[i]
      <3>1. Len(t) = L
        BY <2>1
      <3> SUFFICES ASSUME NEW i \in 1..L PROVE t[i] = a[i]
        BY <3>1
      <3>2. CASE i <= L - 1
        BY <3>1, <3>2, <2>1, <1>9
      <3>3. CASE i = L
        <4>1. i - (L - 1) = 1 /\ ~(i <= L - 1)
          BY <3>3
        <4> QED BY <4>1, <3>1, <3>3, <2>1, <1>7, <1>8
      <3> QED BY <3>2, <3>3
    <2>3. t \in [1..L -> RuleSet(w)] /\ a \in [1..L -> RuleSet(w)]
      BY <2>1, <2>2, <1>2, <1>a, <1>3, LenProperties
    <2> QED BY <2>1, <2>2, <2>3
  <1>11. /\ RulesOf(w, d, L, nm) = a /\ RulesOf(w, d, L - 1, nm) = r
    <2>1. L \in 0..L /\ L - 1 \in 0..L
      OBVIOUS
    <2>2. a = [i \in 1..L |-> a[i]]
      BY <1>2
    <2> QED BY <2>1, <2>2, <1>4, <1>9
  <1> QED BY <1>1, <1>4, <1>5, <1>6, <1>7, <1>8, <1>10, <1>11

(* An opened directory has its own rules too.                              *)
LEMMA RulesOpen ==
  ASSUME NEW w \in Walks, NEW d \in Nodes(w)
  PROVE  /\ GitRules(w, d, Len(d) - 1) \o (IF w.opt.noGitIgnore THEN <<>> ELSE <<Added(w, d, GitIgnore)>>)
              = GitRules(w, d, Len(d))
         /\ IgnoreRules(w, d, Len(d) - 1) \o (IF w.opt.noIgnore THEN <<>> ELSE <<Added(w, d, Ignore)>>)
              = IgnoreRules(w, d, Len(d))
  <1>1. PICK L \in Nat \ {0} : L = Len(d) /\ L - 1 \in 0..Len(d)
    BY NodeFacts
  <1>2. GitIgnore \in {GitIgnore, Ignore} /\ Ignore \in {GitIgnore, Ignore}
    OBVIOUS
  <1>3. PICK a, x, r, s : /\ a = AddGitIgnores(w) /\ x = <<Added(w, d, GitIgnore)>>
                          /\ r = RulesOf(w, d, L - 1, GitIgnore)
                          /\ s = RulesOf(w, d, L, GitIgnore)
    OBVIOUS
  <1>4. a \in Seq(RuleSet(w)) /\ x \in Seq(RuleSet(w)) /\ r \in Seq(RuleSet(w)) /\ s = r \o x
    BY <1>1, <1>2, <1>3, OuterRules, RulesGrow
  <1>5. (a \o r) \o x = a \o s
    BY <1>4, ConcatAssociative
  <1>6. a \o <<>> \in Seq(RuleSet(w)) /\ (a \o <<>>) \o <<>> = a \o <<>>
    BY <1>4, ConcatEmptySeq
  <1>7. GitRules(w, d, L - 1) \o (IF w.opt.noGitIgnore THEN <<>> ELSE x) = GitRules(w, d, L)
    BY <1>3, <1>5, <1>6 DEF GitRules
  <1>8. PICK y, p, q : /\ y = <<Added(w, d, Ignore)>> /\ p = RulesOf(w, d, L - 1, Ignore)
                       /\ q = RulesOf(w, d, L, Ignore)
    OBVIOUS
  <1>9. q = p \o y
    BY <1>1, <1>2, <1>8, RulesGrow
  <1>10. <<>> \o <<>> = <<>>
    OBVIOUS
  <1>11. IgnoreRules(w, d, L - 1) \o (IF w.opt.noIgnore THEN <<>> ELSE y) = IgnoreRules(w, d, L)
    BY <1>8, <1>9, <1>10 DEF IgnoreRules
  <1> QED BY <1>1, <1>3, <1>7, <1>8, <1>11

(* A directory is handed down the rules of its parent.                     *)
LEMMA RulesDown ==
  ASSUME NEW w \in Walks, NEW d \in Nodes(w), NEW n \in Children(w, d)
  PROVE  /\ GitRules(w, n, Len(n) - 1) = GitRules(w, d, Len(d))
         /\ IgnoreRules(w, n, Len(n) - 1) = IgnoreRules(w, d, Len(d))
         /\ Ruled(w, n) = LastWins(GitRules(w, d, Len(d)) \o IgnoreRules(w, d, Len(d)), n)
  <1>1. n \in Nodes(w) /\ Front(n) = d /\ Len(n) = Len(d) + 1 /\ Below(d, n)
    BY ChildBelow
  <1>2. PICK L \in Nat \ {0} : L = Len(d)
    BY NodeFacts
  <1>3. Len(n) - 1 = L /\ L \in 1..Len(n) /\ SubSeq(n, 1, L) = d
    BY <1>1, <1>2 DEF Below
  <1>4. \A i \in 1..L : SubSeq(n, 1, i) = SubSeq(d, 1, i)
    <2> SUFFICES ASSUME NEW i \in 1..L PROVE SubSeq(n, 1, i) = SubSeq(d, 1, i)
      OBVIOUS
    <2>1. SubSeq(SubSeq(n, 1, L), 1, i) = SubSeq(n, 1, i)
      BY <1>1, <1>3, NodePrefix
    <2> QED BY <2>1, <1>3
  <1>5. \A nm : RulesOf(w, n, L, nm) = RulesOf(w, d, L, nm)
    BY <1>4 DEF RulesOf
  <1>6. /\ GitRules(w, n, Len(n) - 1) = GitRules(w, d, Len(d))
        /\ IgnoreRules(w, n, Len(n) - 1) = IgnoreRules(w, d, Len(d))
    BY <1>2, <1>3, <1>5 DEF GitRules, IgnoreRules
  <1> QED BY <1>1, <1>6 DEF Ruled
-----------------------------------------------------------------------------
(* What is wanted.                                                         *)

(* A name in lower case is its own extension's extension.                  *)
LEMMA ExtensionTwice ==
  ASSUME NEW nm \in Seq(STRING), nm # <<>>
  PROVE  GetExtension(GetExtension(nm)) = GetExtension(nm)
  <1>1. \A s : Lower(Lower(s)) = Lower(s)
    BY WalkAssumption DEF WalkAssumption, Lower
  <1>2. PICK low : low = LowerName(nm)
    OBVIOUS
  <1>3. DOMAIN low = DOMAIN nm /\ \A i \in DOMAIN nm : low[i] = Lower(nm[i])
    BY <1>2 DEF LowerName
  <1>4. \A s \in STRING : Lower(s) \in STRING
    BY WalkAssumption DEF WalkAssumption, Lower
  <1>5. /\ Len(nm) \in Nat \ {0} /\ DOMAIN nm = 1..Len(nm)
        /\ \A i \in 1..Len(nm) : nm[i] \in STRING
    BY EmptySeq, LenProperties, ElementOfSeq
  <1>6. low \in Seq(STRING) /\ low # <<>>
    <2>1. low = [i \in DOMAIN nm |-> Lower(nm[i])]
      BY <1>2 DEF LowerName
    <2>2. low \in [1..Len(nm) -> STRING]
      BY <2>1, <1>4, <1>5
    <2>3. low \in Seq(STRING)
      BY <2>2, <1>5, SeqDef
    <2>4. 1 \in DOMAIN low
      BY <1>3, <1>5
    <2> QED BY <2>3, <2>4
  <1>7. LowerName(low) = low
    <2>1. low = [i \in DOMAIN low |-> low[i]]
      BY <1>6
    <2>2. \A i \in DOMAIN low : Lower(low[i]) = low[i]
      BY <1>1, <1>3
    <2> QED BY <2>1, <2>2 DEF LowerName
  <1>8. PICK e : e = GetExtension(nm)
    OBVIOUS
  <1>9. CASE Len(low) = 1 \/ (Len(low) = 2 /\ Hidden(low))
    <2>1. e = low
      BY <1>2, <1>8, <1>9 DEF GetExtension
    <2>2. GetExtension(low) = low
      BY <1>7, <1>9 DEF GetExtension
    <2> QED BY <2>1, <2>2, <1>8
  <1>10. CASE ~(Len(low) = 1 \/ (Len(low) = 2 /\ Hidden(low)))
    <2>1. PICK y : y = Last(low)
      OBVIOUS
    <2>2. e = <<y>>
      BY <1>2, <1>8, <1>10, <2>1 DEF GetExtension
    <2>3. Lower(y) = y
      <3>1. Len(low) \in DOMAIN low /\ y = low[Len(low)]
        BY <2>1, <1>6, LenProperties, EmptySeq DEF Last
      <3> QED BY <3>1, <1>1, <1>3
    <2>4. LowerName(<<y>>) = <<y>>
      <3>1. DOMAIN <<y>> = {1} /\ <<y>>[1] = y /\ <<y>> = [i \in {1} |-> y]
        OBVIOUS
      <3>2. LowerName(<<y>>) = [i \in {1} |-> Lower(<<y>>[i])]
        BY <3>1 DEF LowerName
      <3>3. \A i \in {1} : Lower(<<y>>[i]) = y
        BY <3>1, <2>3
      <3> QED BY <3>1, <3>2, <3>3
    <2>5. GetExtension(<<y>>) = <<y>>
      <3>1. Len(<<y>>) = 1
        OBVIOUS
      <3> QED BY <3>1, <2>4 DEF GetExtension
    <2> QED BY <2>2, <2>5, <1>8
  <1> QED BY <1>9, <1>10

(* The extension of a node is looked at once as well as twice.             *)
LEMMA ExtensionIgnored ==
  ASSUME NEW w \in Walks, NEW n \in Nodes(w)
  PROVE  ExtIgnored(w, NameOf(n))
           <=> ~(/\ w.opt.allowExt = {} \/ GetExtension(NameOf(n)) \in w.opt.allowExt
                 /\ GetExtension(NameOf(n)) \notin w.opt.denyExt)
  <1>1. n \in Seq(Seq(STRING)) /\ n # <<>> /\ \A k \in 1..Len(n) : n[k] # <<>>
    BY WalkAssumption DEF WalkAssumption, Nodes
  <1>2. Last(n) \in Seq(STRING) /\ Last(n) = n[Len(n)] /\ Len(n) \in 1..Len(n)
    BY <1>1, FrontFacts
  <1>3. PICK nm \in Seq(STRING) : nm = NameOf(n) /\ nm # <<>>
    BY <1>1, <1>2 DEF NameOf
  <1>4. PICK e : e = GetExtension(nm) /\ GetExtension(e) = e
    BY <1>3, ExtensionTwice
  <1>5. ExtIgnored(w, nm) <=> \/ w.opt.allowExt # {} /\ {e, e} \cap w.opt.allowExt = {}
                              \/ {e, e} \cap w.opt.denyExt # {}
    BY <1>4 DEF ExtIgnored
  <1>6. ExtIgnored(w, nm) <=> \/ w.opt.allowExt # {} /\ e \notin w.opt.allowExt
                              \/ e \in w.opt.denyExt
    BY <1>5
  <1> QED BY <1>3, <1>4, <1>6

(* The way to an opened directory is readable and not ignored.             *)
LEMMA WayOk ==
  ASSUME NEW w \in Walks, NEW s \in Seq(Frames(w)), NEW f \in Frames(w),
         Chain(w, Append(s, f)), f.at = "files", NEW m \in Path(f.dir)
  PROVE  m \notin w.broken /\ (m # w.root => DirOk(w, m))
  <1>1. PICK t : t = Append(s, f)
    OBVIOUS
  <1>2. PICK L \in Nat : L = Len(t) /\ L \in 1..L /\ t[L] = f
    BY <1>1, AppendAt
  <1>3. /\ \A i \in 1..L : Len(t[i].dir) = i /\ FrameOk(w, t[i])
        /\ \A i, j \in 1..L : i <= j => t[i].dir = SubSeq(t[j].dir, 1, i)
        /\ \A i, j \in 1..L : i < j => Waits(t[i], SubSeq(t[j].dir, 1, i + 1))
    BY <1>1, <1>2 DEF Chain
  <1>4. f.dir \in Nodes(w)
    BY FrameFacts
  <1>5. DOMAIN f.dir = 1..L
    <2>1. DOMAIN f.dir = 1..Len(f.dir)
      BY <1>4, NodeFacts
    <2> QED BY <2>1, <1>2, <1>3
  <1>6. PICK k \in 1..L : m = SubSeq(f.dir, 1, k)
    BY <1>5 DEF Path
  <1>7. t[k].dir = m /\ FrameOk(w, t[k])
    BY <1>2, <1>3, <1>6
  <1>8. t[k].at = "files"
    <2>1. CASE k = L
      BY <2>1, <1>2
    <2>2. CASE k < L
      BY <2>2, <1>2, <1>3 DEF Waits
    <2> QED BY <2>1, <2>2
  <1> QED BY <1>7, <1>8 DEF FrameOk

(* A file of the directory that is read is sent if and only if it is       *)
(* wanted.                                                                 *)
LEMMA WantedIff ==
  ASSUME NEW w \in Walks, NEW s \in Seq(Frames(w)), NEW f \in Frames(w),
         Chain(w, Append(s, f)), f.at = "files", NEW n \in f.files
  PROVE  FileIgnored(w, n, f.gi, f.ig) <=> ~Wanted1(w, n)
  <1>1. FrameOk(w, f)
    BY ChainPop
  <1>2. /\ n \in Children(w, f.dir) /\ ~w.tree[n].dir
        /\ f.gi = GitRules(w, f.dir, Len(f.dir)) /\ f.ig = IgnoreRules(w, f.dir, Len(f.dir))
    <2>1. Ready(f) = Len(f.dir)
      BY DEF Ready
    <2> QED BY <2>1, <1>1 DEF FrameOk
  <1>3. f.dir \in Nodes(w)
    BY FrameFacts
  <1>4. n \in Nodes(w) /\ n # w.root /\ Path(n) = Path(f.dir) \cup {n} /\ Above(n) = Path(f.dir)
    BY <1>2, <1>3, ChildBelow
  <1>5. LastWins(f.gi \o f.ig, n) = Ruled(w, n)
    BY <1>2, <1>3, RulesDown
  <1>6. \A m \in Above(n) : m \notin w.broken /\ (m # w.root => DirOk(w, m))
    BY <1>4, WayOk
  <1>7. /\ Above(n) \cap w.broken = {}
        /\ \A m \in Above(n) \ {w.root} : /\ ~Ruled(w, m) /\ ~NameIgnored(w.opt.dir, NameOf(m))
                                          /\ w.opt.hidden \/ ~Hidden(NameOf(m))
    BY <1>6 DEF DirOk
  <1>8. \A m : m \in Path(n) \ {w.root} <=> m \in Above(n) \ {w.root} \/ m = n
    BY <1>4
  <1>9. Wanted1(w, n) <=> /\ ~Ruled(w, n) /\ ~LocIgnored(w, n)
                          /\ w.opt.hidden \/ ~Hidden(NameOf(n))
                          /\ ~NameIgnored(w.opt.file, NameOf(n))
                          /\ w.opt.allowExt = {} \/ GetExtension(NameOf(n)) \in w.opt.allowExt
                          /\ GetExtension(NameOf(n)) \notin w.opt.denyExt
    BY <1>2, <1>7, <1>8 DEF Wanted1, LocIgnored
  <1>10. ExtIgnored(w, NameOf(n))
           <=> ~(/\ w.opt.allowExt = {} \/ GetExtension(NameOf(n)) \in w.opt.allowExt
                 /\ GetExtension(NameOf(n)) \notin w.opt.denyExt)
    BY <1>4, ExtensionIgnored
  <1> QED BY <1>5, <1>9, <1>10 DEF FileIgnored

(* A directory of the one that is read is entered if and only if it may be.*)
LEMMA EnteredIff ==
  ASSUME NEW w \in Walks, NEW s \in Seq(Frames(w)), NEW f \in Frames(w),
         Chain(w, Append(s, f)), f.at = "files", NEW n \in f.dirs
  PROVE  /\ DirIgnored(w, n, f.gi, f.ig) <=> ~DirOk(w, n)
         /\ f.gi = GitRules(w, n, Len(n) - 1) /\ f.ig = IgnoreRules(w, n, Len(n) - 1)
         /\ n \in Children(w, f.dir) /\ w.tree[n].dir
  <1>1. FrameOk(w, f)
    BY ChainPop
  <1>2. /\ n \in Children(w, f.dir) /\ w.tree[n].dir
        /\ f.gi = GitRules(w, f.dir, Len(f.dir)) /\ f.ig = IgnoreRules(w, f.dir, Len(f.dir))
    <2>1. Ready(f) = Len(f.dir)
      BY DEF Ready
    <2> QED BY <2>1, <1>1 DEF FrameOk
  <1>3. f.dir \in Nodes(w)
    BY FrameFacts
  <1>4. /\ LastWins(f.gi \o f.ig, n) = Ruled(w, n)
        /\ f.gi = GitRules(w, n, Len(n) - 1) /\ f.ig = IgnoreRules(w, n, Len(n) - 1)
    BY <1>2, <1>3, RulesDown
  <1> QED BY <1>2, <1>4 DEF DirIgnored, DirOk

(* Nothing is wanted below a directory that may not be entered or cannot   *)
(* be read.                                                                *)
LEMMA NotWanted ==
  ASSUME NEW w \in Walks, NEW d \in Nodes(w), NEW n \in Nodes(w), Below(d, n),
         (d # w.root /\ ~DirOk(w, d)) \/ d \in w.broken
  PROVE  ~Wanted1(w, n)
  <1>1. d \in Path(n) /\ d \in Above(n)
    BY BelowAbove
  <1>2. CASE d \in w.broken
    BY <1>1, <1>2 DEF Wanted1
  <1>3. CASE d # w.root /\ ~DirOk(w, d)
    BY <1>1, <1>3 DEF Wanted1, DirOk
  <1> QED BY <1>2, <1>3
-----------------------------------------------------------------------------
(* The steps of the walker.                                                *)

(* What an opened directory comes to is what was below it.                 *)
LEMMA OpenFrame ==
  ASSUME NEW w \in Walks, NEW f \in Frames(w), NEW g \in Frames(w),
         FrameOk(w, f), f.at = "enter", f.dir \notin w.broken,
         g.dir = f.dir, g.at = "files",
         g.files = {n \in Children(w, f.dir) : ~w.tree[n].dir},
         g.dirs = {n \in Children(w, f.dir) : w.tree[n].dir},
         g.gi = f.gi \o (IF w.opt.noGitIgnore THEN <<>> ELSE <<Added(w, f.dir, GitIgnore)>>),
         g.ig = f.ig \o (IF w.opt.noIgnore THEN <<>> ELSE <<Added(w, f.dir, Ignore)>>)
  PROVE  /\ FrameOk(w, g)
         /\ \A n \in Nodes(w) : ~w.tree[n].dir => (Pending(g, n) <=> Pending(f, n))
  <1>1. PICK d \in Nodes(w) : d = f.dir
    BY FrameFacts
  <1>2. Ready(f) = Len(d) - 1 /\ Ready(g) = Len(d)
    BY <1>1 DEF Ready
  <1>3. f.gi = GitRules(w, d, Len(d) - 1) /\ f.ig = IgnoreRules(w, d, Len(d) - 1)
    BY <1>1, <1>2 DEF FrameOk
  <1>4. g.gi = GitRules(w, d, Len(d)) /\ g.ig = IgnoreRules(w, d, Len(d))
    BY <1>1, <1>3, RulesOpen, ZenonT(60)
  <1>5. FrameOk(w, g)
    BY <1>1, <1>2, <1>4 DEF FrameOk
  <1>6. ASSUME NEW n \in Nodes(w), ~w.tree[n].dir, Pending(f, n) PROVE Pending(g, n)
    <2>1. Below(d, n)
      BY <1>1, <1>6 DEF Pending
    <2>2. \/ n \in Children(w, d)
          \/ \E c \in Children(w, d) : w.tree[c].dir /\ Below(c, n)
      BY <2>1, BelowStep
    <2> QED BY <2>2, <1>1, <1>6 DEF Pending
  <1>7. ASSUME NEW n \in Nodes(w), ~w.tree[n].dir, Pending(g, n) PROVE Pending(f, n)
    <2>1. \/ n \in Children(w, d)
          \/ \E c \in Children(w, d) : Below(c, n)
      BY <1>1, <1>7 DEF Pending
    <2>2. CASE n \in Children(w, d)
      <3>1. Below(d, n)
        BY <2>2, ChildBelow
      <3> QED BY <3>1, <1>1 DEF Pending
    <2>3. CASE \E c \in Children(w, d) : Below(c, n)
      <3>1. PICK c \in Children(w, d) : Below(c, n)
        BY <2>3
      <3>2. Below(d, n)
        BY <3>1, BelowChild
      <3> QED BY <3>2, <1>1 DEF Pending
    <2> QED BY <2>1, <2>2, <2>3
  <1> QED BY <1>5, <1>6, <1>7

(* The innermost frame.                                                    *)
LEMMA Innermost ==
  ASSUME GlobInv, stack # <<>>
  PROVE  /\ walk \in Walks /\ reader \in Modes /\ ~closed
         /\ \E s \in Seq(Frames(walk)), f \in Frames(walk) :
              /\ stack = Append(s, f) /\ s = Front(stack) /\ f = Last(stack)
              /\ Chain(walk, Append(s, f)) /\ FrameOk(walk, f)
  <1>1. walk \in Walks /\ reader \in Modes /\ stack \in Seq(Frames(walk))
    BY DEF GlobInv, GlobTypeOK
  <1>2. ~closed
    BY DEF GlobInv, SentOk
  <1>3. /\ stack = Append(Front(stack), Last(stack))
        /\ Front(stack) \in Seq(Frames(walk)) /\ Last(stack) \in Frames(walk)
    BY <1>1, FrontLast
  <1>4. PICK s \in Seq(Frames(walk)), f \in Frames(walk) :
          s = Front(stack) /\ f = Last(stack) /\ stack = Append(s, f)
    BY <1>3
  <1>5. Chain(walk, Append(s, f))
    BY <1>4 DEF GlobInv
  <1>6. FrameOk(walk, f)
    BY <1>5, ChainPop
  <1> QED BY <1>1, <1>2, <1>4, <1>5, <1>6

(* A file that was sent is a node.                                         *)
LEMMA SentNodes ==
  ASSUME GlobInv
  PROVE  \A n \in ToSet(emitted) : n \in Nodes(walk) /\ n \in WantedFiles(walk)
  <1>1. emitted \in Seq(Nodes(walk)) /\ \A n \in ToSet(emitted) : Wanted1(walk, n)
    BY DEF GlobInv, GlobTypeOK, SentOk
  <1>2. \A n \in ToSet(emitted) : n \in Nodes(walk)
    BY <1>1, LenProperties, ElementOfSeq DEF ToSet
  <1> QED BY <1>1, <1>2 DEF WantedFiles

(* Nothing of the checksum changes with the stack.                         *)
LEMMA HashSame ==
  ASSUME HashOk,
         UNCHANGED <<walk, queue, closed, emitted, reader, hashing, hashMap, stableList, sum>>
  PROVE  HashOk'
  BY DEF HashOk, SumOk, DoneOk

(* A step of the walker that sends nothing keeps the invariant if it comes *)
(* to the same wanted files.                                               *)
LEMMA WalkerStep ==
  ASSUME GlobInv, walk \in Walks, reader \in Modes, ~closed,
         UNCHANGED <<walk, queue, closed, emitted, reader, hashing, hashMap, stableList, sum>>,
         stack' \in Seq(Frames(walk)), Chain(walk, stack'),
         \A n \in WantedFiles(walk) : Comes(stack', n) => Comes(stack, n),
         cut' \/ (~cut /\ \A n \in WantedFiles(walk) : Comes(stack, n) => Comes(stack', n))
  PROVE  GlobInv'
  <1>1. GlobTypeOK'
    BY DEF GlobInv, GlobTypeOK
  <1>2. SentOk'
    <2>1. \A n \in ToSet(emitted) : n \in WantedFiles(walk)
      BY SentNodes
    <2> QED BY <2>1 DEF GlobInv, SentOk
  <1>3. QueueOk'
    BY DEF GlobInv, QueueOk
  <1>4. HashOk'
    BY HashSame DEF GlobInv
  <1> QED BY <1>1, <1>2, <1>3, <1>4 DEF GlobInv

(* What the wanted files have in common.                                   *)
LEMMA WantedFacts ==
  ASSUME NEW w, NEW n \in WantedFiles(w)
  PROVE  n \in Nodes(w) /\ Wanted1(w, n) /\ ~w.tree[n].dir
  BY DEF WantedFiles, Wanted1

(* The lists of rules are among the known ones.                            *)
LEMMA ListsKnown ==
  ASSUME NEW w \in Walks, NEW d \in Nodes(w)
  PROVE  /\ \A k \in Nat : GitRules(w, d, k) \in GitLists(w) /\ IgnoreRules(w, d, k) \in IgnoreLists(w)
         /\ Len(d) \in Nat /\ Len(d) - 1 \in Nat
  <1>1. Len(d) \in Nat \ {0}
    BY NodeFacts
  <1> QED BY <1>1 DEF GitLists, IgnoreLists

(* The walker enters a directory.                                          *)
LEMMA EnterKeeps ==
  ASSUME GlobInv, EnterDirectory
  PROVE  GlobInv'
  <1>1. stack # <<>>
    BY DEF EnterDirectory
  <1>2. walk \in Walks /\ reader \in Modes /\ ~closed
    BY <1>1, Innermost
  <1>3. PICK w \in Walks, s \in Seq(Frames(walk)), f \in Frames(walk) :
          /\ w = walk /\ stack = Append(s, f) /\ s = Front(stack) /\ f = Last(stack)
          /\ Chain(walk, Append(s, f)) /\ FrameOk(walk, f)
    BY <1>1, <1>2, Innermost
  <1>4. w \in Walks /\ s \in Seq(Frames(w)) /\ f \in Frames(w) /\ Chain(w, Append(s, f)) /\ FrameOk(w, f)
    BY <1>2, <1>3
  <1>5. f.at = "enter"
    BY <1>3 DEF EnterDirectory
  <1>6. UNCHANGED <<walk, queue, closed, emitted, reader, hashing, hashMap, stableList, sum>>
    BY DEF EnterDirectory
  <1>7. f.dir \in Nodes(w)
    BY <1>4, FrameFacts
  <1>8. CASE terminate
    <2>1. stack' = <<>> /\ cut' = TRUE
      BY <1>8 DEF EnterDirectory
    <2>2. stack' \in Seq(Frames(walk)) /\ Chain(walk, stack') /\ \A n : ~Comes(stack', n)
      BY <2>1 DEF Chain, Comes
    <2> QED BY <2>1, <2>2, <1>2, <1>6, WalkerStep
  <1>9. CASE ~terminate /\ f.dir \in w.broken
    <2>1. stack' = s /\ cut' = cut
      BY <1>3, <1>9 DEF EnterDirectory
    <2>2. Chain(w, s)
      BY <1>4, ChainPop
    <2>3. \A n \in WantedFiles(w) : Comes(Append(s, f), n) <=> Comes(s, n)
      <3> SUFFICES ASSUME NEW n \in WantedFiles(w)
                   PROVE  Comes(Append(s, f), n) <=> Comes(s, n)
        OBVIOUS
      <3>1. n \in Nodes(w) /\ Wanted1(w, n)
        BY WantedFacts
      <3>2. ~Below(f.dir, n)
        BY <3>1, <1>4, <1>7, <1>9, NotWanted
      <3>3. ~Pending(f, n)
        BY <3>2, <1>5 DEF Pending
      <3> QED BY <3>3, <1>4, ComesAppend
    <2>4. /\ stack' \in Seq(Frames(walk)) /\ Chain(walk, stack')
          /\ \A n \in WantedFiles(walk) : Comes(stack', n) <=> Comes(stack, n)
      BY <2>1, <2>2, <2>3, <1>3, <1>4
    <2> QED BY <2>1, <2>4, <1>2, <1>6, WalkerStep
  <1>10. CASE ~terminate /\ f.dir \notin w.broken
    <2>1. PICK a, b : /\ a = f.gi \o (IF w.opt.noGitIgnore THEN <<>> ELSE <<Added(w, f.dir, GitIgnore)>>)
                      /\ b = f.ig \o (IF w.opt.noIgnore THEN <<>> ELSE <<Added(w, f.dir, Ignore)>>)
      OBVIOUS
    <2>2. PICK fs, ds : /\ fs = {n \in Children(w, f.dir) : ~w.tree[n].dir}
                        /\ ds = {n \in Children(w, f.dir) : w.tree[n].dir}
      OBVIOUS
    <2>3. PICK g : g = [f EXCEPT !.at = "files", !.files = fs, !.dirs = ds, !.gi = a, !.ig = b]
      OBVIOUS
    <2>4. stack' = Append(s, g) /\ cut' = cut
      BY <1>3, <1>10, <2>1, <2>2, <2>3, ZenonT(60) DEF EnterDirectory
    <2>5. a \in GitLists(w) /\ b \in IgnoreLists(w)
      <3>1. Ready(f) = Len(f.dir) - 1
        BY <1>5 DEF Ready
      <3>2. f.gi = GitRules(w, f.dir, Len(f.dir) - 1) /\ f.ig = IgnoreRules(w, f.dir, Len(f.dir) - 1)
        BY <3>1, <1>4 DEF FrameOk
      <3>3. a = GitRules(w, f.dir, Len(f.dir)) /\ b = IgnoreRules(w, f.dir, Len(f.dir))
        BY <3>2, <2>1, <1>4, <1>7, RulesOpen
      <3> QED BY <3>3, <1>4, <1>7, ListsKnown
    <2>6. fs \subseteq Nodes(w) /\ ds \subseteq Nodes(w)
      BY <2>2 DEF Children
    <2>7. /\ g \in Frames(w) /\ g.dir = f.dir /\ g.at = "files"
          /\ g.files = fs /\ g.dirs = ds /\ g.gi = a /\ g.ig = b
      BY <2>3, <2>5, <2>6, <1>4 DEF Frames
    <2>8. /\ FrameOk(w, g)
          /\ \A n \in Nodes(w) : ~w.tree[n].dir => (Pending(g, n) <=> Pending(f, n))
      BY <2>1, <2>2, <2>7, <1>4, <1>5, <1>10, OpenFrame
    <2>9. Chain(w, Append(s, g))
      BY <2>7, <2>8, <1>4, ChainTop
    <2>10. \A n \in WantedFiles(w) : Comes(Append(s, g), n) <=> Comes(Append(s, f), n)
      <3> SUFFICES ASSUME NEW n \in WantedFiles(w)
                   PROVE  Comes(Append(s, g), n) <=> Comes(Append(s, f), n)
        OBVIOUS
      <3>1. n \in Nodes(w) /\ ~w.tree[n].dir
        BY WantedFacts
      <3>2. Pending(g, n) <=> Pending(f, n)
        BY <3>1, <2>8
      <3>3. Comes(Append(s, g), n) <=> Comes(s, n) \/ Pending(g, n)
        BY <2>7, <1>4, ComesAppend
      <3>4. Comes(Append(s, f), n) <=> Comes(s, n) \/ Pending(f, n)
        BY <1>4, ComesAppend
      <3> QED BY <3>2, <3>3, <3>4
    <2>11. Append(s, g) \in Seq(Frames(w))
      BY <2>7, <1>4, AppendAt
    <2>12. /\ stack' \in Seq(Frames(walk)) /\ Chain(walk, stack')
           /\ \A n \in WantedFiles(walk) : Comes(stack', n) <=> Comes(stack, n)
      BY <2>4, <2>9, <2>10, <2>11, <1>3
    <2> QED BY <2>4, <2>12, <1>2, <1>6, WalkerStep
  <1> QED BY <1>8, <1>9, <1>10

(* The walker comes to a directory.                                        *)
LEMMA DirectoryKeeps ==
  ASSUME GlobInv, NEW n \in Nodes(walk), VisitDirectory(n)
  PROVE  GlobInv'
  <1>1. stack # <<>>
    BY DEF VisitDirectory
  <1>2. walk \in Walks /\ reader \in Modes /\ ~closed
    BY <1>1, Innermost
  <1>3. PICK w \in Walks, s \in Seq(Frames(walk)), f \in Frames(walk) :
          /\ w = walk /\ stack = Append(s, f) /\ s = Front(stack) /\ f = Last(stack)
          /\ Chain(walk, Append(s, f)) /\ FrameOk(walk, f)
    BY <1>1, <1>2, Innermost
  <1>4. w \in Walks /\ s \in Seq(Frames(w)) /\ f \in Frames(w) /\ Chain(w, Append(s, f)) /\ FrameOk(w, f)
    BY <1>2, <1>3
  <1>5. f.at = "files" /\ f.files = {} /\ n \in f.dirs
    BY <1>3 DEF VisitDirectory
  <1>6. UNCHANGED <<walk, queue, closed, emitted, reader, hashing, hashMap, stableList, sum, cut>>
    BY DEF VisitDirectory
  <1>7. f.dir \in Nodes(w) /\ n \in Nodes(w)
    BY <1>3, <1>4, FrameFacts
  <1>8. PICK f2 : f2 = [f EXCEPT !.dirs = @ \ {n}]
    OBVIOUS
  <1>9. /\ f2 \in Frames(w) /\ f2.dir = f.dir /\ f2.at = "files" /\ f2.files = {}
        /\ f2.dirs = f.dirs \ {n} /\ f2.gi = f.gi /\ f2.ig = f.ig
    BY <1>4, <1>5, <1>8 DEF Frames
  <1>10. FrameOk(w, f2)
    <2>1. Ready(f2) = Ready(f)
      BY <1>5, <1>9 DEF Ready
    <2> QED BY <2>1, <1>4, <1>5, <1>9 DEF FrameOk
  <1>11. Chain(w, Append(s, f2)) /\ Append(s, f2) \in Seq(Frames(w))
    BY <1>4, <1>9, <1>10, ChainTop, AppendAt
  <1>12. /\ DirIgnored(w, n, f.gi, f.ig) <=> ~DirOk(w, n)
         /\ f.gi = GitRules(w, n, Len(n) - 1) /\ f.ig = IgnoreRules(w, n, Len(n) - 1)
         /\ n \in Children(w, f.dir) /\ w.tree[n].dir
    BY <1>4, <1>5, EnteredIff
  <1>13. \A x : Pending(f, x) <=> Pending(f2, x) \/ Below(n, x)
    BY <1>5, <1>9 DEF Pending
  <1>14. ASSUME NEW x
         PROVE  Comes(Append(s, f), x) <=> Comes(Append(s, f2), x) \/ Below(n, x)
    <2>1. Comes(Append(s, f2), x) <=> Comes(s, x) \/ Pending(f2, x)
      BY <1>4, <1>9, ComesAppend
    <2>2. Comes(Append(s, f), x) <=> Comes(s, x) \/ Pending(f, x)
      BY <1>4, ComesAppend
    <2> QED BY <2>1, <2>2, <1>13
  <1>15. CASE DirIgnored(w, n, f.gi, f.ig)
    <2>1. stack' = Append(s, f2)
      BY <1>3, <1>8, <1>15 DEF VisitDirectory
    <2>2. \A x \in WantedFiles(w) : ~Below(n, x)
      <3> SUFFICES ASSUME NEW x \in WantedFiles(w), Below(n, x) PROVE FALSE
        OBVIOUS
      <3>1. x \in Nodes(w) /\ Wanted1(w, x)
        BY WantedFacts
      <3>2. n # w.root
        BY <1>12 DEF Children
      <3> QED BY <3>1, <3>2, <1>4, <1>7, <1>12, <1>15, NotWanted
    <2>3. /\ stack' \in Seq(Frames(walk)) /\ Chain(walk, stack')
          /\ \A x \in WantedFiles(walk) : Comes(stack', x) <=> Comes(stack, x)
      BY <2>1, <2>2, <1>3, <1>11, <1>14
    <2> QED BY <2>3, <1>2, <1>6, WalkerStep
  <1>16. CASE ~DirIgnored(w, n, f.gi, f.ig)
    <2>1. PICK g : g = [dir |-> n, at |-> "enter", files |-> {}, dirs |-> {}, gi |-> f.gi, ig |-> f.ig]
      OBVIOUS
    <2>2. stack' = Append(Append(s, f2), g)
      BY <1>3, <1>8, <1>16, <2>1 DEF VisitDirectory
    <2>3. /\ g \in Frames(w) /\ g.dir = n /\ g.at = "enter" /\ g.files = {} /\ g.dirs = {}
          /\ g.gi = f.gi /\ g.ig = f.ig
      BY <2>1, <1>4, <1>7 DEF Frames
    <2>4. FrameOk(w, g)
      <3>1. Ready(g) = Len(n) - 1
        BY <2>3 DEF Ready
      <3> QED BY <3>1, <2>3, <1>12, <1>16 DEF FrameOk
    <2>5. g.dir \in Children(w, f2.dir) /\ Waits(f2, g.dir)
      BY <2>3, <1>9, <1>12 DEF Waits
    <2>6. Chain(w, Append(Append(s, f2), g))
      BY <2>3, <2>4, <2>5, <1>4, <1>9, <1>11, ChainPush
    <2>7. Append(Append(s, f2), g) \in Seq(Frames(w))
      BY <2>3, <1>11, AppendAt
    <2>8. ASSUME NEW x
          PROVE  Comes(Append(Append(s, f2), g), x) <=> Comes(Append(s, f), x)
      <3>1. Comes(Append(Append(s, f2), g), x) <=> Comes(Append(s, f2), x) \/ Pending(g, x)
        BY <2>3, <1>11, ComesAppend
      <3>2. Pending(g, x) <=> Below(n, x)
        BY <2>3 DEF Pending
      <3> QED BY <3>1, <3>2, <1>14
    <2>9. /\ stack' \in Seq(Frames(walk)) /\ Chain(walk, stack')
          /\ \A x \in WantedFiles(walk) : Comes(stack', x) <=> Comes(stack, x)
      BY <2>2, <2>6, <2>7, <2>8, <1>3
    <2> QED BY <2>9, <1>2, <1>6, WalkerStep
  <1> QED BY <1>15, <1>16

(* The walker leaves a directory.                                          *)
LEMMA LeaveKeeps ==
  ASSUME GlobInv, LeaveDirectory
  PROVE  GlobInv'
  <1>1. stack # <<>>
    BY DEF LeaveDirectory
  <1>2. walk \in Walks /\ reader \in Modes /\ ~closed
    BY <1>1, Innermost
  <1>3. PICK w \in Walks, s \in Seq(Frames(walk)), f \in Frames(walk) :
          /\ w = walk /\ stack = Append(s, f) /\ s = Front(stack) /\ f = Last(stack)
          /\ Chain(walk, Append(s, f)) /\ FrameOk(walk, f)
    BY <1>1, <1>2, Innermost
  <1>4. f.at = "files" /\ f.files = {} /\ f.dirs = {} /\ stack' = s
    BY <1>3 DEF LeaveDirectory
  <1>5. UNCHANGED <<walk, queue, closed, emitted, reader, hashing, hashMap, stableList, sum, cut>>
    BY DEF LeaveDirectory
  <1>6. Chain(walk, s)
    BY <1>3, ChainPop
  <1>7. ASSUME NEW x PROVE Comes(Append(s, f), x) <=> Comes(s, x)
    <2>1. ~Pending(f, x)
      BY <1>4 DEF Pending
    <2> QED BY <2>1, <1>3, ComesAppend
  <1>8. \A x : Comes(stack', x) <=> Comes(stack, x)
    BY <1>3, <1>4, <1>7
  <1>9. stack' \in Seq(Frames(walk)) /\ Chain(walk, stack')
    BY <1>3, <1>4, <1>6
  <1> QED BY <1>8, <1>9, <1>2, <1>5, WalkerStep
-----------------------------------------------------------------------------
(* The channel.                                                            *)

(* A list with one more element.                                           *)
LEMMA AppendSet ==
  ASSUME NEW S, NEW s \in Seq(S), NEW e \in S
  PROVE  /\ Append(s, e) \in Seq(S)
         /\ ToSet(Append(s, e)) = ToSet(s) \cup {e}
         /\ Distinct(s) /\ e \notin ToSet(s) => Distinct(Append(s, e))
  <1>1. PICK a \in Seq(S) : a = Append(s, e)
    BY AppendAt
  <1>2. PICK L \in Nat : L = Len(s)
    BY LenProperties
  <1>3. /\ Len(a) = L + 1 /\ a[L + 1] = e /\ L + 1 \in 1..(L + 1)
        /\ \A i \in 1..L : i \in 1..(L + 1) /\ a[i] = s[i]
        /\ \A i \in 1..(L + 1) : i \in 1..L \/ i = L + 1
    BY <1>1, <1>2, AppendAt
  <1>4. DOMAIN s = 1..L /\ DOMAIN a = 1..(L + 1)
    BY <1>2, <1>3, LenProperties
  <1>5. ToSet(a) = ToSet(s) \cup {e}
    <2>1. ASSUME NEW x \in ToSet(a) PROVE x \in ToSet(s) \cup {e}
      BY <1>3, <1>4 DEF ToSet
    <2>2. ASSUME NEW x \in ToSet(s) \cup {e} PROVE x \in ToSet(a)
      BY <1>3, <1>4 DEF ToSet
    <2> QED BY <2>1, <2>2
  <1>6. ASSUME Distinct(s), e \notin ToSet(s) PROVE Distinct(a)
    <2>1. \A k \in 1..L : s[k] # e
      BY <1>4, <1>6 DEF ToSet
    <2> QED BY <2>1, <1>3, <1>4, <1>6 DEF Distinct
  <1> QED BY <1>1, <1>5, <1>6

(* What is sent is not yet taken.                                          *)
LEMMA TakenSent ==
  ASSUME NEW S, NEW e \in Seq(S), NEW q \in Seq(S), EndOf(e, q), NEW n \in S
  PROVE  /\ EndOf(Append(e, n), Append(q, n))
         /\ Taken(Append(e, n), Append(q, n)) = Taken(e, q)
  <1>1. PICK a, b : a = Append(e, n) /\ b = Append(q, n)
    OBVIOUS
  <1>2. PICK E \in Nat, Q \in Nat : E = Len(e) /\ Q = Len(q)
    BY LenProperties
  <1>3. /\ Len(a) = E + 1 /\ a[E + 1] = n /\ Len(b) = Q + 1 /\ b[Q + 1] = n
        /\ \A i \in 1..E : a[i] = e[i]
        /\ \A i \in 1..Q : b[i] = q[i]
        /\ \A i \in 1..(Q + 1) : i \in 1..Q \/ i = Q + 1
    BY <1>1, <1>2, AppendAt
  <1>4. Q <= E /\ \A i \in 1..Q : q[i] = e[(E - Q) + i] /\ (E - Q) + i \in 1..E
    <2>1. Q <= E /\ \A i \in 1..Q : q[i] = e[(E - Q) + i]
      BY <1>2 DEF EndOf
    <2>2. \A i \in 1..Q : (E - Q) + i \in 1..E
      BY <2>1
    <2> QED BY <2>1, <2>2
  <1>5. (E + 1) - (Q + 1) = E - Q /\ (E - Q) + (Q + 1) = E + 1 /\ Q + 1 <= E + 1
    BY <1>4
  <1>6. \A i \in 1..(Q + 1) : b[i] = a[(E - Q) + i]
    <2> SUFFICES ASSUME NEW i \in 1..(Q + 1) PROVE b[i] = a[(E - Q) + i]
      OBVIOUS
    <2>1. CASE i \in 1..Q
      BY <2>1, <1>3, <1>4
    <2>2. CASE i = Q + 1
      BY <2>2, <1>3, <1>5
    <2> QED BY <2>1, <2>2, <1>3
  <1>7. EndOf(a, b)
    BY <1>3, <1>5, <1>6 DEF EndOf
  <1>8. \A i \in 1..(E - Q) : i \in 1..E
    BY <1>4
  <1>9. Taken(a, b) = Taken(e, q)
    <2>1. ASSUME NEW x \in Taken(a, b) PROVE x \in Taken(e, q)
      BY <1>2, <1>3, <1>5, <1>8 DEF Taken
    <2>2. ASSUME NEW x \in Taken(e, q) PROVE x \in Taken(a, b)
      BY <1>2, <1>3, <1>5, <1>8 DEF Taken
    <2> QED BY <2>1, <2>2
  <1> QED BY <1>1, <1>7, <1>9

(* The first of the channel is the next to be taken.                       *)
LEMMA TakenNext ==
  ASSUME NEW S, NEW e \in Seq(S), NEW q \in Seq(S), EndOf(e, q), q # <<>>
  PROVE  /\ EndOf(e, Tail(q)) /\ Head(q) \in S /\ Tail(q) \in Seq(S)
         /\ Taken(e, Tail(q)) = Taken(e, q) \cup {Head(q)}
         /\ Distinct(e) => Head(q) \notin Taken(e, q)
  <1>1. PICK E \in Nat, Q \in Nat : E = Len(e) /\ Q = Len(q)
    BY LenProperties
  <1>2. PICK r \in Seq(S) : /\ r = Tail(q) /\ Len(r) = Q - 1
                            /\ \A i \in 1..(Q - 1) : r[i] = q[i + 1]
    <2>1. /\ Tail(q) \in Seq(S) /\ Len(Tail(q)) = Len(q) - 1
          /\ \A i \in 1..Len(Tail(q)) : Tail(q)[i] = q[i + 1]
      BY HeadTailProperties
    <2> QED BY <2>1, <1>1
  <1>3. Q >= 1 /\ q[1] \in S /\ Head(q) = q[1]
    BY <1>1, EmptySeq, ElementOfSeq
  <1>4. Q <= E /\ \A i \in 1..Q : q[i] = e[(E - Q) + i]
    BY <1>1 DEF EndOf
  <1>5. E - (Q - 1) = (E - Q) + 1 /\ Q - 1 <= E
    BY <1>4
  <1>6. \A i \in 1..(Q - 1) : r[i] = e[(E - (Q - 1)) + i]
    <2> SUFFICES ASSUME NEW i \in 1..(Q - 1) PROVE r[i] = e[(E - (Q - 1)) + i]
      OBVIOUS
    <2>1. i + 1 \in 1..Q /\ (E - Q) + (i + 1) = (E - (Q - 1)) + i
      OBVIOUS
    <2> QED BY <2>1, <1>2, <1>4
  <1>7. EndOf(e, r)
    BY <1>1, <1>2, <1>5, <1>6 DEF EndOf
  <1>8. Head(q) = e[(E - Q) + 1] /\ (E - Q) + 1 \in 1..E
    BY <1>3, <1>4
  <1>9. /\ (E - Q) + 1 \in 1..((E - Q) + 1)
        /\ \A i \in 1..(E - Q) : i \in 1..((E - Q) + 1) /\ i # (E - Q) + 1 /\ i \in 1..E
        /\ \A i \in 1..((E - Q) + 1) : i \in 1..(E - Q) \/ i = (E - Q) + 1
    BY <1>4
  <1>10. Taken(e, q) = {e[i] : i \in 1..(E - Q)} /\ Taken(e, r) = {e[i] : i \in 1..((E - Q) + 1)}
    BY <1>1, <1>2, <1>5 DEF Taken
  <1>11. Taken(e, r) = Taken(e, q) \cup {Head(q)}
    <2>1. ASSUME NEW x \in Taken(e, r) PROVE x \in Taken(e, q) \cup {Head(q)}
      BY <1>8, <1>9, <1>10
    <2>2. ASSUME NEW x \in Taken(e, q) \cup {Head(q)} PROVE x \in Taken(e, r)
      BY <1>8, <1>9, <1>10
    <2> QED BY <2>1, <2>2
  <1>12. Distinct(e) => Head(q) \notin Taken(e, q)
    <2>1. DOMAIN e = 1..E
      BY <1>1, LenProperties
    <2> QED BY <2>1, <1>8, <1>9, <1>10 DEF Distinct
  <1> QED BY <1>2, <1>3, <1>7, <1>11, <1>12

(* When the channel is empty all was taken.                                *)
LEMMA TakenAll ==
  ASSUME NEW S, NEW e \in Seq(S)
  PROVE  Taken(e, <<>>) = ToSet(e)
  <1>1. Len(<<>>) = 0 /\ Len(e) \in Nat /\ DOMAIN e = 1..Len(e)
    BY LenProperties
  <1>2. Len(e) - 0 = Len(e)
    BY <1>1
  <1> QED BY <1>1, <1>2 DEF Taken, ToSet

(* What was taken was sent.                                                *)
LEMMA TakenOf ==
  ASSUME NEW S, NEW e \in Seq(S), NEW q \in Seq(S), EndOf(e, q)
  PROVE  Taken(e, q) \subseteq ToSet(e)
  <1>1. PICK E \in Nat, Q \in Nat : E = Len(e) /\ Q = Len(q) /\ DOMAIN e = 1..E
    BY LenProperties
  <1>2. \A i \in 1..(E - Q) : i \in 1..E
    BY <1>1
  <1> QED BY <1>1, <1>2 DEF Taken, ToSet

(* The walker comes to a file.                                             *)
LEMMA FileKeeps ==
  ASSUME GlobInv, NEW n \in Nodes(walk), VisitFile(n)
  PROVE  GlobInv'
  <1>1. stack # <<>>
    BY DEF VisitFile
  <1>2. walk \in Walks /\ reader \in Modes /\ ~closed
    BY <1>1, Innermost
  <1>3. PICK w \in Walks, s \in Seq(Frames(walk)), f \in Frames(walk) :
          /\ w = walk /\ stack = Append(s, f) /\ s = Front(stack) /\ f = Last(stack)
          /\ Chain(walk, Append(s, f)) /\ FrameOk(walk, f)
    BY <1>1, <1>2, Innermost
  <1>4. w \in Walks /\ s \in Seq(Frames(w)) /\ f \in Frames(w) /\ Chain(w, Append(s, f)) /\ FrameOk(w, f)
    BY <1>2, <1>3
  <1>5. f.at = "files" /\ n \in f.files
    BY <1>3 DEF VisitFile
  <1>6. UNCHANGED <<walk, closed, reader, hashing, hashMap, stableList, sum, cut>>
    BY DEF VisitFile
  <1>7. f.dir \in Nodes(w) /\ n \in Nodes(w) /\ n \in Children(w, f.dir)
    BY <1>3, <1>4, <1>5, FrameFacts DEF FrameOk
  <1>8. PICK f2 : f2 = [f EXCEPT !.files = @ \ {n}]
    OBVIOUS
  <1>9. /\ f2 \in Frames(w) /\ f2.dir = f.dir /\ f2.at = "files" /\ f2.files = f.files \ {n}
        /\ f2.dirs = f.dirs /\ f2.gi = f.gi /\ f2.ig = f.ig
    BY <1>4, <1>5, <1>8 DEF Frames
  <1>10. FrameOk(w, f2)
    <2>1. Ready(f2) = Ready(f)
      BY <1>5, <1>9 DEF Ready
    <2> QED BY <2>1, <1>4, <1>5, <1>9 DEF FrameOk
  <1>11. Chain(w, Append(s, f2)) /\ Append(s, f2) \in Seq(Frames(w))
    BY <1>4, <1>9, <1>10, ChainTop, AppendAt
  <1>12. FileIgnored(w, n, f.gi, f.ig) <=> ~Wanted1(w, n)
    BY <1>4, <1>5, WantedIff
  <1>13. \A x : Pending(f, x) <=> Pending(f2, x) \/ x = n
    BY <1>5, <1>9 DEF Pending
  <1>14. ASSUME NEW x
         PROVE  Comes(Append(s, f), x) <=> Comes(Append(s, f2), x) \/ x = n
    <2>1. Comes(Append(s, f2), x) <=> Comes(s, x) \/ Pending(f2, x)
      BY <1>4, <1>9, ComesAppend
    <2>2. Comes(Append(s, f), x) <=> Comes(s, x) \/ Pending(f, x)
      BY <1>4, ComesAppend
    <2> QED BY <2>1, <2>2, <1>13
  <1>15. stack' = Append(s, f2)
    BY <1>3, <1>8 DEF VisitFile
  <1>16. stack' \in Seq(Frames(walk)) /\ Chain(walk, stack')
    BY <1>3, <1>11, <1>15
  <1>17. \A x : Comes(stack, x) <=> Comes(stack', x) \/ x = n
    BY <1>3, <1>14, <1>15
  <1>18. CASE FileIgnored(w, n, f.gi, f.ig)
    <2>1. UNCHANGED <<queue, emitted>>
      BY <1>3, <1>18 DEF VisitFile
    <2>2. \A x \in WantedFiles(walk) : x # n
      BY <1>3, <1>12, <1>18, WantedFacts
    <2>3. \A x \in WantedFiles(walk) : Comes(stack, x) <=> Comes(stack', x)
      BY <2>2, <1>17
    <2> QED BY <2>1, <2>3, <1>2, <1>6, <1>16, WalkerStep
  <1>19. CASE ~FileIgnored(w, n, f.gi, f.ig)
    <2>1. queue' = Append(queue, n) /\ emitted' = Append(emitted, n)
      BY <1>3, <1>19 DEF VisitFile
    <2>2. emitted \in Seq(Nodes(walk)) /\ queue \in Seq(Nodes(walk)) /\ EndOf(emitted, queue)
      BY DEF GlobInv, GlobTypeOK, QueueOk
    <2>3. Wanted1(walk, n) /\ Comes(stack, n)
      BY <1>3, <1>12, <1>17, <1>19
    <2>4. n \notin ToSet(emitted)
      BY <2>3 DEF GlobInv, SentOk
    <2>5. /\ emitted' \in Seq(Nodes(walk)) /\ ToSet(emitted') = ToSet(emitted) \cup {n}
          /\ Distinct(emitted')
      <3>1. Distinct(emitted)
        BY DEF GlobInv, SentOk
      <3> QED BY <3>1, <2>1, <2>2, <2>4, AppendSet
    <2>6. queue' \in Seq(Nodes(walk))
      BY <2>1, <2>2, AppendSet
    <2>7. EndOf(emitted', queue') /\ Taken(emitted', queue') = Taken(emitted, queue)
      BY <2>1, <2>2, TakenSent
    <2>8. ~Comes(stack', n)
      <3>1. Below(f.dir, n) /\ Len(n) = Len(f.dir) + 1
        BY <1>4, <1>7, ChildBelow
      <3>2. ~Comes(s, n)
        BY <3>1, <1>4, <1>7, Elsewhere
      <3>3. ASSUME NEW d \in f2.dirs PROVE ~Below(d, n)
        <4>1. d \in Children(w, f.dir)
          BY <1>4, <1>9, <3>3 DEF FrameOk
        <4>2. Len(d) = Len(f.dir) + 1
          BY <4>1, <1>4, <1>7, ChildBelow
        <4>3. Len(n) \in Nat
          BY <1>4, <1>7, NodeFacts
        <4>4. \A l \in Nat : ~(l < l)
          OBVIOUS
        <4> QED BY <4>2, <4>3, <4>4, <3>1 DEF Below
      <3>4. ~Pending(f2, n)
        BY <3>3, <1>9 DEF Pending
      <3>5. ~Comes(Append(s, f2), n)
        BY <3>2, <3>4, <1>4, <1>9, ComesAppend
      <3> QED BY <3>5, <1>15
    <2>9. GlobTypeOK'
      <3>1. hashing \in SUBSET Nodes(walk) /\ stableList \in Seq(Locs(walk))
        BY DEF GlobInv, GlobTypeOK
      <3> QED BY <3>1, <2>5, <2>6, <1>2, <1>6, <1>16 DEF GlobTypeOK
    <2>10. SentOk'
      <3>1. \A x \in ToSet(emitted') : Wanted1(walk, x) /\ ~Comes(stack', x)
        <4>1. \A x \in ToSet(emitted) : Wanted1(walk, x) /\ ~Comes(stack, x)
          BY DEF GlobInv, SentOk
        <4> QED BY <4>1, <2>3, <2>5, <2>8, <1>17
      <3>2. ~cut => \A x \in WantedFiles(walk) : x \in ToSet(emitted') \/ Comes(stack', x)
        <4>1. ~cut => \A x \in WantedFiles(walk) : x \in ToSet(emitted) \/ Comes(stack, x)
          BY DEF GlobInv, SentOk
        <4> QED BY <4>1, <2>5, <1>17
      <3> QED BY <3>1, <3>2, <2>5, <1>2, <1>6 DEF SentOk
    <2>11. HashOk'
      <3>1. HashOk /\ (reader.mode = "hash" => reader.at # "done")
        BY <1>2 DEF GlobInv, HashOk, DoneOk
      <3> QED BY <3>1, <2>7, <1>6 DEF HashOk, SumOk, DoneOk
    <2>12. Chain(walk, stack)' /\ QueueOk'
      BY <2>7, <1>6, <1>16 DEF QueueOk
    <2> QED BY <2>9, <2>10, <2>11, <2>12 DEF GlobInv
  <1> QED BY <1>18, <1>19

(* A walk starts.                                                          *)
LEMMA StartKeeps ==
  ASSUME GlobInv, NEW w \in Walks, NEW mode \in {"each", "hash"}, StartWalk(w, mode)
  PROVE  GlobInv'
  <1>1. reader = NoReader
    BY DEF StartWalk
  <1>2. NoReader \notin Modes
    BY DEF NoReader, Modes
  <1>3. /\ queue = <<>> /\ emitted = <<>> /\ hashing = {} /\ stableList = <<>> /\ closed = FALSE
    BY <1>1, <1>2 DEF GlobInv, GlobTypeOK
  <1>4. PICK f : f = [dir |-> w.root, at |-> "enter", files |-> {}, dirs |-> {},
                      gi |-> AddGitIgnores(w), ig |-> <<>>]
    OBVIOUS
  <1>5. walk' = w /\ stack' = <<f>> /\ reader' = [mode |-> mode, at |-> "range"]
    BY <1>4 DEF StartWalk
  <1>6. UNCHANGED <<queue, closed, emitted, hashing, stableList, cut>>
    BY DEF StartWalk
  <1>7. w.root \in Nodes(w) /\ Len(w.root) = 1 /\ w.tree[w.root].dir
    BY WalkAssumption DEF WalkAssumption, Nodes
  <1>8. /\ AddGitIgnores(w) = GitRules(w, w.root, 0) /\ <<>> = IgnoreRules(w, w.root, 0)
    <2>1. \A nm : RulesOf(w, w.root, 0, nm) = <<>>
      BY DEF RulesOf
    <2>2. AddGitIgnores(w) \in Seq(RuleSet(w))
      BY OuterRules
    <2>3. AddGitIgnores(w) \o <<>> = AddGitIgnores(w)
      BY <2>2, ConcatEmptySeq
    <2> QED BY <2>1, <2>3 DEF GitRules, IgnoreRules
  <1>9. AddGitIgnores(w) \in GitLists(w) /\ <<>> \in IgnoreLists(w)
    BY <1>7, <1>8 DEF GitLists, IgnoreLists
  <1>10. /\ f \in Frames(w) /\ f.dir = w.root /\ f.at = "enter" /\ f.files = {} /\ f.dirs = {}
         /\ f.gi = AddGitIgnores(w) /\ f.ig = <<>>
    BY <1>4, <1>7, <1>9 DEF Frames
  <1>11. FrameOk(w, f)
    <2>1. Ready(f) = 0
      BY <1>7, <1>10 DEF Ready
    <2> QED BY <2>1, <1>7, <1>8, <1>10 DEF FrameOk
  <1>12. PICK t : t = <<f>> /\ Len(t) = 1 /\ t[1] = f /\ t \in Seq(Frames(w))
    <2>1. \A S : \A x \in S : <<x>> \in Seq(S) /\ Len(<<x>>) = 1 /\ <<x>>[1] = x
      OBVIOUS
    <2>2. <<f>> \in Seq(Frames(w)) /\ Len(<<f>>) = 1 /\ <<f>>[1] = f
      BY <2>1, <1>10
    <2> QED BY <2>2
  <1>13. Chain(w, t)
    <2>1. SubSeq(w.root, 1, 1) = w.root
      <3>1. SubSeq(w.root, 1, Len(w.root)) = w.root
        BY <1>7, NodeFacts
      <3> QED BY <3>1, <1>7
    <2>2. \A i \in 1..Len(t) : i = 1 /\ t[i] = f
      BY <1>12
    <2>3. ~(1 < 1)
      OBVIOUS
    <2>4. \A i \in 1..Len(t) : Len(t[i].dir) = i /\ FrameOk(w, t[i])
      BY <2>2, <1>7, <1>10, <1>11
    <2>5. \A i, j \in 1..Len(t) : t[i].dir = SubSeq(t[j].dir, 1, i)
      BY <2>1, <2>2, <1>10
    <2>6. \A i, j \in 1..Len(t) : ~(i < j)
      BY <2>2, <2>3
    <2> QED BY <2>4, <2>5, <2>6 DEF Chain
  <1>14. \A n \in WantedFiles(w) : Comes(t, n)
    <2> SUFFICES ASSUME NEW n \in WantedFiles(w) PROVE Comes(t, n)
      OBVIOUS
    <2>1. n \in Nodes(w) /\ ~w.tree[n].dir
      BY WantedFacts
    <2>2. n # w.root
      BY <2>1, <1>7
    <2>3. Len(n) > 1 /\ SubSeq(n, 1, 1) = w.root
      BY <2>1, <2>2, NodeFacts
    <2>4. Below(w.root, n)
      BY <2>3, <1>7 DEF Below
    <2>5. Pending(f, n)
      BY <2>4, <1>10 DEF Pending
    <2> QED BY <2>5, <1>12 DEF Comes
  <1>15. reader' \in Modes
    BY <1>5 DEF Modes
  <1>16. GlobTypeOK'
    BY <1>3, <1>5, <1>6, <1>12, <1>15 DEF GlobTypeOK
  <1>17. ToSet(<<>>) = {} /\ Distinct(<<>>)
    BY DEF ToSet, Distinct
  <1>18. SentOk'
    BY <1>3, <1>5, <1>6, <1>12, <1>14, <1>17 DEF SentOk
  <1>19. EndOf(<<>>, <<>>) /\ Taken(<<>>, <<>>) = {}
    BY DEF EndOf, Taken
  <1>20. QueueOk'
    BY <1>3, <1>6, <1>19 DEF QueueOk
  <1>21. HashOk'
    <2>1. reader'.at # "done"
      BY <1>5
    <2> QED BY <2>1, <1>3, <1>6, <1>17, <1>19 DEF HashOk, SumOk, DoneOk
  <1>22. Chain(walk, stack)'
    BY <1>5, <1>12, <1>13
  <1> QED BY <1>16, <1>18, <1>20, <1>21, <1>22 DEF GlobInv

(* The walk ends, is cancelled or is told to end.                          *)
LEMMA EndKeeps ==
  ASSUME GlobInv, EndWalk \/ CancelWalk \/ Terminate
  PROVE  GlobInv'
  <1>1. UNCHANGED <<walk, stack, queue, emitted, cut, reader, hashing, hashMap, stableList, sum>>
    BY DEF EndWalk, CancelWalk, Terminate
  <1>2. closed' = closed \/ (stack = <<>> /\ reader # NoReader /\ closed' = TRUE)
    BY DEF EndWalk, CancelWalk, Terminate
  <1>3. GlobTypeOK'
    BY <1>1, <1>2 DEF GlobInv, GlobTypeOK
  <1>4. SentOk'
    BY <1>1, <1>2 DEF GlobInv, SentOk
  <1>5. QueueOk' /\ Chain(walk, stack)'
    BY <1>1 DEF GlobInv, QueueOk
  <1>6. HashOk'
    BY <1>1, <1>2 DEF GlobInv, HashOk, SumOk, DoneOk
  <1> QED BY <1>3, <1>4, <1>5, <1>6 DEF GlobInv
-----------------------------------------------------------------------------
(* The steps of the readers.                                               *)

(* The channel is read.                                                    *)
LEMMA ReadKeeps ==
  ASSUME GlobInv, queue # <<>>, queue' = Tail(queue), reader' \in Modes,
         UNCHANGED <<walk, stack, closed, emitted, cut, hashMap, stableList, sum>>,
         hashing' \in SUBSET Nodes(walk), HashOk'
  PROVE  GlobInv'
  <1>1. /\ queue \in Seq(Nodes(walk)) /\ emitted \in Seq(Nodes(walk)) /\ EndOf(emitted, queue)
        /\ walk \in Walks /\ stack \in Seq(Frames(walk)) /\ stableList \in Seq(Locs(walk))
    BY DEF GlobInv, GlobTypeOK, QueueOk
  <1>2. EndOf(emitted, queue') /\ queue' \in Seq(Nodes(walk))
    BY <1>1, TakenNext
  <1>3. GlobTypeOK'
    BY <1>1, <1>2 DEF GlobTypeOK
  <1>4. SentOk'
    BY DEF GlobInv, SentOk
  <1>5. QueueOk' /\ Chain(walk, stack)'
    BY <1>2 DEF GlobInv, QueueOk
  <1> QED BY <1>3, <1>4, <1>5 DEF GlobInv

(* A reader is one of the two.                                             *)
LEMMA ReaderMode ==
  ASSUME GlobInv, reader.mode \in {"each", "hash"}
  PROVE  reader \in Modes /\ walk \in Walks /\ [reader EXCEPT !.at = "done"] \in Modes
  <1>1. reader # NoReader
    BY DEF NoReader
  <1>2. reader \in Modes /\ walk \in Walks
    BY <1>1 DEF GlobInv, GlobTypeOK
  <1> QED BY <1>2 DEF Modes

(* A callback gets a file.                                                 *)
LEMMA EachKeeps ==
  ASSUME GlobInv, NEW more \in BOOLEAN, ForEach(more)
  PROVE  GlobInv'
  <1>1. reader.mode = "each" /\ queue # <<>> /\ queue' = Tail(queue)
    BY DEF ForEach
  <1>2. UNCHANGED <<walk, stack, closed, emitted, cut, hashing, hashMap, stableList, sum>>
    BY DEF ForEach
  <1>3. reader \in Modes /\ walk \in Walks /\ [reader EXCEPT !.at = "done"] \in Modes
    BY <1>1, ReaderMode
  <1>4. reader' \in Modes /\ reader'.mode = "each"
    <2>1. reader' = reader \/ reader' = [reader EXCEPT !.at = "done"]
      BY DEF ForEach
    <2>2. [reader EXCEPT !.at = "done"].mode = reader.mode
      BY <1>3 DEF Modes
    <2> QED BY <2>1, <2>2, <1>1, <1>3
  <1>5. HashOk'
    BY <1>4 DEF HashOk
  <1>6. hashing' \in SUBSET Nodes(walk)
    BY <1>2 DEF GlobInv, GlobTypeOK
  <1> QED BY <1>1, <1>2, <1>4, <1>5, <1>6, ReadKeeps

(* The channel ends.                                                       *)
LEMMA EachEndsKeeps ==
  ASSUME GlobInv, ForEachEnds
  PROVE  GlobInv'
  <1>1. reader.mode = "each" /\ reader' = [reader EXCEPT !.at = "done"]
    BY DEF ForEachEnds
  <1>2. UNCHANGED <<walk, stack, queue, closed, emitted, cut, hashing, hashMap, stableList, sum>>
    BY DEF ForEachEnds
  <1>3. reader \in Modes /\ walk \in Walks /\ [reader EXCEPT !.at = "done"] \in Modes
    BY <1>1, ReaderMode
  <1>4. reader' \in Modes /\ reader'.mode = "each"
    BY <1>1, <1>3 DEF Modes
  <1>5. GlobTypeOK'
    BY <1>2, <1>3, <1>4 DEF GlobInv, GlobTypeOK
  <1>6. SentOk' /\ QueueOk' /\ Chain(walk, stack)'
    BY <1>2 DEF GlobInv, SentOk, QueueOk
  <1>7. HashOk'
    BY <1>4 DEF HashOk
  <1> QED BY <1>5, <1>6, <1>7 DEF GlobInv

(* A file is taken to be hashed.                                           *)
LEMMA HashNextKeeps ==
  ASSUME GlobInv, HashNext
  PROVE  GlobInv'
  <1>1. /\ reader.mode = "hash" /\ reader.at = "range" /\ queue # <<>> /\ queue' = Tail(queue)
        /\ hashing' = hashing \cup {Head(queue)}
    BY DEF HashNext
  <1>2. UNCHANGED <<walk, stack, closed, emitted, cut, reader, hashMap, stableList, sum>>
    BY DEF HashNext
  <1>3. reader' \in Modes
    BY <1>1, <1>2, ReaderMode
  <1>4. /\ queue \in Seq(Nodes(walk)) /\ emitted \in Seq(Nodes(walk)) /\ EndOf(emitted, queue)
        /\ Distinct(emitted) /\ hashing \in SUBSET Nodes(walk)
    BY DEF GlobInv, GlobTypeOK, QueueOk, SentOk
  <1>5. PICK h : h = Head(queue)
    OBVIOUS
  <1>6. /\ Taken(emitted, queue') = Taken(emitted, queue) \cup {h} /\ h \notin Taken(emitted, queue)
        /\ h \in Nodes(walk)
    BY <1>1, <1>4, <1>5, TakenNext
  <1>7. Taken(emitted, queue') \ hashing' = Taken(emitted, queue) \ hashing
    BY <1>1, <1>5, <1>6
  <1>8. SumOk'
    <2>1. SumOk
      BY <1>1 DEF GlobInv, HashOk
    <2>2. hashing' \subseteq Taken(emitted, queue')
      BY <2>1, <1>1, <1>5, <1>6 DEF SumOk
    <2> QED BY <2>1, <2>2, <1>2, <1>7 DEF SumOk
  <1>9. HashOk'
    BY <1>1, <1>2, <1>8 DEF HashOk, DoneOk
  <1>10. hashing' \in SUBSET Nodes(walk)
    BY <1>1, <1>4, <1>5, <1>6
  <1> QED BY <1>1, <1>2, <1>3, <1>9, <1>10, ReadKeeps

(* A goroutine enters its file in both lists.                              *)
LEMMA HashFileKeeps ==
  ASSUME GlobInv, NEW n \in hashing, HashFile(n)
  PROVE  GlobInv'
  <1>1. PICK l : l = NormalLoc(n)
    OBVIOUS
  <1>2. /\ hashing' = hashing \ {n} /\ stableList' = Append(stableList, l)
        /\ hashMap' = [k \in DOMAIN hashMap \cup {l} |-> IF k = l THEN n ELSE hashMap[k]]
    BY <1>1 DEF HashFile
  <1>3. UNCHANGED <<walk, stack, queue, closed, emitted, cut, reader, sum>>
    BY DEF HashFile
  <1>4. /\ hashing \in SUBSET Nodes(walk) /\ stableList \in Seq(Locs(walk))
        /\ queue \in Seq(Nodes(walk)) /\ emitted \in Seq(Nodes(walk)) /\ EndOf(emitted, queue)
    BY DEF GlobInv, GlobTypeOK, QueueOk
  <1>5. l \in Locs(walk)
    BY <1>1, <1>4 DEF Locs
  <1>6. /\ stableList' \in Seq(Locs(walk)) /\ ToSet(stableList') = ToSet(stableList) \cup {l}
        /\ Distinct(stableList) /\ l \notin ToSet(stableList) => Distinct(stableList')
    BY <1>2, <1>4, <1>5, AppendSet
  <1>7. GlobTypeOK'
    <2>1. hashing # {}
      OBVIOUS
    <2> QED BY <2>1, <1>2, <1>3, <1>6 DEF GlobInv, GlobTypeOK
  <1>8. SentOk' /\ QueueOk' /\ Chain(walk, stack)'
    BY <1>3 DEF GlobInv, SentOk, QueueOk
  <1>9. PICK T : T = Taken(emitted, queue)
    OBVIOUS
  <1>10. \A m \in T : m \in WantedFiles(walk)
    <2>1. T \subseteq ToSet(emitted)
      BY <1>4, <1>9, TakenOf
    <2> QED BY <2>1, SentNodes
  <1>11. ASSUME reader.mode = "hash" PROVE SumOk'
    <2>1. SumOk
      BY <1>11 DEF GlobInv, HashOk
    <2>2. n \in T /\ hashing' \subseteq T
      BY <2>1, <1>2, <1>9 DEF SumOk
    <2>3. ASSUME Unfolded(walk)
          PROVE  /\ Distinct(stableList')
                 /\ ToSet(stableList') = {NormalLoc(m) : m \in T \ hashing'}
                 /\ \A m \in T \ hashing' : Hashed(hashMap', m)
      <3>1. \A m \in T \ hashing : m # n /\ NormalLoc(m) # l
        BY <2>2, <2>3, <1>1, <1>10 DEF Unfolded
      <3>2. /\ Distinct(stableList) /\ ToSet(stableList) = {NormalLoc(m) : m \in T \ hashing}
            /\ \A m \in T \ hashing : Hashed(hashMap, m)
        BY <2>1, <2>3, <1>9 DEF SumOk
      <3>3. l \notin ToSet(stableList)
        BY <3>1, <3>2
      <3>4. \A m : m \in T \ hashing' <=> m \in T \ hashing \/ m = n
        BY <2>2, <1>2
      <3>5. ToSet(stableList') = {NormalLoc(m) : m \in T \ hashing'}
        <4>1. PICK A, B : A = T \ hashing /\ B = T \ hashing'
          OBVIOUS
        <4>2. \A m : m \in B <=> m \in A \/ m = n
          BY <4>1, <3>4
        <4>3. {NormalLoc(m) : m \in A} \cup {l} = {NormalLoc(m) : m \in B}
          BY <4>2, <1>1
        <4> QED BY <4>1, <4>3, <3>2, <1>6
      <3>6. ASSUME NEW m \in T \ hashing' PROVE Hashed(hashMap', m)
        <4>1. CASE m = n
          BY <4>1, <1>1, <1>2 DEF Hashed
        <4>2. CASE m \in T \ hashing
          BY <4>2, <3>1, <3>2, <1>2 DEF Hashed
        <4> QED BY <4>1, <4>2, <3>4, <3>6
      <3> QED BY <3>2, <3>3, <3>5, <3>6, <1>6
    <2> QED BY <2>2, <2>3, <1>3, <1>9 DEF SumOk
  <1>12. HashOk'
    BY <1>3, <1>11 DEF GlobInv, HashOk, DoneOk
  <1> QED BY <1>7, <1>8, <1>12 DEF GlobInv

(* The sum is taken.                                                       *)
LEMMA HashDoneKeeps ==
  ASSUME GlobInv, HashDone
  PROVE  GlobInv'
  <1>1. /\ reader.mode = "hash" /\ queue = <<>> /\ closed /\ hashing = {}
        /\ reader' = [reader EXCEPT !.at = "done"]
        /\ sum' = SumOf(stableList, hashMap)
    BY DEF HashDone
  <1>2. UNCHANGED <<walk, stack, queue, closed, emitted, cut, hashing, hashMap, stableList>>
    BY DEF HashDone
  <1>3. reader' \in Modes /\ walk \in Walks
    BY <1>1, ReaderMode
  <1>4. GlobTypeOK'
    BY <1>2, <1>3 DEF GlobInv, GlobTypeOK
  <1>5. SentOk' /\ QueueOk' /\ Chain(walk, stack)'
    BY <1>2 DEF GlobInv, SentOk, QueueOk
  <1>6. SumOk
    BY <1>1 DEF GlobInv, HashOk
  <1>7. emitted \in Seq(Nodes(walk)) /\ stableList \in Seq(Locs(walk))
    BY DEF GlobInv, GlobTypeOK
  <1>8. Taken(emitted, queue) \ hashing = ToSet(emitted)
    BY <1>1, <1>7, TakenAll
  <1>9. ASSUME Unfolded(walk)
        PROVE  /\ DOMAIN sum' = {NormalLoc(n) : n \in ToSet(emitted)}
               /\ \A n \in ToSet(emitted) : sum'[NormalLoc(n)] = <<1, n>>
    <2>1. /\ Distinct(stableList) /\ ToSet(stableList) = {NormalLoc(n) : n \in ToSet(emitted)}
          /\ \A n \in ToSet(emitted) : Hashed(hashMap, n)
      BY <1>6, <1>8, <1>9 DEF SumOk
    <2>2. DOMAIN sum' = ToSet(stableList)
      BY <1>1 DEF SumOf
    <2>3. ASSUME NEW n \in ToSet(emitted) PROVE sum'[NormalLoc(n)] = <<1, n>>
      <3>1. PICK l : l = NormalLoc(n) /\ l \in ToSet(stableList) /\ hashMap[l] = n
        BY <2>1, <2>3 DEF Hashed
      <3>2. PICK i \in DOMAIN stableList : stableList[i] = l
        BY <3>1 DEF ToSet
      <3>3. {j \in DOMAIN stableList : stableList[j] = l} = {i}
        BY <2>1, <3>2 DEF Distinct
      <3>4. Cardinality({j \in DOMAIN stableList : stableList[j] = l}) = 1
        BY <3>3, FS_Singleton
      <3>5. sum'[l] = <<Cardinality({j \in DOMAIN stableList : stableList[j] = l}), hashMap[l]>>
        BY <3>1, <1>1 DEF SumOf
      <3> QED BY <3>1, <3>4, <3>5
    <2> QED BY <2>1, <2>2, <2>3
  <1>10. DoneOk'
    BY <1>1, <1>2, <1>9 DEF DoneOk
  <1>11. SumOk'
    BY <1>2, <1>6 DEF SumOk
  <1>12. HashOk'
    BY <1>10, <1>11 DEF HashOk
  <1> QED BY <1>4, <1>5, <1>12 DEF GlobInv
-----------------------------------------------------------------------------
(* The theorem.                                                            *)

(* A list without repetitions is as long as the set of its elements.       *)
LEMMA DistinctLen ==
  ASSUME NEW S, NEW e \in Seq(S), Distinct(e)
  PROVE  Len(e) = Cardinality(ToSet(e))
  <1>1. Len(e) \in Nat /\ DOMAIN e = 1..Len(e) /\ e \in [1..Len(e) -> S]
    BY LenProperties
  <1>2. PICK L \in Nat : L = Len(e)
    BY <1>1
  <1>3. ToSet(e) = {e[i] : i \in 1..L}
    BY <1>1, <1>2 DEF ToSet
  <1>4. PICK T : T = ToSet(e)
    OBVIOUS
  <1>5. e \in [1..L -> T]
    BY <1>1, <1>2, <1>3, <1>4
  <1>6. e \in Injection(1..L, T)
    BY <1>1, <1>2, <1>5 DEF Injection, IsInjective, Distinct
  <1>7. e \in Surjection(1..L, T)
    BY <1>3, <1>4, <1>5 DEF Surjection
  <1>8. ExistsBijection(1..L, T)
    BY <1>6, <1>7 DEF ExistsBijection, Bijection
  <1>9. Cardinality(T) = L
    BY <1>8, FS_CountingElements
  <1> QED BY <1>2, <1>4, <1>9

(* Before a walk the invariant holds.                                      *)
LEMMA GlobInitInv == GlobInit => GlobInv
  <1> SUFFICES ASSUME GlobInit PROVE GlobInv
    OBVIOUS
  <1>1. /\ walk = NoWalk /\ stack = <<>> /\ queue = <<>> /\ closed = FALSE /\ emitted = <<>>
        /\ reader = NoReader /\ hashing = {} /\ stableList = <<>> /\ cut = FALSE
    BY DEF GlobInit
  <1>2. GlobTypeOK
    BY <1>1 DEF GlobTypeOK
  <1>3. Nodes(NoWalk) = {}
    BY DEF Nodes, NoWalk
  <1>4. ToSet(<<>>) = {} /\ Distinct(<<>>) /\ EndOf(<<>>, <<>>)
    BY DEF ToSet, Distinct, EndOf
  <1>5. SentOk
    BY <1>1, <1>3, <1>4 DEF SentOk, WantedFiles
  <1>6. QueueOk /\ Chain(walk, stack)
    BY <1>1, <1>4 DEF QueueOk, Chain
  <1>7. HashOk
    BY <1>1 DEF HashOk, NoReader
  <1> QED BY <1>2, <1>5, <1>6, <1>7 DEF GlobInv

(* Every step keeps it.                                                    *)
LEMMA GlobNextInv == GlobInv /\ [GlobNext]_globVars => GlobInv'
  <1> SUFFICES ASSUME GlobInv, [GlobNext]_globVars PROVE GlobInv'
    OBVIOUS
  <1>1. CASE \E w \in Walks, mode \in {"each", "hash"} : StartWalk(w, mode)
    BY <1>1, StartKeeps
  <1>2. CASE EnterDirectory
    BY <1>2, EnterKeeps
  <1>3. CASE LeaveDirectory
    BY <1>3, LeaveKeeps
  <1>4. CASE \E n \in Nodes(walk) : VisitFile(n)
    BY <1>4, FileKeeps
  <1>5. CASE \E n \in Nodes(walk) : VisitDirectory(n)
    BY <1>5, DirectoryKeeps
  <1>6. CASE EndWalk \/ CancelWalk \/ Terminate
    BY <1>6, EndKeeps
  <1>7. CASE \E more \in BOOLEAN : ForEach(more)
    BY <1>7, EachKeeps
  <1>8. CASE ForEachEnds
    BY <1>8, EachEndsKeeps
  <1>9. CASE HashNext
    BY <1>9, HashNextKeeps
  <1>10. CASE \E n \in hashing : HashFile(n)
    BY <1>10, HashFileKeeps
  <1>11. CASE HashDone
    BY <1>11, HashDoneKeeps
  <1>12. CASE UNCHANGED globVars
    <2>1. UNCHANGED <<walk, stack, queue, closed, emitted, cut, reader, hashing, hashMap,
                      stableList, sum>>
      BY <1>12 DEF globVars
    <2>2. GlobTypeOK'
      BY <2>1 DEF GlobInv, GlobTypeOK
    <2>3. SentOk' /\ QueueOk' /\ Chain(walk, stack)'
      BY <2>1 DEF GlobInv, SentOk, QueueOk
    <2>4. HashOk'
      BY <2>1, HashSame DEF GlobInv
    <2> QED BY <2>2, <2>3, <2>4 DEF GlobInv
  <1> QED BY <1>1, <1>2, <1>3, <1>4, <1>5, <1>6, <1>7, <1>8, <1>9, <1>10, <1>11, <1>12
          DEF GlobNext, Walker, Reader

(* What the invariant says of a walk and of the checksum.                  *)
LEMMA GlobInvCorrect == GlobInv => WalkCorrect
  <1> SUFFICES ASSUME GlobInv PROVE WalkCorrect
    OBVIOUS
  <1>1. emitted \in Seq(Nodes(walk)) /\ Distinct(emitted)
    BY DEF GlobInv, GlobTypeOK, SentOk
  <1>2. \A n \in ToSet(emitted) : Wanted1(walk, n)
    BY DEF GlobInv, SentOk
  <1>3. Len(emitted) = Cardinality(ToSet(emitted))
    BY <1>1, DistinctLen
  <1>4. closed /\ ~cut => ToSet(emitted) = WantedFiles(walk)
    <2> SUFFICES ASSUME closed, ~cut PROVE ToSet(emitted) = WantedFiles(walk)
      OBVIOUS
    <2>1. stack = <<>>
      BY DEF GlobInv, SentOk
    <2>2. \A n : ~Comes(stack, n)
      BY <2>1 DEF Comes
    <2>3. \A n \in WantedFiles(walk) : n \in ToSet(emitted)
      BY <2>2 DEF GlobInv, SentOk
    <2>4. \A n \in ToSet(emitted) : n \in WantedFiles(walk)
      BY SentNodes
    <2> QED BY <2>3, <2>4
  <1>5. WalkExact
    BY <1>2, <1>3, <1>4 DEF WalkExact
  <1>6. HashDetermined
    <2> SUFFICES ASSUME reader.mode = "hash", reader.at = "done", ~cut, Unfolded(walk)
                 PROVE  /\ DOMAIN sum = {NormalLoc(n) : n \in WantedFiles(walk)}
                        /\ \A n \in WantedFiles(walk) : sum[NormalLoc(n)] = <<1, n>>
      BY DEF HashDetermined, Unfolded
    <2>1. /\ closed
          /\ DOMAIN sum = {NormalLoc(n) : n \in ToSet(emitted)}
          /\ \A n \in ToSet(emitted) : sum[NormalLoc(n)] = <<1, n>>
      BY DEF GlobInv, HashOk, DoneOk
    <2>2. ToSet(emitted) = WantedFiles(walk)
      BY <2>1, <1>4
    <2> QED BY <2>1, <2>2
  <1> QED BY <1>5, <1>6 DEF WalkCorrect

(* The walk of any tree, with any options, sends every file that they want *)
(* once and no other, and the checksum of a tree that was walked to its    *)
(* end is that of the tree (walkDirectoryRecursive, ReduceToHash).         *)
THEOREM WalksExactly == GlobSpec => []WalkCorrect
  <1>1. GlobInit => GlobInv
    BY GlobInitInv
  <1>2. GlobInv /\ [GlobNext]_globVars => GlobInv'
    BY GlobNextInv
  <1>3. GlobInv => WalkCorrect
    BY GlobInvCorrect
  <1> QED BY <1>1, <1>2, <1>3, PTL DEF GlobSpec
=============================================================================
