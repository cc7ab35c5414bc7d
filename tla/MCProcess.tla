----------------------------- MODULE MCProcess ------------------------------
(***************************************************************************)
(* The life of an app service, each component on its own: the spawning of  *)
(* one instance, the monitor of its health, the control of the cluster,    *)
(* the walk of its source tree for the checksum, the log with its tails    *)
(* and the writer that merges the logs of hosts.  A behaviour is one of    *)
(* the chosen part and the others stay as they are.  The last three are at *)
(* rest initially, so their fairness asks for nothing; the first three are *)
(* under way, and their fairness is asked only when they run.              *)
(***************************************************************************)
EXTENDS AppInstance, HealthMonitor, AppServer, GlobWalk, LogTail, TLC

VARIABLE part   (* the component that runs *)

vars == <<part, instVars, monVars, serverVars, globVars, tailVars,
          muxLogVars>>

-----------------------------------------------------------------------------
(* GlobWalk: a tree with rule files at two levels and a hidden directory,  *)
(* and one with two names that differ in case only.                        *)
Src == <<<<"src">>>>
A == Append(Src, <<"a", "go">>)
B == Append(Src, <<"b", "spec", "ts">>)
D == Append(Src, <<"d">>)
E == Append(D, <<"e", "GO">>)
H == Append(D, <<"", "build">>)
F == Append(H, <<"f", "go">>)
GitFile == Append(Src, GitIgnore)
IgnoreFile == Append(D, Ignore)
NestedRules ==
  (GitFile :> (B :> TRUE @@ E :> TRUE)) @@ (IgnoreFile :> (E :> FALSE))
TreeOf(dirs, files, rules) ==
  [n \in dirs \cup files |->
     [dir |-> n \in dirs, rules |-> IF n \in DOMAIN rules THEN rules[n] ELSE NoRules]]
Nested == TreeOf({Src, D, H}, {GitFile, A, B, IgnoreFile, E, F}, NestedRules)
SameInLower == TreeOf({Src}, {A, Append(Src, <<"A", "go">>)}, <<>>)
AnyName == [incl |-> {}, excl |-> {}, inclRx |-> {}, exclRx |-> {}]
Usual ==
  [file |-> AnyName, dir |-> AnyName, hidden |-> FALSE, allowExt |-> {},
   denyExt |-> {}, exclLoc |-> {}, noGitIgnore |-> FALSE, noIgnore |-> FALSE,
   addGit |-> FALSE, outer |-> <<>>]
WalkOptions ==
  {Usual,
   [Usual EXCEPT !.hidden = TRUE, !.addGit = TRUE,
      !.outer = <<A :> FALSE, A :> TRUE>>,
      !.dir.exclRx = {{<<"", "build">>}}],
   [Usual EXCEPT !.hidden = TRUE, !.addGit = TRUE, !.outer = <<A :> TRUE>>,
      !.noGitIgnore = TRUE],
   [Usual EXCEPT !.noGitIgnore = TRUE, !.noIgnore = TRUE,
      !.allowExt = {<<"go">>}, !.exclLoc = {<<"d">>}],
   [Usual EXCEPT !.hidden = TRUE, !.noIgnore = TRUE,
      !.denyExt = {<<"ts">>, <<"", "gitignore">>},
      !.file.excl = {<<"a", "go">>}, !.dir.incl = {<<"d">>}],
   [Usual EXCEPT !.noGitIgnore = TRUE,
      !.file.inclRx = {{<<"a", "go">>}, {<<"e", "GO">>}},
      !.file.incl = {<<"a", "go">>, <<"e", "GO">>},
      !.dir.inclRx = {{<<"d">>}}]}
MCWalks ==
  [root : {Src}, tree : {Nested}, broken : {{}}, opt : WalkOptions]
  \cup [root : {Src}, tree : {Nested}, broken : {{D}, {GitFile}}, opt : {Usual}]
  \cup [root : {Src}, tree : {SameInLower}, broken : {{}}, opt : {Usual}]
MCFold == [GO |-> "go", A |-> "a"]

(* MuxWriter: the times of the lines of each host, one of them out of order.  *)
MCTimes == [h1 |-> <<2, 5>>, h2 |-> <<0, 3, 1>>]

-----------------------------------------------------------------------------
Init ==
  /\ part \in {"instance", "monitor", "cluster", "glob", "tail", "mux"}
  /\ InstInit /\ MonInit /\ ServerInit
  /\ GlobInit /\ TailInit /\ MuxLogInit
  /\ part = "instance" \/ sp = "check"

Next ==
  \/ /\ part = "instance" /\ InstNext
     /\ UNCHANGED <<part, monVars, serverVars, globVars, tailVars,
                    muxLogVars>>
  \/ /\ part = "monitor" /\ MonNext
     /\ UNCHANGED <<part, instVars, serverVars, globVars, tailVars,
                    muxLogVars>>
  \/ /\ part = "cluster" /\ ServerNext
     /\ UNCHANGED <<part, instVars, monVars, globVars, tailVars, muxLogVars>>
  \/ /\ part = "glob" /\ GlobNext
     /\ UNCHANGED <<part, instVars, monVars, serverVars, tailVars,
                    muxLogVars>>
  \/ /\ part = "tail" /\ TailNext
     /\ UNCHANGED <<part, instVars, monVars, serverVars, globVars,
                    muxLogVars>>
  \/ /\ part = "mux" /\ MuxLogNext
     /\ UNCHANGED <<part, instVars, monVars, serverVars, globVars, tailVars>>

(* InstFairness, MonFairness and ServerFairness of the part that runs.     *)
RunningFairness ==
  /\ WF_instVars(part = "instance" /\ Spawner)
  /\ WF_instVars(part = "instance" /\ Watcher)
  /\ WF_instVars(part = "instance" /\ TimerFires)
  /\ WF_instVars(part = "instance" /\ ObserverGoesOn)
  /\ WF_instVars(part = "instance" /\ prev = 0 /\ ObserverChecks)
  /\ WF_monVars(part = "monitor" /\ Observe)
  /\ WF_serverVars(part = "cluster" /\ Ticker)
  /\ WF_serverVars(part = "cluster" /\ TickFires)
  /\ SF_serverVars(part = "cluster" /\ FirstReady)
  /\ SF_serverVars(part = "cluster" /\ \E p \in Procs : SpawnFirst(p))
  /\ \A p \in Procs : /\ WF_serverVars(part = "cluster" /\ StopTerminate(p))
                      /\ WF_serverVars(part = "cluster" /\ StopReaped(p))
  /\ WF_serverVars(part = "cluster" /\ StopSnapshot)
  /\ WF_serverVars(part = "cluster" /\ StopReturns)
  /\ WF_serverVars(/\ part = "cluster"
                   /\ stop # "no" \/ spawner = "failed"
                   /\ CancelContext)

Spec ==
  /\ Init /\ [][Next]_vars
  /\ RunningFairness /\ GlobFairness /\ TailFairness

(* What is begun ends: an instance that died is out of the balancer, but   *)
(* for one whose removal came before it was added, and an unhealthy one    *)
(* recovers or ends, a failing one is reported, a service                  *)
(* comes back from the death of its instances and stops when told to, a    *)
(* client that tails the log stops the loggers only while it neither reads *)
(* nor is cut off, one that was cut off is removed, and who walks a tree   *)
(* and who reads what it finds come to an end (spawnProcess, observe,      *)
(* tick, Stop, WriteLevel, tailFollow, Start, ReduceToHash).               *)
ProcessSettles ==
  /\ InstanceSettles /\ ServerSettles /\ FailureIsReported
  /\ LoggersGoOn /\ TailsEnd /\ ReadersEnd /\ WalkersEnd
=============================================================================
