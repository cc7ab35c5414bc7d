------------------------------ MODULE MCDeploy ------------------------------
(***************************************************************************)
(* How a session brings services up and takes them down, and the builds of *)
(* an app, each on its own: a behaviour is one of the chosen part.  Both   *)
(* are at rest initially and only the chosen one moves, so the fairness of *)
(* the other asks for nothing.                                             *)
(***************************************************************************)
EXTENDS Session, AppBuild

VARIABLE part   (* the component that runs *)

vars == <<part, sessionVars, buildVars>>

Init ==
  /\ part \in {"session", "build"}
  /\ SessionInit /\ BuildInit
  /\ part = "build" \/ src = CHOOSE v \in Sums : TRUE

Next ==
  \/ part = "session" /\ SessionNext /\ UNCHANGED <<part, buildVars>>
  \/ part = "build" /\ BuildNext /\ UNCHANGED <<part, sessionVars>>

Spec ==
  /\ Init /\ [][Next]_vars
  /\ SessionFairness /\ BuildFairness

(* A reload returns although services hang, Shutdown ends every state, and *)
(* every start of an app comes to an end, with any step failing            *)
(* (ReloadLocked, Shutdown, BuildApp).                                     *)
DeployEnds == SessionSettles /\ StartEnds
=============================================================================
