------------------------------ MODULE NatsNode ------------------------------
(***************************************************************************)
(* The embedded NATS server of a node (autonats) and the gateway that uses *)
(* it (enats): StartServer with its three goroutines, Gateway.Open and     *)
(* Close, which a signal may call while Open is still waiting.             *)
(***************************************************************************)
EXTENDS Integers, FiniteSets

CONSTANTS
  Topologies,   (* topologies that may be configured: sets of clusters      *)
  Buckets       (* number of stores and streams that Open creates           *)

ASSUME NodeAssumption == Buckets \in Nat \ {0}

(* The cluster with the empty name, that of the seeds.                     *)
NoCluster == "seeds"

VARIABLES
  nats,      (* the server: [at, js, slot, asked]                           *)
  links,     (* what it is told to connect to: [leaf, routes, gateways]     *)
  marks,     (* [ready, done, readych, donech]: the channels by the number  *)
             (* of times they were closed                                   *)
  late,      (* ServerStartTimeout is over                                  *)
  probe,     (* the goroutine that waits for readiness: [at, conn]          *)
  waiter,    (* the goroutine that waits for the end                        *)
  local,     (* the local listener: [ln, at]                                *)
  gw,        (* Gateway.Open: [at, conn, field, left]                       *)
  closer     (* Gateway.Close: [at, had, raced]                             *)

natsVars == <<nats, links, marks, late, probe, waiter, local, gw, closer>>

(* The values of the server, its goroutines and the gateway. *)
NodeTypeOK ==
  /\ nats \in [at : {"off", "starting", "serving", "stopping", "down"},
               js : BOOLEAN, slot : BOOLEAN, asked : BOOLEAN]
  /\ marks \in [ready : BOOLEAN, done : BOOLEAN, readych : 0..1, donech : 0..1]
  /\ late \in BOOLEAN
  /\ probe \in [at : {"off", "wait", "request", "info", "bucket", "put",
                      "shutdown", "end"}, conn : BOOLEAN]
  /\ waiter \in {"off", "wait", "close", "end"}
  /\ local \in [ln : {"none", "open", "closed"},
                at : {"off", "accept", "pause", "end"}]
  /\ gw \in [at : {"off", "select", "connect", "create", "open", "failed"},
             conn : {"none", "open", "closed"}, field : BOOLEAN,
             left : 0..Buckets]
  /\ closer \in [at : {"no", "drain", "shutdown", "wait", "closed"},
                 had : BOOLEAN, raced : BOOLEAN]

NatsInit ==
  /\ nats = [at |-> "off", js |-> FALSE, slot |-> FALSE, asked |-> FALSE]
  /\ links = [leaf |-> {}, routes |-> {}, gateways |-> {}]
  /\ marks = [ready |-> FALSE, done |-> FALSE, readych |-> 0, donech |-> 0]
  /\ late = FALSE
  /\ probe = [at |-> "off", conn |-> FALSE] /\ waiter = "off"
  /\ local = [ln |-> "none", at |-> "off"]
  /\ gw = [at |-> "off", conn |-> "none", field |-> FALSE, left |-> Buckets]
  /\ closer = [at |-> "no", had |-> FALSE, raced |-> FALSE]

-----------------------------------------------------------------------------
(* The remotes of a node: a node without a cluster is a leaf of them all.  *)
Links(cluster, topology) ==
  IF cluster = NoCluster
  THEN [leaf |-> topology \ {NoCluster}, routes |-> {}, gateways |-> {}]
  ELSE [leaf |-> {}, routes |-> topology \cap {cluster},
        gateways |-> topology \ {cluster, NoCluster}]

(* StartServer; the local listener is optional.                            *)
StartServer(cluster, topology, listens) ==
  /\ nats.at = "off" /\ gw.at = "off"
  /\ nats' = [nats EXCEPT !.at = "starting", !.slot = TRUE]
  /\ links' = Links(cluster, topology)
  /\ local' = IF listens THEN [ln |-> "open", at |-> "accept"] ELSE local
  /\ waiter' = "wait" /\ probe' = [probe EXCEPT !.at = "wait"]
  /\ UNCHANGED <<marks, late, gw, closer>>

(* The server comes up, its JetStream takes writes, and it has stopped.    *)
NatsMoves ==
  /\ \/ nats.at = "starting" /\ nats' = [nats EXCEPT !.at = "serving"]
     \/ nats.at = "serving" /\ ~nats.js /\ nats' = [nats EXCEPT !.js = TRUE]
  /\ UNCHANGED <<links, marks, late, probe, waiter, local, gw, closer>>

NatsStopped ==
  /\ nats.at = "stopping" /\ nats' = [nats EXCEPT !.at = "down"]
  /\ UNCHANGED <<links, marks, late, probe, waiter, local, gw, closer>>

TimeOut ==
  /\ nats.at # "off" /\ ~late /\ late' = TRUE
  /\ UNCHANGED <<nats, links, marks, probe, waiter, local, gw, closer>>

Shut == nats' = [nats EXCEPT !.at = IF @ = "down" THEN @ ELSE "stopping"]

(* markDead, markAlive                                                     *)
MarkDead == [ready |-> TRUE, done |-> TRUE,
             readych |-> marks.readych + IF marks.ready THEN 0 ELSE 1,
             donech |-> marks.donech + IF marks.done THEN 0 ELSE 1]
MarkAlive == [marks EXCEPT !.ready = TRUE,
                           !.readych = IF marks.ready THEN @ ELSE @ + 1]

-----------------------------------------------------------------------------
(* The goroutine that waits for readiness.                                 *)

(* ReadyForConnections fails: go on until the deadline.                    *)
ProbeGivesUp ==
  /\ probe.at = "wait" /\ nats.at # "serving" /\ late
  /\ marks' = MarkDead /\ probe' = [probe EXCEPT !.at = "shutdown"]
  /\ UNCHANGED <<nats, links, late, waiter, local, gw, closer>>

ProbeShutsDown ==
  /\ probe.at = "shutdown" /\ Shut
  /\ probe' = [at |-> "end", conn |-> FALSE]
  /\ UNCHANGED <<links, marks, late, waiter, local, gw, closer>>

(* One connection is made and kept.                                        *)
ProbeConnects ==
  /\ probe.at = "wait" /\ nats.at = "serving"
  /\ probe' = [at |-> "request", conn |-> TRUE]
  /\ UNCHANGED <<nats, links, marks, late, waiter, local, gw, closer>>

After(place) == CASE place = "request" -> "info"   [] place = "info" -> "bucket"
                  [] place = "bucket"  -> "put"    [] place = "put"  -> "end"

(* MUTANT: the server is taken to be ready once it has the bucket.         *)
ProbeAsksOnce ==
  /\ probe.at \in {"request", "info", "bucket", "put"}
  /\ probe' = [at |-> "end", conn |-> FALSE] /\ marks' = MarkAlive
  /\ UNCHANGED <<nats, links, late, waiter, local, gw, closer>>

(* $JS.API.INFO, then AccountInfo, the bucket and a write, which the       *)
(* deadline of the context limits.                                         *)
ProbeAsks ==
  /\ probe.at \in {"request", "info", "bucket", "put"}
  /\ nats.at = "serving" /\ nats.js /\ (probe.at = "request" \/ ~late)
  /\ probe' = [at |-> After(probe.at), conn |-> probe.at # "put"]
  /\ marks' = IF probe.at = "put" THEN MarkAlive ELSE marks
  /\ UNCHANGED <<nats, links, late, waiter, local, gw, closer>>

ProbeFails ==
  /\ probe.at \in {"request", "info", "bucket", "put"}
  /\ probe' = [probe EXCEPT !.at = "wait"]
  /\ UNCHANGED <<nats, links, marks, late, waiter, local, gw, closer>>

-----------------------------------------------------------------------------
(* The goroutine that waits for the end, and the local listener.           *)

WaiterMarks ==
  /\ waiter = "wait" /\ nats.at = "down"
  /\ marks' = MarkDead /\ waiter' = "close"
  /\ UNCHANGED <<nats, links, late, probe, local, gw, closer>>

WaiterCloses ==
  /\ waiter = "close" /\ waiter' = "end"
  /\ local' = IF local.ln = "open" THEN [local EXCEPT !.ln = "closed"] ELSE local
  /\ UNCHANGED <<nats, links, marks, late, probe, gw, closer>>

(* Accept fails, and the loop ends or pauses.                              *)
AcceptLocalFails ==
  /\ local.at = "accept" /\ local.ln = "closed"
  /\ local' = [local EXCEPT !.at = "pause"]
  /\ UNCHANGED <<nats, links, marks, late, probe, waiter, gw, closer>>
AcceptLocalPauses ==
  /\ local.at = "pause"
  /\ local' = [local EXCEPT !.at = IF marks.donech = 0 THEN "accept" ELSE "end"]
  /\ UNCHANGED <<nats, links, marks, late, probe, waiter, gw, closer>>

-----------------------------------------------------------------------------
(* Gateway.Open                                                            *)

(* A client has no server of its own.                                      *)
OpenGateway ==
  /\ gw.at = "off" /\ closer.at = "no"
  /\ gw' = [gw EXCEPT !.at = IF nats.at = "off" THEN "connect" ELSE "select"]
  /\ UNCHANGED <<nats, links, marks, late, probe, waiter, local, closer>>

(* The context ends, or readych is closed.                                 *)
OpenCancelled ==
  /\ gw.at = "select" /\ gw' = [gw EXCEPT !.at = "failed"]
  /\ UNCHANGED <<nats, links, marks, late, probe, waiter, local, closer>>
OpenSelected ==
  /\ gw.at = "select" /\ marks.readych > 0
  /\ gw' = [gw EXCEPT !.at = "connect"]
  /\ UNCHANGED <<nats, links, marks, late, probe, waiter, local, closer>>

(* Server.Connect needs the server to run; a client may fail as well.      *)
OpenConnects ==
  /\ gw.at = "connect"
  /\ \/ /\ nats.at = "off" \/ (nats.slot /\ nats.at = "serving")
        /\ gw' = [gw EXCEPT !.at = "create", !.conn = "open", !.field = TRUE]
        /\ closer' = [closer EXCEPT !.raced = closer.at # "no"]
     \/ /\ nats.at # "serving" /\ UNCHANGED closer
        /\ gw' = [gw EXCEPT !.at = "failed"]
  /\ UNCHANGED <<nats, links, marks, late, probe, waiter, local>>

(* The stores and the stream, in order.  A failure leaves the connection.  *)
OpenCreates ==
  /\ gw.at = "create"
  /\ \/ /\ gw.left > 0 /\ gw.conn = "open"
        /\ nats.at = "off" \/ (nats.at = "serving" /\ nats.js)
        /\ gw' = [gw EXCEPT !.left = @ - 1,
                            !.at = IF gw.left = 1 THEN "open" ELSE "create"]
     \/ gw' = [gw EXCEPT !.at = "failed"]
  /\ UNCHANGED <<nats, links, marks, late, probe, waiter, local, closer>>

-----------------------------------------------------------------------------
(* Gateway.Close                                                           *)

CloseGateway ==
  /\ gw.at # "off" /\ closer.at = "no"
  /\ closer' = [closer EXCEPT !.had = gw.field,
                              !.at = IF gw.field THEN "drain" ELSE "shutdown"]
  /\ gw' = [gw EXCEPT !.field = FALSE]
  /\ UNCHANGED <<nats, links, marks, late, probe, waiter, local>>

(* Drained or not, the connection is closed.                               *)
CloseConn ==
  /\ closer.at = "drain" /\ closer' = [closer EXCEPT !.at = "shutdown"]
  /\ gw' = [gw EXCEPT !.conn = "closed"]
  /\ UNCHANGED <<nats, links, marks, late, probe, waiter, local>>

(* Server.Shutdown: only the first caller stops the server.                *)
CloseShutsDown ==
  /\ closer.at = "shutdown"
  /\ IF ~nats.slot THEN closer' = [closer EXCEPT !.at = "closed"] /\ UNCHANGED nats
     ELSE /\ closer' = [closer EXCEPT !.at = "wait"]
          /\ nats' = [nats EXCEPT !.asked = TRUE,
                        !.at = IF nats.asked \/ @ = "down" THEN @ ELSE "stopping"]
  /\ UNCHANGED <<links, marks, late, probe, waiter, local, gw>>

(* WaitForShutdown, or the context ends first.                             *)
CloseWaits ==
  /\ closer.at = "wait" /\ closer' = [closer EXCEPT !.at = "closed"]
  /\ \/ nats.at = "down" /\ nats' = [nats EXCEPT !.slot = FALSE]
     \/ UNCHANGED nats
  /\ UNCHANGED <<links, marks, late, probe, waiter, local, gw>>

-----------------------------------------------------------------------------
Probing ==
  ProbeGivesUp \/ ProbeShutsDown \/ ProbeConnects \/ ProbeAsks \/ ProbeFails
Waiting == WaiterMarks \/ WaiterCloses
Accepting == AcceptLocalFails \/ AcceptLocalPauses
Opening == OpenGateway \/ OpenSelected \/ OpenConnects \/ OpenCreates
Closing == CloseConn \/ CloseShutsDown \/ CloseWaits

NatsNext ==
  \/ \E t \in Topologies, b \in BOOLEAN : \E c \in t \cup {NoCluster} :
       StartServer(c, t, b)
  \/ NatsMoves \/ NatsStopped \/ TimeOut
  \/ Probing \/ Waiting \/ Accepting \/ Opening \/ OpenCancelled
  \/ CloseGateway \/ Closing

(* Goroutines run, time passes, and a server that is told to stop stops.   *)
(* Neither that it comes up nor that its JetStream does is assumed.        *)
NatsFairness ==
  /\ WF_natsVars(NatsStopped) /\ WF_natsVars(TimeOut)
  /\ WF_natsVars(Probing) /\ WF_natsVars(Waiting) /\ WF_natsVars(Accepting)
  /\ WF_natsVars(OpenSelected) /\ WF_natsVars(Closing)

-----------------------------------------------------------------------------
(* A node reaches every cluster of the topology in one way: by routes in   *)
(* its own cluster, by a gateway to another, as a leaf without one.        *)
LinksOnce ==
  /\ nats.at # "off" =>
       \E t \in Topologies :
         links.leaf \cup links.routes \cup links.gateways = t \ {NoCluster}
  /\ links.leaf \cap links.routes = {} /\ links.routes \cap links.gateways = {}
  /\ links.leaf \cap links.gateways = {}

(* A gateway that is open has a server whose JetStream took a write, or    *)
(* one that is dead: readiness is not announced early (markAlive).         *)
OpenIsUsable ==
  gw.at \in {"connect", "create", "open"} /\ nats.at = "serving" /\ ~marks.done
    => nats.js

(* Close leaves no connection behind, drained or not, other than one that  *)
(* a concurrent Open stored after Close had looked for it.                 *)
ClosedHasNoConn == closer.at = "closed" /\ gw.conn = "open" => closer.raced

(* The readiness goroutine ends, but for a server that accepts connections *)
(* with a JetStream that is not ready in time: there nothing looks at the  *)
(* deadline, and nobody is told.                                           *)
ProbeSettles == []<>(probe.at \in {"off", "end"} \/ (late /\ nats.at = "serving"))

(* Once the server is down, everything that belongs to it ends: the        *)
(* channels are closed, the listener and its loop, the readiness goroutine *)
(* with its connection, and nobody waits in Open.                          *)
DownEndsAll ==
  []<>(nats.at = "down" =>
         /\ marks.readych = 1 /\ marks.donech = 1
         /\ local.ln # "open" /\ local.at \in {"off", "end"}
         /\ probe = [at |-> "end", conn |-> FALSE]
         /\ gw.at # "select")

(* A node has one link to each cluster, Open gives a usable server or a    *)
(* dead one and Close leaves no connection, in any order of their steps    *)
(* and those of the server (StartServer, Open, Close).                     *)
NodeCorrect == NodeTypeOK /\ LinksOnce /\ OpenIsUsable /\ ClosedHasNoConn
=============================================================================
