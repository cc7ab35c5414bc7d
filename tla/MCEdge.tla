------------------------------- MODULE MCEdge -------------------------------
(***************************************************************************)
(* The parts that join nodes: the TLS multiplexer, the NATS server and its *)
(* gateway, the list of peers and the key-value API.  Each on its own: a   *)
(* behaviour is one of the chosen part.  All parts are at rest initially   *)
(* and only the chosen one moves, so the fairness of the others asks for   *)
(* nothing.                                                                *)
(***************************************************************************)
EXTENDS TlsMux, PeerList, NatsNode, KvApi

VARIABLE part   (* the component that runs *)

vars == <<part, muxVars, peerVars, natsVars, kvVars>>

-----------------------------------------------------------------------------
(* Two machines that announce the same host name.                          *)
MCHostOf == [n \in Machines |-> "h"]
MCTopologies == {{NoCluster, "eu", "us"}, {"eu"}}

-----------------------------------------------------------------------------
Init ==
  /\ part \in {"tls", "peers", "nats", "kv"}
  /\ MuxInit /\ PeerInit /\ NatsInit /\ KvInit

Next ==
  \/ /\ part = "tls" /\ MuxNext
     /\ UNCHANGED <<part, peerVars, natsVars, kvVars>>
  \/ /\ part = "peers" /\ PeerNext
     /\ UNCHANGED <<part, muxVars, natsVars, kvVars>>
  \/ /\ part = "nats" /\ NatsNext
     /\ UNCHANGED <<part, muxVars, peerVars, kvVars>>
  \/ /\ part = "kv" /\ KvNext
     /\ UNCHANGED <<part, muxVars, peerVars, natsVars>>

Spec ==
  /\ Init /\ [][Next]_vars
  /\ MuxFairness /\ PeerFairness /\ NatsFairness

(* What is begun ends: a mux that closes closes all it has, peers that     *)
(* stay find each other, a server that starts or fails is reported, and    *)
(* the end of one ends all that belongs to it (closeLocked, tick,          *)
(* StartServer).                                                           *)
EdgeSettles == CloseCompletes /\ PeersConverge /\ ProbeSettles /\ DownEndsAll
=============================================================================
