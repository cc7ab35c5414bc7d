------------------------------- MODULE MCRpc --------------------------------
(***************************************************************************)
(* The parts of the rpc layer, and what the connections of a node need:    *)
(* its certificates, its lock and its addresses.  Each on its own: a       *)
(* behaviour is one of the chosen part.  All parts are at rest initially   *)
(* and only the chosen one moves, so the fairness of the others asks for   *)
(* nothing.                                                                *)
(***************************************************************************)
EXTENDS JrpcDuplex, PoolMux, SharedClient, RpcDial, RpcServe, CertCache,
        NodeLock, Subnet

VARIABLE part   (* the component that runs *)

vars == <<part, duplexVars, poolVars, cacheVars, dialVars, serveVars,
          certVars, lockVars, subnetVars>>

Init ==
  /\ part \in {"duplex", "pool", "cache", "dial", "serve", "certs", "lock", "subnet"}
  /\ DuplexInit /\ PoolInit /\ CacheInit /\ DialInit /\ ServeInit /\ CertInit /\ LockInit /\ SubnetInit

Next ==
  \/ /\ part = "duplex" /\ DuplexNext
     /\ UNCHANGED <<part, poolVars, cacheVars, dialVars, serveVars, certVars,
                    lockVars, subnetVars>>
  \/ /\ part = "pool" /\ PoolNext
     /\ UNCHANGED <<part, duplexVars, cacheVars, dialVars, serveVars,
                    certVars, lockVars, subnetVars>>
  \/ /\ part = "cache" /\ CacheNext
     /\ UNCHANGED <<part, duplexVars, poolVars, dialVars, serveVars,
                    certVars, lockVars, subnetVars>>
  \/ /\ part = "dial" /\ DialNext
     /\ UNCHANGED <<part, duplexVars, poolVars, cacheVars, serveVars,
                    certVars, lockVars, subnetVars>>
  \/ /\ part = "serve" /\ ServeNext
     /\ UNCHANGED <<part, duplexVars, poolVars, cacheVars, dialVars,
                    certVars, lockVars, subnetVars>>
  \/ /\ part = "certs" /\ CertNext
     /\ UNCHANGED <<part, duplexVars, poolVars, cacheVars, dialVars,
                    serveVars, lockVars, subnetVars>>
  \/ /\ part = "lock" /\ LockNext
     /\ UNCHANGED <<part, duplexVars, poolVars, cacheVars, dialVars,
                    serveVars, certVars, subnetVars>>
  \/ /\ part = "subnet" /\ SubnetNext
     /\ UNCHANGED <<part, duplexVars, poolVars, cacheVars, dialVars,
                    serveVars, certVars, lockVars>>

Spec ==
  /\ Init /\ [][Next]_vars
  /\ DuplexFairness /\ PoolFairness /\ CacheFairness
  /\ DialFairness /\ ServeFairness /\ CertFairness

(* What a process takes of the machine has one holder: the lock of the     *)
(* home directory, which names it, and loopback addresses (TryLock,        *)
(* Unlock, Allocate).                                                      *)
HomeIsOwned == HolderIsNamed /\ LockExact /\ AddressesExact

(* What is begun ends: calls and acquires return, unused clients expire,   *)
(* dials end, a server whose client is gone closes, and whoever asks for a *)
(* certificate gets it, whatever breaks meanwhile (roundtrip, Acquire,     *)
(* Cleanup, DialContext, Serve, ObtainCertificate).                        *)
RpcEnds ==
  /\ CallsReturn /\ AcquireReturns /\ UnusedExpires
  /\ DialEnds /\ CutCloses /\ ObtainsReturn
=============================================================================
