------------------------------ MODULE PeerList ------------------------------
(***************************************************************************)
(* xpost/peerlist.go: every node puts its heartbeat, stamped by its own    *)
(* clock, under its key in the "peers" bucket, reads the keys of all       *)
(* others, and keeps a list of peers.  Each request to the bucket is a     *)
(* step of its own and may fail.                                           *)
(***************************************************************************)
EXTENDS Integers, FiniteSets, Functions

CONSTANTS
  Machines,    (* nodes, by machine id                                      *)
  HostOf,      (* [Machines -> host name]; two machines may have the same   *)
  Timeout,     (* HeartbeatTimeout                                          *)
  MaxTime,     (* BOUND: the time that the clocks show                      *)
  MaxFailures  (* BOUND: requests to the bucket that fail                   *)

ASSUME PeersAssumption ==
  /\ {Timeout, MaxFailures} \subseteq Nat /\ MaxTime \in Nat \ {0}
  /\ DOMAIN HostOf = Machines

VARIABLES
  bucket,     (* PeerKV: the heartbeat of each key, 0 for none              *)
  flight,     (* per node: the heartbeat that is on its way there, or 0     *)
  now,        (* per node: what its clock shows                             *)
  peer,       (* per node: [at, up, live, todo, got, last]                  *)
  closing,    (* per node: [at, time, raced]: how far Close is; when it     *)
              (* cancelled, and whether a heartbeat was on its way then     *)
  failures    (* number of failures so far                                  *)

peerVars == <<bucket, flight, now, peer, closing, failures>>

Away == [at |-> "new", up |-> FALSE, live |-> FALSE, todo |-> {}, got |-> {},
         last |-> {}]
Staying == [at |-> "no", time |-> 0, raced |-> FALSE]
Sighting == [id : Machines, beat : 1..MaxTime]
PeerType == [at : {"new", "off", "wait", "sent", "get"},
             up : BOOLEAN, live : BOOLEAN, todo : SUBSET Machines,
             got : SUBSET Sighting, last : SUBSET Sighting]

(* Every variable has its type.                                            *)
PeerTypeOK ==
  /\ bucket \in [Machines -> 0..MaxTime] /\ flight \in [Machines -> 0..MaxTime]
  /\ now \in [Machines -> 1..MaxTime] /\ peer \in [Machines -> PeerType]
  /\ closing \in [Machines -> [at : {"no", "purge", "closed", "failed"},
                               time : 0..MaxTime, raced : BOOLEAN]]
  /\ failures \in 0..MaxFailures

PeerInit ==
  /\ bucket = [n \in Machines |-> 0] /\ flight = [n \in Machines |-> 0]
  /\ now = [n \in Machines |-> 1] /\ failures = 0
  /\ peer = [n \in Machines |-> Away]
  /\ closing = [n \in Machines |-> Staying]

Up(n) == peer[n].up /\ peer[n].live

-----------------------------------------------------------------------------
(* The clocks of two nodes need not agree; none goes back.                 *)
ClockRuns(n) ==
  /\ now[n] < MaxTime /\ now' = [now EXCEPT ![n] = now[n] + 1]
  /\ UNCHANGED <<bucket, flight, peer, closing, failures>>

(* An update stamps its heartbeat and sends it.  The puts of a node are    *)
(* stored in their order.                                                  *)
SendBeat(n) ==
  /\ flight[n] = 0 /\ flight' = [flight EXCEPT ![n] = now[n]]
  /\ peer' = [peer EXCEPT ![n] = [@ EXCEPT !.at = "sent", !.live = TRUE]]

(* Open updates once itself; then the ticker does.  A session opens once.  *)
OpenPeers(n) ==
  /\ peer[n].at = "new" /\ SendBeat(n)
  /\ UNCHANGED <<bucket, now, closing, failures>>

(* MUTANT: a tick does not ask whether the node was closed.                *)
TickPeersClosed(n) ==
  /\ peer[n].at = "wait" /\ SendBeat(n)
  /\ UNCHANGED <<bucket, now, closing, failures>>

(* A tick after Close ends the goroutine.                                  *)
TickPeers(n) ==
  /\ peer[n].at = "wait"
  /\ IF peer[n].live THEN SendBeat(n)
     ELSE peer' = [peer EXCEPT ![n].at = "off"] /\ UNCHANGED flight
  /\ UNCHANGED <<bucket, now, closing, failures>>

(* The bucket stores it, after a purge too that came first.                *)
StoreBeat(n) ==
  /\ flight[n] # 0
  /\ bucket' = [bucket EXCEPT ![n] = flight[n]]
  /\ flight' = [flight EXCEPT ![n] = 0]
  /\ UNCHANGED <<now, peer, closing, failures>>

(* The put has returned.                                                   *)
ListKeys(n) ==
  /\ peer[n].at = "sent" /\ flight[n] = 0 /\ peer[n].live
  /\ peer' = [peer EXCEPT ![n] =
               [@ EXCEPT !.at = "get",
                         !.todo = {m \in Machines : bucket[m] # 0}]]
  /\ UNCHANGED <<bucket, flight, now, closing, failures>>

(* MUTANT: an update that fails is the last.                               *)
FailedEnds(n) == peer' = [peer EXCEPT ![n] =
                           [@ EXCEPT !.at = "off", !.got = {},
                                     !.todo = {}]]

(* Open returns the error, with no list, and starts no ticker; the ticker  *)
(* goes on or, once closed, ends.  How often it failed in a row nobody     *)
(* reads.                                                                  *)
Failed(n) ==
  peer' = [peer EXCEPT ![n] =
            [@ EXCEPT !.todo = {}, !.got = {},
                      !.at = IF Up(n) THEN "wait" ELSE "off", !.live = Up(n),
                      !.last = IF peer[n].up THEN peer[n].last ELSE {}]]

(* kv.Get: a key that was purged since fails the whole update.             *)
GetPeer(n, m) ==
  /\ peer[n].at = "get" /\ m \in peer[n].todo /\ peer[n].live
  /\ IF bucket[m] = 0 THEN Failed(n)
     ELSE peer' = [peer EXCEPT ![n] =
                    [@ EXCEPT !.todo = peer[n].todo \ {m},
                              !.got = peer[n].got \cup
                                        {[id |-> m, beat |-> bucket[m]]}]]
  /\ UNCHANGED <<bucket, flight, now, closing, failures>>

(* A request fails or, once the context is cancelled, is given up.  A put  *)
(* that failed is lost or still on its way.                                *)
RequestFails(n) ==
  /\ peer[n].at = "sent" \/ (peer[n].at = "get" /\ peer[n].todo # {})
  /\ Failed(n)
  /\ IF peer[n].live THEN failures < MaxFailures /\ failures' = failures + 1
     ELSE UNCHANGED failures
  /\ \/ UNCHANGED flight
     \/ /\ peer[n].at = "sent" /\ flight[n] # 0
        /\ flight' = [flight EXCEPT ![n] = 0]
  /\ UNCHANGED <<bucket, now, closing>>

(* slices.SortFunc by heartbeat; the order of equal ones is open.          *)
Sorts(got) ==
  {s \in Bijection(1..Cardinality(got), got) :
     \A i, j \in DOMAIN s : i < j => s[i].beat <= s[j].beat}

(* The mappings for hosts.Insert: the last of a host name overrides.       *)
Of(s, h) == {i \in DOMAIN s : HostOf[s[i].id] = h}
Mappings(s) ==
  [h \in {HostOf[s[i].id] : i \in DOMAIN s} |->
     s[CHOOSE i \in Of(s, h) : \A j \in Of(s, h) : j <= i].id]

GotAll(n) == peer[n].at = "get" /\ peer[n].todo = {}

(* The list is replaced unless the node was closed.                        *)
KeepList(n) ==
  /\ GotAll(n)
  /\ peer' = [peer EXCEPT ![n] =
               [@ EXCEPT !.at = IF peer[n].live THEN "wait" ELSE "off",
                         !.up = TRUE, !.got = {},
                         !.last = IF peer[n].live THEN peer[n].got
                                  ELSE peer[n].last]]
  /\ UNCHANGED <<bucket, flight, now, closing, failures>>

(* Close, once Open has ended well or not, cancels.                        *)
ClosePeers(n) ==
  /\ closing[n].at = "no"
  /\ peer[n].up \/ peer[n].at = "off"
  /\ closing' = [closing EXCEPT ![n] = [at |-> "purge", time |-> now[n],
                                        raced |-> flight[n] # 0]]
  /\ peer' = [peer EXCEPT ![n].live = FALSE]
  /\ UNCHANGED <<bucket, flight, now, failures>>

(* It purges the own key.                                                  *)
PurgePeer(n) ==
  /\ closing[n].at = "purge" /\ closing' = [closing EXCEPT ![n].at = "closed"]
  /\ bucket' = [bucket EXCEPT ![n] = 0]
  /\ UNCHANGED <<flight, now, peer, failures>>

(* The purge fails: the record stays, or only the answer was lost.         *)
PurgeFails(n) ==
  /\ closing[n].at = "purge" /\ closing' = [closing EXCEPT ![n].at = "failed"]
  /\ failures < MaxFailures /\ failures' = failures + 1
  /\ bucket' \in {bucket, [bucket EXCEPT ![n] = 0]}
  /\ UNCHANGED <<flight, now, peer>>

-----------------------------------------------------------------------------
Updating(n) ==
  \/ TickPeers(n) \/ ListKeys(n) \/ RequestFails(n) \/ KeepList(n)
  \/ \E m \in Machines : GetPeer(n, m)
Purging(n) == PurgePeer(n) \/ PurgeFails(n)

PeerNext ==
  \E n \in Machines :
    ClockRuns(n) \/ OpenPeers(n) \/ Updating(n) \/ StoreBeat(n)
      \/ ClosePeers(n) \/ Purging(n)

(* Tickers fire, and requests arrive, return or time out.                  *)
PeerFairness ==
  \A n \in Machines :
    /\ WF_peerVars(Updating(n)) /\ WF_peerVars(StoreBeat(n))
    /\ WF_peerVars(Purging(n))

-----------------------------------------------------------------------------
(* Peerlist.List                                                           *)
List(n, alive) ==
  LET r == {p \in peer[n].last : alive => p.beat > now[n] - Timeout}
  IN  IF ~alive /\ r = {} THEN {n} ELSE {p.id : p \in r}

(* Once requests stop failing, the nodes that stay know each other and     *)
(* have forgotten those that left, whoever comes and goes while they read  *)
(* the bucket (update, tick).                                              *)
PeersConverge ==
  []<>(\A n, m \in Machines : Up(n) =>
         /\ Up(m) => m \in List(n, FALSE)
         /\ closing[m].at = "closed" /\ bucket[m] = 0 /\ flight[m] = 0
              => m \notin List(n, FALSE))

(* A host name leads to a machine with no older heartbeat than any machine *)
(* of that name this update saw, or the one before did and that has not    *)
(* closed since: by the stamps of their own clocks, no name goes back      *)
(* (update).                                                               *)
NamesFreshest ==
  \A n \in Machines : GotAll(n) =>
    LET got == peer[n].got
        stay == {p \in peer[n].last : closing[p.id].at = "no"} IN
    \A s \in Sorts(got), p \in got \cup stay :
      \E q \in got : /\ HostOf[q.id] = HostOf[p.id] /\ q.beat >= p.beat
                     /\ Mappings(s)[HostOf[q.id]] = q.id

(* A node whose Close succeeded is not in the bucket, unless a heartbeat   *)
(* was already on its way when Close cancelled (Close, tick).              *)
ClosedIsGone ==
  \A n \in Machines :
    closing[n].at = "closed" /\ ~closing[n].raced => bucket[n] = 0

(* Even where the purge failed or a heartbeat came after it, no node lists *)
(* a closed one as alive when its own clock is the timeout past the time   *)
(* the closed one's clock showed at Close (List, tick).                    *)
ClosedFades ==
  \A n, m \in Machines :
    closing[m].at # "no" /\ m \in List(n, TRUE)
      => closing[m].time > now[n] - Timeout

(* Names do not go back to a machine heard earlier; a node that closed is  *)
(* gone but for a heartbeat in flight, and fades in any case (update, List,*)
(* Close).                                                                 *)
PeersCorrect == PeerTypeOK /\ NamesFreshest /\ ClosedIsGone /\ ClosedFades
=============================================================================
