------------------------------ MODULE PoolMux ------------------------------
(***************************************************************************)
(* The pool of rpc connections of pmtp/pool_mux.go.  Users run Call:       *)
(* Acquire, the call itself and Release.  connsMu is held over the dialing *)
(* of a connection, a channel of released connections is not guarded by    *)
(* it, and connections die at any time.                                    *)
(***************************************************************************)
EXTENDS Integers, Sequences, FiniteSets

CONSTANTS
  Users,       (* concurrent calls of Call                                  *)
  MaxConns,    (* length of conns and of the queue                          *)
  MaxClients   (* BOUND: connections that are dialled                       *)

ASSUME PoolAssumption ==
  /\ MaxConns \in Nat \ {0} /\ MaxClients \in Nat \ {0}
  /\ IsFiniteSet(Users) /\ "nobody" \notin Users

VARIABLES
  yamux,     (* the code is of type YamuxCode                               *)
  conn,      (* per connection: "none", "open", "dead" or "closed"          *)
  dialled,   (* number of connections so far                                *)
  slots,     (* PoolMux.conns, 0 for nil                                    *)
  common,    (* PoolMux.shared, 0 for nil                                   *)
  free,      (* PoolMux.queue                                               *)
  poolShut,  (* PoolMux.closed                                              *)
  holder,    (* the user that holds connsMu                                 *)
  user,      (* per user: [at, cli, unique, slot]                           *)
  late       (* history: connections dialled after Close                    *)

poolVars ==
  <<yamux, conn, dialled, slots, common, free, poolShut, holder, user, late>>

Conns == 1..MaxClients
NoUser == [at |-> "off", cli |-> 0, unique |-> FALSE, slot |-> 0]

(* Every variable has its type.                                            *)
PoolTypeOK ==
  /\ yamux \in BOOLEAN
  /\ conn \in [Conns -> {"none", "open", "dead", "closed"}]
  /\ dialled \in 0..MaxClients
  /\ slots \in [1..MaxConns -> 0..MaxClients] /\ common \in 0..MaxClients
  /\ free \in Seq(Conns) /\ Len(free) <= MaxConns
  /\ poolShut \in BOOLEAN /\ holder \in Users \cup {"nobody"}
  /\ user \in [Users -> [at : {"off", "check", "queue", "unique", "shared",
                               "dial", "have", "call", "release", "end"},
                         cli : 0..MaxClients, unique : BOOLEAN,
                         slot : 0..MaxConns]]
  /\ late \subseteq Conns

PoolInit ==
  /\ yamux = FALSE
  /\ conn = [c \in Conns |-> "none"] /\ dialled = 0
  /\ slots = [i \in 1..MaxConns |-> 0] /\ common = 0 /\ free = <<>>
  /\ poolShut = FALSE /\ holder = "nobody"
  /\ user = [u \in Users |-> NoUser] /\ late = {}

-----------------------------------------------------------------------------
Usable(c) == conn[c] = "open"
Busy(c) == Cardinality({u \in Users : user[u].at = "call" /\ user[u].cli = c})

Die(c) ==
  /\ conn[c] = "open" /\ conn' = [conn EXCEPT ![c] = "dead"]
  /\ UNCHANGED <<yamux, dialled, slots, common, free, poolShut, holder, user,
                 late>>

(* NewPoolMux with either code: Preconnect has filled the first slot.      *)
NewPoolMux ==
  /\ yamux' \in BOOLEAN
  /\ dialled = 0 /\ dialled' = 1
  /\ conn' = [conn EXCEPT ![1] = "open"]
  /\ slots' = [slots EXCEPT ![1] = 1] /\ free' = <<1>>
  /\ UNCHANGED <<common, poolShut, holder, user, late>>

Enter(u) ==
  /\ user[u].at = "off" /\ dialled > 0
  /\ user' = [user EXCEPT ![u].at = "check"]
  /\ UNCHANGED <<yamux, conn, dialled, slots, common, free, poolShut, holder,
                 late>>

(* Acquire looks at closed without connsMu.                                *)
Acquire(u) ==
  /\ user[u].at = "check"
  /\ user' = [user EXCEPT ![u].at = IF poolShut THEN "end" ELSE "queue"]
  /\ UNCHANGED <<yamux, conn, dialled, slots, common, free, poolShut, holder,
                 late>>

Has(u, c, unique) ==
  user' = [user EXCEPT ![u] = [at |-> "have", cli |-> c, unique |-> unique,
                               slot |-> user[u].slot]]

(* Connect is called with connsMu held.                                    *)
Connects(u, i, unique) ==
  /\ holder' = u
  /\ user' = [user EXCEPT ![u] = [at |-> "dial", cli |-> user[u].cli,
                                  unique |-> unique, slot |-> i]]

(* getUniqueClient: a connection from the queue, those that died dropped.  *)
FromQueue(u) ==
  /\ user[u].at = "queue"
  /\ \/ /\ free # <<>> /\ free' = Tail(free)
        /\ IF Usable(Head(free)) THEN Has(u, Head(free), TRUE)
           ELSE UNCHANGED user
     \/ /\ free = <<>> /\ user' = [user EXCEPT ![u].at = "unique"]
        /\ UNCHANGED free
  /\ UNCHANGED <<yamux, conn, dialled, slots, common, poolShut, holder, late>>

Dead(i) == slots[i] # 0 /\ ~Usable(slots[i])
Rests(i) == slots[i] # 0 /\ Usable(slots[i]) /\ Busy(slots[i]) = 0
First(S) == CHOOSE i \in S : \A j \in S : i <= j

(* MUTANT: the first slot is taken for the new connection in any case.     *)
ScanFirst(u) ==
  /\ user[u].at = "unique" /\ holder = "nobody"
  /\ Connects(u, 1, TRUE) /\ slots' = [slots EXCEPT ![1] = 0]
  /\ UNCHANGED <<yamux, conn, dialled, common, free, poolShut, late>>

(* Under connsMu, the first slot that is idle, empty or dead.              *)
Scan(u) ==
  LET fit == {i \in 1..MaxConns : slots[i] = 0 \/ Dead(i) \/ Rests(i)} IN
  /\ user[u].at = "unique" /\ holder = "nobody"
  /\ \/ /\ fit = {} /\ user' = [user EXCEPT ![u].at = "shared"]
        /\ UNCHANGED <<slots, holder>>
     \/ /\ fit # {} /\ Rests(First(fit))
        /\ Has(u, slots[First(fit)], TRUE)
        /\ UNCHANGED <<slots, holder>>
     \/ /\ fit # {} /\ ~Rests(First(fit)) /\ Connects(u, First(fit), TRUE)
        /\ slots' = [slots EXCEPT ![First(fit)] = 0]
  /\ UNCHANGED <<yamux, conn, dialled, common, free, poolShut, late>>

(* getSharedClient with a yamux code: one connection for all.              *)
SharedMux(u) ==
  /\ yamux /\ user[u].at = "shared" /\ holder = "nobody"
  /\ IF common # 0 /\ Usable(common)
     THEN Has(u, common, FALSE) /\ UNCHANGED holder
     ELSE Connects(u, 0, FALSE)
  /\ UNCHANGED <<yamux, conn, dialled, slots, common, free, poolShut, late>>

(* Without: the least busy connection, or a new one in the first gap.      *)
SharedBusy(u) ==
  LET open == {i \in 1..MaxConns : slots[i] # 0 /\ ~Dead(i)}
      best == {i \in open : \A j \in open : Busy(slots[i]) <= Busy(slots[j])}
  IN
  /\ ~yamux /\ user[u].at = "shared" /\ holder = "nobody"
  /\ slots' = [i \in 1..MaxConns |-> IF Dead(i) THEN 0 ELSE slots[i]]
  /\ \/ open # {} /\ Has(u, slots[First(best)], FALSE) /\ UNCHANGED holder
     \/ open = {} /\ Connects(u, 1, TRUE)
  /\ UNCHANGED <<yamux, conn, dialled, common, free, poolShut, late>>

(* Connect returns a connection, and connsMu is given back.                *)
Dial(u) ==
  LET c == dialled + 1 IN
  /\ user[u].at = "dial" /\ dialled < MaxClients
  /\ dialled' = c /\ conn' = [conn EXCEPT ![c] = "open"]
  /\ slots' = IF user[u].slot = 0 THEN slots
              ELSE [slots EXCEPT ![user[u].slot] = c]
  /\ common' = IF user[u].slot = 0 THEN c ELSE common
  /\ Has(u, c, user[u].unique) /\ holder' = "nobody"
  /\ late' = IF poolShut THEN late \cup {c} ELSE late
  /\ UNCHANGED <<yamux, free, poolShut>>

(* MUTANT: connsMu is not given back.                                      *)
DialFailsHolds(u) ==
  /\ user[u].at = "dial" /\ user' = [user EXCEPT ![u].at = "end"]
  /\ UNCHANGED <<yamux, conn, dialled, slots, common, free, poolShut, holder,
                 late>>

DialFails(u) ==
  /\ user[u].at = "dial" /\ user' = [user EXCEPT ![u].at = "end"]
  /\ common' = IF user[u].slot = 0 THEN 0 ELSE common
  /\ holder' = "nobody"
  /\ UNCHANGED <<yamux, conn, dialled, slots, free, poolShut, late>>

BeginCall(u) ==
  /\ user[u].at = "have" /\ user' = [user EXCEPT ![u].at = "call"]
  /\ UNCHANGED <<yamux, conn, dialled, slots, common, free, poolShut, holder,
                 late>>

EndCall(u) ==
  /\ user[u].at = "call" /\ user' = [user EXCEPT ![u].at = "release"]
  /\ UNCHANGED <<yamux, conn, dialled, slots, common, free, poolShut, holder,
                 late>>

(* A unique connection goes back to the queue if it lives and has room.    *)
Release(u) ==
  /\ user[u].at = "release" /\ user' = [user EXCEPT ![u].at = "end"]
  /\ free' = IF user[u].unique /\ Usable(user[u].cli) /\ Len(free) < MaxConns
             THEN Append(free, user[u].cli) ELSE free
  /\ UNCHANGED <<yamux, conn, dialled, slots, common, poolShut, holder, late>>

CloseConns(S) ==
  conn' = [c \in Conns |-> IF c \in S /\ conn[c] = "open" THEN "closed"
                           ELSE conn[c]]

ClosePool ==
  /\ dialled > 0 /\ ~poolShut /\ holder = "nobody" /\ poolShut' = TRUE
  /\ CloseConns({slots[i] : i \in 1..MaxConns} \cup {common})
  /\ slots' = [i \in 1..MaxConns |-> 0] /\ common' = 0
  /\ UNCHANGED <<yamux, dialled, free, holder, user, late>>

-----------------------------------------------------------------------------
PoolUser(u) ==
  \/ Acquire(u) \/ FromQueue(u) \/ Scan(u) \/ SharedMux(u) \/ SharedBusy(u)
  \/ BeginCall(u) \/ Release(u)

(* The peer answers a dial or a call, or the connection ends.              *)
PeerAnswers(u) == Dial(u) \/ DialFails(u) \/ EndCall(u)

PoolNext ==
  \/ NewPoolMux \/ ClosePool
  \/ \E c \in Conns : Die(c)
  \/ \E u \in Users : Enter(u) \/ PoolUser(u) \/ PeerAnswers(u)

(* Goroutines run; a dial or a call need not return.                       *)
PoolFairness == \A u \in Users : WF_poolVars(PoolUser(u))

-----------------------------------------------------------------------------
Tracked == {slots[i] : i \in 1..MaxConns} \cup {common}

(* No connection leaks: one that is open is in a slot or is the shared one *)
(* (where Close finds it), also when slots are emptied and filled by       *)
(* several users and a dial fails (getUniqueClient, getSharedClient).      *)
OpenIsTracked == \A c \in Conns : Usable(c) => c \in Tracked

(* After Close only a connection of an Acquire that had passed its check   *)
(* of closed before is open: it is dialled into the closed pool.           *)
ClosedPoolIsEmpty == poolShut => \A c \in Conns : Usable(c) => c \in late

(* Every call of Acquire returns, although it waits for connsMu, and every *)
(* call lets go of its client, unless a peer is silent for ever: then the  *)
(* dial to it keeps connsMu (Acquire, getUniqueClient, Release).           *)
AcquireReturns ==
  []<>(\/ \A u \in Users : user[u].at \in {"off", "call", "end"}
       \/ \E u \in Users : user[u].at = "dial")

(* Connections of the pool are never lost from sight, and none survives    *)
(* Close but those dialled by an Acquire that overlaps it (Acquire,        *)
(* Release, Close).                                                        *)
PoolCorrect == PoolTypeOK /\ OpenIsTracked /\ ClosedPoolIsEmpty
=============================================================================
