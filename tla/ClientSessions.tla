--------------------------- MODULE ClientSessions ---------------------------
(***************************************************************************)
(* The session of each client address of vhttp/client.go: the map and its  *)
(* counter, the cleaner that forgets idle sessions, and the block that     *)
(* EnforceRateReq puts on a session.  A session is named after the request *)
(* that created it.                                                        *)
(***************************************************************************)
EXTENDS Integers, FiniteSets

CONSTANTS
  Addresses,   (* remote client addresses                                   *)
  MaxVisits,   (* BOUND: requests, numbered as they arrive                  *)
  Idle,        (* the 30 minutes after which a session is forgotten         *)
  BlockTimes,  (* Limit.BlockFor of each limit, which nothing bounds        *)
  MaxClock     (* BOUND: length of a behaviour                              *)

ASSUME SessionsAssumption ==
  /\ Addresses # {} /\ IsFiniteSet(Addresses)
  /\ {MaxVisits, Idle, MaxClock} \cup BlockTimes \subseteq Nat

Visits == 1..MaxVisits
NoSession == 0

VARIABLES
  clock,       (* time.Now()                                                *)
  known,       (* sessionMap: the session of each address, or NoSession     *)
  client,      (* per session: [last, until], its two atomic stamps         *)
  clients,     (* sessionCount                                              *)
  visit,       (* per request: [at, ip, t, ses, seen, block]                *)
  sweep,       (* the cleaner: [at, todo, ip, before, last, gone]           *)
  banned,      (* history: until when the session of each address blocks it *)
  lost         (* history: the addresses whose block the cleaner has        *)
               (* forgotten for one of the reasons of SweepDeletes          *)

visitVars == <<clock, known, client, clients, visit, sweep, banned, lost>>

NewClient(t) == [last |-> t, until |-> 0]
Visit(place, ip, t) ==
  [at |-> place, ip |-> ip, t |-> t, ses |-> NoSession, seen |-> 0, block |-> 0]
Sweep(place, todoIps, ip, before, last, gone) ==
  [at |-> place, todo |-> todoIps, ip |-> ip, before |-> before, last |-> last,
   gone |-> gone]
NoSweep == Sweep("sleep", {}, CHOOSE ip \in Addresses : TRUE, 0, 0, 0)

Times == 0..MaxClock

(* Every variable has its type.                                            *)
VisitTypeOK ==
  /\ clock \in Times /\ clients \in Int
  /\ known \in [Addresses -> Visits \cup {NoSession}]
  /\ client \in [Visits -> [last : Times, until : Nat]]
  /\ visit \in [Visits -> [at : {"off", "load", "new", "store", "count",
                                 "start", "check", "serve", "ban", "swap",
                                 "end"},
                           ip : Addresses, t : Times,
                           ses : Visits \cup {NoSession},
                           seen : Nat, block : Nat]]
  /\ sweep \in [at : {"sleep", "range", "delete"},
                todo : SUBSET Addresses, ip : Addresses,
                before : -Idle..MaxClock, last : Times,
                gone : Nat]
  /\ banned \in [Addresses -> Nat] /\ lost \subseteq Addresses

VisitInit ==
  /\ clock = 0 /\ clients = 0 /\ sweep = NoSweep
  /\ known = [ip \in Addresses |-> NoSession]
  /\ client = [v \in Visits |-> NewClient(0)]
  /\ visit = [v \in Visits |-> Visit("off", NoSweep.ip, 0)]
  /\ banned = [ip \in Addresses |-> 0] /\ lost = {}

Ended == {"off", "end"}

(* Nothing bounds how long a handler, or a sweep, takes.                   *)
VisitClock ==
  /\ clock < MaxClock /\ clock' = clock + 1
  /\ UNCHANGED <<known, client, clients, visit, sweep, banned, lost>>

Goto(v, place) ==
  visit' = IF place \in Ended
           THEN [visit EXCEPT ![v] = Visit(place, visit[v].ip, 0)]
           ELSE [visit EXCEPT ![v].at = place]

-----------------------------------------------------------------------------
(* StartClientRequest: the time is read before the session is looked up.   *)
Arrive(v, ip) ==
  /\ visit[v].at = "off" /\ (v > 1 => visit[v - 1].at # "off")
  /\ visit' = [visit EXCEPT ![v] = Visit("load", ip, clock)]
  /\ UNCHANGED <<clock, known, client, clients, sweep, banned, lost>>

LoadSession(v) ==
  /\ visit[v].at = "load"
  /\ visit' = [visit EXCEPT ![v] =
                [@ EXCEPT !.ses = known[visit[v].ip],
                          !.at = IF known[visit[v].ip] = NoSession
                                    THEN "new" ELSE "start"]]
  /\ UNCHANGED <<clock, known, client, clients, sweep, banned, lost>>

(* newClientSession asks the provider of ip infos for as long as it takes. *)
NewSession(v) ==
  /\ visit[v].at = "new" /\ Goto(v, "store")
  /\ client' = [client EXCEPT ![v] = NewClient(visit[v].t)]
  /\ UNCHANGED <<clock, known, clients, sweep, banned, lost>>

(* The client left meanwhile: panic(http.ErrAbortHandler).                 *)
NewAborted(v) ==
  /\ visit[v].at = "new" /\ Goto(v, "end")
  /\ UNCHANGED <<clock, known, client, clients, sweep, banned, lost>>

(* LoadOrStore                                                             *)
LoadOrStore(v) ==
  LET s == known[visit[v].ip] IN
  /\ visit[v].at = "store"
  /\ known' = IF s = NoSession THEN [known EXCEPT ![visit[v].ip] = v] ELSE known
  /\ visit' = [visit EXCEPT ![v] =
                [@ EXCEPT !.ses = IF s = NoSession THEN v ELSE s,
                          !.at = IF s = NoSession THEN "count" ELSE "start"]]
  /\ UNCHANGED <<clock, client, clients, sweep, banned, lost>>

CountSession(v) ==
  /\ visit[v].at = "count" /\ clients' = clients + 1 /\ Goto(v, "start")
  /\ UNCHANGED <<clock, known, client, sweep, banned, lost>>

(* startRequest: the stamp of the request, whichever is there.             *)
StartRequest(v) ==
  /\ visit[v].at = "start" /\ Goto(v, "check")
  /\ client' = [client EXCEPT ![visit[v].ses].last = visit[v].t]
  /\ UNCHANGED <<clock, known, clients, sweep, banned, lost>>

(* IsBlocked                                                               *)
CheckBlocked(v) ==
  /\ visit[v].at = "check"
  /\ Goto(v, IF client[visit[v].ses].until > clock THEN "end" ELSE "serve")
  /\ UNCHANGED <<clock, known, client, clients, sweep, banned, lost>>

(* The limits let the request pass, or tell it to come back later.         *)
ServeVisit(v) ==
  /\ visit[v].at = "serve" /\ Goto(v, "end")
  /\ UNCHANGED <<clock, known, client, clients, sweep, banned, lost>>

(* EnforceRateReq: a limit advises a block.  BlockUntil keeps the longer   *)
(* of two blocks.                                                          *)
BlockUntil(v, time) ==
  /\ visit[v].at \in {"serve", "ban"}
  /\ visit' = [visit EXCEPT ![v] =
                [@ EXCEPT !.at = "swap",
                          !.seen = client[visit[v].ses].until,
                          !.block = IF visit[v].at = "ban" THEN visit[v].block
                                       ELSE clock + time]]
  /\ UNCHANGED <<clock, known, client, clients, sweep, banned, lost>>

(* The compare-and-swap of the loop, and its next turn.  It is a block of  *)
(* the address if the session still is that of the address.                *)
SwapBlock(v) ==
  LET s == visit[v].ses
      ip == visit[v].ip
      enough == visit[v].seen >= visit[v].block
      won == ~enough /\ client[s].until = visit[v].seen
      own == won /\ known[ip] = s
  IN  /\ visit[v].at = "swap"
      /\ Goto(v, IF enough \/ won THEN "end" ELSE "ban")
      /\ client' = IF won THEN [client EXCEPT ![s].until = visit[v].block]
                   ELSE client
      /\ banned' = IF own THEN [banned EXCEPT ![ip] = visit[v].block] ELSE banned
      /\ lost' = IF own THEN lost \ {ip} ELSE lost
      /\ UNCHANGED <<clock, known, clients, sweep>>

-----------------------------------------------------------------------------
(* cleanupClientSessions                                                   *)

SweepBegins ==
  /\ sweep.at = "sleep" /\ clock > Idle
  /\ sweep' = Sweep("range", Addresses, NoSweep.ip, clock - Idle, 0, 0)
  /\ UNCHANGED <<clock, known, client, clients, visit, banned, lost>>

(* MUTANT: every session is deleted.                                       *)
SweepLooksNot(ip) ==
  /\ sweep.at = "range" /\ ip \in sweep.todo
  /\ sweep' = IF known[ip] = NoSession THEN [sweep EXCEPT !.todo = @ \ {ip}]
              ELSE Sweep("delete", sweep.todo \ {ip}, ip, sweep.before,
                         client[known[ip]].last, sweep.gone)
  /\ UNCHANGED <<clock, known, client, clients, visit, banned, lost>>

SweepLooks(ip) ==
  LET s == known[ip] IN
  /\ sweep.at = "range" /\ ip \in sweep.todo
  /\ sweep' = IF s = NoSession \/ client[s].last >= sweep.before
              THEN [sweep EXCEPT !.todo = @ \ {ip}]
              ELSE Sweep("delete", sweep.todo \ {ip}, ip, sweep.before,
                         client[s].last, sweep.gone)
  /\ UNCHANGED <<clock, known, client, clients, visit, banned, lost>>

(* The session may have got a request since it was looked at; and its      *)
(* block may reach further than a session is kept.                         *)
SweepDeletes ==
  LET c == client[known[sweep.ip]] IN
  /\ sweep.at = "delete"
  /\ lost' = IF c.last # sweep.last \/ c.until > c.last + Idle
             THEN lost \cup {sweep.ip} ELSE lost
  /\ known' = [known EXCEPT ![sweep.ip] = NoSession]
  /\ sweep' = Sweep("range", sweep.todo, sweep.ip, sweep.before, sweep.last,
                    sweep.gone + 1)
  /\ UNCHANGED <<clock, client, clients, visit, banned>>

SweepEnds ==
  /\ sweep.at = "range" /\ sweep.todo = {}
  /\ clients' = clients - sweep.gone
  /\ sweep' = NoSweep
  /\ UNCHANGED <<clock, known, client, visit, banned, lost>>

-----------------------------------------------------------------------------
Visiting(v) ==
  \/ LoadSession(v) \/ NewSession(v) \/ NewAborted(v) \/ LoadOrStore(v)
  \/ CountSession(v) \/ StartRequest(v) \/ CheckBlocked(v) \/ ServeVisit(v)
  \/ SwapBlock(v) \/ \E time \in BlockTimes : BlockUntil(v, time)

Sweeping ==
  \/ SweepBegins \/ SweepDeletes \/ SweepEnds
  \/ \E ip \in Addresses : SweepLooks(ip)

VisitNext ==
  \/ VisitClock \/ Sweeping
  \/ \E v \in Visits, ip \in Addresses : Arrive(v, ip)
  \/ \E v \in Visits : Visiting(v)

-----------------------------------------------------------------------------
(* The counter of the metrics is that of the map, but for sessions between *)
(* their two steps (StartClientRequest, cleanupClientSessions).            *)
ClientsExact ==
  clients + Cardinality({v \in Visits : visit[v].at = "count"}) - sweep.gone
    = Cardinality({ip \in Addresses : known[ip] # NoSession})

(* An address that is blocked gets no request through the check until the  *)
(* block is over, though stamps are stored late and requests and sweeps    *)
(* take any time.  But a block that ends more than the 30 minutes after    *)
(* the last stamp of its session is forgotten with it, as is one whose     *)
(* session gets a request between the look and the deletion; and a request *)
(* whose session was deleted since it found it looks at that one           *)
(* (cleanupClientSessions, startRequest, IsBlocked).                       *)
BlockIsKept ==
  [][\A v \in Visits :
       visit[v].at = "check" /\ visit'[v].at = "serve"
         => \/ banned[visit[v].ip] <= clock
            \/ visit[v].ip \in lost
            \/ visit[v].ses # known[visit[v].ip]]_visitVars

(* A block of a session is never cut short, by another limit or by a       *)
(* request that decided earlier (BlockUntil).                              *)
BlockGrows == [][\A s \in Visits : client'[s].until >= client[s].until]_visitVars

(* The block of an address holds until it is over, though requests, the    *)
(* sweep and other limits work on its session at the same time, but for    *)
(* those that outlast the session, and sessions are counted right          *)
(* (StartClientRequest, cleanupClientSessions).                            *)
BlocksCorrect ==
  [](VisitTypeOK /\ ClientsExact) /\ BlockIsKept /\ BlockGrows
=============================================================================
