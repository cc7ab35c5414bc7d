---------------------------- MODULE LoadBalancer ----------------------------
(***************************************************************************)
(* One load balancer (lb/lb.go, lb/upstream.go) and the requests that go   *)
(* through it at the same time: the choice of an upstream, the answer or   *)
(* the error of that upstream, retries (retry/retrier.go), the load factor *)
(* that drain waits for, and the sticky entry of the client's session.     *)
(*                                                                         *)
(* A retry is a nested call: the frames of the upstreams tried before stay *)
(* on the stack, and in their load factors, until the last attempt ends.   *)
(***************************************************************************)
EXTENDS Integers, Sequences, FiniteSets

CONSTANTS
  Upstreams,   (* identities of upstreams                                   *)
  Calls,       (* concurrent requests, all of one client session            *)
  Gets,        (* those of them whose method is GET                         *)
  LeastConn,   (* strat: least (the default); FALSE is random, hash or      *)
               (* round-robin, whose entropy the model leaves open          *)
  Sticky,      (* state: sticky (the default)                               *)
  ErrorOpts,   (* 4xx, 5xx and 404 have a handler and a limit               *)
  RetryAttempts (* retry attempts, after the default                         *)

NoUpstream == "none"

ASSUME BalancerAssumption ==
  /\ IsFiniteSet(Upstreams) /\ NoUpstream \notin Upstreams
  /\ IsFiniteSet(Calls) /\ Gets \subseteq Calls
  /\ LeastConn \in BOOLEAN /\ Sticky \in BOOLEAN /\ ErrorOpts \in BOOLEAN
  /\ RetryAttempts \in Nat \ {0}

VARIABLES
  list,      (* lb.upstreams                                                *)
  healthy,   (* per upstream: Healthy                                       *)
  load,      (* per upstream: LoadFactor                                    *)
  sticky,    (* Session.Values[stickySessionKey]: "absent", None or an      *)
             (* upstream                                                    *)
  pc,        (* per request                                                 *)
  bad,       (* per request: ctx.Upstream                                   *)
  index,     (* per request: entropy % healthyN                             *)
  held,      (* per request: upstreams of its Upstream.ServeHTTP frames     *)
  step,      (* per request: Retrier.Step                                   *)
  cancelled  (* per request: its context is done                            *)

lbVars == <<list, healthy, load, sticky>>
reqVars == <<pc, bad, index, held, step, cancelled>>
balanceVars == <<list, healthy, load, sticky, pc, bad, index, held, step, cancelled>>

Maybe == Upstreams \cup {NoUpstream}
Listed == {list[i] : i \in DOMAIN list}

(* The values of the upstream list, the load factors and the calls. *)
LbTypeOK ==
  /\ list \in Seq(Upstreams) /\ Len(list) <= Cardinality(Upstreams)
  /\ healthy \in [Upstreams -> BOOLEAN]
  /\ load \in [Upstreams -> Nat]
  /\ sticky \in Maybe \cup {"absent"}
  /\ pc \in [Calls -> {"new", "pick", "next", "index", "serve", "upstream",
                          "error", "consume", "wait", "unwind", "done"}]
  /\ bad \in [Calls -> Maybe]
  /\ index \in [Calls -> 0..Cardinality(Upstreams)]
  /\ held \in [Calls -> Seq(Upstreams)]
  /\ step \in [Calls -> Nat]
  /\ cancelled \in [Calls -> BOOLEAN]

LbInit ==
  /\ list = <<>>
  /\ healthy = [u \in Upstreams |-> TRUE]
  /\ load = [u \in Upstreams |-> 0]
  /\ sticky = "absent"
  /\ pc = [r \in Calls |-> "new"]
  /\ bad = [r \in Calls |-> NoUpstream]
  /\ index = [r \in Calls |-> 0]
  /\ held = [r \in Calls |-> <<>>]
  /\ step = [r \in Calls |-> 0]
  /\ cancelled = [r \in Calls |-> FALSE]

Goto(r, l) == pc' = [pc EXCEPT ![r] = l]

-----------------------------------------------------------------------------
(* The list and the flags.  The writers wait for NextUpstream's read lock. *)

Unlocked == \A r \in Calls : pc[r] # "index"

AddUpstream(u) ==
  /\ Unlocked /\ u \notin Listed
  /\ list' = Append(list, u)
  /\ UNCHANGED <<healthy, load, sticky>> /\ UNCHANGED reqVars

RemoveUpstream(u) ==
  /\ Unlocked
  /\ \E i \in DOMAIN list :
       /\ list[i] = u
       /\ list' = SubSeq(list, 1, i - 1) \o SubSeq(list, i + 1, Len(list))
  /\ UNCHANGED <<healthy, load, sticky>> /\ UNCHANGED reqVars

ClearUpstreams ==
  /\ Unlocked /\ list # <<>>
  /\ list' = <<>>
  /\ UNCHANGED <<healthy, load, sticky>> /\ UNCHANGED reqVars

SetHealthy(u) ==
  /\ healthy' = [healthy EXCEPT ![u] = ~healthy[u]]
  /\ UNCHANGED <<list, load, sticky>> /\ UNCHANGED reqVars

Cancel(r) ==
  /\ pc[r] # "done" /\ ~cancelled[r]
  /\ cancelled' = [cancelled EXCEPT ![r] = TRUE]
  /\ UNCHANGED lbVars
  /\ UNCHANGED <<pc, bad, index, held, step>>

-----------------------------------------------------------------------------
(* ServeHTTP, PickUpstream and NextUpstream.                               *)

ServeHTTP(r) ==
  /\ pc[r] = "new"
  /\ Goto(r, "pick")
  /\ UNCHANGED lbVars
  /\ UNCHANGED <<bad, index, held, step, cancelled>>

(* sync.Map.CompareAndSwap: an absent key is equal to nothing, nil included. *)
CompareAndSwap(old, new) == IF sticky = old THEN new ELSE sticky

(* The sticky upstream, unless it failed this request or is unhealthy.     *)
StickyPick(r) ==
  /\ pc[r] = "pick"
  /\ LET u == sticky
     IN IF Sticky /\ u \in Upstreams /\ u # bad[r] /\ healthy[u]
        THEN /\ bad' = [bad EXCEPT ![r] = u] /\ Goto(r, "serve")
             /\ UNCHANGED sticky
        ELSE /\ Goto(r, "next") /\ UNCHANGED bad
             /\ sticky' = IF Sticky /\ u \in Upstreams THEN NoUpstream ELSE sticky
  /\ UNCHANGED <<list, healthy, load, index, held, step, cancelled>>

(* What NextUpstream returns goes to the session, if there is one.         *)
Picked(r, u) ==
  /\ bad' = [bad EXCEPT ![r] = IF u = NoUpstream THEN @ ELSE u]
  /\ Goto(r, IF u = NoUpstream THEN "error" ELSE "serve")
  /\ sticky' = IF Sticky /\ u # NoUpstream THEN CompareAndSwap(NoUpstream, u) ELSE sticky

HealthyAt == {i \in DOMAIN list : healthy[list[i]]}

(* The least loaded of the healthy ones, the first one if there is a tie   *)
(* or none is healthy.                                                     *)
BestByLoad ==
  IF HealthyAt = {} THEN list[1]
  ELSE list[CHOOSE i \in HealthyAt : \A j \in HealthyAt :
              \/ load[list[i]] < load[list[j]]
              \/ load[list[i]] = load[list[j]] /\ i <= j]

(* The fixed cases, least-conn, and the count of the healthy upstreams.    *)
NextUpstream(r) ==
  /\ pc[r] = "next"
  /\ \/ list = <<>> /\ Picked(r, NoUpstream) /\ UNCHANGED index
     \/ Len(list) = 1 /\ Picked(r, list[1]) /\ UNCHANGED index
     \/ /\ Len(list) > 1 /\ LeastConn /\ bad[r] = NoUpstream
        /\ Picked(r, BestByLoad) /\ UNCHANGED index
     \/ /\ Len(list) > 1 /\ (~LeastConn \/ bad[r] # NoUpstream)
        /\ \/ HealthyAt = {} /\ Picked(r, NoUpstream) /\ UNCHANGED index
           \/ /\ \E i \in HealthyAt : HealthyAt = {i} /\ Picked(r, list[i])
              /\ UNCHANGED index
           \/ /\ Cardinality(HealthyAt) > 1
              /\ \E n \in 0..(Cardinality(HealthyAt) - 1) :
                   index' = [index EXCEPT ![r] = n]
              /\ Goto(r, "index")
              /\ UNCHANGED <<bad, sticky>>
  /\ UNCHANGED <<list, healthy, load, held, step, cancelled>>

(* Where a walk along the positions C ends that passes at most n of them.  *)
Walk(C, n) ==
  LET Reached == {i \in C : Cardinality({j \in C : j < i}) <= n}
  IN CHOOSE i \in Reached : \A j \in Reached : j <= i

(* The n-th healthy upstream other than the bad one, or the last of them.  *)
getHealthyIdxLocked(n, b) ==
  LET C == {i \in HealthyAt : list[i] # b}
  IN IF C = {} THEN b ELSE list[Walk(C, n)]

(* The flags are read again, still under the read lock.                    *)
PickByIndex(r) ==
  /\ pc[r] = "index"
  /\ Picked(r, getHealthyIdxLocked(index[r], bad[r]))
  /\ index' = [index EXCEPT ![r] = 0]
  /\ UNCHANGED <<list, healthy, load, held, step, cancelled>>

-----------------------------------------------------------------------------
(* Upstream.ServeHTTP and the hooks of its reverse proxy.                  *)

Enter(r) ==
  /\ pc[r] = "serve"
  /\ load' = [load EXCEPT ![bad[r]] = @ + 1]
  /\ held' = [held EXCEPT ![r] = Append(@, bad[r])]
  /\ Goto(r, "upstream")
  /\ UNCHANGED <<list, healthy, sticky, bad, index, step, cancelled>>

(* A response that is passed on: no error, 444 (the connection is reset),  *)
(* the request cancelled meanwhile, any 4xx, or what a handler or a limit  *)
(* made of it.                                                             *)
Responds(r) ==
  /\ pc[r] = "upstream"
  /\ Goto(r, "unwind")
  /\ UNCHANGED lbVars
  /\ UNCHANGED <<bad, index, held, step, cancelled>>

(* OnErrorResponse for a 5xx: retriable for GET, unless the handler or, in *)
(* a first attempt, the rate limit of the error options took it.           *)
ServerError(r) ==
  /\ pc[r] = "upstream" /\ ~cancelled[r]
  /\ \/ r \in Gets /\ Goto(r, "consume")
     \/ (r \notin Gets \/ ErrorOpts) /\ Goto(r, "unwind")
  /\ UNCHANGED lbVars /\ UNCHANGED <<bad, index, held, step, cancelled>>

(* The transport fails: the proxy's ErrorHandler calls OnError.            *)
TransportError(r) ==
  /\ pc[r] = "upstream"
  /\ Goto(r, "error")
  /\ UNCHANGED lbVars
  /\ UNCHANGED <<bad, index, held, step, cancelled>>

(* MUTANT: the handler of a client that is gone does not return.           *)
OnErrorHangs(r) ==
  /\ pc[r] = "error" /\ ~cancelled[r]
  /\ Goto(r, "consume")
  /\ UNCHANGED lbVars
  /\ UNCHANGED <<bad, index, held, step, cancelled>>

(* OnError: nothing for a client that is gone, otherwise Consume.          *)
OnError(r) ==
  /\ pc[r] = "error"
  /\ Goto(r, IF cancelled[r] THEN "unwind" ELSE "consume")
  /\ UNCHANGED lbVars
  /\ UNCHANGED <<bad, index, held, step, cancelled>>

(* Policy.Step.                                                            *)
RetryLeft(n) == n < RetryAttempts

(* ConsumeAny up to its select: the attempts, the context, the deadline.   *)
(* When it refuses, the 5xx is passed on or StatusUpstreamError written.   *)
Consume(r) ==
  /\ pc[r] = "consume"
  /\ step' = [step EXCEPT ![r] = @ + 1]
  /\ \/ RetryLeft(step[r]) /\ ~cancelled[r] /\ Goto(r, "wait")
     \/ Goto(r, "unwind")
  /\ UNCHANGED lbVars
  /\ UNCHANGED <<bad, index, held, cancelled>>

(* Its select: the delay is over, and serveHTTP runs again.                *)
Retry(r) ==
  /\ pc[r] = "wait"
  /\ Goto(r, "pick")
  /\ UNCHANGED lbVars
  /\ UNCHANGED <<bad, index, held, step, cancelled>>

RetryCancelled(r) ==
  /\ pc[r] = "wait" /\ cancelled[r]
  /\ Goto(r, "unwind")
  /\ UNCHANGED lbVars
  /\ UNCHANGED <<bad, index, held, step, cancelled>>

(* MUTANT: the deferred call finds the upstream through the context.       *)
FrameUpstreamContext(r) == bad[r]

(* The upstream whose deferred LoadFactor.Add(-1) is next to run.          *)
FrameUpstream(r) == held[r][Len(held[r])]

(* The calls return, innermost first.                                      *)
Unwind(r) ==
  /\ pc[r] = "unwind"
  /\ IF held[r] = <<>>
     THEN Goto(r, "done") /\ UNCHANGED <<load, held>>
     ELSE /\ load' = [load EXCEPT ![FrameUpstream(r)] = @ - 1]
          /\ held' = [held EXCEPT ![r] = SubSeq(@, 1, Len(@) - 1)]
          /\ UNCHANGED pc
  /\ UNCHANGED <<list, healthy, sticky, bad, index, step, cancelled>>

-----------------------------------------------------------------------------
Balancer(r) ==
  \/ StickyPick(r) \/ NextUpstream(r) \/ PickByIndex(r) \/ Enter(r)
  \/ OnError(r) \/ Consume(r) \/ Retry(r) \/ RetryCancelled(r) \/ Unwind(r)

Upstream(r) == Responds(r) \/ ServerError(r) \/ TransportError(r)

LbNext ==
  \/ \E u \in Upstreams : AddUpstream(u) \/ RemoveUpstream(u) \/ SetHealthy(u)
  \/ ClearUpstreams
  \/ \E r \in Calls : ServeHTTP(r) \/ Cancel(r) \/ Balancer(r) \/ Upstream(r)

(* A request's goroutine runs and its upstream answers or fails; nobody    *)
(* has to add an upstream or repair a flag.                                *)
LbSpec == LbInit /\ [][LbNext]_balanceVars
LbFairSpec ==
  /\ LbSpec
  /\ \A r \in Calls : WF_balanceVars(Balancer(r)) /\ WF_balanceVars(Upstream(r))

-----------------------------------------------------------------------------
Better(b) == {u \in Listed : healthy[u] /\ u # b}

PickedWell(r) ==
  /\ pc[r] \in {"pick", "next", "index"} /\ pc'[r] = "serve" =>
       \/ healthy[bad'[r]] /\ bad'[r] # bad[r]
       \/ Len(list) = 1
       \/ Better(bad[r]) = {}
  /\ pc[r] \in {"next", "index"} /\ pc'[r] = "error" => Better(NoUpstream) = {}

(* Whatever happens to list and flags while a request chooses, it is sent  *)
(* to an upstream that is unhealthy, or that failed it just before, only   *)
(* if there is no other choice, and fails for want of upstreams only if    *)
(* none is left (NextUpstream, getHealthyIdxLocked).  The sticky entry is  *)
(* subject to the same rule.                                               *)
PickIsBest == [][\A r \in Calls : PickedWell(r)]_balanceVars

Frames(u) ==
  {f \in Calls \X (1..(RetryAttempts + 1)) :
     f[2] \in DOMAIN held[f[1]] /\ held[f[1]][f[2]] = u}

(* LoadFactor, which drain and least-conn rely on, is the number of calls  *)
(* of the upstream that have not returned, retries, errors and             *)
(* cancellations included (Upstream.ServeHTTP).                            *)
LoadExact == \A u \in Upstreams : load[u] = Cardinality(Frames(u))

(* A request makes at most Attempts retries: "The maximum number of        *)
(* retries", shared by errors, 5xx answers and failed picks.               *)
RetriesBounded == \A r \in Calls : Len(held[r]) <= RetryAttempts + 1

(* A request ends, also when no upstream ever turns up: retries are finite *)
(* and every frame of the stack returns.                                   *)
RequestEnds == \A r \in Calls : (pc[r] # "new") ~> (pc[r] = "done")

(* PickUpstream: "Pick the upstream and store it if it's good."            *)
StickyStored ==
  \A r \in Calls : Sticky /\ pc[r] = "upstream" /\ ~cancelled[r]
                        => sticky # "absent"

(* What a request is given and what it holds: a healthy upstream other     *)
(* than the one that failed it while there is one, although health changes *)
(* between count and choice; load factors that count the calls on the      *)
(* stacks, which are no deeper than the retries allow, whatever is added,  *)
(* removed or fails meanwhile (PickUpstream, serveHTTP).                   *)
BalanceCorrect ==
  [](LbTypeOK /\ RetriesBounded /\ LoadExact) /\ PickIsBest
=============================================================================
