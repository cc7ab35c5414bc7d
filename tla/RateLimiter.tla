---------------------------- MODULE RateLimiter ----------------------------
(***************************************************************************)
(* One limit and its counters: Limit.Enforce, Limit.OnExceed and the       *)
(* lock-free windows of rate/limit.go and rate/window.go.  A request runs  *)
(* Enforce; every atomic operation on the shared counters is a step.       *)
(***************************************************************************)
EXTENDS Integers, FiniteSets

CONSTANTS
  Requests,     (* concurrent calls of Enforce                              *)
  Limit,        (* Rate.Count                                               *)
  Burst,        (* Options.Burst                                            *)
  BlockAfter,   (* BlockAfter.Count; 0 stands for no BlockAfter             *)
  MaxTick       (* BOUND: periods that pass                                 *)

ASSUME LimiterAssumption ==
  /\ Limit \in Nat \ {0} /\ Burst \in Nat /\ BlockAfter \in Nat
  /\ MaxTick \in Nat \ {0} /\ IsFiniteSet(Requests)

VARIABLES
  tick,       (* the current period of the clock                            *)
  window,     (* windows 0, 1 and 2 (blockWindow): [count, tick]            *)
  waiting,    (* LimitCounter.queue                                         *)
  req,        (* per request: [at, tick, win, lim, old, goal, pos]          *)
  admitted,   (* history: per period, requests let in at once               *)
  excused,    (* history: per period, refusals without a block              *)
  late        (* history: <<window, period>> that an older one wrote over   *)

limVars == <<tick, window, waiting, req, admitted, excused, late>>

MaxCounter == 1000000   (* stands for 2^32 - 1 *)
NoReq == [at |-> "off", tick |-> 0, win |-> 0, lim |-> 0,
          old |-> [count |-> 0, tick |-> 0], goal |-> "admit", pos |-> 0]
Ticks == 1..MaxTick
Window == [count : Nat, tick : 0..MaxTick]

(* Every variable has its type.                                            *)
LimTypeOK ==
  /\ tick \in Ticks
  /\ window \in [0..2 -> Window]
  /\ waiting \in 0..Cardinality(Requests)
  /\ req \in [Requests ->
       [at : {"off", "look", "read", "load", "cas", "join", "wait", "refuse",
              "leave", "in", "out"},
        tick : 0..MaxTick, win : 0..2, lim : Nat, old : Window,
        goal : {"admit", "force", "block"}, pos : Nat]]
  /\ admitted \in [Ticks -> Nat] /\ excused \in [Ticks -> Nat]
  /\ late \subseteq (0..2) \X Ticks

LimInit ==
  /\ tick = 1
  /\ window = [w \in 0..2 |-> [count |-> 0, tick |-> 0]]
  /\ waiting = 0
  /\ req = [r \in Requests |-> NoReq]
  /\ admitted = [t \in Ticks |-> 0]
  /\ excused = [t \in Ticks |-> 0]
  /\ late = {}

-----------------------------------------------------------------------------
(* The next period begins, whoever has read the clock before.              *)
LimTick ==
  /\ tick < MaxTick
  /\ \E r \in Requests : req[r].at # "off"
  /\ tick' = tick + 1
  /\ UNCHANGED <<window, waiting, req, admitted, excused, late>>

Arrives(r) ==
  /\ req[r].at = "off"
  /\ req' = [req EXCEPT ![r].at = "look"]
  /\ UNCHANGED <<tick, window, waiting, admitted, excused, late>>

(* A call of Inc on the window of the current period, or on blockWindow.   *)
Inc(r, goal, lim) ==
  req' = [req EXCEPT ![r] =
           [@ EXCEPT !.at = IF goal = "block" THEN "load" ELSE "read",
                     !.goal = goal, !.lim = lim, !.tick = tick,
                     !.win = IF goal = "block" THEN 2 ELSE tick % 2]]

(* bp := queue.Load()                                                      *)
Look(r) ==
  /\ req[r].at = "look"
  /\ \/ waiting = 0 /\ Inc(r, "admit", Limit)
     \/ /\ waiting > 0
        /\ req' = [req EXCEPT ![r].at =
                     IF waiting >= Burst THEN "refuse" ELSE "join"]
  /\ UNCHANGED <<tick, window, waiting, admitted, excused, late>>

(* slidingWindow.Inc: the other window is asked for the same period, which *)
(* it counts never.                                                        *)
Carry(r) ==
  LET other == window[1 - req[r].win]
      prev  == IF other.tick = req[r].tick THEN other.count ELSE 0
  IN  IF prev < req[r].lim \div 2 THEN prev ELSE req[r].lim \div 2

ReadOther(r) ==
  /\ req[r].at = "read"
  /\ req' = [req EXCEPT ![r] = [@ EXCEPT !.at = "load",
                                          !.lim = req[r].lim - Carry(r)]]
  /\ UNCHANGED <<tick, window, waiting, admitted, excused, late>>

(* What a failed Inc leads to: the queue or a refusal if it was to admit,  *)
(* else the return.                                                        *)
Refused(r) ==
  IF req[r].goal # "admit" THEN "leave"
  ELSE IF Burst <= 0 THEN "refuse" ELSE "join"

Counted(r) == IF window[req[r].win].tick < req[r].tick THEN 0
              ELSE window[req[r].win].count

LoadWindow(r) ==
  /\ req[r].at = "load"
  /\ req' = [req EXCEPT ![r] =
              [@ EXCEPT !.old = window[req[r].win],
                        !.at = IF Counted(r) >= req[r].lim
                                  THEN Refused(r) ELSE "cas"]]
  /\ UNCHANGED <<tick, window, waiting, admitted, excused, late>>

OldCount(r) == IF req[r].old.tick < req[r].tick THEN 0 ELSE req[r].old.count

(* An increment of a period before the one that the window counts takes    *)
(* the window back to its own: the periods from it to that one count anew. *)
Overwritten(r) == {req[r].win} \X (req[r].tick..window[req[r].win].tick)
SetsBack(r) == window[req[r].win].tick > req[r].tick

Succeeds(r) ==
  /\ window' = [window EXCEPT ![req[r].win] =
                  [count |-> OldCount(r) + 1, tick |-> req[r].tick]]
  /\ req' = [req EXCEPT ![r].at =
               IF req[r].goal = "admit" THEN "in" ELSE "leave"]
  /\ admitted' = IF req[r].goal = "admit"
                 THEN [admitted EXCEPT ![req[r].tick] = @ + 1] ELSE admitted
  /\ excused' = IF req[r].goal = "block"
                THEN [excused EXCEPT ![req[r].tick] = @ + 1] ELSE excused
  /\ late' = IF SetsBack(r) THEN late \cup Overwritten(r) ELSE late
  /\ UNCHANGED <<tick, waiting>>

(* MUTANT: the new count is stored whatever happened since the load.       *)
StoreWindow(r) == req[r].at = "cas" /\ Succeeds(r)

(* MUTANT: the window is loaded once, before the loop.                     *)
CompareAndSwapStale(r) ==
  /\ req[r].at = "cas" /\ window[req[r].win] = req[r].old /\ Succeeds(r)

CompareAndSwapWindow(r) ==
  /\ req[r].at = "cas"
  /\ \/ window[req[r].win] = req[r].old /\ Succeeds(r)
     \/ /\ window[req[r].win] # req[r].old
        /\ req' = [req EXCEPT ![r].at = "load"]
        /\ UNCHANGED <<tick, window, waiting, admitted, excused, late>>

-----------------------------------------------------------------------------
(* bp = queue.Add(1)                                                       *)
Join(r) ==
  /\ req[r].at = "join" /\ waiting' = waiting + 1
  /\ req' = [req EXCEPT ![r] =
              [@ EXCEPT !.pos = waiting + 1,
                        !.at = IF waiting + 1 >= Burst
                                  THEN "refuse" ELSE "wait"]]
  /\ UNCHANGED <<tick, window, admitted, excused, late>>

(* The delay would end after the deadline, or the context ends first.      *)
GiveUp(r) ==
  /\ req[r].at = "wait" /\ req' = [req EXCEPT ![r].at = "leave"]
  /\ UNCHANGED <<tick, window, waiting, admitted, excused, late>>

(* The delay is over: the counter is increased by force.                   *)
Delayed(r) ==
  /\ req[r].at = "wait" /\ Inc(r, "force", MaxCounter)
  /\ UNCHANGED <<tick, window, waiting, admitted, excused, late>>

(* OnExceed                                                                *)
OnExceed(r) ==
  /\ req[r].at = "refuse"
  /\ IF BlockAfter = 0 THEN req' = [req EXCEPT ![r].at = "leave"]
     ELSE Inc(r, "block", BlockAfter)
  /\ UNCHANGED <<tick, window, waiting, admitted, excused, late>>

(* defer queue.Add(-1)                                                     *)
Leave(r) ==
  /\ req[r].at = "leave"
  /\ waiting' = IF req[r].pos > 0 THEN waiting - 1 ELSE waiting
  /\ req' = [req EXCEPT ![r].at = "out"]
  /\ UNCHANGED <<tick, window, admitted, excused, late>>

Enforce(r) ==
  \/ Look(r) \/ ReadOther(r) \/ LoadWindow(r) \/ CompareAndSwapWindow(r)
  \/ Join(r) \/ GiveUp(r) \/ Delayed(r) \/ OnExceed(r) \/ Leave(r)

LimNext == LimTick \/ \E r \in Requests : Arrives(r) \/ Enforce(r)

LimFairness == \A r \in Requests : WF_limVars(Enforce(r))

-----------------------------------------------------------------------------
(* No period lets in more requests at once than the rate allows, and none  *)
(* excuses more refusals than BlockAfter, unless an increment for an       *)
(* earlier period set its window back: the compare-and-swap of one request *)
(* fails when another one came between (window.Inc).                       *)
RateKept ==
  \A t \in Ticks :
    /\ <<t % 2, t>> \in late \/ admitted[t] <= Limit
    /\ <<2, t>> \in late \/ excused[t] <= BlockAfter

(* A window is set back only by a request that read the clock two periods  *)
(* ago, or one for the window of refusals, and was held up since: the two  *)
(* windows of the rate take turns (window.Inc, slidingWindow.Inc).         *)
OnlyLateSetsBack ==
  [][late' # late =>
       \E r \in Requests :
         /\ req[r].at = "cas"
         /\ req[r].tick + (IF req[r].win = 2 THEN 1 ELSE 2) <= tick]_limVars

(* Fewer than Burst requests wait, although each looks at the queue twice  *)
(* with others joining in between (Enforce).                               *)
WaitersBounded ==
  LET waiters == {r \in Requests : req[r].at = "wait"} IN
    Cardinality(waiters) <= (IF Burst = 0 THEN 0 ELSE Burst - 1)

(* Every place taken in the queue is given back: it is as long as there    *)
(* are requests that joined and have not returned, on every path.          *)
QueueExact ==
  waiting = Cardinality({r \in Requests :
                           req[r].pos > 0 /\ req[r].at # "out"})

(* Every call of Enforce returns: the retries of window.Inc end.           *)
EnforceReturns ==
  []<>(\A r \in Requests : req[r].at \in {"off", "in", "out"})
=============================================================================
