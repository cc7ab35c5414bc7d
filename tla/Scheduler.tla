----------------------------- MODULE Scheduler -----------------------------
(***************************************************************************)
(* Scheduled publications of one topic: ScheduledRunner.Run of             *)
(* session/runner.go.                                                      *)
(*                                                                         *)
(* Every node of the mesh runs the loop of Run for the same key of the     *)
(* scheduler bucket.  Times are relative: due is the time until the        *)
(* nextRun of the entry.  Every machine has a clock of its own: what one   *)
(* of them reads is off by at most Skew, by another amount each time, and  *)
(* a nextRun stamped with one clock is compared with another one.          *)
(* Revisions are numbers of the bucket's stream,                           *)
(* compared for equality only: a node's revision is the entry's while the  *)
(* node is in seen, and it is the entry's last but one plus one (the guess *)
(* of the roll-back) while no other key was written in between.            *)
(***************************************************************************)
EXTENDS Integers, FiniteSets

CONSTANTS
  Nodes,       (* nodes of the mesh                                         *)
  Interval,    (* the interval of the schedule                              *)
  Jitter,      (* greatest change of a sleep: 0.2 of it in the code         *)
  Skew,        (* greatest error of a clock                                 *)
  MaxErrors    (* BOUND: failed loads and publications                      *)

ASSUME SchedulerAssumption ==
  /\ Interval \in Nat \ {0} /\ Jitter \in 0..Interval
  /\ Skew \in Nat /\ MaxErrors \in Nat

Past == -(Skew + 1)      (* earlier than any clock's now *)
None == Past - 1         (* no entry yet *)
Floor(t) == IF t < Past THEN Past ELSE t
Sooner(t) == Floor(t - 1)
Older(t) == IF t <= Interval THEN t + 1 ELSE t
Errors == -Skew..Skew    (* of a reading of a clock *)

VARIABLES
  due,       (* time until the nextRun of the entry, None without entry     *)
  seen,      (* nodes whose loaded revision is the entry's                  *)
  gap,       (* another key was written since the entry's last revision     *)
  node,      (* per node: [at, until (nextRun), since (now), guess, nap]    *)
  age,       (* history: time since the now of the last claim that stands   *)
  claimer,   (* history: the node of that claim                             *)
  errors     (* number of failed loads and publications                     *)

schedVars == <<due, seen, gap, node, age, claimer, errors>>

(* A node between two rounds of the loop, for which nap is left to sleep.  *)
Resting(at, nap) ==
  [at |-> at, until |-> Past, since |-> Interval + 1, guess |-> FALSE, nap |-> nap]
Off == Resting("off", 0)

(* Every variable has its type.                                            *)
SchedTypeOK ==
  /\ due \in None..(Interval + Skew) /\ seen \subseteq Nodes /\ gap \in BOOLEAN
  /\ node \in [Nodes ->
       [at : {"off", "load", "sleep", "claim", "publish", "rollback"},
        until : Past..(Interval + Skew), since : 0..(Interval + 1),
        guess : BOOLEAN, nap : 0..(Interval + Jitter + 2 * Skew)]]
  /\ age \in 0..(Interval + 1) /\ claimer \in Nodes \cup {"none"}
  /\ errors \in 0..MaxErrors

SchedInit ==
  /\ due = None /\ seen = {} /\ gap = FALSE
  /\ node = [n \in Nodes |-> Off]
  /\ age = Interval + 1 /\ claimer = "none" /\ errors = 0

-----------------------------------------------------------------------------
(* Time.  A node may be held up anywhere: its nextRun passes.              *)
SchedClock ==
  /\ \E n \in Nodes : node[n].at # "off"
  /\ due' = IF due = None THEN None ELSE Sooner(due)
  /\ node' = [n \in Nodes |->
                [node[n] EXCEPT
                   !.until = Sooner(node[n].until), !.since = Older(node[n].since),
                   !.nap = IF node[n].nap > 0 THEN node[n].nap - 1 ELSE 0]]
  /\ age' = Older(age)
  /\ UNCHANGED <<seen, gap, claimer, errors>>

OtherKey ==
  /\ ~gap /\ due # None /\ gap' = TRUE
  /\ UNCHANGED <<due, seen, node, age, claimer, errors>>

Step(n, at) == node' = [node EXCEPT ![n].at = at]

StartRun(n) ==
  /\ node[n].at = "off" /\ Step(n, "load")
  /\ UNCHANGED <<due, seen, gap, age, claimer, errors>>

(* The context ends, or the node.                                          *)
StopRun(n) ==
  /\ node[n].at # "off" /\ node' = [node EXCEPT ![n] = Off]
  /\ seen' = seen \ {n}
  /\ UNCHANGED <<due, gap, age, claimer, errors>>

(* time.Until reads the clock once more; the jitter is added to it.        *)
Sleeps(n, until) ==
  \E j \in -(Jitter + Skew)..(Jitter + Skew) :
    node' = [node EXCEPT ![n] =
              Resting("sleep", IF until + j > 0 THEN until + j ELSE 0)]

(* load: Get, or Create and Get; nextRun of a new entry is its creation by *)
(* the clock of the server.  Then now is read.                             *)
Load(n) ==
  /\ node[n].at = "load"
  /\ due' \in IF due = None THEN Errors ELSE {due}
  /\ gap' = IF due = None THEN FALSE ELSE gap
  /\ seen' = seen \cup {n}
  /\ \E e \in Errors :
       IF due' < e
       THEN node' = [node EXCEPT ![n] =
                      [@ EXCEPT !.at = "claim", !.until = Interval + e, !.since = 0]]
       ELSE Sleeps(n, due')
  /\ UNCHANGED <<age, claimer, errors>>

LoadFails(n) ==
  /\ node[n].at = "load" /\ errors < MaxErrors
  /\ errors' = errors + 1
  /\ \E e \in Errors : Sleeps(n, Interval + e)
  /\ UNCHANGED <<due, seen, gap, age, claimer>>

(* The entry is written by node n: every other revision is stale.          *)
Write(n, t) ==
  /\ due' = Floor(t)
  /\ seen' = {n} /\ gap' = FALSE

(* MUTANT: the entry is put, not updated from the revision that was read.  *)
ClaimPuts(n) ==
  /\ node[n].at = "claim"
  /\ Write(n, node[n].until) /\ Step(n, "publish")
  /\ age' = node[n].since /\ claimer' = n
  /\ UNCHANGED <<errors>>

(* xchg(now + interval, revision).                                         *)
Claim(n) ==
  /\ node[n].at = "claim"
  /\ IF n \in seen
     THEN /\ Write(n, node[n].until)
          /\ node' = [node EXCEPT ![n] =
                       [@ EXCEPT !.at = "publish", !.guess = ~gap]]
          /\ age' = node[n].since /\ claimer' = n
     ELSE /\ Sleeps(n, node[n].until)
          /\ UNCHANGED <<due, seen, gap, age, claimer>>
  /\ UNCHANGED <<errors>>

PublishRun(n) ==
  /\ node[n].at = "publish"
  /\ Sleeps(n, node[n].until)
  /\ UNCHANGED <<due, seen, gap, age, claimer, errors>>

PublishFails(n) ==
  /\ node[n].at = "publish" /\ errors < MaxErrors
  /\ errors' = errors + 1 /\ Step(n, "rollback")
  /\ UNCHANGED <<due, seen, gap, age, claimer>>

(* xchg(now, revision + 1), its error ignored.                             *)
Rollback(n) ==
  /\ node[n].at = "rollback"
  /\ IF n \in seen /\ node[n].guess
     THEN /\ Write(n, node[n].until - Interval)
          /\ age' = IF claimer = n THEN Interval + 1 ELSE age
     ELSE UNCHANGED <<due, seen, gap, age>>
  /\ Sleeps(n, node[n].until)
  /\ UNCHANGED <<claimer, errors>>

Wake(n) ==
  /\ node[n].at = "sleep" /\ node[n].nap = 0
  /\ Step(n, "load")
  /\ UNCHANGED <<due, seen, gap, age, claimer, errors>>

-----------------------------------------------------------------------------
Run(n) ==
  Load(n) \/ Claim(n) \/ PublishRun(n) \/ Rollback(n) \/ Wake(n)

SchedNext ==
  \/ SchedClock \/ OtherKey
  \/ \E n \in Nodes : \/ StartRun(n) \/ StopRun(n) \/ Run(n)
                      \/ LoadFails(n) \/ PublishFails(n)

(* Time passes and goroutines run.                                         *)
SchedFairness ==
  /\ WF_schedVars(SchedClock)
  /\ \A n \in Nodes : WF_schedVars(Run(n))

-----------------------------------------------------------------------------
(* Nodes race for every run of the schedule, claims are withdrawn after a  *)
(* failed publication with a guessed revision, and time passes between any *)
(* two steps: still a claim follows the last one that stands by more than  *)
(* the interval less what two clocks may differ by (the compare of nextRun *)
(* and now, and xchg, in ScheduledRunner.Run).                             *)
RunsSpaced ==
  [][(\E n \in Nodes : node[n].at = "claim" /\ node'[n].at = "publish")
       => age > Interval - 2 * Skew]_schedVars

(* A schedule goes on: while some node runs it, runs are published again   *)
(* and again, whatever claims nodes lost or crashed with.                  *)
RunsGoOn ==
  \/ []<>(\A n \in Nodes : node[n].at = "off")
  \/ []<><<\E n \in Nodes : PublishRun(n)>>_schedVars
  \/ []<><<\E n \in Nodes : StopRun(n)>>_schedVars

(* Runs of a schedule are an interval apart, but for the difference of two *)
(* clocks, on whichever nodes they are claimed (ScheduledRunner.Run).      *)
ScheduleKept == []SchedTypeOK /\ RunsSpaced
=============================================================================
