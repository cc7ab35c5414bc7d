---------------------------- MODULE HealthMonitor ----------------------------
(***************************************************************************)
(* health/monitor.go: Monitor.Check, which runs the configured checks      *)
(* concurrently under a timeout, and Monitor.observe, which turns streaks  *)
(* of its results into health states and notifies an observer of changes.  *)
(***************************************************************************)
EXTENDS Integers, FiniteSets, Sequences

CONSTANTS
  Checks,             (* the configured checks                              *)
  HealthyThreshold,   (* yaml healthy.threshold, <= 0 for the default       *)
  UnhealthyThreshold  (* yaml unhealthy.threshold, likewise                 *)

ASSUME MonitorAssumption ==
  /\ IsFiniteSet(Checks) /\ Checks # {}
  /\ HealthyThreshold \in Int /\ UnhealthyThreshold \in Int

(* MonitorLoop.Or and the defaults that observe gives.                     *)
Or(threshold, default) == IF threshold <= 0 THEN default ELSE threshold
Th == Or(HealthyThreshold, 1)
Tu == Or(UnhealthyThreshold, 3)

Healthy == 1
Unknown == 0
Unhealthy == -1

VARIABLES
  stage,        (* "connect", "idle", "checking", "judge", "notify", "ended"*)
  ctxDone,      (* the context of the observed instance is cancelled        *)
  pend,         (* checks of this round still under way                     *)
  counter,      (* successes still missing                                  *)
  outcome,      (* the result channel: "empty", "ok", "err"                 *)
  state,        (* the streak, saturated at the thresholds                  *)
  prevHealthy,  (* health state last acted upon                             *)
  reported,     (* what the observer was last told: "none", "up", "down"    *)
  passed,       (* HISTORY: checks of this round that succeeded             *)
  hist          (* HISTORY: outcomes of the last max(Th, Tu) rounds         *)

monVars == <<stage, ctxDone, pend, counter, outcome, state, prevHealthy,
             reported, passed, hist>>
roundVars == <<pend, counter, outcome, passed>>

Window == IF Th > Tu THEN Th ELSE Tu

(* The values of a round, of its goroutines and of the streak. *)
MonTypeOK ==
  /\ stage \in {"connect", "idle", "checking", "judge", "notify", "ended"}
  /\ ctxDone \in BOOLEAN
  /\ pend \subseteq Checks /\ passed \subseteq Checks
  /\ counter \in 0..Cardinality(Checks)
  /\ outcome \in {"empty", "ok", "err"}
  /\ state \in (-Tu)..Th
  /\ prevHealthy \in {Healthy, Unknown, Unhealthy}
  /\ reported \in {"none", "up", "down"}
  /\ hist \in Seq(BOOLEAN) /\ Len(hist) <= Window + 1

MonInit ==
  /\ stage = "connect" /\ ctxDone = FALSE
  /\ pend = {} /\ counter = 0 /\ outcome = "empty" /\ passed = {}
  /\ state = Th - 1
  /\ prevHealthy = Unknown /\ reported = "none"
  /\ hist = <<>>

Cancel ==
  /\ ~ctxDone
  /\ ctxDone' = TRUE
  /\ UNCHANGED <<stage, state, prevHealthy, reported, hist>> /\ UNCHANGED roundVars

-----------------------------------------------------------------------------
(* The wait for the first TCP connection.                                  *)

Connects ==
  /\ stage = "connect"
  /\ stage' = "idle"
  /\ UNCHANGED <<ctxDone, state, prevHealthy, reported, hist>>
  /\ UNCHANGED roundVars

NeverConnects ==
  /\ stage = "connect" /\ ctxDone
  /\ stage' = "ended" /\ reported' = "down"
  /\ UNCHANGED <<ctxDone, state, prevHealthy, hist>> /\ UNCHANGED roundVars

-----------------------------------------------------------------------------
(* Check.                                                                  *)

(* One goroutine per check.                                                *)
StartRound ==
  /\ stage = "idle"
  /\ stage' = "checking"
  /\ pend' = Checks /\ counter' = Cardinality(Checks)
  /\ outcome' = "empty" /\ passed' = {}
  /\ UNCHANGED <<ctxDone, state, prevHealthy, reported, hist>>

(* The send on the channel of capacity one, dropped if it is full.         *)
SendResult(r) == outcome' = IF outcome = "empty" THEN r ELSE outcome

CheckSucceeds(c) ==
  /\ stage = "checking" /\ c \in pend
  /\ pend' = pend \ {c} /\ passed' = passed \cup {c}
  /\ counter' = counter - 1
  /\ IF counter = 1 THEN SendResult("ok") ELSE UNCHANGED outcome
  /\ UNCHANGED <<stage, ctxDone, state, prevHealthy, reported, hist>>

CheckFails(c) ==
  /\ stage = "checking" /\ c \in pend
  /\ pend' = pend \ {c}
  /\ SendResult("err")
  /\ UNCHANGED <<stage, ctxDone, counter, passed, state, prevHealthy, reported, hist>>

-----------------------------------------------------------------------------
(* observe.                                                                *)

BigMax(a, b) == IF a > b THEN a ELSE b
BigMin(a, b) == IF a < b THEN a ELSE b

(* MUTANT: a success does not wipe out the failures before it.             *)
StepStreakSlow(ok) ==
  IF ok THEN BigMin(state + 1, Th) ELSE BigMax(BigMin(state, 0) - 1, -Tu)

(* The streak after a round: it restarts when the outcome changes.  Beyond *)
(* the thresholds its size does not matter.                                *)
StepStreak(ok) ==
  IF ok THEN BigMin(BigMax(state, 0) + 1, Th)
        ELSE BigMax(BigMin(state, 0) - 1, -Tu)

Remember(ok) ==
  LET h == Append(hist, ok)
  IN hist' = IF Len(h) > Window + 1 THEN Tail(h) ELSE h

RoundEnds(ok) ==
  /\ state' = StepStreak(ok)
  /\ Remember(ok)
  /\ stage' = "judge"
  /\ UNCHANGED <<ctxDone, prevHealthy, reported>> /\ UNCHANGED roundVars

RoundResult ==
  /\ stage = "checking" /\ outcome # "empty"
  /\ RoundEnds(outcome = "ok")

(* The timeout of the round, or the context, comes first.                  *)
RoundTimesOut ==
  /\ stage = "checking"
  /\ RoundEnds(FALSE)

NewHealthy == IF state >= Th THEN Healthy
              ELSE IF state <= -Tu THEN Unhealthy ELSE Unknown

(* Early exit if the context is done, otherwise compare with the last.     *)
Judge ==
  /\ stage = "judge"
  /\ IF ctxDone
     THEN stage' = "ended" /\ UNCHANGED prevHealthy
     ELSE /\ prevHealthy' = NewHealthy
          /\ stage' = IF NewHealthy \in {prevHealthy, Unknown} THEN "idle" ELSE "notify"
  /\ UNCHANGED <<ctxDone, state, reported, hist>> /\ UNCHANGED roundVars

Notify ==
  /\ stage = "notify"
  /\ stage' = "idle"
  /\ reported' = IF prevHealthy = Healthy THEN "up" ELSE "down"
  /\ UNCHANGED <<ctxDone, state, prevHealthy, hist>> /\ UNCHANGED roundVars

(* The wait for the next interval sees the context.                        *)
ObserverStops ==
  /\ stage = "idle" /\ ctxDone
  /\ stage' = "ended"
  /\ UNCHANGED <<ctxDone, state, prevHealthy, reported, hist>>
  /\ UNCHANGED roundVars

-----------------------------------------------------------------------------
Observe == \/ Connects \/ NeverConnects \/ StartRound \/ RoundResult
           \/ RoundTimesOut \/ Judge \/ Notify \/ ObserverStops

MonNext == \/ Cancel \/ Observe
           \/ \E c \in Checks : CheckSucceeds(c) \/ CheckFails(c)

(* The observer goroutine runs, its timers expire.                         *)
MonFairness == WF_monVars(Observe)

MonSpec == MonInit /\ [][MonNext]_monVars

-----------------------------------------------------------------------------
LastRounds(n, ok) ==
  Len(hist) >= n /\ \A i \in (Len(hist) - n + 1)..Len(hist) : hist[i] = ok

(* A round of Check counts as success only if every check succeeded in it, *)
(* whatever the order of the goroutines, the timeout and the cancellation. *)
OutcomeSound ==
  [][hist' # hist /\ hist'[Len(hist')] = TRUE => passed = Checks]_monVars

(* The observer hears of a change to healthy only after a full streak of   *)
(* successes, or after a first round that succeeds; to unhealthy only      *)
(* after a full streak of failures or a connection that never came about.  *)
ReportJustified ==
  [][/\ reported' # reported /\ reported' = "up" =>
          LastRounds(Th, TRUE) \/ hist = <<TRUE>>
     /\ reported' # reported /\ reported' = "down" =>
          LastRounds(Tu, FALSE) \/ stage = "connect"]_monVars

(* Between rounds the observer's knowledge is up to date: a full streak of *)
(* either kind has been reported.                                          *)
StreakIsReported ==
  stage = "idle" => /\ LastRounds(Th, TRUE) => reported = "up"
                    /\ LastRounds(Tu, FALSE) => reported = "down"

(* If from some time on every round fails the observer ends up with        *)
(* unhealthy, unless the instance goes away.                               *)
FailureIsReported ==
  (/\ <>[](stage = "judge" => hist[Len(hist)] = FALSE)
   /\ []~ctxDone /\ <>(stage # "connect"))
     => <>[](reported = "down")

(* A report rests on as many rounds in a row as its threshold says, each   *)
(* decided by its own checks, and a streak that reached a threshold is     *)
(* reported, although checks hang (observe, Check).                        *)
ReportsSound ==
  [](MonTypeOK /\ StreakIsReported) /\ OutcomeSound /\ ReportJustified
=============================================================================
