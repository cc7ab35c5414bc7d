----------------------------- MODULE TaskRunner -----------------------------
(***************************************************************************)
(* Tasks of one topic: Runner.Listen, the deliveries of the durable        *)
(* consumer and ServeJetstream of session/runner.go.                       *)
(*                                                                         *)
(* The server redelivers a task that nobody settled: when the acknowledge- *)
(* ment wait runs out, and when a worker asks for it.  A worker is one     *)
(* call of ServeJetstream with the goroutine that reports progress.        *)
(* Apart from them, the gate: consumeWrapper, the loop that takes messages *)
(* of the topic no faster than the rate of the runner.                     *)
(***************************************************************************)
EXTENDS Integers, FiniteSets

CONSTANTS
  Tasks,         (* messages of the stream                                  *)
  Workers,       (* concurrent calls of ServeJetstream                      *)
  Attempts,      (* retry.Policy.Attempts after WithDefaults                *)
  NoDeadLetter,  (* the option of that name                                 *)
  Count,         (* Rate.Count                                              *)
  Period,        (* Rate.Period                                             *)
  MaxFaults      (* BOUND: crashes, lost progress reports, failed stores    *)

ASSUME TaskAssumption ==
  Attempts \in Nat \ {0} /\ NoDeadLetter \in BOOLEAN /\ MaxFaults \in Nat
ASSUME GateAssumption == Count \in Nat \ {0} /\ Period \in Nat \ {0}

VARIABLES
  listening,  (* the subscription is open                                   *)
  stream,     (* per task: "unsent", "ready", "pending", "acked", "termed"  *)
  delivered,  (* per task: NumDelivered                                     *)
  result,     (* per task: its entry in ResultKV                            *)
  blank,      (* history: tasks of which a call came back without data      *)
  wk,         (* per worker: [at, task, num, out]                           *)
  ticker,     (* per worker: progress goroutine "off", "on" or "held"       *)
  faults      (* number of faults so far                                    *)

taskVars == <<listening, stream, delivered, result, blank, wk, ticker, faults>>

Statuses == {"200", "204", "299", "400", "404", "499", "500", "panic"}
Outcomes == {"data", "empty", "retry", "fatal"}
Idle == [at |-> "idle", task |-> "none", num |-> 0, out |-> "empty"]
Settled(t) == stream[t] \in {"acked", "termed"}

(* Every variable has its type; a worker is idle or holds a task.          *)
TaskTypeOK ==
  /\ listening \in BOOLEAN
  /\ stream \in [Tasks -> {"unsent", "ready", "pending", "acked", "termed"}]
  /\ delivered \in [Tasks -> Nat]
  /\ result \in [Tasks -> {"none", "data", "error"}]
  /\ blank \subseteq Tasks
  /\ wk \in [Workers -> {Idle} \cup
              [at : {"serve", "lock", "decide", "settle"}, task : Tasks,
               num : Nat \ {0}, out : Outcomes]]
  /\ ticker \in [Workers -> {"off", "on", "held"}]
  /\ faults \in 0..MaxFaults

TaskInit ==
  /\ listening = FALSE
  /\ stream = [t \in Tasks |-> "unsent"]
  /\ delivered = [t \in Tasks |-> 0]
  /\ result = [t \in Tasks |-> "none"]
  /\ blank = {}
  /\ wk = [w \in Workers |-> Idle]
  /\ ticker = [w \in Workers |-> "off"]
  /\ faults = 0

-----------------------------------------------------------------------------
(* The subscription and the server.                                        *)

(* Listen resolves the stream and its consumer and starts to consume.      *)
Listen ==
  /\ ~listening /\ listening' = TRUE
  /\ UNCHANGED <<stream, delivered, result, blank, wk, ticker, faults>>

(* The context of the subscription ends, with a reload of the manifest.    *)
Unlisten ==
  /\ listening /\ listening' = FALSE
  /\ UNCHANGED <<stream, delivered, result, blank, wk, ticker, faults>>

Publish(t) ==
  /\ stream[t] = "unsent"
  /\ stream' = [stream EXCEPT ![t] = "ready"]
  /\ UNCHANGED <<listening, delivered, result, blank, wk, ticker, faults>>

(* The consumer hands the task to a new call of ServeJetstream.            *)
Deliver(t, w) ==
  /\ listening /\ stream[t] = "ready"
  /\ wk[w] = Idle /\ ticker[w] = "off"
  /\ stream' = [stream EXCEPT ![t] = "pending"]
  /\ delivered' = [delivered EXCEPT ![t] = @ + 1]
  /\ wk' = [wk EXCEPT ![w] = [at |-> "serve", task |-> t,
                              num |-> delivered[t] + 1, out |-> "empty"]]
  /\ ticker' = [ticker EXCEPT ![w] = "on"]
  /\ UNCHANGED <<listening, result, blank, faults>>

Held(t) == \E w \in Workers : wk[w] # Idle /\ wk[w].task = t

(* The wait for an acknowledgement runs out: nobody is left to give it, or *)
(* the progress reports got lost.                                          *)
Expire(t) ==
  /\ stream[t] = "pending"
  /\ stream' = [stream EXCEPT ![t] = "ready"]
  /\ \/ ~Held(t) /\ UNCHANGED faults
     \/ Held(t) /\ faults < MaxFaults /\ faults' = faults + 1
  /\ UNCHANGED <<listening, delivered, result, blank, wk, ticker>>

(* The node of a worker ends.                                              *)
WorkerCrash(w) ==
  /\ wk[w] # Idle /\ faults < MaxFaults
  /\ wk' = [wk EXCEPT ![w] = Idle]
  /\ ticker' = [ticker EXCEPT ![w] = "off"]
  /\ faults' = faults + 1
  /\ UNCHANGED <<listening, stream, delivered, result, blank>>

(* A settlement of a task that is settled has no effect.                   *)
Answer(t, to) == stream' = [stream EXCEPT ![t] = IF Settled(t) THEN @ ELSE to]

-----------------------------------------------------------------------------
(* The progress goroutine.  mu belongs to the call: free while it serves.  *)

MuFree(w) == wk[w].at \in {"serve", "lock"}

(* Ten seconds are over: TryLock, and the end if it fails.                 *)
Tick(w) ==
  /\ ticker[w] = "on"
  /\ ticker' = [ticker EXCEPT ![w] = IF MuFree(w) THEN "held" ELSE "off"]
  /\ UNCHANGED <<listening, stream, delivered, result, blank, wk, faults>>

(* msg.InProgress, then Unlock.                                            *)
InProgress(w) ==
  /\ ticker[w] = "held"
  /\ ticker' = [ticker EXCEPT ![w] = "on"]
  /\ UNCHANGED <<listening, stream, delivered, result, blank, wk, faults>>

(* The call has returned and its context is cancelled.                     *)
TickerEnds(w) ==
  /\ ticker[w] = "on" /\ wk[w] = Idle
  /\ ticker' = [ticker EXCEPT ![w] = "off"]
  /\ UNCHANGED <<listening, stream, delivered, result, blank, wk, faults>>

-----------------------------------------------------------------------------
(* ServeJetstream.                                                         *)

(* What ServeMsg makes of the response of the route.  A panic is recovered *)
(* with no error.  298 and 498 are the last of their classes.              *)
Outcome(status) ==
  CASE status \in {"200"} -> "data"
    [] status \in {"204", "panic"} -> "empty"
    [] status \in {"400"} -> "fatal"
    [] OTHER -> "retry"

ServeMsg(w, status) ==
  /\ wk[w].at = "serve"
  /\ wk' = [wk EXCEPT ![w] = [@ EXCEPT !.at = "lock", !.out = Outcome(status)]]
  /\ blank' = IF Outcome(status) = "empty" THEN blank \cup {wk[w].task}
              ELSE blank
  /\ UNCHANGED <<listening, stream, delivered, result, ticker, faults>>

(* mu.Lock waits for a report that is being sent.                          *)
Lock(w) ==
  /\ wk[w].at = "lock" /\ ticker[w] # "held"
  /\ wk' = [wk EXCEPT ![w].at = "decide"]
  /\ UNCHANGED <<listening, stream, delivered, result, blank, ticker, faults>>

(* Policy.StepN(NumDelivered - 1) finds another attempt.                   *)
MayRetry(w) == wk[w].out = "retry" /\ ~(wk[w].num - 1 >= Attempts)

(* NakWithDelay.                                                           *)
NakWithDelay(w) ==
  /\ wk[w].at = "decide" /\ MayRetry(w)
  /\ Answer(wk[w].task, "ready")
  /\ wk' = [wk EXCEPT ![w] = Idle]
  /\ UNCHANGED <<listening, delivered, result, blank, ticker, faults>>

Failed(w) == wk[w].out \in {"retry", "fatal"}
Stores(w) == IF Failed(w) THEN ~NoDeadLetter ELSE wk[w].out = "data"

(* MUTANT: a result that cannot be stored is left out.                     *)
StoreFailsGoesOn(w) ==
  /\ wk[w].at = "decide" /\ ~MayRetry(w) /\ Stores(w) /\ faults < MaxFaults
  /\ faults' = faults + 1
  /\ wk' = [wk EXCEPT ![w].at = "settle"]
  /\ UNCHANGED <<listening, stream, delivered, result, blank, ticker>>

(* ResultKV.Put fails, Nak.                                                *)
StoreFails(w) ==
  /\ wk[w].at = "decide" /\ ~MayRetry(w) /\ Stores(w) /\ faults < MaxFaults
  /\ faults' = faults + 1
  /\ Answer(wk[w].task, "ready")
  /\ wk' = [wk EXCEPT ![w] = Idle]
  /\ UNCHANGED <<listening, delivered, result, blank, ticker>>

(* ResultKV.Put of the data or of the error, if there is one to put.       *)
Store(w) ==
  /\ wk[w].at = "decide" /\ ~MayRetry(w)
  /\ result' = IF Stores(w)
               THEN [result EXCEPT ![wk[w].task] =
                       IF Failed(w) THEN "error" ELSE "data"]
               ELSE result
  /\ wk' = [wk EXCEPT ![w].at = "settle"]
  /\ UNCHANGED <<listening, stream, delivered, blank, ticker, faults>>

(* Term or Ack.                                                            *)
Settle(w) ==
  /\ wk[w].at = "settle"
  /\ Answer(wk[w].task, IF Failed(w) THEN "termed" ELSE "acked")
  /\ wk' = [wk EXCEPT ![w] = Idle]
  /\ UNCHANGED <<listening, delivered, result, blank, ticker, faults>>

-----------------------------------------------------------------------------
ServeJetstream(w) ==
  \/ \E s \in Statuses : ServeMsg(w, s)
  \/ Lock(w) \/ NakWithDelay(w) \/ Store(w) \/ Settle(w)

TaskNext ==
  \/ Listen \/ Unlisten
  \/ \E t \in Tasks : Publish(t) \/ Expire(t)
  \/ \E t \in Tasks, w \in Workers : Deliver(t, w)
  \/ \E w \in Workers : \/ ServeJetstream(w) \/ StoreFails(w) \/ WorkerCrash(w)
                        \/ Tick(w) \/ InProgress(w) \/ TickerEnds(w)

(* A route answers (its requests have timeouts), goroutines run, and the   *)
(* server delivers what is ready and takes back what nobody holds.  The    *)
(* lock is taken against a ticker that asks for it again and again.        *)
TaskFairness ==
  /\ \A w \in Workers :
       /\ WF_taskVars(ServeJetstream(w)) /\ SF_taskVars(Lock(w))
       /\ WF_taskVars(InProgress(w)) /\ WF_taskVars(TickerEnds(w))
  /\ \A t \in Tasks : /\ SF_taskVars(\E w \in Workers : Deliver(t, w))
                      /\ WF_taskVars(~Held(t) /\ Expire(t))

-----------------------------------------------------------------------------
(* No task is settled without a trace, although results are stored and     *)
(* tasks settled in two steps that a crash, a failed store or a second     *)
(* delivery may come between: a terminated task has an entry in ResultKV   *)
(* (unless dead letters are off), an acknowledged one too unless a call    *)
(* came back without data (ServeJetstream).                                *)
SettledIsRecorded ==
  \A t \in Tasks :
    /\ stream[t] = "termed" /\ ~NoDeadLetter => result[t] # "none"
    /\ stream[t] = "acked" => result[t] # "none" \/ t \in blank

(* However deliveries overlap, a task is delivered no more often than the  *)
(* policy's attempts and the faults account for (StepN, NumDelivered).     *)
DeliveriesBounded ==
  \A t \in Tasks : delivered[t] <= 1 + Attempts + faults

(* No progress report of a call is under way when it settles its task: the *)
(* report would follow the acknowledgement (mu in ServeJetstream).         *)
NoLateProgress ==
  \A w \in Workers : ticker[w] = "held" => MuFree(w)

(* With redeliveries, crashes and lost acknowledgements a task is settled  *)
(* only with its result on record, without a late progress report and      *)
(* after a bounded number of deliveries (ServeJetstream).                  *)
TasksCorrect ==
  TaskTypeOK /\ SettledIsRecorded /\ DeliveriesBounded /\ NoLateProgress

(* Every task is settled in the end, whatever its attempts return, as long *)
(* as somebody listens.                                                    *)
TasksSettle ==
  []<>(~listening \/ \A t \in Tasks : stream[t] = "unsent" \/ Settled(t))

-----------------------------------------------------------------------------
(* consumeWrapper.  Times are relative: next is the time until the end of  *)
(* the period.                                                             *)

VARIABLES
  gate,      (* the loop: [at, left, next, nap]                             *)
  starts     (* history: messages started in each of the last Period units  *)

gateVars == <<gate, starts>>

Over == -1
Less(t) == IF t <= 0 THEN Over ELSE t - 1
GateOff == [at |-> "off", left |-> 0, next |-> Over, nap |-> 0]

(* The loop has a place, a quota and two timers.                           *)
GateTypeOK ==
  /\ gate \in [at : {"off", "check", "fetch", "sleep"}, left : 0..Count,
               next : Over..Period, nap : 0..Period]
  /\ starts \in [0..(Period - 1) -> 0..(2 * Count)]

GateInit == gate = GateOff /\ starts = [a \in 0..(Period - 1) |-> 0]

GateClock ==
  /\ gate.at # "off"
  /\ gate' = [gate EXCEPT !.next = Less(gate.next),
                          !.nap = IF gate.nap > 0 THEN gate.nap - 1 ELSE 0]
  /\ starts' = [a \in 0..(Period - 1) |-> IF a = 0 THEN 0 ELSE starts[a - 1]]

StartGate ==
  /\ gate.at = "off" /\ gate' = [GateOff EXCEPT !.at = "check"]
  /\ starts' = [a \in 0..(Period - 1) |-> 0]

(* ctx.Err at the head of the loop, ctx.Done while it sleeps.              *)
StopGate ==
  /\ gate.at \in {"check", "sleep"} /\ gate' = GateOff /\ UNCHANGED starts

Quota(left) == 
  /\ gate.at = "check"
  /\ gate' = [gate EXCEPT
                !.left = left,
                !.next = IF gate.next = Over THEN Period ELSE gate.next,
                !.at = IF left <= 0 THEN "sleep" ELSE "fetch",
                !.nap = IF left <= 0 THEN gate.next ELSE 0]
  /\ UNCHANGED starts

(* A new period begins once the last is over; no quota, no fetch.          *)
Check == Quota(IF gate.next = Over THEN Count ELSE gate.left)

(* A message comes, and go serve(msg).                                     *)
FetchServes ==
  /\ gate.at = "fetch"
  /\ gate' = [gate EXCEPT !.at = "check", !.left = gate.left - 1]
  /\ starts' = [starts EXCEPT ![0] = @ + 1]

FetchErr ==
  /\ gate.at = "fetch" /\ gate' = [gate EXCEPT !.at = "sleep", !.nap = 1]
  /\ UNCHANGED starts

GateWakes ==
  /\ gate.at = "sleep" /\ gate.nap = 0
  /\ gate' = [gate EXCEPT !.at = "check"] /\ UNCHANGED starts

GateNext ==
  \/ GateClock \/ StartGate \/ StopGate
  \/ Check \/ FetchServes \/ FetchErr \/ GateWakes

(* Time passes and the loop runs.                                          *)
GateFairness ==
  WF_gateVars(GateClock) /\ WF_gateVars(Check \/ GateWakes)

-----------------------------------------------------------------------------
(* The messages of the last n units, one pair for each.                    *)
Started(n) ==
  {m \in (0..(n - 1)) \X (1..(2 * Count)) : m[2] <= starts[m[1]]}

(* Messages are started at no more than twice the rate in any period: the  *)
(* quota of two adjacent windows, however long a fetch blocked between the *)
(* check of the quota and its use (consumeWrapper).                        *)
StartsBounded == Cardinality(Started(Period)) <= 2 * Count

(* A loop that sleeps comes back to the messages: the deadline it sleeps   *)
(* for is not before the reset it needs (consumeWrapper).                  *)
GateReopens == gate.at = "sleep" ~> gate.at \in {"fetch", "off"}
=============================================================================
