---------------------------- MODULE Tasks_proofs ----------------------------
(***************************************************************************)
(* Proofs about tasks, schedules and rates.  Each part has an invariant of *)
(* its own, which its initial state establishes and its steps keep; a step *)
(* of the suite is a step of each part or leaves it alone.                 *)
(***************************************************************************)
EXTENDS MCTasks, FiniteSetTheorems, FunctionTheorems, TLAPS

-----------------------------------------------------------------------------
(* Tasks.                                                                  *)

Busy(w) == wk[w] # Idle
Holds(w, t, k) == Busy(w) /\ wk[w].task = t /\ wk[w].num = k

(* A call that came back without data left its task in blank, and a call   *)
(* that is about to settle its task has seen the result on record.         *)
CallsRecorded ==
  \A w \in Workers : Busy(w) =>
    /\ wk[w].at \in {"lock", "decide", "settle"} /\ wk[w].out = "empty"
         => wk[w].task \in blank
    /\ wk[w].at = "settle" /\ Stores(w) => result[wk[w].task] # "none"

(* A delivery has a number of its own and one worker at most.              *)
OneHolder ==
  \A w \in Workers : Busy(w) =>
    /\ wk[w].num <= delivered[wk[w].task]
    /\ \A v \in Workers : Holds(v, wk[w].task, wk[w].num) => v = w

(* Attempts of a task that are over.                                       *)
Ended(t) == {k \in 1..Attempts : k <= delivered[t]
                                  /\ \A w \in Workers : ~Holds(w, t, k)}

One(b) == IF b THEN 1 ELSE 0
Abandoned(t) == /\ stream[t] = "pending"
                /\ \A w \in Workers : ~Holds(w, t, delivered[t])

(* Every delivery, the one that is due and the one that will be because    *)
(* its last worker is gone included, is the first one, or follows an       *)
(* attempt that is over or a fault.                                        *)
DeliveriesCounted ==
  \A t \in Tasks :
    delivered[t] + One(stream[t] = "ready") + One(Abandoned(t))
      <= One(stream[t] # "unsent") + Cardinality(Ended(t)) + faults

TaskInv ==
  /\ TaskTypeOK /\ SettledIsRecorded /\ NoLateProgress
  /\ CallsRecorded /\ OneHolder /\ DeliveriesCounted

Call == [at : {"serve", "lock", "decide", "settle"}, task : Tasks,
         num : Nat \ {0}, out : Outcomes]
States == {"unsent", "ready", "pending", "acked", "termed"}

(* A worker that is busy is in a call.                                     *)
LEMMA BusyCalls ==
  ASSUME TaskTypeOK, NEW w \in Workers
  PROVE  Busy(w) <=> wk[w] \in Call
  <1>1. Idle \notin Call
    BY DEF Idle, Call
  <1>2. wk[w] \in {Idle} \cup Call
    BY DEF TaskTypeOK, Call
  <1> QED BY <1>1, <1>2 DEF Busy

(* No more calls of a task have ended than it has attempts.                *)
LEMMA EndedFinite ==
  ASSUME NEW t \in Tasks
  PROVE  IsFiniteSet(Ended(t)) /\ Cardinality(Ended(t)) \in Nat
         /\ Cardinality(Ended(t)) <= Attempts
  <1>1. Attempts \in Nat \ {0}
    BY TaskAssumption DEF TaskAssumption
  <1>2. IsFiniteSet(1..Attempts) /\ Cardinality(1..Attempts) = Attempts
    BY <1>1, FS_Interval
  <1>3. Ended(t) \subseteq 1..Attempts
    BY DEF Ended
  <1>4. IsFiniteSet(Ended(t)) /\ Cardinality(Ended(t)) <= Cardinality(1..Attempts)
    BY <1>2, <1>3, FS_Subset
  <1> QED BY <1>2, <1>4, FS_CardinalityType

(* The same of the next state.                                             *)
LEMMA EndedFiniteNext ==
  ASSUME NEW t \in Tasks
  PROVE  IsFiniteSet(Ended(t)') /\ Cardinality(Ended(t)') \in Nat
  <1>1. Attempts \in Nat \ {0}
    BY TaskAssumption DEF TaskAssumption
  <1>2. IsFiniteSet(1..Attempts)
    BY <1>1, FS_Interval
  <1>3. Ended(t)' \subseteq 1..Attempts
    BY DEF Ended
  <1>4. IsFiniteSet(Ended(t)')
    BY <1>2, <1>3, FS_Subset
  <1> QED BY <1>4, FS_CardinalityType

(* The invariant of the tasks holds before the first is published ...      *)
LEMMA TaskStart == TaskInit => TaskInv
  <1> SUFFICES ASSUME TaskInit PROVE TaskInv
    OBVIOUS
  <1>1. /\ listening = FALSE /\ blank = {} /\ faults = 0
        /\ stream = [t \in Tasks |-> "unsent"] /\ delivered = [t \in Tasks |-> 0]
        /\ result = [t \in Tasks |-> "none"] /\ wk = [w \in Workers |-> Idle]
        /\ ticker = [w \in Workers |-> "off"]
    BY DEF TaskInit
  <1>2. TaskTypeOK
    <2>1. wk \in [Workers -> {Idle} \cup Call]
      BY <1>1
    <2>2. faults \in 0..MaxFaults
      BY <1>1, TaskAssumption DEF TaskAssumption
    <2>3. /\ delivered \in [Tasks -> Nat] /\ blank \subseteq Tasks
          /\ listening \in BOOLEAN /\ result \in [Tasks -> {"none", "data", "error"}]
          /\ stream \in [Tasks -> States] /\ ticker \in [Workers -> {"off", "on", "held"}]
      BY <1>1 DEF States
    <2> QED BY <2>1, <2>2, <2>3 DEF TaskTypeOK, Call, States
  <1>3. SettledIsRecorded /\ NoLateProgress
    BY <1>1 DEF SettledIsRecorded, NoLateProgress
  <1>4. CallsRecorded /\ OneHolder
    BY <1>1 DEF CallsRecorded, OneHolder, Busy
  <1>5. DeliveriesCounted
    <2> SUFFICES ASSUME NEW t \in Tasks
                 PROVE  delivered[t] + One(stream[t] = "ready") + One(Abandoned(t))
                          <= One(stream[t] # "unsent") + Cardinality(Ended(t)) + faults
      BY DEF DeliveriesCounted
    <2>1. delivered[t] = 0 /\ One(stream[t] = "ready") = 0 /\ One(Abandoned(t)) = 0
          /\ One(stream[t] # "unsent") = 0
      BY <1>1 DEF One, Abandoned
    <2>2. Cardinality(Ended(t)) \in Nat
      BY EndedFinite
    <2> QED BY <1>1, <2>1, <2>2
  <1> QED BY <1>2, <1>3, <1>4, <1>5 DEF TaskInv

(* A call goes on: it keeps its task and the number of its delivery.       *)
Goes(w) ==
  /\ wk[w] \in Call /\ wk'[w] \in Call
  /\ wk'[w].task = wk[w].task /\ wk'[w].num = wk[w].num
  /\ wk' = [wk EXCEPT ![w] = wk'[w]]

(* The deliveries are those of before when the holders are.                *)
LEMMA HoldersStay ==
  ASSUME TaskInv, UNCHANGED <<delivered, stream>>, faults' \in Nat, faults' >= faults,
         wk' = wk \/ \E w \in Workers : Goes(w)
  PROVE  OneHolder' /\ DeliveriesCounted'
  <1>t. TaskTypeOK /\ OneHolder /\ DeliveriesCounted
    BY DEF TaskInv
  <1>1. ASSUME NEW v \in Workers
        PROVE  /\ Busy(v)' <=> Busy(v)
               /\ Busy(v) => wk'[v].task = wk[v].task /\ wk'[v].num = wk[v].num
    <2>1. CASE wk' = wk
      BY <2>1 DEF Busy
    <2>2. ASSUME NEW w \in Workers, Goes(w)
          PROVE  /\ Busy(v)' <=> Busy(v)
                 /\ Busy(v) => wk'[v].task = wk[v].task /\ wk'[v].num = wk[v].num
      <3>1. Idle \notin Call
        BY DEF Idle, Call
      <3>2. DOMAIN wk = Workers
        BY <1>t DEF TaskTypeOK
      <3>3. v # w => wk'[v] = wk[v]
        BY <2>2, <3>2 DEF Goes
      <3> QED BY <2>2, <3>1, <3>3 DEF Goes, Busy
    <2> QED BY <2>1, <2>2
  <1>2. ASSUME NEW v \in Workers, NEW t, NEW k
        PROVE  Holds(v, t, k)' <=> Holds(v, t, k)
    BY <1>1 DEF Holds
  <1>3. OneHolder'
    <2> SUFFICES ASSUME NEW w \in Workers, Busy(w)'
                 PROVE  /\ wk'[w].num <= delivered'[wk'[w].task]
                        /\ \A v \in Workers :
                             Holds(v, wk[w].task, wk[w].num)' => v = w
      BY <1>1 DEF OneHolder, Holds
    <2> QED BY <1>t, <1>1, <1>2 DEF OneHolder
  <1>4. DeliveriesCounted'
    <2> SUFFICES ASSUME NEW t \in Tasks
                 PROVE  delivered'[t] + One(stream'[t] = "ready") + One(Abandoned(t)')
                          <= One(stream'[t] # "unsent") + Cardinality(Ended(t)') + faults'
      BY DEF DeliveriesCounted, One
    <2>1. Ended(t)' = Ended(t)
      BY <1>2 DEF Ended
    <2>2. Abandoned(t)' <=> Abandoned(t)
      BY <1>2 DEF Abandoned
    <2>3. One(Abandoned(t)') = One(Abandoned(t))
      BY <2>2 DEF One
    <2>4. delivered[t] + One(stream[t] = "ready") + One(Abandoned(t))
            <= One(stream[t] # "unsent") + Cardinality(Ended(t)) + faults
      BY <1>t DEF DeliveriesCounted
    <2>5. Cardinality(Ended(t)) \in Nat /\ delivered[t] \in Nat /\ faults \in Nat
      BY <1>t, EndedFinite, TaskAssumption DEF TaskTypeOK, TaskAssumption
    <2>6. One(stream[t] = "ready") \in Nat /\ One(stream[t] # "unsent") \in Nat
          /\ One(Abandoned(t)) \in Nat
      BY DEF One
    <2> QED BY <2>1, <2>3, <2>4, <2>5, <2>6
  <1> QED BY <1>3, <1>4

(* A call returns: its task is settled, or it is delivered again at the    *)
(* price of an attempt or a fault.                                         *)
LEMMA HolderLeaves ==
  ASSUME TaskInv, NEW w \in Workers, Busy(w), wk' = [wk EXCEPT ![w] = Idle],
         delivered' = delivered, faults' \in Nat, faults' >= faults,
         \A t \in Tasks : t # wk[w].task => stream'[t] = stream[t],
         stream[wk[w].task] # "unsent" => stream'[wk[w].task] # "unsent",
         \/ stream'[wk[w].task] \in {"acked", "termed"}
         \/ /\ stream'[wk[w].task] \in {"ready", stream[wk[w].task]}
            /\ faults' > faults \/ wk[w].num <= Attempts
  PROVE  OneHolder' /\ DeliveriesCounted'
  <1>t. TaskTypeOK /\ OneHolder /\ DeliveriesCounted
    BY DEF TaskInv
  <1>a. Attempts \in Nat \ {0} /\ MaxFaults \in Nat
    BY TaskAssumption DEF TaskAssumption
  <1>c. wk[w] \in Call
    BY <1>t, BusyCalls
  <1>1. ASSUME NEW v \in Workers
        PROVE  /\ Busy(v)' <=> Busy(v) /\ v # w
               /\ v # w => wk'[v] = wk[v]
    <2>1. DOMAIN wk = Workers
      BY <1>t DEF TaskTypeOK
    <2> QED BY <2>1 DEF Busy
  <1>2. ASSUME NEW v \in Workers, NEW t, NEW k
        PROVE  Holds(v, t, k)' <=> Holds(v, t, k) /\ v # w
    BY <1>1 DEF Holds
  <1>3. OneHolder'
    <2> SUFFICES ASSUME NEW u \in Workers, Busy(u)'
                 PROVE  /\ wk'[u].num <= delivered'[wk'[u].task]
                        /\ \A v \in Workers :
                             Holds(v, wk[u].task, wk[u].num)' => v = u
      BY DEF OneHolder
    <2>1. u # w /\ Busy(u) /\ wk'[u] = wk[u]
      BY <1>1
    <2>2. ASSUME NEW v \in Workers, Holds(v, wk[u].task, wk[u].num)' PROVE v = u
      <3>1. Busy(v)' /\ wk'[v].task = wk'[u].task /\ wk'[v].num = wk'[u].num
        BY <2>2 DEF Holds
      <3>2. Holds(v, wk[u].task, wk[u].num)
        BY <1>1, <2>1, <3>1 DEF Holds
      <3> QED BY <1>t, <2>1, <3>2 DEF OneHolder
    <2> QED BY <1>t, <2>1, <2>2 DEF OneHolder
  <1>4. DeliveriesCounted'
    <2> SUFFICES ASSUME NEW t \in Tasks
                 PROVE  delivered'[t] + One(stream'[t] = "ready") + One(Abandoned(t)')
                          <= One(stream'[t] # "unsent") + Cardinality(Ended(t)') + faults'
      BY DEF DeliveriesCounted, One
    <2>4. delivered[t] + One(stream[t] = "ready") + One(Abandoned(t))
            <= One(stream[t] # "unsent") + Cardinality(Ended(t)) + faults
      BY <1>t DEF DeliveriesCounted
    <2>5. Cardinality(Ended(t)) \in Nat /\ delivered[t] \in Nat /\ faults \in Nat
      BY <1>a, <1>t, EndedFinite DEF TaskTypeOK
    <2>6. Cardinality(Ended(t)') \in Nat /\ IsFiniteSet(Ended(t)')
      BY EndedFiniteNext
    <2>7. /\ One(stream[t] = "ready") = IF stream[t] = "ready" THEN 1 ELSE 0
          /\ One(stream'[t] = "ready") = IF stream'[t] = "ready" THEN 1 ELSE 0
          /\ One(stream[t] # "unsent") = IF stream[t] # "unsent" THEN 1 ELSE 0
          /\ One(stream'[t] # "unsent") = IF stream'[t] # "unsent" THEN 1 ELSE 0
          /\ One(Abandoned(t)) \in {0, 1} /\ One(Abandoned(t)') \in {0, 1}
          /\ (Abandoned(t) => One(Abandoned(t)) = 1)
          /\ (~Abandoned(t)' => One(Abandoned(t)') = 0)
      BY DEF One
    <2>8. Ended(t) \subseteq Ended(t)'
      BY <1>2 DEF Ended
    <2>9. Cardinality(Ended(t)) <= Cardinality(Ended(t)')
      BY <2>6, <2>8, FS_Subset
    <2>10. CASE t # wk[w].task
      <3>1. stream'[t] = stream[t]
        BY <2>10
      <3>2. \A v \in Workers : \A k : Holds(v, t, k)' <=> Holds(v, t, k)
        <4>1. \A k : ~Holds(w, t, k)
          BY <2>10 DEF Holds
        <4> QED BY <1>2, <4>1
      <3>3. Abandoned(t)' <=> Abandoned(t)
        BY <3>1, <3>2 DEF Abandoned
      <3>4. One(Abandoned(t)') = One(Abandoned(t))
        BY <3>3 DEF One
      <3> QED BY <2>4, <2>5, <2>6, <2>7, <2>9, <3>1, <3>4
    <2>11. CASE t = wk[w].task /\ stream'[t] \in {"acked", "termed"}
      <3>1. ~Abandoned(t)'
        BY <2>11 DEF Abandoned
      <3> QED BY <2>4, <2>5, <2>6, <2>7, <2>9, <2>11, <3>1
    <2>12. CASE /\ t = wk[w].task /\ stream'[t] \in {"ready", stream[t]}
                /\ faults' > faults \/ wk[w].num <= Attempts
      <3>1. faults' + Cardinality(Ended(t)') >= faults + Cardinality(Ended(t)) + 1
        <4>1. CASE faults' > faults
          BY <2>5, <2>6, <2>9, <4>1
        <4>2. CASE wk[w].num <= Attempts
          <5>1. PICK k : k = wk[w].num
            OBVIOUS
          <5>2. k \in 1..Attempts /\ Holds(w, t, k) /\ k <= delivered[t]
            BY <1>a, <1>c, <1>t, <2>12, <4>2, <5>1 DEF Call, Holds, OneHolder
          <5>3. \A v \in Workers : Holds(v, t, k) => v = w
            BY <1>t, <2>12, <5>1 DEF OneHolder
          <5>4. k \in Ended(t)' /\ k \notin Ended(t)
            BY <1>2, <5>2, <5>3 DEF Ended
          <5>5. Ended(t) \cup {k} \subseteq Ended(t)'
            BY <2>8, <5>4
          <5>6. IsFiniteSet(Ended(t))
            BY EndedFinite
          <5>7. Cardinality(Ended(t) \cup {k}) = Cardinality(Ended(t)) + 1
            BY <5>4, <5>6, FS_AddElement
          <5>8. Cardinality(Ended(t) \cup {k}) <= Cardinality(Ended(t)')
            BY <2>6, <5>5, FS_Subset
          <5> QED BY <2>5, <2>6, <5>7, <5>8
        <4> QED BY <2>12, <4>1, <4>2
      <3>2. stream'[t] = "ready" => ~Abandoned(t)'
        BY DEF Abandoned
      <3> QED BY <2>4, <2>5, <2>6, <2>7, <2>12, <3>1, <3>2
    <2> QED BY <2>10, <2>11, <2>12
  <1> QED BY <1>3, <1>4

(* A call that is given an answer for its task leaves the others alone.    *)
LEMMA AnswerDoes ==
  ASSUME TaskTypeOK, NEW t \in Tasks, NEW to \in {"ready", "acked", "termed"},
         Answer(t, to)
  PROVE  /\ stream' \in [Tasks -> States]
         /\ \A s \in Tasks : s # t => stream'[s] = stream[s]
         /\ stream'[t] = IF stream[t] \in {"acked", "termed"} THEN stream[t] ELSE to
BY DEF TaskTypeOK, Answer, Settled, States

(* A delivery takes the place of the one that was due.                     *)
LEMMA DeliverCounts ==
  ASSUME TaskInv, NEW t \in Tasks, NEW w \in Workers, Deliver(t, w)
  PROVE  OneHolder' /\ DeliveriesCounted'
  <1>t. TaskTypeOK /\ OneHolder /\ DeliveriesCounted
    BY DEF TaskInv
  <1>a. /\ delivered \in [Tasks -> Nat] /\ DOMAIN wk = Workers
        /\ stream \in [Tasks -> States] /\ faults \in Nat
    BY <1>t, TaskAssumption DEF TaskTypeOK, TaskAssumption, States
  <1>b. PICK d \in Nat : d = delivered[t]
    BY <1>a
  <1>c. PICK c : c = [at |-> "serve", task |-> t, num |-> d + 1, out |-> "empty"]
    OBVIOUS
  <1>0. /\ stream[t] = "ready" /\ stream' = [stream EXCEPT ![t] = "pending"]
        /\ delivered' = [delivered EXCEPT ![t] = d + 1]
        /\ wk[w] = Idle /\ wk' = [wk EXCEPT ![w] = c] /\ faults' = faults
    BY <1>b, <1>c DEF Deliver
  <1>1. c # Idle /\ c.task = t /\ c.num = d + 1
    BY <1>c DEF Idle
  <1>2. /\ wk'[w] = c
        /\ \A v \in Workers \ {w} : wk'[v] = wk[v]
        /\ delivered'[t] = d + 1 /\ \A s \in Tasks \ {t} : delivered'[s] = delivered[s]
        /\ stream'[t] = "pending" /\ \A s \in Tasks \ {t} : stream'[s] = stream[s]
    BY <1>0, <1>a
  <1>3. ASSUME NEW v \in Workers, v # w, NEW s, NEW k
        PROVE  Holds(v, s, k)' <=> Holds(v, s, k)
    BY <1>2, <1>3 DEF Holds, Busy
  <1>4. ASSUME NEW s, NEW k
        PROVE  /\ Holds(w, s, k)' <=> (s = t /\ k = d + 1)
               /\ ~Holds(w, s, k)
    BY <1>0, <1>1, <1>2 DEF Holds, Busy
  <1>5. ASSUME NEW v \in Workers, NEW k, Holds(v, t, k)
        PROVE  k <= d /\ k \in Nat
    <2>1. wk[v] \in Call
      BY <1>5, <1>t, BusyCalls DEF Holds
    <2> QED BY <1>5, <1>b, <1>t, <2>1 DEF Holds, OneHolder, Call
  <1>6. OneHolder'
    <2> SUFFICES ASSUME NEW u \in Workers, Busy(u)'
                 PROVE  /\ wk'[u].num <= delivered'[wk'[u].task]
                        /\ \A v \in Workers :
                             Holds(v, wk[u].task, wk[u].num)' => v = u
      BY DEF OneHolder
    <2>1. CASE u = w
      <3>1. wk'[u].task = t /\ wk'[u].num = d + 1
        BY <1>1, <1>2, <2>1
      <3>2. ASSUME NEW v \in Workers, v # w, Holds(v, wk[u].task, wk[u].num)'
            PROVE  FALSE
        <4>1. Busy(v)' /\ wk'[v].task = t /\ wk'[v].num = d + 1
          BY <3>1, <3>2 DEF Holds
        <4>2. Holds(v, t, d + 1)
          BY <1>2, <3>2, <4>1 DEF Holds, Busy
        <4> QED BY <1>5, <4>2
      <3> QED BY <1>2, <2>1, <3>1, <3>2
    <2>2. CASE u # w
      <3>1. Busy(u) /\ wk'[u] = wk[u]
        BY <1>2, <2>2 DEF Busy
      <3>2. wk[u] \in Call
        BY <1>t, <3>1, BusyCalls
      <3>3. wk[u].num <= delivered[wk[u].task] /\ wk[u].num \in Nat /\ wk[u].task \in Tasks
        BY <1>t, <3>1, <3>2 DEF OneHolder, Call
      <3>4. delivered'[wk[u].task] >= delivered[wk[u].task]
        BY <1>a, <1>b, <1>2, <3>3
      <3>5. wk'[u].num <= delivered'[wk'[u].task]
        <4>1. delivered[wk[u].task] \in Nat /\ delivered'[wk[u].task] \in Nat
          BY <1>a, <1>b, <1>2, <3>3
        <4> QED BY <3>1, <3>3, <3>4, <4>1
      <3>6. ASSUME NEW v \in Workers, Holds(v, wk[u].task, wk[u].num)' PROVE v = u
        <4>1. Busy(v)' /\ wk'[v].task = wk[u].task /\ wk'[v].num = wk[u].num
          BY <3>1, <3>6 DEF Holds
        <4>2. CASE v = w
          <5>1. wk[u].task = t /\ wk[u].num = d + 1
            BY <1>1, <1>2, <4>1, <4>2
          <5>2. Holds(u, t, d + 1)
            BY <3>1, <5>1 DEF Holds
          <5> QED BY <1>5, <5>2
        <4>3. CASE v # w
          <5>1. Holds(v, wk[u].task, wk[u].num)
            BY <1>2, <4>1, <4>3 DEF Holds, Busy
          <5> QED BY <1>t, <3>1, <5>1 DEF OneHolder
        <4> QED BY <4>2, <4>3
      <3> QED BY <3>5, <3>6
    <2> QED BY <2>1, <2>2
  <1>7. DeliveriesCounted'
    <2> SUFFICES ASSUME NEW s \in Tasks
                 PROVE  delivered'[s] + One(stream'[s] = "ready") + One(Abandoned(s)')
                          <= One(stream'[s] # "unsent") + Cardinality(Ended(s)') + faults'
      BY DEF DeliveriesCounted, One
    <2>1. delivered[s] + One(stream[s] = "ready") + One(Abandoned(s))
            <= One(stream[s] # "unsent") + Cardinality(Ended(s)) + faults
      BY <1>t DEF DeliveriesCounted
    <2>2. Ended(s)' = Ended(s)
      <3>1. CASE s = t
        <4>1. ASSUME NEW k \in 1..Attempts
              PROVE  (k <= delivered'[t] /\ \A v \in Workers : ~Holds(v, t, k)')
                       <=> (k <= delivered[t] /\ \A v \in Workers : ~Holds(v, t, k))
          <5>1. k = d + 1 => ~(\A v \in Workers : ~Holds(v, t, k)') /\ ~(k <= d)
            BY <1>4
          <5>2. k # d + 1 => (k <= d + 1 <=> k <= d)
            BY TaskAssumption DEF TaskAssumption
          <5>3. k # d + 1 => \A v \in Workers : Holds(v, t, k)' <=> Holds(v, t, k)
            BY <1>3, <1>4
          <5> QED BY <1>b, <1>2, <5>1, <5>2, <5>3
        <4> QED BY <3>1, <4>1 DEF Ended
      <3>2. CASE s # t
        <4>1. \A v \in Workers : \A k : Holds(v, s, k)' <=> Holds(v, s, k)
          BY <1>3, <1>4, <3>2
        <4>2. delivered'[s] = delivered[s]
          BY <1>2, <3>2
        <4> QED BY <4>1, <4>2 DEF Ended
      <3> QED BY <3>1, <3>2
    <2>3. Cardinality(Ended(s)) \in Nat
      BY EndedFinite
    <2>4. CASE s = t
      <3>1. ~Abandoned(s)'
        BY <1>2, <1>4, <2>4 DEF Abandoned
      <3>2. One(Abandoned(s)') = 0 /\ One(Abandoned(s)) \in Nat
            /\ One(stream'[s] = "ready") = 0 /\ One(stream[s] = "ready") = 1
            /\ One(stream'[s] # "unsent") = 1 /\ One(stream[s] # "unsent") = 1
        BY <1>0, <1>2, <2>4, <3>1 DEF One
      <3> QED BY <1>0, <1>a, <1>b, <1>2, <2>1, <2>2, <2>3, <2>4, <3>2
    <2>5. CASE s # t
      <3>1. \A v \in Workers : \A k : Holds(v, s, k)' <=> Holds(v, s, k)
        BY <1>3, <1>4, <2>5
      <3>2. delivered'[s] = delivered[s] /\ stream'[s] = stream[s]
        BY <1>2, <2>5
      <3>3. Abandoned(s)' <=> Abandoned(s)
        BY <3>1, <3>2 DEF Abandoned
      <3>4. One(Abandoned(s)') = One(Abandoned(s))
        BY <3>3 DEF One
      <3> QED BY <1>0, <2>1, <2>2, <3>2, <3>4
    <2> QED BY <2>4, <2>5
  <1> QED BY <1>6, <1>7

(* A message that becomes due is new, has nobody or costs a fault.         *)
LEMMA DueCounts ==
  ASSUME TaskInv, NEW t \in Tasks, Publish(t) \/ Expire(t)
  PROVE  OneHolder' /\ DeliveriesCounted'
  <1>t. TaskTypeOK /\ OneHolder /\ DeliveriesCounted
    BY DEF TaskInv
  <1>a. /\ delivered \in [Tasks -> Nat] /\ stream \in [Tasks -> States]
        /\ faults \in Nat /\ Attempts \in Nat
    BY <1>t, TaskAssumption DEF TaskTypeOK, TaskAssumption, States
  <1>0. /\ stream' = [stream EXCEPT ![t] = "ready"] /\ wk' = wk
        /\ delivered' = delivered
    BY DEF Publish, Expire
  <1>1. /\ stream'[t] = "ready" /\ \A s \in Tasks \ {t} : stream'[s] = stream[s]
    BY <1>0, <1>a
  <1>2. /\ faults' \in Nat
        /\ \/ stream[t] = "unsent" /\ faults' = faults
           \/ Abandoned(t) /\ faults' = faults
           \/ stream[t] = "pending" /\ faults' = faults + 1
    <2>1. CASE Publish(t)
      BY <1>a, <2>1 DEF Publish
    <2>2. CASE Expire(t) /\ ~Held(t)
      BY <1>a, <2>2 DEF Expire, Held, Abandoned, Holds, Busy
    <2>3. CASE Expire(t) /\ Held(t)
      BY <1>a, <2>3 DEF Expire
    <2> QED BY <2>1, <2>2, <2>3
  <1>3. OneHolder'
    BY <1>0, <1>t DEF OneHolder, Holds, Busy
  <1>4. DeliveriesCounted'
    <2> SUFFICES ASSUME NEW s \in Tasks
                 PROVE  delivered'[s] + One(stream'[s] = "ready") + One(Abandoned(s)')
                          <= One(stream'[s] # "unsent") + Cardinality(Ended(s)') + faults'
      BY DEF DeliveriesCounted, One
    <2>1. delivered[s] + One(stream[s] = "ready") + One(Abandoned(s))
            <= One(stream[s] # "unsent") + Cardinality(Ended(s)) + faults
      BY <1>t DEF DeliveriesCounted
    <2>2. Ended(s)' = Ended(s)
      BY <1>0 DEF Ended, Holds, Busy
    <2>3. Cardinality(Ended(s)) \in Nat
      BY EndedFinite
    <2>4. CASE s = t
      <3>1. ~Abandoned(s)'
        BY <1>1, <2>4 DEF Abandoned
      <3>2. One(Abandoned(s)') = 0 /\ One(stream'[s] = "ready") = 1
            /\ One(stream'[s] # "unsent") = 1
            /\ One(Abandoned(s)) \in Nat /\ One(stream[s] = "ready") \in Nat
        BY <1>1, <2>4, <3>1 DEF One
      <3>3. CASE stream[t] = "unsent"
        <4>1. One(stream[s] # "unsent") = 0
          BY <2>4, <3>3 DEF One
        <4>2. faults' >= faults
          BY <1>a, <1>2
        <4> QED BY <1>0, <1>a, <1>2, <2>1, <2>2, <2>3, <2>4, <3>2, <4>1, <4>2
      <3>4. CASE stream[t] # "unsent"
        <4>1. One(stream[s] # "unsent") = 1
          BY <2>4, <3>4 DEF One
        <4>2. Abandoned(t) => One(Abandoned(s)) = 1
          BY <2>4 DEF One
        <4> QED BY <1>0, <1>a, <1>2, <2>1, <2>2, <2>3, <2>4, <3>2, <3>4, <4>1, <4>2
      <3> QED BY <3>3, <3>4
    <2>5. CASE s # t
      <3>1. stream'[s] = stream[s]
        BY <1>1, <2>5
      <3>2. Abandoned(s)' <=> Abandoned(s)
        BY <1>0, <3>1 DEF Abandoned, Holds, Busy
      <3>3. One(Abandoned(s)') = One(Abandoned(s)) /\ One(Abandoned(s)) \in Nat
            /\ One(stream[s] = "ready") \in Nat /\ One(stream[s] # "unsent") \in Nat
        BY <3>2 DEF One
      <3>4. faults' >= faults
        BY <1>a, <1>2
      <3> QED BY <1>0, <1>a, <1>2, <2>1, <2>2, <2>3, <3>1, <3>3, <3>4
    <2> QED BY <2>4, <2>5
  <1> QED BY <1>3, <1>4

(* Nothing is recorded or settled by a step that leaves stream, results,   *)
(* blanks and calls alone.                                                 *)
LEMMA RecordsStay ==
  ASSUME TaskInv, UNCHANGED <<stream, result, blank, wk>>
  PROVE  SettledIsRecorded' /\ CallsRecorded'
BY DEF TaskInv, SettledIsRecorded, CallsRecorded, Busy, Stores, Failed

(* A call that ends takes nothing from the records.                        *)
LEMMA RecordsLeave ==
  ASSUME TaskInv, NEW w \in Workers, Busy(w), wk' = [wk EXCEPT ![w] = Idle],
         UNCHANGED <<result, blank>>
  PROVE  CallsRecorded'
  <1>1. DOMAIN wk = Workers /\ CallsRecorded
    BY DEF TaskInv, TaskTypeOK
  <1>2. \A v \in Workers : Busy(v)' => Busy(v) /\ wk'[v] = wk[v]
    BY <1>1 DEF Busy
  <1> QED BY <1>1, <1>2 DEF CallsRecorded, Stores, Failed

(* Messages that are due are not settled.                                  *)
LEMMA RecordsDue ==
  ASSUME TaskInv, UNCHANGED <<result, blank>>,
         \A t \in Tasks : stream'[t] \in {"acked", "termed"} => stream'[t] = stream[t]
  PROVE  SettledIsRecorded'
  <1>1. SettledIsRecorded
    BY DEF TaskInv
  <1> QED BY <1>1 DEF SettledIsRecorded

(* ... and every step of ServeJetstream, consumeWrapper, the progress      *)
(* goroutine and the server keeps it.                                      *)
LEMMA TaskStep == TaskInv /\ [TaskNext]_taskVars => TaskInv'
  <1> SUFFICES ASSUME TaskInv, [TaskNext]_taskVars PROVE TaskInv'
    OBVIOUS
  <1>a. Attempts \in Nat \ {0} /\ MaxFaults \in Nat /\ NoDeadLetter \in BOOLEAN
    BY TaskAssumption DEF TaskAssumption
  <1>t. /\ TaskTypeOK /\ SettledIsRecorded /\ NoLateProgress
        /\ CallsRecorded /\ OneHolder /\ DeliveriesCounted
    BY DEF TaskInv
  <1>y. /\ listening \in BOOLEAN /\ stream \in [Tasks -> States]
        /\ delivered \in [Tasks -> Nat] /\ blank \subseteq Tasks
        /\ result \in [Tasks -> {"none", "data", "error"}]
        /\ wk \in [Workers -> {Idle} \cup Call]
        /\ ticker \in [Workers -> {"off", "on", "held"}] /\ faults \in 0..MaxFaults
    BY <1>t DEF TaskTypeOK, States, Call
  <1>f. faults \in Nat /\ faults <= MaxFaults
    BY <1>a, <1>y
  <1>n. \A w \in Workers : ticker[w] = "held" => wk[w].at \in {"serve", "lock"}
    BY <1>t DEF NoLateProgress, MuFree
  <1>i. Idle.at = "idle" /\ Idle \notin Call
    BY DEF Idle, Call
  <1>1. CASE UNCHANGED <<stream, delivered, result, blank, wk, ticker, faults>>
             /\ listening' \in BOOLEAN
    <2>1. OneHolder' /\ DeliveriesCounted'
      BY <1>1, <1>f, HoldersStay
    <2>2. TaskTypeOK' /\ NoLateProgress'
      BY <1>1, <1>y, <1>n DEF TaskTypeOK, NoLateProgress, MuFree, States, Call
    <2> QED BY <1>1, <2>1, <2>2, RecordsStay DEF TaskInv
  <1>2. ASSUME NEW t \in Tasks, Publish(t) \/ Expire(t) PROVE TaskInv'
    <2>1. /\ stream' = [stream EXCEPT ![t] = "ready"]
          /\ UNCHANGED <<listening, delivered, result, blank, wk, ticker>>
          /\ faults' \in 0..MaxFaults
      <3>1. CASE Publish(t)
        BY <1>y, <3>1 DEF Publish
      <3>2. CASE Expire(t)
        <4>1. faults' = faults \/ (faults < MaxFaults /\ faults' = faults + 1)
          BY <3>2 DEF Expire
        <4>2. faults' \in 0..MaxFaults
          BY <1>a, <1>y, <4>1
        <4> QED BY <3>2, <4>2 DEF Expire
      <3> QED BY <1>2, <3>1, <3>2
    <2>2. stream' \in [Tasks -> States]
          /\ \A s \in Tasks : stream'[s] \in {"acked", "termed"} => stream'[s] = stream[s]
      BY <1>y, <2>1 DEF States
    <2>3. SettledIsRecorded'
      BY <2>1, <2>2, RecordsDue
    <2>4. CallsRecorded'
      BY <1>t, <2>1 DEF CallsRecorded, Busy, Stores, Failed
    <2>5. TaskTypeOK' /\ NoLateProgress'
      BY <1>y, <1>n, <2>1, <2>2 DEF TaskTypeOK, NoLateProgress, MuFree, States, Call
    <2>6. OneHolder' /\ DeliveriesCounted'
      BY <1>2, DueCounts
    <2> QED BY <2>3, <2>4, <2>5, <2>6 DEF TaskInv
  <1>3. ASSUME NEW t \in Tasks, NEW w \in Workers, Deliver(t, w) PROVE TaskInv'
    <2>0. delivered[t] \in Nat
      BY <1>y
    <2>1. PICK c : c = [at |-> "serve", task |-> t, num |-> delivered[t] + 1,
                        out |-> "empty"]
      OBVIOUS
    <2>2. c \in Call /\ c.at = "serve"
      BY <2>0, <2>1 DEF Call, Outcomes
    <2>3. /\ stream' = [stream EXCEPT ![t] = "pending"]
          /\ delivered' = [delivered EXCEPT ![t] = @ + 1]
          /\ wk' = [wk EXCEPT ![w] = c] /\ ticker' = [ticker EXCEPT ![w] = "on"]
          /\ UNCHANGED <<listening, result, blank, faults>>
      BY <1>3, <2>1 DEF Deliver
    <2>4. stream' \in [Tasks -> States]
          /\ \A s \in Tasks : stream'[s] \in {"acked", "termed"} => stream'[s] = stream[s]
      BY <1>y, <2>3 DEF States
    <2>5. wk' \in [Workers -> {Idle} \cup Call] /\ wk'[w] = c
          /\ \A v \in Workers \ {w} : wk'[v] = wk[v]
      BY <1>y, <2>2, <2>3
    <2>6. SettledIsRecorded'
      BY <2>3, <2>4, RecordsDue
    <2>7. CallsRecorded'
      <3>1. ASSUME NEW v \in Workers, Busy(v)'
            PROVE  /\ wk'[v].at \in {"lock", "decide", "settle"} /\ wk'[v].out = "empty"
                        => wk'[v].task \in blank'
                   /\ wk'[v].at = "settle" /\ Stores(v)' => result'[wk'[v].task] # "none"
        <4>1. CASE v = w
          BY <2>2, <2>5, <4>1
        <4>2. CASE v # w
          BY <1>t, <2>3, <2>5, <3>1, <4>2 DEF CallsRecorded, Busy, Stores, Failed
        <4> QED BY <4>1, <4>2
      <3> QED BY <3>1 DEF CallsRecorded
    <2>8. delivered' \in [Tasks -> Nat]
      BY <1>y, <2>0, <2>3
    <2>9. ticker' \in [Workers -> {"off", "on", "held"}]
      BY <1>y, <2>3
    <2>10. TaskTypeOK'
      BY <1>y, <2>3, <2>4, <2>5, <2>8, <2>9 DEF TaskTypeOK, States, Call
    <2>11. NoLateProgress'
      BY <1>y, <1>n, <2>3, <2>5 DEF NoLateProgress, MuFree
    <2>12. OneHolder' /\ DeliveriesCounted'
      BY <1>3, DeliverCounts
    <2> QED BY <2>6, <2>7, <2>10, <2>11, <2>12 DEF TaskInv
  <1>4. ASSUME NEW w \in Workers, Tick(w) \/ InProgress(w) \/ TickerEnds(w)
        PROVE  TaskInv'
    <2>1. UNCHANGED <<listening, stream, delivered, result, blank, wk, faults>>
      BY <1>4 DEF Tick, InProgress, TickerEnds
    <2>2. PICK x \in {"off", "on", "held"} :
            ticker' = [ticker EXCEPT ![w] = x] /\ (x = "held" => MuFree(w))
      BY <1>4 DEF Tick, InProgress, TickerEnds
    <2>3. ticker' \in [Workers -> {"off", "on", "held"}]
      BY <1>y, <2>2
    <2>4. TaskTypeOK'
      BY <1>y, <2>1, <2>3 DEF TaskTypeOK, States, Call
    <2>5. NoLateProgress'
      BY <1>y, <1>n, <2>1, <2>2 DEF NoLateProgress, MuFree
    <2>6. OneHolder' /\ DeliveriesCounted'
      BY <1>f, <2>1, HoldersStay
    <2> QED BY <2>1, <2>4, <2>5, <2>6, RecordsStay DEF TaskInv
  <1>5. ASSUME NEW w \in Workers, NEW st \in Statuses, ServeMsg(w, st) PROVE TaskInv'
    <2>0. wk[w].at = "serve" /\ wk[w] \in Call /\ wk[w].task \in Tasks
      BY <1>5, <1>y, <1>i DEF ServeMsg, Call
    <2>1. PICK o : o = Outcome(st)
      OBVIOUS
    <2>2. o \in Outcomes
      BY <2>1 DEF Outcome, Outcomes
    <2>3. PICK c : c = [wk[w] EXCEPT !.at = "lock", !.out = o]
      OBVIOUS
    <2>4. c \in Call /\ c.at = "lock" /\ c.out = o /\ c.task = wk[w].task
          /\ c.num = wk[w].num
      BY <2>0, <2>2, <2>3 DEF Call
    <2>5. /\ wk' = [wk EXCEPT ![w] = c]
          /\ blank' = (IF o = "empty" THEN blank \cup {wk[w].task} ELSE blank)
          /\ UNCHANGED <<listening, stream, delivered, result, ticker, faults>>
      BY <1>5, <2>1, <2>3 DEF ServeMsg
    <2>6. wk' \in [Workers -> {Idle} \cup Call] /\ wk'[w] = c
          /\ \A v \in Workers \ {w} : wk'[v] = wk[v]
      BY <1>y, <2>4, <2>5
    <2>7. blank \subseteq blank' /\ blank' \subseteq Tasks
          /\ (o = "empty" => wk[w].task \in blank')
      BY <1>y, <2>0, <2>5
    <2>8. Goes(w)
      BY <2>0, <2>4, <2>5, <2>6 DEF Goes
    <2>9. OneHolder' /\ DeliveriesCounted'
      BY <1>f, <2>5, <2>8, HoldersStay
    <2>10. SettledIsRecorded'
      BY <1>t, <2>5, <2>7 DEF SettledIsRecorded
    <2>11. CallsRecorded'
      <3>1. ASSUME NEW v \in Workers, Busy(v)'
            PROVE  /\ wk'[v].at \in {"lock", "decide", "settle"} /\ wk'[v].out = "empty"
                        => wk'[v].task \in blank'
                   /\ wk'[v].at = "settle" /\ Stores(v)' => result'[wk'[v].task] # "none"
        <4>1. CASE v = w
          BY <2>4, <2>6, <2>7, <4>1
        <4>2. CASE v # w
          BY <1>t, <2>5, <2>6, <2>7, <3>1, <4>2 DEF CallsRecorded, Busy, Stores, Failed
        <4> QED BY <4>1, <4>2
      <3> QED BY <3>1 DEF CallsRecorded
    <2>12. TaskTypeOK'
      BY <1>y, <2>5, <2>6, <2>7 DEF TaskTypeOK, States, Call
    <2>13. NoLateProgress'
      BY <1>n, <2>4, <2>5, <2>6 DEF NoLateProgress, MuFree
    <2> QED BY <2>9, <2>10, <2>11, <2>12, <2>13 DEF TaskInv
  <1>6. ASSUME NEW w \in Workers, Lock(w) \/ Store(w) PROVE TaskInv'
    <2>0. wk[w].at \in {"lock", "decide"} /\ wk[w] \in Call /\ wk[w].task \in Tasks
      BY <1>6, <1>y, <1>i DEF Lock, Store, Call
    <2>1. PICK x \in {"decide", "settle"} :
            /\ wk' = [wk EXCEPT ![w].at = x]
            /\ x = "settle" => /\ Store(w)
      BY <1>6 DEF Lock, Store
    <2>2. PICK c : c = [wk[w] EXCEPT !.at = x]
      OBVIOUS
    <2>3. c \in Call /\ c.at = x /\ c.out = wk[w].out /\ c.task = wk[w].task
          /\ c.num = wk[w].num
      BY <2>0, <2>1, <2>2 DEF Call
    <2>4. wk' = [wk EXCEPT ![w] = c]
      BY <2>1, <2>2
    <2>5. wk' \in [Workers -> {Idle} \cup Call] /\ wk'[w] = c
          /\ \A v \in Workers \ {w} : wk'[v] = wk[v]
      BY <1>y, <2>3, <2>4
    <2>6. UNCHANGED <<listening, stream, delivered, blank, ticker, faults>>
      BY <1>6 DEF Lock, Store
    <2>7. /\ result' \in [Tasks -> {"none", "data", "error"}]
          /\ \A t \in Tasks : result[t] # "none" => result'[t] # "none"
          /\ x = "settle" /\ Stores(w) => result'[wk[w].task] # "none"
      <3>1. CASE result' = result /\ ~(x = "settle" /\ Stores(w))
        BY <1>y, <3>1
      <3>2. CASE Store(w) /\ Stores(w)
        <4>1. PICK q \in {"error", "data"} : result' = [result EXCEPT ![wk[w].task] = q]
          BY <3>2 DEF Store
        <4> QED BY <1>y, <2>0, <4>1
      <3>3. result' = result \/ (Store(w) /\ Stores(w))
        BY <1>6 DEF Lock, Store
      <3> QED BY <2>1, <3>1, <3>2, <3>3
    <2>8. Goes(w)
      BY <2>0, <2>3, <2>4, <2>5 DEF Goes
    <2>9. OneHolder' /\ DeliveriesCounted'
      BY <1>f, <2>6, <2>8, HoldersStay
    <2>10. SettledIsRecorded'
      BY <1>t, <2>6, <2>7 DEF SettledIsRecorded
    <2>11. CallsRecorded'
      <3>1. ASSUME NEW v \in Workers, Busy(v)'
            PROVE  /\ wk'[v].at \in {"lock", "decide", "settle"} /\ wk'[v].out = "empty"
                        => wk'[v].task \in blank'
                   /\ wk'[v].at = "settle" /\ Stores(v)' => result'[wk'[v].task] # "none"
        <4>1. CASE v = w
          <5>1. Busy(w)
            BY <1>i, <2>0 DEF Busy
          <5>2. wk[w].out = "empty" => wk[w].task \in blank
            BY <1>t, <2>0, <5>1 DEF CallsRecorded
          <5>3. Stores(w)' => Stores(w)
            BY <2>3, <2>5 DEF Stores, Failed
          <5> QED BY <2>1, <2>3, <2>5, <2>6, <2>7, <4>1, <5>2, <5>3
        <4>2. CASE v # w
          <5>1. Busy(v) /\ wk'[v] = wk[v]
            BY <2>5, <3>1, <4>2 DEF Busy
          <5>2. wk[v] \in Call /\ wk[v].task \in Tasks
            BY <1>y, <5>1 DEF Call, Busy
          <5>3. Stores(v)' => Stores(v)
            BY <5>1 DEF Stores, Failed
          <5> QED BY <1>t, <2>6, <2>7, <5>1, <5>2, <5>3 DEF CallsRecorded
        <4> QED BY <4>1, <4>2
      <3> QED BY <3>1 DEF CallsRecorded
    <2>12. TaskTypeOK'
      BY <1>y, <2>5, <2>6, <2>7 DEF TaskTypeOK, States, Call
    <2>13. NoLateProgress'
      <3>1. ticker[w] # "held"
        BY <1>6, <1>n DEF Lock, Store
      <3> QED BY <1>n, <2>5, <2>6, <3>1 DEF NoLateProgress, MuFree
    <2> QED BY <2>9, <2>10, <2>11, <2>12, <2>13 DEF TaskInv
  <1>7. ASSUME NEW w \in Workers,
               NakWithDelay(w) \/ StoreFails(w) \/ Settle(w) \/ WorkerCrash(w)
        PROVE  TaskInv'
    <2>0. wk[w] \in Call /\ wk[w].task \in Tasks /\ Busy(w)
      <3>1. wk[w] # Idle
        BY <1>7, <1>i DEF NakWithDelay, StoreFails, Settle, WorkerCrash
      <3> QED BY <1>y, <3>1 DEF Call, Busy
    <2>1. /\ wk' = [wk EXCEPT ![w] = Idle]
          /\ UNCHANGED <<listening, delivered, result, blank>>
      BY <1>7 DEF NakWithDelay, StoreFails, Settle, WorkerCrash
    <2>2. wk' \in [Workers -> {Idle} \cup Call] /\ wk'[w] = Idle
          /\ \A v \in Workers \ {w} : wk'[v] = wk[v]
      BY <1>y, <2>1
    <2>3. PICK t \in Tasks : t = wk[w].task
      BY <2>0
    <2>4. CallsRecorded'
      BY <2>0, <2>1, RecordsLeave
    <2>5. /\ stream' \in [Tasks -> States]
          /\ \A s \in Tasks : s # t => stream'[s] = stream[s]
          /\ stream[t] # "unsent" => stream'[t] # "unsent"
          /\ \/ stream'[t] \in {"acked", "termed"}
             \/ /\ stream'[t] \in {"ready", stream[t]}
                /\ faults' > faults \/ wk[w].num <= Attempts
          /\ faults' \in 0..MaxFaults /\ faults' >= faults
      <3>1. CASE NakWithDelay(w)
        <4>1. Answer(t, "ready") /\ faults' = faults /\ ~(wk[w].num - 1 >= Attempts)
          BY <2>3, <3>1 DEF NakWithDelay, MayRetry
        <4>2. wk[w].num <= Attempts
          BY <1>a, <2>0, <4>1 DEF Call
        <4>3. /\ stream' \in [Tasks -> States]
              /\ \A s \in Tasks : s # t => stream'[s] = stream[s]
              /\ stream'[t] = IF stream[t] \in {"acked", "termed"} THEN stream[t]
                              ELSE "ready"
          BY <1>t, <4>1, AnswerDoes
        <4> QED BY <1>f, <1>y, <4>1, <4>2, <4>3
      <3>2. CASE StoreFails(w)
        <4>1. Answer(t, "ready") /\ faults' = faults + 1 /\ faults < MaxFaults
          BY <2>3, <3>2 DEF StoreFails
        <4>2. faults' \in 0..MaxFaults /\ faults' > faults
          BY <1>a, <1>f, <4>1
        <4>3. /\ stream' \in [Tasks -> States]
              /\ \A s \in Tasks : s # t => stream'[s] = stream[s]
              /\ stream'[t] = IF stream[t] \in {"acked", "termed"} THEN stream[t]
                              ELSE "ready"
          BY <1>t, <4>1, AnswerDoes
        <4> QED BY <1>f, <1>a, <4>2, <4>3
      <3>3. CASE Settle(w)
        <4>1. PICK q \in {"termed", "acked"} : Answer(t, q) /\ faults' = faults
          BY <2>3, <3>3 DEF Settle
        <4>2. /\ stream' \in [Tasks -> States]
              /\ \A s \in Tasks : s # t => stream'[s] = stream[s]
              /\ stream'[t] = IF stream[t] \in {"acked", "termed"} THEN stream[t]
                              ELSE q
          BY <1>t, <4>1, AnswerDoes
        <4> QED BY <1>f, <1>y, <4>1, <4>2
      <3>4. CASE WorkerCrash(w)
        <4>1. stream' = stream /\ faults' = faults + 1 /\ faults < MaxFaults
          BY <3>4 DEF WorkerCrash
        <4>2. faults' \in 0..MaxFaults /\ faults' > faults
          BY <1>a, <1>f, <4>1
        <4> QED BY <1>f, <1>a, <1>y, <4>1, <4>2
      <3> QED BY <1>7, <3>1, <3>2, <3>3, <3>4
    <2>6. OneHolder' /\ DeliveriesCounted'
      <3>1. faults' \in Nat
        BY <1>a, <2>5
      <3> QED BY <2>0, <2>1, <2>3, <2>5, <3>1, HolderLeaves
    <2>7. SettledIsRecorded'
      <3>1. CASE ~Settle(w)
        <4>1. \A s \in Tasks : stream'[s] \in {"acked", "termed"} => stream'[s] = stream[s]
          <5>1. CASE WorkerCrash(w)
            BY <5>1 DEF WorkerCrash
          <5>2. CASE NakWithDelay(w) \/ StoreFails(w)
            <6>1. Answer(t, "ready")
              BY <2>3, <5>2 DEF NakWithDelay, StoreFails
            <6>2. /\ \A s \in Tasks : s # t => stream'[s] = stream[s]
                  /\ stream'[t] = IF stream[t] \in {"acked", "termed"} THEN stream[t]
                                  ELSE "ready"
              BY <1>t, <6>1, AnswerDoes
            <6> QED BY <6>2
          <5> QED BY <1>7, <3>1, <5>1, <5>2
        <4> QED BY <2>1, <4>1, RecordsDue
      <3>2. CASE Settle(w)
        <4>1. PICK q : q = (IF Failed(w) THEN "termed" ELSE "acked") /\ Answer(t, q)
          BY <2>3, <3>2 DEF Settle
        <4>2. /\ \A s \in Tasks : s # t => stream'[s] = stream[s]
              /\ stream'[t] = IF stream[t] \in {"acked", "termed"} THEN stream[t]
                              ELSE q
          BY <1>t, <4>1, AnswerDoes
        <4>3. wk[w].at = "settle" /\ wk[w].out \in Outcomes
          BY <2>0, <3>2 DEF Settle, Call
        <4>4. /\ wk[w].out = "empty" => t \in blank
              /\ Stores(w) => result[t] # "none"
          BY <1>t, <2>0, <2>3, <4>3 DEF CallsRecorded
        <4>5. /\ Failed(w) /\ ~NoDeadLetter => result[t] # "none"
              /\ ~Failed(w) => result[t] # "none" \/ t \in blank
          BY <4>3, <4>4 DEF Stores, Failed, Outcomes
        <4>6. /\ stream'[t] = "termed" /\ ~NoDeadLetter => result[t] # "none"
              /\ stream'[t] = "acked" => result[t] # "none" \/ t \in blank
          BY <1>t, <4>1, <4>2, <4>5 DEF SettledIsRecorded
        <4> QED BY <1>t, <2>1, <4>2, <4>6 DEF SettledIsRecorded
      <3> QED BY <3>1, <3>2
    <2>8. ticker' \in [Workers -> {"off", "on", "held"}] /\ ticker'[w] # "held"
          /\ \A v \in Workers \ {w} : ticker'[v] = ticker[v]
      <3>1. CASE WorkerCrash(w)
        BY <1>y, <3>1 DEF WorkerCrash
      <3>2. CASE ~WorkerCrash(w)
        <4>1. ticker' = ticker /\ wk[w].at \in {"decide", "settle"}
          BY <1>7, <3>2 DEF NakWithDelay, StoreFails, Settle
        <4> QED BY <1>y, <1>n, <4>1
      <3> QED BY <3>1, <3>2
    <2>9. NoLateProgress'
      BY <1>n, <2>2, <2>8 DEF NoLateProgress, MuFree
    <2>10. TaskTypeOK'
      BY <1>y, <2>1, <2>2, <2>5, <2>8 DEF TaskTypeOK, States, Call
    <2> QED BY <2>4, <2>6, <2>7, <2>9, <2>10 DEF TaskInv
  <1>8. CASE UNCHANGED taskVars
    BY <1>1, <1>8, <1>y DEF taskVars
  <1>9. CASE Listen \/ Unlisten
    BY <1>1, <1>9 DEF Listen, Unlisten
  <1> QED
    BY <1>2, <1>3, <1>4, <1>5, <1>6, <1>7, <1>8, <1>9 DEF TaskNext, ServeJetstream

(* The count of deliveries gives their bound.                              *)
LEMMA TaskImplies == TaskInv => TasksCorrect
  <1> SUFFICES ASSUME TaskInv PROVE DeliveriesBounded
    BY DEF TaskInv, TasksCorrect
  <1> SUFFICES ASSUME NEW t \in Tasks PROVE delivered[t] <= 1 + Attempts + faults
    BY DEF DeliveriesBounded
  <1>1. delivered[t] + One(stream[t] = "ready") + One(Abandoned(t))
          <= One(stream[t] # "unsent") + Cardinality(Ended(t)) + faults
    BY DEF TaskInv, DeliveriesCounted
  <1>2. /\ One(stream[t] = "ready") \in {0, 1} /\ One(Abandoned(t)) \in {0, 1}
        /\ One(stream[t] # "unsent") \in {0, 1}
    BY DEF One
  <1>3. delivered[t] \in Nat /\ faults \in 0..MaxFaults
    BY DEF TaskInv, TaskTypeOK
  <1>4. Attempts \in Nat /\ MaxFaults \in Nat
    BY TaskAssumption DEF TaskAssumption
  <1>5. Cardinality(Ended(t)) \in Nat /\ Cardinality(Ended(t)) <= Attempts
    BY EndedFinite
  <1> QED BY <1>1, <1>2, <1>3, <1>4, <1>5

-----------------------------------------------------------------------------
(* The gate.                                                               *)

(* Units of time that lie wholly in the current period.                    *)
Whole == IF gate.next = Over THEN Period ELSE Period - gate.next

GateInv ==
  /\ GateTypeOK
  /\ gate.at = "fetch" => gate.left > 0
  /\ gate.at = "off" => Cardinality(Started(Period)) <= 2 * Count
  /\ gate.at # "off" =>
       /\ Cardinality(Started(Whole)) <= Count - gate.left
       /\ Cardinality(Started(Period)) <= 2 * Count - gate.left

(* Starts are finitely many and fewer in fewer units.                      *)
LEMMA StartedFinite ==
  ASSUME NEW n \in 0..Period
  PROVE  /\ IsFiniteSet(Started(n)) /\ Cardinality(Started(n)) \in Nat
         /\ \A m \in 0..n : Started(m) \subseteq Started(n)
                            /\ Cardinality(Started(m)) <= Cardinality(Started(n))
  <1>1. Period \in Nat /\ Count \in Nat
    BY GateAssumption DEF GateAssumption
  <1>2. IsFiniteSet(0..(n - 1)) /\ IsFiniteSet(1..(2 * Count))
    BY <1>1, FS_Interval
  <1>3. IsFiniteSet((0..(n - 1)) \X (1..(2 * Count)))
    BY <1>2, FS_Product
  <1>4. IsFiniteSet(Started(n))
    <2>1. Started(n) \subseteq (0..(n - 1)) \X (1..(2 * Count))
      BY DEF Started
    <2> QED BY <1>3, <2>1, FS_Subset
  <1>5. ASSUME NEW m \in 0..n PROVE Started(m) \subseteq Started(n)
    <2>1. \A a \in 0..(m - 1) : a \in 0..(n - 1)
      BY <1>1
    <2> QED BY <2>1 DEF Started
  <1> QED BY <1>4, <1>5, FS_Subset, FS_CardinalityType

(* A unit has no more starts than all of them.                             *)
LEMMA StartedHas ==
  ASSUME GateTypeOK
  PROVE  starts[0] <= Cardinality(Started(Period))
  <1>1. Period \in Nat \ {0} /\ Count \in Nat \ {0}
    BY GateAssumption DEF GateAssumption
  <1>2. 0 \in 0..(Period - 1) /\ starts[0] \in 0..(2 * Count)
    BY <1>1 DEF GateTypeOK
  <1>3. PICK f : f = [k \in 1..starts[0] |-> <<0, k>>]
    OBVIOUS
  <1>4. \A k \in 1..starts[0] : <<0, k>> \in Started(Period)
    BY <1>1, <1>2 DEF Started
  <1>5. f \in Injection(1..starts[0], Started(Period))
    BY <1>3, <1>4 DEF Injection, IsInjective
  <1>7. IsFiniteSet(Started(Period)) /\ Period \in 0..Period
    BY <1>1, StartedFinite
  <1>8. Cardinality(1..starts[0]) = starts[0]
    BY <1>2, FS_Interval
  <1> QED BY <1>5, <1>7, <1>8, FS_Injection

(* One more start in the current unit.                                     *)
LEMMA StartedGrows ==
  ASSUME GateTypeOK, NEW n \in 0..Period, starts[0] < 2 * Count,
         starts' = [starts EXCEPT ![0] = @ + 1]
  PROVE  /\ IsFiniteSet(Started(n)') /\ Cardinality(Started(n)') \in Nat
         /\ Cardinality(Started(n)') <= Cardinality(Started(n)) + 1
         /\ n = 0 => Cardinality(Started(n)') = 0
  <1>1. Period \in Nat \ {0} /\ Count \in Nat \ {0}
    BY GateAssumption DEF GateAssumption
  <1>2. 0 \in 0..(Period - 1) /\ starts[0] \in 0..(2 * Count)
        /\ starts \in [0..(Period - 1) -> 0..(2 * Count)]
    BY <1>1 DEF GateTypeOK
  <1>3. \A a \in 0..(Period - 1) :
          /\ starts'[a] = IF a = 0 THEN starts[0] + 1 ELSE starts[a]
          /\ starts[a] \in 0..(2 * Count)
    BY <1>2
  <1>4. Started(n)' \subseteq Started(n) \cup {<<0, starts[0] + 1>>}
    <2> SUFFICES ASSUME NEW a \in 0..(n - 1), NEW k \in 1..(2 * Count),
                        k <= starts'[a]
                 PROVE  <<a, k>> \in Started(n) \/ <<a, k>> = <<0, starts[0] + 1>>
      BY DEF Started
    <2>1. a \in 0..(Period - 1)
      BY <1>1
    <2>2. k <= starts[a] \/ (a = 0 /\ k = starts[0] + 1)
      BY <1>2, <1>3, <2>1
    <2> QED BY <2>2 DEF Started
  <1>5. IsFiniteSet(Started(n)) /\ Cardinality(Started(n)) \in Nat
    BY StartedFinite
  <1>6. /\ IsFiniteSet(Started(n) \cup {<<0, starts[0] + 1>>})
        /\ Cardinality(Started(n) \cup {<<0, starts[0] + 1>>})
             <= Cardinality(Started(n)) + 1
    <2>1. PICK x : x = <<0, starts[0] + 1>>
      OBVIOUS
    <2>2. IsFiniteSet(Started(n) \cup {x})
          /\ Cardinality(Started(n) \cup {x})
               = IF x \in Started(n) THEN Cardinality(Started(n))
                 ELSE Cardinality(Started(n)) + 1
      BY <1>5, FS_AddElement
    <2> QED BY <1>5, <2>1, <2>2
  <1>7. n = 0 => Started(n)' = {}
    <2> SUFFICES ASSUME n = 0 PROVE Started(n)' = {}
      OBVIOUS
    <2>1. 0..(n - 1) = {}
      OBVIOUS
    <2> QED BY <2>1 DEF Started
  <1>8. IsFiniteSet(Started(n)') /\ Cardinality(Started(n)')
          <= Cardinality(Started(n) \cup {<<0, starts[0] + 1>>})
    BY <1>4, <1>6, FS_Subset
  <1>9. Cardinality(Started(n)') \in Nat
        /\ Cardinality(Started(n) \cup {<<0, starts[0] + 1>>}) \in Nat
    BY <1>6, <1>8, FS_CardinalityType
  <1> QED BY <1>5, <1>6, <1>7, <1>8, <1>9, FS_EmptySet

(* With the next unit the starts are a unit older.                         *)
LEMMA StartedShifts ==
  ASSUME GateTypeOK, NEW n \in 0..(Period - 1),
         starts' = [a \in 0..(Period - 1) |-> IF a = 0 THEN 0 ELSE starts[a - 1]]
  PROVE  /\ IsFiniteSet(Started(n + 1)')
         /\ Cardinality(Started(n + 1)') \in Nat
         /\ Cardinality(Started(n + 1)') <= Cardinality(Started(n))
  <1>1. Period \in Nat \ {0} /\ Count \in Nat \ {0}
    BY GateAssumption DEF GateAssumption
  <1>2. \A a \in 0..(Period - 1) :
          starts'[a] = (IF a = 0 THEN 0 ELSE starts[a - 1])
    OBVIOUS
  <1>3. ASSUME NEW a \in 0..n, NEW k \in 1..(2 * Count), k <= starts'[a]
        PROVE  a - 1 \in 0..(n - 1) /\ k <= starts[a - 1]
    <2>1. a \in 0..(Period - 1)
      BY <1>1
    <2>2. a # 0
      BY <1>2, <1>3, <2>1
    <2> QED BY <1>2, <1>3, <2>1, <2>2
  <1>4. (n + 1) - 1 = n
    OBVIOUS
  <1>5. Started(n + 1)' = {m \in (0..n) \X (1..(2 * Count)) : m[2] <= starts'[m[1]]}
    BY <1>4 DEF Started
  <1>6. PICK f : f = [m \in Started(n + 1)' |-> <<m[1] - 1, m[2]>>]
    OBVIOUS
  <1>7. ASSUME NEW m \in Started(n + 1)'
        PROVE  /\ m[1] \in 0..n /\ m = <<m[1], m[2]>>
               /\ <<m[1] - 1, m[2]>> \in Started(n)
    <2>1. m \in (0..n) \X (1..(2 * Count)) /\ m[2] <= starts'[m[1]]
      BY <1>5, <1>7
    <2>2. m[1] \in 0..n /\ m[2] \in 1..(2 * Count) /\ m = <<m[1], m[2]>>
      BY <2>1
    <2>3. m[1] - 1 \in 0..(n - 1) /\ m[2] <= starts[m[1] - 1]
      BY <1>3, <2>1, <2>2
    <2> QED BY <2>2, <2>3 DEF Started
  <1>8. f \in Injection(Started(n + 1)', Started(n))
    <2>1. f \in [Started(n + 1)' -> Started(n)]
      BY <1>6, <1>7
    <2>2. ASSUME NEW l \in Started(n + 1)', NEW m \in Started(n + 1)', f[l] = f[m]
          PROVE  l = m
      <3>1. <<l[1] - 1, l[2]>> = <<m[1] - 1, m[2]>>
        BY <1>6, <2>2
      <3>2. l[1] - 1 = m[1] - 1 /\ l[2] = m[2]
        BY <3>1
      <3>3. l[1] \in 0..n /\ m[1] \in 0..n
        BY <1>7
      <3>4. l[1] = m[1]
        BY <3>2, <3>3
      <3> QED BY <1>7, <3>2, <3>4
    <2> QED BY <2>1, <2>2 DEF Injection, IsInjective
  <1>10. IsFiniteSet(Started(n)) /\ n \in 0..Period
    BY <1>1, StartedFinite
  <1>11. IsFiniteSet(Started(n + 1)')
         /\ Cardinality(Started(n + 1)') <= Cardinality(Started(n))
    BY <1>8, <1>10, FS_Injection
  <1> QED BY <1>11, FS_CardinalityType

(* Nothing has been started while the counts are zero.                     *)
LEMMA StartedNone ==
  ASSUME GateTypeOK, \A a \in 0..(Period - 1) : starts[a] = 0, NEW n \in 0..Period
  PROVE  Started(n) = {} /\ Cardinality(Started(n)) = 0
  <1>1. Started(n) = {}
    <2> SUFFICES ASSUME NEW a \in 0..(n - 1), NEW k \in 1..(2 * Count), k <= starts[a]
                 PROVE  FALSE
      BY DEF Started
    <2>1. a \in 0..(Period - 1)
      BY GateAssumption DEF GateAssumption
    <2> QED BY <2>1
  <1> QED BY <1>1, FS_EmptySet

(* The invariant of the gate holds before the first task ...               *)
LEMMA GateStart == GateInit => GateInv
  <1> SUFFICES ASSUME GateInit PROVE GateInv
    OBVIOUS
  <1>1. Period \in Nat \ {0} /\ Count \in Nat \ {0}
    BY GateAssumption DEF GateAssumption
  <1>2. GateTypeOK
    BY <1>1 DEF GateInit, GateTypeOK, GateOff, Over
  <1>3. Cardinality(Started(Period)) = 0
    BY <1>1, <1>2, StartedNone DEF GateInit
  <1> QED BY <1>1, <1>2, <1>3 DEF GateInit, GateInv, GateOff

GateType ==
  [at : {"off", "check", "fetch", "sleep"}, left : 0..Count,
   next : Over..Period, nap : 0..Period]

(* A step that leaves the starts alone, and the place in the period.       *)
LEMMA GateSame ==
  ASSUME GateInv, gate.at # "off", UNCHANGED starts, gate' \in GateType,
         gate'.next = gate.next, gate'.left = gate.left,
         gate'.at # "fetch" \/ gate'.left > 0
  PROVE  GateInv'
  <1>1. GateTypeOK'
    BY DEF GateInv, GateTypeOK, GateType
  <1>2. \A n : Started(n)' = Started(n)
    BY DEF Started
  <1>3. Whole' = Whole
    BY DEF Whole
  <1>4. /\ Cardinality(Started(Whole)) <= Count - gate.left
        /\ Cardinality(Started(Period)) <= 2 * Count - gate.left
    BY DEF GateInv
  <1>5. Cardinality(Started(Period)) <= 2 * Count
    <2>1. Period \in Nat \ {0} /\ Count \in Nat \ {0} /\ gate.left \in 0..Count
      BY GateAssumption DEF GateAssumption, GateInv, GateTypeOK
    <2>2. Cardinality(Started(Period)) \in Nat
      BY <2>1, StartedFinite
    <2> QED BY <1>4, <2>1, <2>2
  <1>6. Started(Whole)' = Started(Whole)
    BY <1>3 DEF Started
  <1> QED BY <1>1, <1>2, <1>4, <1>5, <1>6 DEF GateInv

(* ... and every step through the gate keeps it.                           *)
LEMMA GateStep == GateInv /\ [GateNext]_gateVars => GateInv'
  <1> SUFFICES ASSUME GateInv, [GateNext]_gateVars PROVE GateInv'
    OBVIOUS
  <1>a. Period \in Nat \ {0} /\ Count \in Nat \ {0}
    BY GateAssumption DEF GateAssumption
  <1>t. /\ GateTypeOK /\ gate \in GateType
        /\ starts \in [0..(Period - 1) -> 0..(2 * Count)]
    BY DEF GateInv, GateTypeOK, GateType
  <1>w. /\ gate.left \in 0..Count /\ gate.next \in Over..Period
        /\ gate.nap \in 0..Period /\ Whole \in 0..Period
    BY <1>a, <1>t DEF GateType, Whole, Over
  <1>c. Cardinality(Started(Whole)) \in Nat /\ Cardinality(Started(Period)) \in Nat
    BY <1>a, <1>w, StartedFinite
  <1>o. gate.at # "off" =>
          /\ Cardinality(Started(Whole)) <= Count - gate.left
          /\ Cardinality(Started(Period)) <= 2 * Count - gate.left
    BY DEF GateInv
  <1>1. CASE UNCHANGED gateVars
    <2>1. \A n : Started(n)' = Started(n)
      BY <1>1 DEF gateVars, Started
    <2>2. Whole' = Whole /\ Started(Whole)' = Started(Whole)
      BY <1>1 DEF gateVars, Whole, Started
    <2> QED BY <1>1, <2>1, <2>2 DEF GateInv, GateTypeOK, gateVars
  <1>2. CASE GateClock
    <2>0. /\ gate.at # "off"
          /\ starts' = [a \in 0..(Period - 1) |-> IF a = 0 THEN 0 ELSE starts[a - 1]]
      BY <1>2 DEF GateClock
    <2>1. PICK x, p : x = Less(gate.next)
                      /\ p = IF gate.nap > 0 THEN gate.nap - 1 ELSE 0
      OBVIOUS
    <2>2. x \in Over..Period /\ p \in 0..Period
      BY <1>a, <1>w, <2>1 DEF Less, Over
    <2>3. gate' = [gate EXCEPT !.next = x, !.nap = p]
      BY <1>2, <2>1 DEF GateClock
    <2>4. /\ gate' \in GateType /\ gate'.at = gate.at /\ gate'.left = gate.left
          /\ gate'.next = x
      BY <1>t, <2>2, <2>3 DEF GateType
    <2>5. starts' \in [0..(Period - 1) -> 0..(2 * Count)]
      <3>1. \A a \in 0..(Period - 1) :
              (IF a = 0 THEN 0 ELSE starts[a - 1]) \in 0..(2 * Count)
        <4>1. \A a \in 0..(Period - 1) : a # 0 => a - 1 \in 0..(Period - 1)
          BY <1>a
        <4> QED BY <1>a, <1>t, <4>1
      <3> QED BY <2>0, <3>1
    <2>6. GateTypeOK'
      BY <2>4, <2>5 DEF GateTypeOK, GateType
    <2>7. /\ IsFiniteSet(Started(Period)') /\ Cardinality(Started(Period)') \in Nat
          /\ Cardinality(Started(Period)') <= Cardinality(Started(Period))
      <3>1. Period - 1 \in 0..(Period - 1) /\ (Period - 1) + 1 = Period
        BY <1>a
      <3>2. /\ IsFiniteSet(Started(Period)') /\ Cardinality(Started(Period)') \in Nat
            /\ Cardinality(Started(Period)') <= Cardinality(Started(Period - 1))
        <4>1. PICK q : q = Period - 1
          OBVIOUS
        <4>2. q \in 0..(Period - 1) /\ q + 1 = Period
          BY <3>1, <4>1
        <4>3. /\ IsFiniteSet(Started(q + 1)') /\ Cardinality(Started(q + 1)') \in Nat
              /\ Cardinality(Started(q + 1)') <= Cardinality(Started(q))
          BY <1>t, <2>0, <4>2, StartedShifts
        <4> QED BY <4>1, <4>2, <4>3
      <3>3. Cardinality(Started(Period - 1)) <= Cardinality(Started(Period))
            /\ Cardinality(Started(Period - 1)) \in Nat
        BY <1>a, <3>1, StartedFinite
      <3> QED BY <1>c, <3>2, <3>3
    <2>8. Cardinality(Started(Whole)') \in Nat
          /\ Cardinality(Started(Whole)') <= Cardinality(Started(Whole))
      <3>1. CASE gate.next <= 0
        <4>1. Whole = Period /\ Whole' = Period
          BY <1>a, <1>w, <2>1, <2>4, <3>1 DEF Whole, Less, Over
        <4>2. Started(Whole) = Started(Period) /\ Started(Whole)' = Started(Period)'
          BY <4>1 DEF Started
        <4> QED BY <2>7, <4>2
      <3>2. CASE gate.next > 0
        <4>1. /\ Whole \in 0..(Period - 1) /\ Whole' = Whole + 1
          BY <1>a, <1>w, <2>1, <2>4, <3>2 DEF Whole, Less, Over
        <4>2. PICK q : q = Whole
          OBVIOUS
        <4>3. Cardinality(Started(q + 1)') \in Nat
              /\ Cardinality(Started(q + 1)') <= Cardinality(Started(q))
          BY <1>t, <2>0, <4>1, <4>2, StartedShifts
        <4>4. Started(Whole)' = Started(q + 1)'
          BY <4>1, <4>2 DEF Started
        <4> QED BY <4>2, <4>3, <4>4
      <3> QED BY <1>a, <1>w, <3>1, <3>2 DEF Over
    <2>9. /\ Cardinality(Started(Whole)') <= Count - gate'.left
          /\ Cardinality(Started(Period)') <= 2 * Count - gate'.left
      BY <1>a, <1>w, <1>c, <1>o, <2>0, <2>4, <2>7, <2>8
    <2>10. gate'.at # "off" /\ (gate'.at = "fetch" => gate'.left > 0)
      BY <2>0, <2>4 DEF GateInv
    <2> QED BY <2>6, <2>9, <2>10 DEF GateInv
  <1>3. CASE StartGate
    <2>1. /\ starts' = [a \in 0..(Period - 1) |-> 0]
          /\ gate' = [GateOff EXCEPT !.at = "check"]
      BY <1>3 DEF StartGate
    <2>2. /\ gate'.at = "check" /\ gate'.left = 0 /\ gate'.next = Over
          /\ gate' \in GateType
      BY <1>a, <2>1 DEF GateOff, GateType, Over
    <2>3. GateTypeOK'
      BY <1>a, <2>1, <2>2 DEF GateTypeOK, GateType
    <2>4. Started(Period)' = {}
      <3> SUFFICES ASSUME NEW b \in 0..(Period - 1), NEW k \in 1..(2 * Count),
                          k <= starts'[b]
                   PROVE  FALSE
        BY DEF Started
      <3> QED BY <2>1
    <2>5. Started(Whole)' = {}
      <3>1. Whole' = Period
        BY <2>2 DEF Whole
      <3> QED BY <2>4, <3>1 DEF Started
    <2>6. Cardinality(Started(Period)') = 0 /\ Cardinality(Started(Whole)') = 0
      BY <2>4, <2>5, FS_EmptySet
    <2> QED BY <1>a, <2>2, <2>3, <2>6 DEF GateInv
  <1>4. CASE StopGate
    <2>1. gate' = GateOff /\ starts' = starts /\ gate.at # "off"
      BY <1>4 DEF StopGate
    <2>2. GateTypeOK' /\ gate'.at = "off"
      BY <1>a, <1>t, <2>1 DEF GateTypeOK, GateOff, Over
    <2>3. Started(Period)' = Started(Period)
      BY <2>1 DEF Started
    <2>4. Cardinality(Started(Period)) <= 2 * Count
      BY <1>a, <1>w, <1>c, <1>o, <2>1
    <2> QED BY <2>2, <2>3, <2>4 DEF GateInv
  <1>5. CASE Check
    <2>1. PICK l, x, at, p :
            /\ l = (IF gate.next = Over THEN Count ELSE gate.left)
            /\ x = (IF gate.next = Over THEN Period ELSE gate.next)
            /\ at = (IF l <= 0 THEN "sleep" ELSE "fetch")
            /\ p = (IF l <= 0 THEN gate.next ELSE 0)
      OBVIOUS
    <2>2. /\ gate' = [gate EXCEPT !.left = l, !.next = x, !.at = at, !.nap = p]
          /\ starts' = starts /\ gate.at = "check"
      BY <1>5, <2>1 DEF Check, Quota
    <2>3. /\ l \in 0..Count /\ x \in Over..Period /\ at \in {"sleep", "fetch"}
          /\ p \in 0..Period /\ (at = "fetch" => l > 0)
      BY <1>a, <1>w, <2>1 DEF Over
    <2>4. /\ gate' \in GateType /\ gate'.left = l /\ gate'.next = x /\ gate'.at = at
      BY <1>t, <2>2, <2>3 DEF GateType
    <2>5. CASE gate.next # Over
      BY <2>1, <2>2, <2>3, <2>4, <2>5, GateSame
    <2>6. CASE gate.next = Over
      <3>1. Whole = Period /\ Whole' = 0 /\ l = Count
        BY <1>a, <2>1, <2>4, <2>6 DEF Whole, Over
      <3>2. Cardinality(Started(Period)) <= Count
        <4>1. Cardinality(Started(Whole)) <= Count - gate.left
          BY <1>o, <2>2
        <4> QED BY <1>a, <1>w, <1>c, <3>1, <4>1
      <3>3. Started(Period)' = Started(Period)
        BY <2>2 DEF Started
      <3>4. Started(Whole)' = {}
        <4>1. 0..(Whole' - 1) = {}
          BY <3>1
        <4> QED BY <4>1 DEF Started
      <3>5. Cardinality(Started(Whole)') = 0
        BY <3>4, FS_EmptySet
      <3>6. GateTypeOK'
        BY <1>t, <2>2, <2>4 DEF GateTypeOK, GateType
      <3>7. /\ Cardinality(Started(Whole)') <= Count - gate'.left
            /\ Cardinality(Started(Period)') <= 2 * Count - gate'.left
        BY <1>a, <1>c, <2>4, <3>1, <3>2, <3>3, <3>5
      <3> QED BY <2>3, <2>4, <3>6, <3>7 DEF GateInv
    <2> QED BY <2>5, <2>6
  <1>6. CASE FetchServes
    <2>1. gate.left > 0 /\ gate.at = "fetch"
      BY <1>6 DEF FetchServes, GateInv
    <2>2. PICK l : l = gate.left - 1
      OBVIOUS
    <2>3. /\ gate' = [gate EXCEPT !.at = "check", !.left = l]
          /\ starts' = [starts EXCEPT ![0] = @ + 1]
      BY <1>6, <2>2 DEF FetchServes
    <2>4. l \in 0..Count
      BY <1>a, <1>w, <2>1, <2>2
    <2>5. /\ gate' \in GateType /\ gate'.left = l /\ gate'.next = gate.next
          /\ gate'.at = "check"
      BY <1>t, <2>3, <2>4 DEF GateType
    <2>6. starts[0] \in 0..(2 * Count) /\ 0 \in 0..(Period - 1)
      BY <1>a, <1>t
    <2>7. starts[0] < 2 * Count
      BY <1>a, <1>w, <1>c, <1>t, <1>o, <2>1, <2>6, StartedHas
    <2>8. GateTypeOK'
      <3>1. starts[0] + 1 \in 0..(2 * Count)
        BY <1>a, <2>6, <2>7
      <3>2. starts' \in [0..(Period - 1) -> 0..(2 * Count)]
        BY <1>t, <2>3, <3>1
      <3> QED BY <2>5, <3>2 DEF GateTypeOK, GateType
    <2>9. /\ Cardinality(Started(Period)') \in Nat
          /\ Cardinality(Started(Period)') <= Cardinality(Started(Period)) + 1
      BY <1>a, <1>t, <2>3, <2>7, StartedGrows
    <2>10. Whole' = Whole
      BY <2>5 DEF Whole
    <2>11. /\ Cardinality(Started(Whole)') \in Nat
           /\ Cardinality(Started(Whole)') <= Cardinality(Started(Whole)) + 1
      <3>1. PICK q \in 0..Period : q = Whole
        BY <1>w
      <3>2. /\ Cardinality(Started(q)') \in Nat
            /\ Cardinality(Started(q)') <= Cardinality(Started(q)) + 1
        BY <1>t, <2>3, <2>7, StartedGrows
      <3>3. Started(Whole)' = Started(q)'
        BY <2>10, <3>1 DEF Started
      <3> QED BY <3>1, <3>2, <3>3
    <2>12. /\ Cardinality(Started(Whole)') <= Count - gate'.left
           /\ Cardinality(Started(Period)') <= 2 * Count - gate'.left
      BY <1>a, <1>w, <1>c, <1>o, <2>1, <2>2, <2>4, <2>5, <2>9, <2>11
    <2> QED BY <2>5, <2>8, <2>12 DEF GateInv
  <1>7. CASE FetchErr
    <2>1. gate' = [gate EXCEPT !.at = "sleep", !.nap = 1] /\ starts' = starts
          /\ gate.at # "off"
      BY <1>7 DEF FetchErr
    <2>2. 1 \in 0..Period
      BY <1>a
    <2>3. gate' \in GateType /\ gate'.left = gate.left /\ gate'.next = gate.next
          /\ gate'.at = "sleep"
      BY <1>t, <2>1, <2>2 DEF GateType
    <2> QED BY <2>1, <2>3, GateSame
  <1>8. CASE GateWakes
    <2>1. gate' = [gate EXCEPT !.at = "check"] /\ starts' = starts
          /\ gate.at # "off"
      BY <1>8 DEF GateWakes
    <2>2. gate' \in GateType /\ gate'.left = gate.left /\ gate'.next = gate.next
          /\ gate'.at = "check"
      BY <1>t, <2>1 DEF GateType
    <2> QED BY <2>1, <2>2, GateSame
  <1> QED BY <1>1, <1>2, <1>3, <1>4, <1>5, <1>6, <1>7, <1>8 DEF GateNext

(* What is left of the quota bounds what can still start in a period.      *)
LEMMA GateImplies == GateInv => GateTypeOK /\ StartsBounded
  <1> SUFFICES ASSUME GateInv PROVE GateTypeOK /\ StartsBounded
    OBVIOUS
  <1>1. Period \in Nat \ {0} /\ Count \in Nat \ {0} /\ gate.left \in 0..Count
    BY GateAssumption DEF GateAssumption, GateInv, GateTypeOK
  <1>2. Cardinality(Started(Period)) \in Nat
    BY <1>1, StartedFinite
  <1>3. CASE gate.at = "off"
    BY <1>3 DEF GateInv, StartsBounded
  <1>4. CASE gate.at # "off"
    <2>1. Cardinality(Started(Period)) <= 2 * Count - gate.left
      BY <1>4 DEF GateInv
    <2> QED BY <1>1, <1>2, <2>1 DEF GateInv, StartsBounded
  <1> QED BY <1>3, <1>4

-----------------------------------------------------------------------------
(* The schedule.                                                           *)

NodeType ==
  [at : {"off", "load", "sleep", "claim", "publish", "rollback"},
   until : Past..(Interval + Skew), since : 0..(Interval + 1), guess : BOOLEAN,
   nap : 0..(Interval + Jitter + 2 * Skew)]

(* The now of a node lies an interval before its nextRun, but for the      *)
(* error of its clock.                                                     *)
Timed ==
  {r \in NodeType : r.since <= Interval => r.until >= Interval - Skew - r.since}

(* Nodes that are timed have their type.                                   *)
LEMMA TimedTyped == ASSUME NEW f \in [Nodes -> Timed] PROVE f \in [Nodes -> NodeType]
  BY DEF Timed

SchedInv ==
  /\ SchedTypeOK
  /\ age <= Interval => due >= Interval - Skew - age
  /\ \A n \in seen :
       /\ node[n].at = "claim" => age > Interval - 2 * Skew
       /\ node[n].at \in {"publish", "rollback"} => claimer = n
  /\ node \in [Nodes -> Timed]

(* The invariant of a schedule holds before the first run ...              *)
LEMMA SchedStart == SchedInit => SchedInv
  <1>1. Off \in Timed
    BY SchedulerAssumption DEF Off, Resting, Timed, NodeType, Past, SchedulerAssumption
  <1> SUFFICES ASSUME SchedInit PROVE SchedInv
    OBVIOUS
  <1>2. /\ due = None /\ seen = {} /\ gap = FALSE /\ node = [n \in Nodes |-> Off]
        /\ age = Interval + 1 /\ claimer = "none" /\ errors = 0
    BY DEF SchedInit
  <1>3. due \in None..(Interval + Skew) /\ age \in 0..(Interval + 1) /\ errors \in 0..MaxErrors
        /\ ~(age <= Interval)
    BY <1>2, SchedulerAssumption DEF SchedulerAssumption, None, Past
  <1>4. node \in [Nodes -> Timed]
    BY <1>1, <1>2
  <1> QED BY TimedTyped, <1>2, <1>3, <1>4 DEF SchedInv, SchedTypeOK, NodeType

(* A node that sleeps keeps its type and is at no place that matters.      *)
LEMMA SleepsDoes ==
  ASSUME node \in [Nodes -> Timed], NEW n \in Nodes, NEW u \in Past..(Interval + Skew), Sleeps(n, u)
  PROVE  /\ node' \in [Nodes -> Timed]
         /\ node'[n].at = "sleep"
         /\ \A m \in Nodes \ {n} : node'[m] = node[m]
  <1>1. Interval \in Nat /\ Jitter \in 0..Interval /\ Skew \in Nat
    BY SchedulerAssumption DEF SchedulerAssumption
  <1>2. PICK j \in -(Jitter + Skew)..(Jitter + Skew) :
          node' = [node EXCEPT ![n] =
                    Resting("sleep", IF u + j > 0 THEN u + j ELSE 0)]
    BY DEF Sleeps
  <1>3. PICK p : p = IF u + j > 0 THEN u + j ELSE 0
    OBVIOUS
  <1>4. p \in 0..(Interval + Jitter + 2 * Skew)
    BY <1>1, <1>3 DEF Past
  <1>5. node \in [Nodes -> Timed]
    OBVIOUS
  <1>7. Resting("sleep", p) \in Timed /\ Resting("sleep", p).at = "sleep"
    BY <1>1, <1>4 DEF Timed, NodeType, Resting, Past
  <1>8. node' = [node EXCEPT ![n] = Resting("sleep", p)]
    BY <1>2, <1>3
  <1> QED BY <1>5, <1>7, <1>8

(* A node takes a step without a change of its other state.                *)
LEMMA StepDoes ==
  ASSUME node \in [Nodes -> Timed], NEW n \in Nodes, Step(n, "load") \/ Step(n, "rollback")
  PROVE  /\ node' \in [Nodes -> Timed]
         /\ node'[n].at \in {"load", "rollback"}
         /\ Step(n, "load") => node'[n].at = "load"
         /\ \A m \in Nodes \ {n} : node'[m] = node[m]
  <1>1. node \in [Nodes -> Timed] /\ node[n] \in Timed
    OBVIOUS
  <1>2. PICK at \in {"load", "rollback"} : Step(n, at) /\ (Step(n, "load") => at = "load")
    OBVIOUS
  <1>3. PICK r : r = [node[n] EXCEPT !.at = at]
    OBVIOUS
  <1>4. r \in Timed /\ r.at = at
    BY <1>1, <1>3 DEF Timed, NodeType
  <1>5. node' = [node EXCEPT ![n] = r]
    BY <1>2, <1>3 DEF Step
  <1> QED BY <1>1, <1>2, <1>4, <1>5

(* ... and every step of a node, and time, keeps it.                       *)
LEMMA SchedStep == SchedInv /\ [SchedNext]_schedVars => SchedInv'
  <1> SUFFICES ASSUME SchedInv, SchedNext PROVE SchedInv'
    BY DEF SchedInv, SchedTypeOK, schedVars
  <1>a. Interval \in Nat \ {0} /\ Jitter \in 0..Interval /\ Skew \in Nat
        /\ MaxErrors \in Nat
    BY SchedulerAssumption DEF SchedulerAssumption
  <1>t. /\ SchedTypeOK /\ node \in [Nodes -> Timed]
        /\ due \in None..(Interval + Skew) /\ seen \subseteq Nodes /\ gap \in BOOLEAN
        /\ age \in 0..(Interval + 1) /\ claimer \in Nodes \cup {"none"}
        /\ errors \in 0..MaxErrors
    BY DEF SchedInv, SchedTypeOK, NodeType
  <1>d. age <= Interval => due >= Interval - Skew - age
    BY DEF SchedInv
  <1>s. \A n \in seen :
          /\ node[n].at = "claim" => age > Interval - 2 * Skew
          /\ node[n].at \in {"publish", "rollback"} => claimer = n
    BY DEF SchedInv
  <1> USE <1>a, <1>t
  <1>1. CASE SchedClock
    <2>1. ASSUME NEW n \in Nodes
          PROVE  node'[n] \in Timed /\ node'[n].at = node[n].at
      <3>1. PICK u, o, p : u = Sooner(node[n].until) /\ o = Older(node[n].since)
                        /\ p = IF node[n].nap > 0 THEN node[n].nap - 1 ELSE 0
        OBVIOUS
      <3>2. node[n] \in Timed
        BY <1>t
      <3>3. u \in Past..(Interval + Skew) /\ p \in 0..(Interval + Jitter + 2 * Skew)
            /\ o \in 0..(Interval + 1) /\ (o <= Interval => u >= Interval - Skew - o)
        BY <3>1, <3>2 DEF Timed, NodeType, Sooner, Older, Floor, Past
      <3>4. node'[n] = [node[n] EXCEPT !.until = u, !.since = o, !.nap = p]
        BY <1>1, <3>1 DEF SchedClock
      <3> QED BY <3>2, <3>3, <3>4 DEF Timed, NodeType
    <2>2. node' \in [Nodes -> Timed]
      <3>1. node' = [n \in Nodes |-> node'[n]]
        BY <1>1 DEF SchedClock
      <3> QED BY <3>1, <2>1
    <2>3. due' \in None..(Interval + Skew)
          /\ (Past < due => due' = due - 1)
      <3>1. due' = IF due = None THEN None ELSE Sooner(due)
        BY <1>1 DEF SchedClock
      <3> QED BY <3>1 DEF Sooner, Floor, None, Past
    <2>4. age' \in 0..(Interval + 1) /\ age' >= age
          /\ (age' <= Interval => due' >= Interval - Skew - age')
      <3>1. age' = Older(age)
        BY <1>1 DEF SchedClock
      <3> QED BY <3>1, <1>d, <2>3 DEF Past, Older
    <2>5. \A n \in seen' : node'[n].at = "claim" => age' > Interval - 2 * Skew
      <3>1. seen' = seen
        BY <1>1 DEF SchedClock
      <3> QED BY <3>1, <1>s, <2>1, <2>4
    <2>6. \A n \in seen' : node'[n].at \in {"publish", "rollback"} => claimer' = n
      BY <1>1, <1>s, <2>1 DEF SchedClock
    <2>7. UNCHANGED <<seen, gap, claimer, errors>>
      BY <1>1 DEF SchedClock
    <2> QED
      BY TimedTyped, <2>2, <2>3, <2>4, <2>5, <2>6, <2>7 DEF SchedInv, SchedTypeOK, NodeType
  <1>2. CASE OtherKey
    BY TimedTyped, <1>2, <1>d, <1>s DEF OtherKey, SchedInv, SchedTypeOK, NodeType
  <1>3. ASSUME NEW n \in Nodes, StartRun(n) \/ Wake(n) PROVE SchedInv'
    <2>1. node' \in [Nodes -> Timed] /\ node'[n].at = "load"
          /\ \A m \in Nodes \ {n} : node'[m] = node[m]
      BY <1>3, StepDoes DEF StartRun, Wake
    <2>2. UNCHANGED <<due, seen, gap, age, claimer, errors>>
      BY <1>3 DEF StartRun, Wake
    <2> QED BY TimedTyped, <1>d, <1>s, <2>1, <2>2 DEF SchedInv, SchedTypeOK, NodeType
  <1>4. ASSUME NEW n \in Nodes, StopRun(n) PROVE SchedInv'
    <2>1. Off \in Timed
      BY DEF Off, Resting, Timed, NodeType, Past
    <2>2. node' \in [Nodes -> Timed] /\ \A m \in Nodes \ {n} : node'[m] = node[m]
      BY <1>4, <2>1 DEF StopRun
    <2> QED BY TimedTyped, <1>4, <1>d, <1>s, <2>2 DEF StopRun, SchedInv, SchedTypeOK, NodeType
  <1>5. ASSUME NEW n \in Nodes, Load(n) PROVE SchedInv'
    <2>1. /\ due' \in Past..(Interval + Skew) /\ (due # None => due' = due)
          /\ (due = None => age = Interval + 1)
      BY <1>5, <1>d DEF Load, None, Past, Errors
    <2>e. PICK e \in Errors :
            IF due' < e
            THEN node' = [node EXCEPT ![n] =
                           [@ EXCEPT !.at = "claim", !.until = Interval + e, !.since = 0]]
            ELSE Sleeps(n, due')
      BY <1>5 DEF Load
    <2>5. seen' \subseteq Nodes /\ gap' \in BOOLEAN
          /\ UNCHANGED <<age, claimer, errors>>
      BY <1>5 DEF Load
    <2>6. age' <= Interval => due' >= Interval - Skew - age'
      BY <1>d, <2>1, <2>5
    <2>2. /\ node' \in [Nodes -> Timed]
          /\ \/ node'[n].at = "sleep"
             \/ node'[n].at = "claim" /\ age > Interval - 2 * Skew
          /\ \A m \in Nodes \ {n} : node'[m] = node[m]
      <3>1. CASE due' < e
        <4>1. node[n] \in Timed
          BY <1>t
        <4>2. PICK r : r = [node[n] EXCEPT !.at = "claim", !.until = Interval + e,
                                           !.since = 0]
          OBVIOUS
        <4>5. Interval + e \in Past..(Interval + Skew) /\ Interval + e >= Interval - Skew
          BY DEF Past, Errors
        <4>7. r \in NodeType /\ r.at = "claim" /\ r.since = 0 /\ r.until = Interval + e
          <5>1. PICK x : x = Interval + e /\ x \in Past..(Interval + Skew)
            BY <4>5
          <5>2. r = [node[n] EXCEPT !.at = "claim", !.until = x, !.since = 0]
            BY <4>2, <5>1
          <5>3. node[n] \in NodeType /\ 0 \in 0..(Interval + 1)
            BY <4>1 DEF Timed
          <5> QED BY <5>1, <5>2, <5>3 DEF NodeType
        <4>3. r \in Timed /\ r.at = "claim"
          BY <4>5, <4>7 DEF Timed
        <4>4. node' = [node EXCEPT ![n] = r]
          BY <2>e, <3>1, <4>2
        <4>6. age > Interval - 2 * Skew
          BY <2>1, <2>5, <2>6, <3>1 DEF Errors, Past
        <4> QED BY <4>3, <4>4, <4>6
      <3>2. CASE ~(due' < e)
        <4>1. Sleeps(n, due')
          BY <2>e, <3>2
        <4> QED BY <4>1, <2>1, SleepsDoes
      <3> QED BY <3>1, <3>2
    <2>3. \A m \in seen' \ {n} :
            /\ node'[m].at = "claim" => age' > Interval - 2 * Skew
            /\ node'[m].at \in {"publish", "rollback"} => claimer' = m
      <3>1. seen' = seen \cup {n}
        BY <1>5 DEF Load
      <3> QED BY <3>1, <1>s, <2>2, <2>5
    <2>4. n \in seen' => /\ node'[n].at = "claim" => age' > Interval - 2 * Skew
                         /\ node'[n].at \in {"publish", "rollback"} => claimer' = n
      BY <2>2, <2>5
    <2>7. due' \in None..(Interval + Skew)
      BY <2>1 DEF None, Past
    <2> QED BY TimedTyped, <2>7, <2>2, <2>3, <2>4, <2>5, <2>6 DEF SchedInv, SchedTypeOK, NodeType
  <1>6. ASSUME NEW n \in Nodes, LoadFails(n) PROVE SchedInv'
    <2>1. PICK e \in Errors : Sleeps(n, Interval + e)
      BY <1>6 DEF LoadFails
    <2>4. Interval + e \in Past..(Interval + Skew)
      BY DEF Past, Errors
    <2>2. node' \in [Nodes -> Timed] /\ node'[n].at = "sleep"
          /\ \A m \in Nodes \ {n} : node'[m] = node[m]
      BY <2>1, <2>4, SleepsDoes
    <2>3. errors' \in 0..MaxErrors /\ UNCHANGED <<due, seen, gap, age, claimer>>
      BY <1>6 DEF LoadFails
    <2> QED BY TimedTyped, <1>d, <1>s, <2>2, <2>3 DEF SchedInv, SchedTypeOK, NodeType
  <1>7. ASSUME NEW n \in Nodes, Claim(n) PROVE SchedInv'
    <2>0. node[n] \in Timed /\ node[n].until \in Past..(Interval + Skew)
      BY DEF Timed, NodeType
    <2>1. CASE n \in seen
      <3>1. PICK g \in BOOLEAN : g = ~gap
        OBVIOUS
      <3>2. PICK r : r = [node[n] EXCEPT !.at = "publish", !.guess = g]
        OBVIOUS
      <3>3. r \in Timed
        BY <2>0, <3>1, <3>2 DEF Timed, NodeType
      <3>4. node' = [node EXCEPT ![n] = r]
        BY <1>7, <2>1, <3>1, <3>2 DEF Claim
      <3>5. node' \in [Nodes -> Timed]
        BY <3>3, <3>4
      <3>6. /\ due' = node[n].until
            /\ seen' = {n} /\ gap' = FALSE /\ age' = node[n].since
            /\ claimer' = n /\ errors' = errors
        BY <1>7, <2>0, <2>1 DEF Claim, Write, Floor, Past
      <3>7. /\ due' \in None..(Interval + Skew) /\ age' \in 0..(Interval + 1)
            /\ (age' <= Interval => due' >= Interval - Skew - age')
        BY <2>0, <3>6 DEF Timed, NodeType, Past, None
      <3>8. node'[n].at = "publish"
        BY <2>0, <3>2, <3>4 DEF Timed, NodeType
      <3> QED BY TimedTyped, <3>5, <3>6, <3>7, <3>8 DEF SchedInv, SchedTypeOK, NodeType
    <2>2. CASE n \notin seen
      <3>1. node' \in [Nodes -> Timed] /\ node'[n].at = "sleep"
            /\ \A m \in Nodes \ {n} : node'[m] = node[m]
        BY <1>7, <2>0, <2>2, SleepsDoes DEF Claim
      <3>2. UNCHANGED <<due, seen, gap, age, claimer, errors>>
        BY <1>7, <2>2 DEF Claim
      <3> QED BY TimedTyped, <1>d, <1>s, <3>1, <3>2 DEF SchedInv, SchedTypeOK, NodeType
    <2> QED BY <2>1, <2>2
  <1>8. ASSUME NEW n \in Nodes, PublishRun(n) PROVE SchedInv'
    <2>0. node[n] \in Timed /\ node[n].until \in Past..(Interval + Skew)
      BY DEF Timed, NodeType
    <2>1. node' \in [Nodes -> Timed] /\ node'[n].at = "sleep"
          /\ \A m \in Nodes \ {n} : node'[m] = node[m]
      BY <1>8, <2>0, SleepsDoes DEF PublishRun
    <2> QED BY TimedTyped, <1>8, <1>d, <1>s, <2>1 DEF PublishRun, SchedInv, SchedTypeOK, NodeType
  <1>9. ASSUME NEW n \in Nodes, PublishFails(n) PROVE SchedInv'
    <2>1. node' \in [Nodes -> Timed] /\ node'[n].at \in {"load", "rollback"}
          /\ \A m \in Nodes \ {n} : node'[m] = node[m]
      BY <1>9, StepDoes DEF PublishFails
    <2>2. errors' \in 0..MaxErrors /\ UNCHANGED <<due, seen, gap, age, claimer>>
          /\ node[n].at = "publish"
      BY <1>9 DEF PublishFails
    <2> QED BY TimedTyped, <1>d, <1>s, <2>1, <2>2 DEF SchedInv, SchedTypeOK, NodeType
  <1>10. ASSUME NEW n \in Nodes, Rollback(n) PROVE SchedInv'
    <2>0. node[n] \in Timed /\ node[n].until \in Past..(Interval + Skew)
      BY DEF Timed, NodeType
    <2>1. node' \in [Nodes -> Timed] /\ node'[n].at = "sleep"
          /\ \A m \in Nodes \ {n} : node'[m] = node[m]
      BY <1>10, <2>0, SleepsDoes DEF Rollback
    <2>2. UNCHANGED <<claimer, errors>>
      BY <1>10 DEF Rollback
    <2>3. CASE n \in seen /\ node[n].guess
      <3>1. claimer = n
        BY <1>10, <1>s, <2>3 DEF Rollback
      <3>2. /\ due' \in Past..Skew /\ seen' = {n} /\ gap' = FALSE
            /\ age' = Interval + 1
        BY <1>10, <2>0, <2>3, <3>1 DEF Rollback, Write, Floor, Past
      <3>3. due' \in None..(Interval + Skew) /\ age' \in 0..(Interval + 1)
            /\ ~(age' <= Interval)
        BY <3>2 DEF Past, None
      <3> QED BY TimedTyped, <2>1, <2>2, <3>2, <3>3 DEF SchedInv, SchedTypeOK, NodeType
    <2>4. CASE ~(n \in seen /\ node[n].guess)
      <3>1. UNCHANGED <<due, seen, gap, age>>
        BY <1>10, <2>4 DEF Rollback
      <3> QED BY TimedTyped, <1>d, <1>s, <2>1, <2>2, <3>1 DEF SchedInv, SchedTypeOK, NodeType
    <2> QED BY <2>3, <2>4
  <1> QED
    BY <1>1, <1>2, <1>3, <1>4, <1>5, <1>6, <1>7, <1>8, <1>9, <1>10
       DEF SchedNext, Run

(* A claim is made on an entry whose time has come, and the entry says so  *)
(* only when the last claim that stands is older than the interval, but    *)
(* for the difference of two clocks.                                       *)
LEMMA SchedClaims ==
  ASSUME SchedInv, [SchedNext]_schedVars, NEW n \in Nodes,
         node[n].at = "claim", node'[n].at = "publish"
  PROVE  age > Interval - 2 * Skew
  <1>a. Interval \in Nat \ {0} /\ Jitter \in 0..Interval /\ Skew \in Nat
    BY SchedulerAssumption DEF SchedulerAssumption
  <1>t. /\ SchedTypeOK /\ node \in [Nodes -> Timed] /\ due \in None..(Interval + Skew)
        /\ age \in 0..(Interval + 1)
    BY DEF SchedInv, SchedTypeOK, NodeType
  <1>1. CASE n \in seen
    BY <1>1 DEF SchedInv
  <1>2. CASE n \notin seen
    <2>1. SchedNext
      BY DEF schedVars
    <2>2. ~SchedClock
      <3> SUFFICES ASSUME SchedClock PROVE FALSE
        OBVIOUS
      <3>1. PICK u, o, p : node'[n] = [node[n] EXCEPT !.until = u, !.since = o, !.nap = p]
        BY DEF SchedClock
      <3>2. node[n] \in Timed
        BY <1>t
      <3> QED BY <3>1, <3>2 DEF Timed, NodeType
    <2>3. ~OtherKey
      BY DEF OtherKey
    <2>4. ASSUME NEW m \in Nodes, NEW u \in Past..(Interval + Skew), Sleeps(m, u) PROVE FALSE
      BY <1>t, <2>4, SleepsDoes
    <2>5. ASSUME NEW m \in Nodes, m # n \/ node'[m].at # "publish",
                 \A k \in Nodes \ {m} : node'[k] = node[k]
          PROVE  FALSE
      BY <2>5
    <2>6. ASSUME NEW m \in Nodes, StartRun(m) \/ Wake(m) \/ PublishFails(m) PROVE FALSE
      <3>1. node'[m].at \in {"load", "rollback"}
            /\ \A k \in Nodes \ {m} : node'[k] = node[k]
        BY <1>t, <2>6, StepDoes DEF StartRun, Wake, PublishFails
      <3> QED BY <2>5, <3>1
    <2>7. ASSUME NEW m \in Nodes, StopRun(m) PROVE FALSE
      <3>1. node' = [node EXCEPT ![m] = Off]
        BY <2>7 DEF StopRun
      <3> QED BY <1>t, <3>1 DEF Off, Resting
    <2>8. ASSUME NEW m \in Nodes PROVE node[m].until \in Past..(Interval + Skew)
      BY <1>t DEF Timed, NodeType
    <2>9. ASSUME NEW m \in Nodes, Load(m) PROVE FALSE
      <3>e. PICK e \in Errors :
              IF due' < e
              THEN node' = [node EXCEPT ![m] =
                             [@ EXCEPT !.at = "claim", !.until = Interval + e, !.since = 0]]
              ELSE Sleeps(m, due')
        BY <2>9 DEF Load
      <3>1. CASE due' < e
        <4>1. PICK r : r = [node[m] EXCEPT !.at = "claim", !.until = Interval + e,
                                           !.since = 0]
          OBVIOUS
        <4>2. node[m] \in Timed
          BY <1>t
        <4>3. r.at = "claim"
          BY <4>1, <4>2 DEF Timed, NodeType
        <4>4. node' = [node EXCEPT ![m] = r]
          BY <3>e, <3>1, <4>1
        <4> QED BY <1>t, <4>3, <4>4
      <3>2. CASE ~(due' < e)
        <4>2. due' \in Past..(Interval + Skew)
          BY <1>a, <1>t, <2>9 DEF Load, Errors, None, Past
        <4> QED BY <2>4, <3>e, <3>2, <4>2
      <3> QED BY <3>1, <3>2
    <2>10. ASSUME NEW m \in Nodes, LoadFails(m) PROVE FALSE
      <3>1. PICK e \in Errors : Sleeps(m, Interval + e)
        BY <2>10 DEF LoadFails
      <3>2. Interval + e \in Past..(Interval + Skew)
        BY <1>a DEF Past, Errors
      <3> QED BY <2>4, <3>1, <3>2
    <2>11. ASSUME NEW m \in Nodes, PublishRun(m) \/ Rollback(m) PROVE FALSE
      BY <2>4, <2>8, <2>11 DEF PublishRun, Rollback
    <2>12. ASSUME NEW m \in Nodes, Claim(m) PROVE FALSE
      <3>1. CASE m \in seen
        BY <1>t, <1>2, <2>12, <3>1 DEF Claim
      <3>2. CASE m \notin seen
        BY <2>4, <2>8, <2>12, <3>2 DEF Claim
      <3> QED BY <3>1, <3>2
    <2> QED
      BY <2>1, <2>2, <2>3, <2>6, <2>7, <2>9, <2>10, <2>11, <2>12 DEF SchedNext, Run
  <1> QED BY <1>1, <1>2

-----------------------------------------------------------------------------
(* The limiter.                                                            *)

WindowOf(goal, t) == IF goal = "block" THEN 2 ELSE t % 2

(* An increment is for a window of its period, within the limit.           *)
IncRight(q) ==
  q.at \in {"read", "load", "cas"} =>
    /\ q.tick \in 1..tick /\ q.win = WindowOf(q.goal, q.tick)
    /\ q.at = "read" => q.goal # "block"
    /\ q.goal = "admit" => q.lim <= Limit
    /\ q.goal = "block" => q.lim <= BlockAfter
    /\ q.at = "cas" => (IF q.old.tick < q.tick THEN 0 ELSE q.old.count) < q.lim

(* The windows of the rate take turns.                                     *)
WindowsRight ==
  \A w \in 0..2 :
    /\ window[w].tick <= tick
    /\ w # 2 => window[w].tick = 0 \/ window[w].tick % 2 = w

(* A window counts what was let in for its period, unless it was set back. *)
Tallied(w, t, n, cap) ==
  <<w, t>> \in late \/ /\ n <= cap
                       /\ window[w].tick = t => n <= window[w].count
                       /\ window[w].tick < t => n = 0

TalliesRight ==
  \A t \in Ticks : Tallied(t % 2, t, admitted[t], Limit)
                   /\ Tallied(2, t, excused[t], BlockAfter)

(* Who joined the queue and has not returned.                              *)
Joined == {r \in Requests : req[r].pos > 0 /\ req[r].at # "out"}

(* A request has a place in the queue only after it joined it.             *)
PlaceRight(q) ==
  /\ q.at \in {"off", "look", "join", "in"} => q.pos = 0
  /\ q.at \in {"read", "load", "cas"} /\ q.goal = "admit" => q.pos = 0
  /\ q.at = "wait" => q.pos > 0

LimInv ==
  /\ LimTypeOK /\ WaitersBounded /\ QueueExact /\ WindowsRight /\ TalliesRight
  /\ \A r \in Requests : IncRight(req[r]) /\ PlaceRight(req[r])

Request ==
  [at : {"off", "look", "read", "load", "cas", "join", "wait", "refuse",
         "leave", "in", "out"},
   tick : 0..MaxTick, win : 0..2, lim : Nat, old : Window,
   goal : {"admit", "force", "block"}, pos : Nat]

Waiters == {r \in Requests : req[r].at = "wait"}

(* The word of a tick in the sliding window is one of two, and not that of *)
(* the block window.                                                       *)
LEMMA Parity == \A t \in Nat : t % 2 \in {0, 1} /\ t % 2 \in 0..2 /\ t % 2 # 2
OBVIOUS

(* The invariant of the limiter holds before the first request ...         *)
LEMMA LimStart == LimInit => LimInv
  <1> SUFFICES ASSUME LimInit PROVE LimInv
    OBVIOUS
  <1>a. /\ Limit \in Nat \ {0} /\ Burst \in Nat /\ BlockAfter \in Nat
        /\ MaxTick \in Nat \ {0} /\ IsFiniteSet(Requests)
    BY LimiterAssumption DEF LimiterAssumption
  <1>0. Cardinality(Requests) \in Nat
    BY <1>a, FS_CardinalityType
  <1>1. /\ tick = 1 /\ window = [w \in 0..2 |-> [count |-> 0, tick |-> 0]]
        /\ waiting = 0 /\ req = [r \in Requests |-> NoReq]
        /\ admitted = [t \in Ticks |-> 0] /\ excused = [t \in Ticks |-> 0] /\ late = {}
    BY DEF LimInit
  <1>2. [count |-> 0, tick |-> 0] \in Window
    BY <1>a DEF Window
  <1>3. NoReq \in Request /\ NoReq.at = "off" /\ NoReq.pos = 0
    BY <1>a, <1>2 DEF NoReq, Request
  <1>4. window \in [0..2 -> Window] /\ req \in [Requests -> Request]
    BY <1>1, <1>2, <1>3
  <1>5. LimTypeOK
    BY <1>a, <1>0, <1>1, <1>4 DEF LimTypeOK, Request, Ticks
  <1>6. {r \in Requests : req[r].at = "wait"} = {}
        /\ {r \in Requests : req[r].pos > 0 /\ req[r].at # "out"} = {}
    BY <1>1, <1>3
  <1>7. WaitersBounded /\ QueueExact
    BY <1>a, <1>1, <1>6, FS_EmptySet, SMTT(60) DEF WaitersBounded, QueueExact
  <1>8. WindowsRight
    BY <1>1 DEF WindowsRight
  <1>9. TalliesRight
    <2> SUFFICES ASSUME NEW t \in Ticks
                 PROVE  Tallied(t % 2, t, 0, Limit) /\ Tallied(2, t, 0, BlockAfter)
      BY <1>1 DEF TalliesRight
    <2>1. \A w \in 0..2 : window[w].count = 0
      BY <1>1
    <2>2. t % 2 \in 0..2 /\ 2 \in 0..2
      BY <1>a, Parity DEF Ticks
    <2> QED BY <1>a, <2>1, <2>2 DEF Tallied
  <1>10. \A r \in Requests : IncRight(req[r]) /\ PlaceRight(req[r])
    BY <1>1, <1>3 DEF IncRight, PlaceRight
  <1> QED BY <1>5, <1>7, <1>8, <1>9, <1>10 DEF LimInv

(* A request goes on, in its place in the queue or without one.            *)
LEMMA RequestGoes ==
  ASSUME LimInv, NEW r \in Requests, NEW q \in Request, req' = [req EXCEPT ![r] = q],
         UNCHANGED <<tick, waiting>>, IncRight(q), PlaceRight(q),
         q.pos = req[r].pos, q.at # "wait", q.at # "out", req[r].at # "out"
  PROVE  /\ req' \in [Requests -> Request]
         /\ WaitersBounded' /\ QueueExact'
         /\ \A s \in Requests : IncRight(req[s])' /\ PlaceRight(req[s])'
  <1>t. /\ req \in [Requests -> Request] /\ WaitersBounded /\ QueueExact
        /\ \A s \in Requests : IncRight(req[s]) /\ PlaceRight(req[s])
    BY DEF LimInv, LimTypeOK, Request
  <1>1. req' \in [Requests -> Request] /\ req'[r] = q
        /\ \A s \in Requests \ {r} : req'[s] = req[s]
    BY <1>t
  <1>2. Waiters' \subseteq Waiters
    BY <1>1 DEF Waiters
  <1>3. IsFiniteSet(Waiters)
    BY LimiterAssumption, FS_Subset DEF LimiterAssumption, Waiters
  <1>4. Cardinality(Waiters') <= Cardinality(Waiters) /\ IsFiniteSet(Waiters')
    BY <1>2, <1>3, FS_Subset
  <1>5. Cardinality(Waiters) \in Nat /\ Cardinality(Waiters') \in Nat
    BY <1>3, <1>4, FS_CardinalityType
  <1>6. PICK b : b = IF Burst = 0 THEN 0 ELSE Burst - 1
    OBVIOUS
  <1>7. b \in Nat
    BY <1>6, LimiterAssumption DEF LimiterAssumption
  <1>8. Cardinality(Waiters) <= b
    BY <1>t, <1>6 DEF WaitersBounded, Waiters
  <1>9. WaitersBounded'
    <2>1. Cardinality(Waiters') <= b
      BY <1>4, <1>5, <1>7, <1>8
    <2> QED BY <1>6, <2>1 DEF WaitersBounded, Waiters
  <1>10. Joined' = Joined
    BY <1>1 DEF Joined
  <1>11. QueueExact'
    BY <1>t, <1>10 DEF QueueExact, Joined
  <1>12. ASSUME NEW s \in Requests PROVE IncRight(req[s])' /\ PlaceRight(req[s])'
    <2>1. CASE s = r
      <3>1. req'[s] = q
        BY <1>1, <2>1
      <3> QED BY <3>1 DEF IncRight, PlaceRight
    <2>2. CASE s # r
      <3>1. req'[s] = req[s]
        BY <1>1, <2>2
      <3> QED BY <1>t, <3>1 DEF IncRight, PlaceRight
    <2> QED BY <2>1, <2>2
  <1> QED BY <1>1, <1>9, <1>11, <1>12

(* A step that leaves the windows and the tallies alone.                   *)
LEMMA WindowsStay ==
  ASSUME LimInv, UNCHANGED <<tick, window, admitted, excused, late>>,
         waiting' \in 0..Cardinality(Requests), req' \in [Requests -> Request]
  PROVE  LimTypeOK' /\ WindowsRight' /\ TalliesRight'
  <1>1. LimTypeOK /\ WindowsRight /\ TalliesRight
    BY DEF LimInv
  <1>2. LimTypeOK'
    BY <1>1 DEF LimTypeOK, Request
  <1>3. WindowsRight'
    BY <1>1 DEF WindowsRight
  <1>4. TalliesRight'
    BY <1>1 DEF TalliesRight, Tallied
  <1> QED BY <1>2, <1>3, <1>4

(* Inc starts with the period of the clock and the window of that period.  *)
LEMMA IncDoes ==
  ASSUME LimInv, NEW r \in Requests, NEW goal \in {"admit", "force", "block"},
         NEW lim \in Nat, Inc(r, goal, lim),
         goal = "admit" => lim <= Limit /\ req[r].pos = 0,
         goal = "block" => lim <= BlockAfter
  PROVE  \E q \in Request : /\ req' = [req EXCEPT ![r] = q]
                            /\ q.pos = req[r].pos /\ q.at \in {"read", "load"}
                            /\ IncRight(q) /\ PlaceRight(q)
  <1>1. PICK a, w : /\ a = (IF goal = "block" THEN "load" ELSE "read")
                    /\ w = (IF goal = "block" THEN 2 ELSE tick % 2)
    OBVIOUS
  <1>2. req[r] \in Request /\ tick \in 1..MaxTick /\ MaxTick \in Nat
    BY LimiterAssumption DEF LimInv, LimTypeOK, Request, Ticks, LimiterAssumption
  <1>3. a \in {"load", "read"} /\ w \in 0..2 /\ tick \in 0..MaxTick /\ tick \in 1..tick
    BY <1>1, <1>2
  <1>4. PICK q : q = [req[r] EXCEPT !.at = a, !.goal = goal, !.lim = lim,
                                    !.tick = tick, !.win = w]
    OBVIOUS
  <1>5. /\ q \in Request /\ q.at = a /\ q.goal = goal /\ q.lim = lim
        /\ q.tick = tick /\ q.win = w /\ q.pos = req[r].pos
    BY <1>2, <1>3, <1>4 DEF Request
  <1>6. req' = [req EXCEPT ![r] = q]
    BY <1>1, <1>4 DEF Inc
  <1>7. IncRight(q)
    BY <1>1, <1>3, <1>5 DEF IncRight, WindowOf
  <1>8. PlaceRight(q)
    BY <1>3, <1>5 DEF PlaceRight
  <1> QED BY <1>3, <1>5, <1>6, <1>7, <1>8

(* A request goes to another place of Enforce.                             *)
LEMMA AtGoes ==
  ASSUME LimInv, NEW r \in Requests, req[r].at # "out",
         NEW a \in {"look", "refuse", "join", "leave", "load", "in"},
         req' = [req EXCEPT ![r].at = a],
         a \in {"look", "join", "in"} => req[r].pos = 0,
         a = "load" => req[r].at = "cas",
         UNCHANGED <<tick, waiting>>
  PROVE  /\ req' \in [Requests -> Request]
         /\ WaitersBounded' /\ QueueExact'
         /\ \A s \in Requests : IncRight(req[s])' /\ PlaceRight(req[s])'
  <1>1. req[r] \in Request /\ IncRight(req[r]) /\ PlaceRight(req[r])
    BY DEF LimInv, LimTypeOK, Request
  <1>2. PICK q : q = [req[r] EXCEPT !.at = a]
    OBVIOUS
  <1>3. /\ q \in Request /\ q.at = a /\ q.tick = req[r].tick /\ q.win = req[r].win
        /\ q.lim = req[r].lim /\ q.old = req[r].old /\ q.goal = req[r].goal
        /\ q.pos = req[r].pos
    BY <1>1, <1>2 DEF Request
  <1>4. req' = [req EXCEPT ![r] = q]
    BY <1>2
  <1>5. IncRight(q)
    BY <1>1, <1>3 DEF IncRight
  <1>6. PlaceRight(q)
    BY <1>1, <1>3 DEF PlaceRight
  <1> QED BY <1>3, <1>4, <1>5, <1>6, RequestGoes

(* What a request found in the queue leaves the windows alone.             *)
LEMMA QuietGoes ==
  ASSUME LimInv, req' \in [Requests -> Request], WaitersBounded', QueueExact',
         \A s \in Requests : IncRight(req[s])' /\ PlaceRight(req[s])',
         UNCHANGED <<tick, window, admitted, excused, late>>,
         waiting' \in 0..Cardinality(Requests)
  PROVE  LimInv'
BY WindowsStay DEF LimInv

(* A request takes a place in the queue.                                   *)
LEMMA JoinGoes ==
  ASSUME LimInv, NEW r \in Requests, Join(r)
  PROVE  LimInv'
  <1>a. Burst \in Nat /\ IsFiniteSet(Requests)
    BY LimiterAssumption DEF LimiterAssumption
  <1>t. /\ req \in [Requests -> Request] /\ waiting \in Nat /\ WaitersBounded
        /\ waiting = Cardinality(Joined) /\ req[r] \in Request
        /\ \A s \in Requests : IncRight(req[s]) /\ PlaceRight(req[s])
    BY <1>a, FS_CardinalityType DEF LimInv, LimTypeOK, Request, QueueExact, Joined
  <1>0. req[r].at = "join" /\ req[r].pos = 0
    BY <1>t DEF Join, PlaceRight
  <1>1. PICK a, p : p = waiting + 1 /\ a = (IF p >= Burst THEN "refuse" ELSE "wait")
    OBVIOUS
  <1>2. a \in {"refuse", "wait"} /\ p \in Nat /\ p > 0 /\ (a = "wait" => p < Burst)
    BY <1>a, <1>t, <1>1
  <1>3. PICK q : q = [req[r] EXCEPT !.pos = p, !.at = a]
    OBVIOUS
  <1>4. q \in Request /\ q.pos = p /\ q.at = a
    BY <1>t, <1>2, <1>3 DEF Request
  <1>5. /\ req' = [req EXCEPT ![r] = q] /\ waiting' = p
        /\ UNCHANGED <<tick, window, admitted, excused, late>>
    BY <1>1, <1>3 DEF Join
  <1>6. req' \in [Requests -> Request] /\ req'[r] = q
        /\ \A s \in Requests \ {r} : req'[s] = req[s]
    BY <1>t, <1>4, <1>5
  <1>7. IsFiniteSet(Joined) /\ r \notin Joined
    BY <1>a, <1>t, <1>0, FS_Subset DEF Joined
  <1>8. Joined' = Joined \cup {r}
    BY <1>2, <1>4, <1>6 DEF Joined
  <1>9. Cardinality(Joined') = Cardinality(Joined) + 1 /\ IsFiniteSet(Joined')
    BY <1>7, <1>8, FS_AddElement
  <1>10. QueueExact'
    <2>1. waiting' = Cardinality(Joined')
      BY <1>t, <1>1, <1>5, <1>9
    <2> QED BY <2>1 DEF QueueExact, Joined
  <1>11. waiting' \in 0..Cardinality(Requests)
    <2>1. Joined' \subseteq Requests
      BY DEF Joined
    <2>2. Cardinality(Joined') <= Cardinality(Requests)
      BY <1>a, <2>1, FS_Subset
    <2> QED BY <1>a, <1>2, <1>5, <1>9, <1>t, <1>1, <2>2, FS_CardinalityType
  <1>12. WaitersBounded'
    <2>1. CASE a = "refuse"
      <3>1. Waiters' = Waiters
        BY <1>0, <1>4, <1>6, <2>1 DEF Waiters
      <3> QED BY <1>t, <3>1 DEF WaitersBounded, Waiters
    <2>2. CASE a = "wait"
      <3>1. Waiters' \subseteq Joined'
        <4>1. ASSUME NEW s \in Requests, req'[s].at = "wait" PROVE req'[s].pos > 0
          BY <1>2, <1>4, <1>6, <1>t, <4>1 DEF PlaceRight
        <4> QED BY <4>1 DEF Waiters, Joined
      <3>2. Cardinality(Waiters') <= Cardinality(Joined') /\ IsFiniteSet(Waiters')
        BY <1>9, <3>1, FS_Subset
      <3>3. Cardinality(Waiters') \in Nat
        BY <3>2, FS_CardinalityType
      <3>4. Burst # 0 /\ Cardinality(Waiters') <= Burst - 1
        BY <1>a, <1>t, <1>1, <1>2, <1>9, <2>2, <3>2, <3>3
      <3> QED BY <3>4 DEF WaitersBounded, Waiters
    <2> QED BY <1>2, <2>1, <2>2
  <1>13. ASSUME NEW s \in Requests PROVE IncRight(req[s])' /\ PlaceRight(req[s])'
    <2>1. CASE s = r
      <3>1. req'[s] = q
        BY <1>6, <2>1
      <3> QED BY <1>2, <1>4, <3>1 DEF IncRight, PlaceRight
    <2>2. CASE s # r
      <3>1. req'[s] = req[s]
        BY <1>6, <2>2
      <3> QED BY <1>t, <1>5, <3>1 DEF IncRight, PlaceRight
    <2> QED BY <2>1, <2>2
  <1> QED BY <1>5, <1>6, <1>10, <1>11, <1>12, <1>13, QuietGoes

(* A request gives its place back.                                         *)
LEMMA LeaveGoes ==
  ASSUME LimInv, NEW r \in Requests, Leave(r)
  PROVE  LimInv'
  <1>a. Burst \in Nat /\ IsFiniteSet(Requests) /\ Cardinality(Requests) \in Nat
    BY LimiterAssumption, FS_CardinalityType DEF LimiterAssumption
  <1>t. /\ req \in [Requests -> Request] /\ waiting \in 0..Cardinality(Requests)
        /\ WaitersBounded /\ waiting = Cardinality(Joined) /\ req[r] \in Request
        /\ \A s \in Requests : IncRight(req[s]) /\ PlaceRight(req[s])
    BY DEF LimInv, LimTypeOK, Request, QueueExact, Joined
  <1>0. /\ req[r].at = "leave" /\ req' = [req EXCEPT ![r].at = "out"]
        /\ waiting' = (IF req[r].pos > 0 THEN waiting - 1 ELSE waiting)
        /\ UNCHANGED <<tick, window, admitted, excused, late>>
    BY DEF Leave
  <1>1. PICK q : q = [req[r] EXCEPT !.at = "out"]
    OBVIOUS
  <1>2. q \in Request /\ q.at = "out" /\ q.pos = req[r].pos /\ q.pos \in Nat
    BY <1>t, <1>1 DEF Request
  <1>3. req' = [req EXCEPT ![r] = q]
    BY <1>0, <1>1
  <1>4. req' \in [Requests -> Request] /\ req'[r] = q
        /\ \A s \in Requests \ {r} : req'[s] = req[s]
    BY <1>t, <1>2, <1>3
  <1>5. IsFiniteSet(Joined)
    BY <1>a, FS_Subset DEF Joined
  <1>6. QueueExact' /\ waiting' \in 0..Cardinality(Requests)
    <2>1. CASE req[r].pos > 0
      <3>1. r \in Joined /\ Joined' = Joined \ {r}
        BY <1>0, <1>2, <1>4, <2>1 DEF Joined
      <3>2. Cardinality(Joined') = Cardinality(Joined) - 1 /\ IsFiniteSet(Joined')
        BY <1>5, <3>1, FS_RemoveElement
      <3>3. Cardinality(Joined') \in Nat
        BY <3>2, FS_CardinalityType
      <3>4. waiting' = Cardinality(Joined')
        BY <1>0, <1>t, <2>1, <3>2
      <3>5. waiting' \in 0..Cardinality(Requests)
        BY <1>a, <1>t, <3>2, <3>3, <3>4
      <3> QED BY <3>4, <3>5 DEF QueueExact, Joined
    <2>2. CASE ~(req[r].pos > 0)
      <3>1. Joined' = Joined
        BY <1>2, <1>4, <2>2 DEF Joined
      <3> QED BY <1>0, <1>t, <2>2, <3>1 DEF QueueExact, Joined
    <2> QED BY <2>1, <2>2
  <1>7. WaitersBounded'
    <2>1. Waiters' = Waiters
      BY <1>0, <1>2, <1>4 DEF Waiters
    <2> QED BY <1>t, <2>1 DEF WaitersBounded, Waiters
  <1>8. ASSUME NEW s \in Requests PROVE IncRight(req[s])' /\ PlaceRight(req[s])'
    <2>1. CASE s = r
      <3>1. req'[s] = q
        BY <1>4, <2>1
      <3> QED BY <1>2, <3>1 DEF IncRight, PlaceRight
    <2>2. CASE s # r
      <3>1. req'[s] = req[s]
        BY <1>4, <2>2
      <3> QED BY <1>t, <1>0, <3>1 DEF IncRight, PlaceRight
    <2> QED BY <2>1, <2>2
  <1> QED BY <1>0, <1>4, <1>6, <1>7, <1>8, QuietGoes

(* One window and the tally of one of its periods, before and after an     *)
(* increment: c and o are its count and its period, u the one that is      *)
(* incremented, and set says whether the window was set back.              *)
LEMMA TallyGoes ==
  ASSUME NEW c \in Nat, NEW o \in Nat, NEW u \in Nat, NEW t \in Nat,
         NEW n \in Nat, NEW m \in Nat, NEW cap \in Nat, NEW k \in Nat,
         k = IF o < u THEN 0 ELSE c,
         m = n \/ (m = n + 1 /\ t = u /\ k < cap),
         ~(o > u /\ u <= t /\ t <= o),
         n <= cap, o = t => n <= c, o < t => n = 0
  PROVE  m <= cap /\ (u = t => m <= k + 1) /\ (u < t => m = 0)
OBVIOUS

(* A compare-and-swap that succeeds.                                       *)
LEMMA SwapGoes ==
  ASSUME LimInv, NEW r \in Requests, req[r].at = "cas",
         window[req[r].win] = req[r].old, Succeeds(r)
  PROVE  LimInv'
  <1>a. /\ Limit \in Nat \ {0} /\ Burst \in Nat /\ BlockAfter \in Nat
        /\ MaxTick \in Nat \ {0} /\ IsFiniteSet(Requests)
    BY LimiterAssumption DEF LimiterAssumption
  <1>t. /\ req \in [Requests -> Request] /\ req[r] \in Request
        /\ window \in [0..2 -> Window] /\ tick \in Ticks
        /\ waiting \in 0..Cardinality(Requests)
        /\ admitted \in [Ticks -> Nat] /\ excused \in [Ticks -> Nat]
        /\ late \subseteq (0..2) \X Ticks
        /\ IncRight(req[r]) /\ PlaceRight(req[r])
    BY DEF LimInv, LimTypeOK, Request
  <1>b. PICK w, u, g, c, o, k :
          /\ w = req[r].win /\ u = req[r].tick /\ g = req[r].goal
          /\ c = window[w].count /\ o = window[w].tick
          /\ k = IF o < u THEN 0 ELSE c
    OBVIOUS
  <1>c. /\ w \in 0..2 /\ u \in 0..MaxTick /\ g \in {"admit", "force", "block"}
        /\ req[r].lim \in Nat /\ window[w] \in Window /\ u \in 1..tick
        /\ w = WindowOf(g, u)
    BY <1>t, <1>b DEF Request, IncRight
  <1>d. c \in Nat /\ o \in 0..MaxTick /\ k \in Nat
    BY <1>b, <1>c DEF Window
  <1>e. /\ u \in Ticks /\ tick \in 1..MaxTick /\ u \in Nat /\ o \in Nat /\ u <= tick
    BY <1>a, <1>c, <1>d, <1>t DEF Ticks
  <1>f. k < req[r].lim /\ OldCount(r) = k
    BY <1>t, <1>b DEF IncRight, OldCount
  <1>g. (g = "admit" => k < Limit) /\ (g = "block" => k < BlockAfter)
    <2>1. /\ g = "admit" => req[r].lim <= Limit
          /\ g = "block" => req[r].lim <= BlockAfter
      BY <1>t, <1>b DEF IncRight
    <2> QED BY <1>a, <1>c, <1>d, <1>f, <2>1
  <1>h. \A v \in 0..2 : /\ window[v].tick <= tick
                        /\ v # 2 => window[v].tick = 0 \/ window[v].tick % 2 = v
    BY DEF LimInv, WindowsRight
  <1>1. /\ window' = [window EXCEPT ![w] = [count |-> k + 1, tick |-> u]]
        /\ admitted' = (IF g = "admit" THEN [admitted EXCEPT ![u] = @ + 1] ELSE admitted)
        /\ excused' = (IF g = "block" THEN [excused EXCEPT ![u] = @ + 1] ELSE excused)
        /\ late' = (IF o > u THEN late \cup ({w} \X (u..o)) ELSE late)
        /\ UNCHANGED <<tick, waiting>>
    BY <1>b, <1>f DEF Succeeds, SetsBack, Overwritten
  <1>2. PICK a \in {"in", "leave"} :
          req' = [req EXCEPT ![r].at = a] /\ (a = "in" => g = "admit")
    BY <1>b DEF Succeeds
  <1>3. a = "in" => req[r].pos = 0
    BY <1>t, <1>b, <1>2 DEF PlaceRight
  <1>4. /\ req' \in [Requests -> Request] /\ WaitersBounded' /\ QueueExact'
        /\ \A s \in Requests : IncRight(req[s])' /\ PlaceRight(req[s])'
    BY <1>1, <1>2, <1>3, AtGoes
  <1>5. [count |-> k + 1, tick |-> u] \in Window
    BY <1>c, <1>d DEF Window
  <1>6. /\ window' \in [0..2 -> Window] /\ window'[w].count = k + 1
        /\ window'[w].tick = u /\ \A v \in (0..2) \ {w} : window'[v] = window[v]
    BY <1>t, <1>c, <1>1, <1>5
  <1>7. /\ admitted' \in [Ticks -> Nat] /\ excused' \in [Ticks -> Nat]
        /\ \A s \in Ticks : admitted'[s] = IF g = "admit" /\ s = u THEN admitted[s] + 1
                                           ELSE admitted[s]
        /\ \A s \in Ticks : excused'[s] = IF g = "block" /\ s = u THEN excused[s] + 1
                                          ELSE excused[s]
    <2>1. admitted[u] + 1 \in Nat /\ excused[u] + 1 \in Nat
      BY <1>e, <1>t
    <2> QED BY <1>t, <1>e, <1>1, <2>1
  <1>8. /\ late' \subseteq (0..2) \X Ticks /\ late \subseteq late'
        /\ \A s \in Nat : o > u /\ u <= s /\ s <= o => <<w, s>> \in late'
    <2>1. CASE o > u
      <3>1. late' = late \cup ({w} \X (u..o))
        BY <1>1, <2>1
      <3>2. u..o \subseteq Ticks
        BY <1>a, <1>d, <1>e DEF Ticks
      <3>3. \A s \in Nat : u <= s /\ s <= o => s \in u..o
        BY <1>e
      <3> QED BY <1>c, <1>t, <3>1, <3>2, <3>3
    <2>2. CASE ~(o > u)
      BY <1>t, <1>1, <2>2
    <2> QED BY <2>1, <2>2
  <1>9. LimTypeOK'
    BY <1>t, <1>1, <1>4, <1>6, <1>7, <1>8 DEF LimTypeOK, Request
  <1>10. WindowsRight'
    <2> SUFFICES ASSUME NEW v \in 0..2
                 PROVE  /\ window'[v].tick <= tick'
                        /\ v # 2 => window'[v].tick = 0 \/ window'[v].tick % 2 = v
      BY DEF WindowsRight
    <2>1. CASE v = w
      <3>1. w # 2 => u % 2 = w
        BY <1>c DEF WindowOf
      <3> QED BY <1>1, <1>e, <1>6, <2>1, <3>1
    <2>2. CASE v # w
      BY <1>1, <1>6, <1>h, <2>2
    <2> QED BY <2>1, <2>2
  <1>11. TalliesRight'
    <2> SUFFICES ASSUME NEW s \in Ticks
                 PROVE  /\ \/ <<s % 2, s>> \in late'
                           \/ /\ admitted'[s] <= Limit
                              /\ window'[s % 2].tick = s
                                   => admitted'[s] <= window'[s % 2].count
                              /\ window'[s % 2].tick < s => admitted'[s] = 0
                        /\ \/ <<2, s>> \in late'
                           \/ /\ excused'[s] <= BlockAfter
                              /\ window'[2].tick = s => excused'[s] <= window'[2].count
                              /\ window'[2].tick < s => excused'[s] = 0
      BY DEF TalliesRight, Tallied
    <2>0. /\ Tallied(s % 2, s, admitted[s], Limit)
          /\ Tallied(2, s, excused[s], BlockAfter)
      BY DEF LimInv, TalliesRight
    <2>p. s \in Nat /\ s % 2 \in 0..2 /\ s % 2 # 2 /\ 2 \in 0..2
      BY <1>a, Parity DEF Ticks
    <2>n. /\ admitted[s] \in Nat /\ excused[s] \in Nat
          /\ admitted'[s] \in Nat /\ excused'[s] \in Nat
      BY <1>t, <1>7
    <2>1. \/ <<s % 2, s>> \in late'
          \/ /\ admitted'[s] <= Limit
             /\ window'[s % 2].tick = s => admitted'[s] <= window'[s % 2].count
             /\ window'[s % 2].tick < s => admitted'[s] = 0
      <3>1. CASE <<s % 2, s>> \in late'
        BY <3>1
      <3>2. CASE <<s % 2, s>> \notin late' /\ s % 2 = w
        <4>1. /\ admitted[s] <= Limit /\ (o = s => admitted[s] <= c)
              /\ (o < s => admitted[s] = 0)
          BY <1>8, <1>b, <2>0, <3>2 DEF Tallied
        <4>2. ~(o > u /\ u <= s /\ s <= o)
          BY <1>8, <2>p, <3>2
        <4>3. \/ admitted'[s] = admitted[s]
              \/ admitted'[s] = admitted[s] + 1 /\ s = u /\ k < Limit
          BY <1>7, <1>g
        <4>4. /\ admitted'[s] <= Limit /\ (u = s => admitted'[s] <= k + 1)
              /\ (u < s => admitted'[s] = 0)
          BY <1>a, <1>b, <1>d, <1>e, <2>n, <2>p, <4>1, <4>2, <4>3, TallyGoes
        <4> QED BY <1>6, <3>2, <4>4
      <3>3. CASE <<s % 2, s>> \notin late' /\ s % 2 # w
        <4>1. window'[s % 2] = window[s % 2]
          BY <1>6, <2>p, <3>3
        <4>2. admitted'[s] = admitted[s]
          <5>1. g = "admit" => s # u
            BY <1>c, <3>3 DEF WindowOf
          <5> QED BY <1>7, <5>1
        <4> QED BY <1>8, <2>0, <3>3, <4>1, <4>2 DEF Tallied
      <3> QED BY <3>1, <3>2, <3>3
    <2>2. \/ <<2, s>> \in late'
          \/ /\ excused'[s] <= BlockAfter
             /\ window'[2].tick = s => excused'[s] <= window'[2].count
             /\ window'[2].tick < s => excused'[s] = 0
      <3>1. CASE <<2, s>> \in late'
        BY <3>1
      <3>2. CASE <<2, s>> \notin late' /\ w = 2
        <4>1. /\ excused[s] <= BlockAfter /\ (o = s => excused[s] <= c)
              /\ (o < s => excused[s] = 0)
          BY <1>8, <1>b, <2>0, <3>2 DEF Tallied
        <4>2. ~(o > u /\ u <= s /\ s <= o)
          BY <1>8, <2>p, <3>2
        <4>3. \/ excused'[s] = excused[s]
              \/ excused'[s] = excused[s] + 1 /\ s = u /\ k < BlockAfter
          BY <1>7, <1>g
        <4>4. /\ excused'[s] <= BlockAfter /\ (u = s => excused'[s] <= k + 1)
              /\ (u < s => excused'[s] = 0)
          BY <1>a, <1>b, <1>d, <1>e, <2>n, <2>p, <4>1, <4>2, <4>3, TallyGoes
        <4> QED BY <1>6, <3>2, <4>4
      <3>3. CASE <<2, s>> \notin late' /\ w # 2
        <4>1. window'[2] = window[2]
          BY <1>6, <2>p, <3>3
        <4>2. excused'[s] = excused[s]
          <5>1. g # "block"
            BY <1>c, <3>3 DEF WindowOf
          <5> QED BY <1>7, <5>1
        <4> QED BY <1>8, <2>0, <3>3, <4>1, <4>2 DEF Tallied
      <3> QED BY <3>1, <3>2, <3>3
    <2> QED BY <2>1, <2>2
  <1> QED BY <1>4, <1>9, <1>10, <1>11 DEF LimInv

(* ... and every load, compare-and-swap and tick keeps it.                 *)
LEMMA LimStep == LimInv /\ [LimNext]_limVars => LimInv'
  <1> SUFFICES ASSUME LimInv, [LimNext]_limVars PROVE LimInv'
    OBVIOUS
  <1>a. /\ Limit \in Nat \ {0} /\ Burst \in Nat /\ BlockAfter \in Nat
        /\ MaxTick \in Nat \ {0} /\ IsFiniteSet(Requests)
    BY LimiterAssumption DEF LimiterAssumption
  <1>t. /\ req \in [Requests -> Request] /\ window \in [0..2 -> Window]
        /\ tick \in Ticks /\ waiting \in 0..Cardinality(Requests)
        /\ \A s \in Requests : IncRight(req[s]) /\ PlaceRight(req[s])
    BY DEF LimInv, LimTypeOK, Request
  <1>w. waiting \in Nat
    BY <1>a, <1>t, FS_CardinalityType
  <1>0. CASE UNCHANGED limVars
    <2>1. UNCHANGED <<tick, window, waiting, req, admitted, excused, late>>
      BY <1>0 DEF limVars
    <2>2. WaitersBounded' /\ QueueExact'
      BY <2>1 DEF LimInv, WaitersBounded, QueueExact
    <2>3. \A s \in Requests : IncRight(req[s])' /\ PlaceRight(req[s])'
      BY <1>t, <2>1 DEF IncRight, PlaceRight
    <2> QED BY <1>t, <2>1, <2>2, <2>3, QuietGoes
  <1>1. CASE LimTick
    <2>1. /\ tick < MaxTick /\ tick' = tick + 1
          /\ UNCHANGED <<window, waiting, req, admitted, excused, late>>
      BY <1>1 DEF LimTick
    <2>2. tick \in Nat /\ tick' \in Ticks
      BY <1>a, <1>t, <2>1 DEF Ticks
    <2>3. LimTypeOK'
      BY <2>1, <2>2 DEF LimInv, LimTypeOK
    <2>4. WaitersBounded' /\ QueueExact'
      BY <2>1 DEF LimInv, WaitersBounded, QueueExact
    <2>5. WindowsRight'
      <3> SUFFICES ASSUME NEW v \in 0..2
                   PROVE  /\ window[v].tick <= tick + 1
                          /\ v # 2 => window[v].tick = 0 \/ window[v].tick % 2 = v
        BY <2>1 DEF WindowsRight
      <3>1. window[v] \in Window
        BY <1>t
      <3>2. window[v].tick \in Nat
        BY <1>a, <3>1 DEF Window
      <3> QED BY <2>2, <3>2 DEF LimInv, WindowsRight
    <2>6. TalliesRight'
      BY <2>1 DEF LimInv, TalliesRight, Tallied
    <2>7. ASSUME NEW s \in Requests PROVE IncRight(req[s])' /\ PlaceRight(req[s])'
      <3>1. req[s].tick \in 1..tick => req[s].tick \in 1..(tick + 1)
        BY <2>2
      <3> QED BY <1>t, <2>1, <3>1 DEF IncRight, PlaceRight
    <2> QED BY <2>3, <2>4, <2>5, <2>6, <2>7 DEF LimInv
  <1>2. ASSUME NEW r \in Requests, Arrives(r) PROVE LimInv'
    <2>1. /\ req' = [req EXCEPT ![r].at = "look"] /\ req[r].at = "off"
          /\ UNCHANGED <<tick, window, waiting, admitted, excused, late>>
      BY <1>2 DEF Arrives
    <2>2. req[r].pos = 0
      BY <1>t, <2>1 DEF PlaceRight
    <2>3. /\ req' \in [Requests -> Request] /\ WaitersBounded' /\ QueueExact'
          /\ \A s \in Requests : IncRight(req[s])' /\ PlaceRight(req[s])'
      BY <2>1, <2>2, AtGoes
    <2> QED BY <1>t, <2>1, <2>3, QuietGoes
  <1>3. ASSUME NEW r \in Requests, NEW goal \in {"admit", "force", "block"},
               NEW lim \in Nat, Inc(r, goal, lim), req[r].at # "out",
               goal = "admit" => lim <= Limit /\ req[r].pos = 0,
               goal = "block" => lim <= BlockAfter,
               UNCHANGED <<tick, window, waiting, admitted, excused, late>>
        PROVE  LimInv'
    <2>1. PICK q \in Request : /\ req' = [req EXCEPT ![r] = q]
                               /\ q.pos = req[r].pos /\ q.at \in {"read", "load"}
                               /\ IncRight(q) /\ PlaceRight(q)
      BY <1>3, IncDoes
    <2>2. /\ req' \in [Requests -> Request] /\ WaitersBounded' /\ QueueExact'
          /\ \A s \in Requests : IncRight(req[s])' /\ PlaceRight(req[s])'
      BY <1>3, <2>1, RequestGoes
    <2> QED BY <1>3, <1>t, <2>2, QuietGoes
  <1>4. ASSUME NEW r \in Requests, Look(r) PROVE LimInv'
    <2>0. /\ req[r].at = "look" /\ req[r].pos = 0
          /\ UNCHANGED <<tick, window, waiting, admitted, excused, late>>
      BY <1>t, <1>4 DEF Look, PlaceRight
    <2>1. CASE Inc(r, "admit", Limit)
      BY <1>3, <1>a, <2>0, <2>1
    <2>2. CASE ~Inc(r, "admit", Limit)
      <3>1. PICK x \in {"refuse", "join"} : req' = [req EXCEPT ![r].at = x]
        BY <1>4, <2>2 DEF Look
      <3>2. /\ req' \in [Requests -> Request] /\ WaitersBounded' /\ QueueExact'
            /\ \A s \in Requests : IncRight(req[s])' /\ PlaceRight(req[s])'
        BY <2>0, <3>1, AtGoes
      <3> QED BY <1>t, <2>0, <3>2, QuietGoes
    <2> QED BY <2>1, <2>2
  <1>5. ASSUME NEW r \in Requests, ReadOther(r) PROVE LimInv'
    <2>0. /\ req[r].at = "read" /\ req[r] \in Request
          /\ IncRight(req[r]) /\ PlaceRight(req[r])
          /\ UNCHANGED <<tick, window, waiting, admitted, excused, late>>
      BY <1>t, <1>5 DEF ReadOther
    <2>1. PICK o : o = window[1 - req[r].win]
      OBVIOUS
    <2>2. o \in Window
      <3>1. req[r].win = req[r].tick % 2 /\ req[r].tick \in 1..tick
        BY <2>0 DEF IncRight, WindowOf
      <3>2. req[r].win \in {0, 1}
        BY <1>t, <3>1, Parity DEF Ticks
      <3>3. 1 - req[r].win \in 0..2
        BY <3>2
      <3> QED BY <1>t, <2>1, <3>3
    <2>3. PICK p : p = IF o.tick = req[r].tick THEN o.count ELSE 0
      OBVIOUS
    <2>4. p \in Nat /\ req[r].lim \in Nat
      BY <2>0, <2>2, <2>3 DEF Window, Request
    <2>5. PICK l : l = req[r].lim - Carry(r)
      OBVIOUS
    <2>6. l \in Nat /\ l <= req[r].lim
      <3>1. Carry(r) = IF p < req[r].lim \div 2 THEN p ELSE req[r].lim \div 2
        BY <2>1, <2>3 DEF Carry
      <3>2. req[r].lim \div 2 \in 0..req[r].lim
        BY <2>4
      <3>3. Carry(r) \in 0..req[r].lim
        BY <2>4, <3>1, <3>2
      <3> QED BY <2>4, <2>5, <3>3
    <2>7. PICK q : q = [req[r] EXCEPT !.at = "load", !.lim = l]
      OBVIOUS
    <2>8. /\ q \in Request /\ q.at = "load" /\ q.tick = req[r].tick
          /\ q.win = req[r].win /\ q.lim = l /\ q.old = req[r].old
          /\ q.goal = req[r].goal /\ q.pos = req[r].pos
      BY <2>0, <2>6, <2>7 DEF Request
    <2>9. req' = [req EXCEPT ![r] = q]
      BY <1>5, <2>5, <2>7 DEF ReadOther
    <2>10. IncRight(q)
      <3>1. /\ q.goal = "admit" => q.lim <= Limit
            /\ q.goal = "block" => q.lim <= BlockAfter
        BY <1>a, <2>0, <2>4, <2>6, <2>8 DEF IncRight
      <3> QED BY <2>0, <2>8, <3>1 DEF IncRight
    <2>11. PlaceRight(q)
      BY <2>0, <2>8 DEF PlaceRight
    <2>12. /\ req' \in [Requests -> Request] /\ WaitersBounded' /\ QueueExact'
           /\ \A s \in Requests : IncRight(req[s])' /\ PlaceRight(req[s])'
      BY <2>0, <2>8, <2>9, <2>10, <2>11, RequestGoes
    <2> QED BY <1>t, <2>0, <2>12, QuietGoes
  <1>6. ASSUME NEW r \in Requests, LoadWindow(r) PROVE LimInv'
    <2>0. /\ req[r].at = "load" /\ req[r] \in Request
          /\ IncRight(req[r]) /\ PlaceRight(req[r])
          /\ UNCHANGED <<tick, window, waiting, admitted, excused, late>>
      BY <1>t, <1>6 DEF LoadWindow
    <2>1. PICK o, x : /\ o = window[req[r].win]
                      /\ x = IF Counted(r) >= req[r].lim THEN Refused(r) ELSE "cas"
      OBVIOUS
    <2>2. o \in Window /\ req[r].lim \in Nat /\ req[r].tick \in Nat
      BY <1>a, <1>t, <2>0, <2>1 DEF Request
    <2>3. /\ x \in {"cas", "leave", "refuse", "join"}
          /\ x = "cas" => ~(Counted(r) >= req[r].lim)
          /\ x = "join" => req[r].goal = "admit"
      BY <2>1 DEF Refused
    <2>4. x = "cas" => (IF o.tick < req[r].tick THEN 0 ELSE o.count) < req[r].lim
      <3>1. Counted(r) = IF o.tick < req[r].tick THEN 0 ELSE o.count
        BY <2>1 DEF Counted
      <3>2. o.tick \in Nat /\ o.count \in Nat
        BY <1>a, <2>2 DEF Window
      <3> QED BY <2>2, <2>3, <3>1, <3>2
    <2>5. PICK q : q = [req[r] EXCEPT !.old = o, !.at = x]
      OBVIOUS
    <2>6. /\ q \in Request /\ q.at = x /\ q.tick = req[r].tick
          /\ q.win = req[r].win /\ q.lim = req[r].lim /\ q.old = o
          /\ q.goal = req[r].goal /\ q.pos = req[r].pos
      BY <2>0, <2>2, <2>3, <2>5 DEF Request
    <2>7. req' = [req EXCEPT ![r] = q]
      BY <1>6, <2>1, <2>5 DEF LoadWindow
    <2>8. IncRight(q)
      BY <2>0, <2>3, <2>4, <2>6 DEF IncRight
    <2>9. PlaceRight(q)
      BY <2>0, <2>3, <2>6 DEF PlaceRight
    <2>10. /\ req' \in [Requests -> Request] /\ WaitersBounded' /\ QueueExact'
           /\ \A s \in Requests : IncRight(req[s])' /\ PlaceRight(req[s])'
      BY <2>0, <2>3, <2>6, <2>7, <2>8, <2>9, RequestGoes
    <2> QED BY <1>t, <2>0, <2>10, QuietGoes
  <1>7. ASSUME NEW r \in Requests, CompareAndSwapWindow(r) PROVE LimInv'
    <2>1. CASE window[req[r].win] = req[r].old
      BY <1>7, <2>1, SwapGoes DEF CompareAndSwapWindow
    <2>2. CASE window[req[r].win] # req[r].old
      <3>1. /\ req' = [req EXCEPT ![r].at = "load"] /\ req[r].at = "cas"
            /\ UNCHANGED <<tick, window, waiting, admitted, excused, late>>
        BY <1>7, <2>2 DEF CompareAndSwapWindow
      <3>2. /\ req' \in [Requests -> Request] /\ WaitersBounded' /\ QueueExact'
            /\ \A s \in Requests : IncRight(req[s])' /\ PlaceRight(req[s])'
        BY <3>1, AtGoes
      <3> QED BY <1>t, <3>1, <3>2, QuietGoes
    <2> QED BY <2>1, <2>2
  <1>8. ASSUME NEW r \in Requests, Join(r) PROVE LimInv'
    BY <1>8, JoinGoes
  <1>9. ASSUME NEW r \in Requests, GiveUp(r) PROVE LimInv'
    <2>1. /\ req' = [req EXCEPT ![r].at = "leave"] /\ req[r].at = "wait"
          /\ UNCHANGED <<tick, window, waiting, admitted, excused, late>>
      BY <1>9 DEF GiveUp
    <2>2. /\ req' \in [Requests -> Request] /\ WaitersBounded' /\ QueueExact'
          /\ \A s \in Requests : IncRight(req[s])' /\ PlaceRight(req[s])'
      BY <2>1, AtGoes
    <2> QED BY <1>t, <2>1, <2>2, QuietGoes
  <1>10. ASSUME NEW r \in Requests, Delayed(r) PROVE LimInv'
    <2>1. MaxCounter \in Nat
      BY DEF MaxCounter
    <2> QED BY <1>3, <1>10, <2>1 DEF Delayed
  <1>11. ASSUME NEW r \in Requests, OnExceed(r) PROVE LimInv'
    <2>0. req[r].at = "refuse"
          /\ UNCHANGED <<tick, window, waiting, admitted, excused, late>>
      BY <1>11 DEF OnExceed
    <2>1. CASE BlockAfter = 0
      <3>1. req' = [req EXCEPT ![r].at = "leave"]
        BY <1>11, <2>1 DEF OnExceed
      <3>2. /\ req' \in [Requests -> Request] /\ WaitersBounded' /\ QueueExact'
            /\ \A s \in Requests : IncRight(req[s])' /\ PlaceRight(req[s])'
        BY <2>0, <3>1, AtGoes
      <3> QED BY <1>t, <2>0, <3>2, QuietGoes
    <2>2. CASE BlockAfter # 0
      <3>1. Inc(r, "block", BlockAfter)
        BY <1>11, <2>2 DEF OnExceed
      <3>2. BlockAfter <= BlockAfter
        BY <1>a
      <3> QED BY <1>3, <1>a, <2>0, <3>1, <3>2
    <2> QED BY <2>1, <2>2
  <1>12. ASSUME NEW r \in Requests, Leave(r) PROVE LimInv'
    BY <1>12, LeaveGoes
  <1> QED
    BY <1>0, <1>1, <1>2, <1>4, <1>5, <1>6, <1>7, <1>8, <1>9, <1>10, <1>11, <1>12
       DEF LimNext, Enforce

(* The tallies keep the rate.                                              *)
LEMMA LimImplies == LimInv => RateKept
  <1> SUFFICES ASSUME LimInv PROVE RateKept
    OBVIOUS
  <1> QED BY DEF LimInv, TalliesRight, Tallied, RateKept

(* Only a request that is late sets a window back: the windows of the rate *)
(* have periods of one parity each.                                        *)
LEMMA SetsBackLate ==
  ASSUME LimInv, LimNext, late' # late
  PROVE  \E r \in Requests :
           /\ req[r].at = "cas"
           /\ req[r].tick + (IF req[r].win = 2 THEN 1 ELSE 2) <= tick
  <1>1. PICK r \in Requests : CompareAndSwapWindow(r)
    BY DEF LimNext, Enforce, LimTick, Arrives, Look, ReadOther, LoadWindow, Join,
           GiveUp, Delayed, OnExceed, Leave
  <1>2. req[r].at = "cas" /\ SetsBack(r)
    BY <1>1 DEF CompareAndSwapWindow, Succeeds
  <1>3. PICK w, u, o : w = req[r].win /\ u = req[r].tick /\ o = window[w].tick
    OBVIOUS
  <1>4. /\ w \in 0..2 /\ w = WindowOf(req[r].goal, u) /\ u \in 1..tick
        /\ tick \in Nat /\ window[w] \in Window
    BY <1>2, <1>3 DEF LimInv, LimTypeOK, Ticks, IncRight
  <1>5. o \in Nat /\ o <= tick /\ o > u /\ u \in Nat
    BY <1>2, <1>3, <1>4, LimiterAssumption
       DEF Window, SetsBack, LimInv, WindowsRight, LimiterAssumption
  <1>6. w # 2 => o % 2 = w /\ u % 2 = w
    BY <1>3, <1>4, <1>5 DEF LimInv, WindowsRight, WindowOf
  <1>7. w # 2 => o >= u + 2
    BY <1>5, <1>6
  <1>8. u + (IF w = 2 THEN 1 ELSE 2) <= tick
    BY <1>4, <1>5, <1>7
  <1> QED BY <1>2, <1>3, <1>8

-----------------------------------------------------------------------------
(* The suite.                                                              *)

(* It starts with every part in its initial state.                         *)
LEMMA PartsStart == Init => TaskInit /\ GateInit /\ SchedInit /\ LimInit
BY DEF Init

(* A step of it is one of each part, or leaves that part alone.            *)
LEMMA PartsStep ==
  [Next]_vars => /\ [TaskNext]_taskVars /\ [GateNext]_gateVars
                 /\ [SchedNext]_schedVars /\ [LimNext]_limVars
BY DEF Next, vars

(* Nothing is settled without a trace, no progress report is late and      *)
(* deliveries are bounded by attempts and faults, for any tasks, workers   *)
(* and policy (ServeJetstream).                                            *)
THEOREM TasksAreSafe == Spec => []TasksCorrect
  <1>1. Init => TaskInv
    BY PartsStart, TaskStart
  <1>2. TaskInv /\ [Next]_vars => TaskInv'
    BY PartsStep, TaskStep
  <1> QED BY <1>1, <1>2, TaskImplies, PTL DEF Spec

(* Claims of a schedule are more than an interval less twice the error of  *)
(* a clock apart, for any number of nodes, any interval, any jitter and    *)
(* any such error (ScheduledRunner.Run).                                   *)
THEOREM RunsAreSpaced == Spec => ScheduleKept
  <1>1. Init => SchedInv
    BY PartsStart, SchedStart
  <1>2. SchedInv /\ [Next]_vars => SchedInv'
    BY PartsStep, SchedStep
  <1>3. SchedInv => SchedTypeOK
    BY DEF SchedInv
  <1>4. SchedInv /\ [Next]_vars
          => [(\E n \in Nodes : node[n].at = "claim" /\ node'[n].at = "publish")
                => age > Interval - 2 * Skew]_schedVars
    BY PartsStep, SchedClaims
  <1> QED BY <1>1, <1>2, <1>3, <1>4, PTL DEF Spec, ScheduleKept, RunsSpaced

(* Gate and limiter keep their rates, but for a window that a late request *)
(* set back, for any quota, period, limit, burst and number of requests    *)
(* (consumeWrapper, Enforce, window.Inc).                                  *)
THEOREM RatesAreKept == Spec => RatesKept
  <1>1. Init => GateInv /\ LimInv
    BY PartsStart, GateStart, LimStart
  <1>2. GateInv /\ LimInv /\ [Next]_vars => GateInv' /\ LimInv'
    BY PartsStep, GateStep, LimStep
  <1>3. GateInv /\ LimInv
          => /\ GateTypeOK /\ StartsBounded
             /\ LimTypeOK /\ RateKept /\ WaitersBounded /\ QueueExact
    BY GateImplies, LimImplies DEF LimInv
  <1>4. LimInv /\ [Next]_vars
          => [late' # late =>
                \E r \in Requests :
                  /\ req[r].at = "cas"
                  /\ req[r].tick + (IF req[r].win = 2 THEN 1 ELSE 2) <= tick]_limVars
    BY PartsStep, SetsBackLate
  <1> QED BY <1>1, <1>2, <1>3, <1>4, PTL DEF Spec, RatesKept, OnlyLateSetsBack

=============================================================================
