---------------------------- MODULE Edge_proofs ----------------------------
(***************************************************************************)
(* Proofs about the parts that join nodes: the compare-and-swap of the KV  *)
(* API implements the abstract register; the multiplexer holds and drains  *)
(* what it queues; the gateway opens on a usable server and closes; the    *)
(* names of peers lead to the freshest and a peer that closed is gone.     *)
(***************************************************************************)
EXTENDS MCEdge, FiniteSetTheorems, WellFoundedInduction, TLAPS

(* What is known of a call: a swap is only asked for by cas, and while the *)
(* entry still has the revision that was read, it has the value that was   *)
(* compared.  That is what makes Update compare values by comparing        *)
(* revisions.                                                              *)
CallSound(c) ==
  /\ kv[c].at \in {"update", "reply", "reget", "ok", "differs"}
       => kv[c].kind = "cas"
  /\ kv[c].at = "read" => kv[c].kind = "get"
  /\ kv[c].rev <= entry.rev
  /\ kv[c].at = "update" => kv[c].value = kv[c].expected
  /\ kv[c].at = "update" /\ kv[c].rev = entry.rev
       => entry.value = kv[c].value

KvInv == KvTypeOK /\ \A c \in Callers : CallSound(c)

(* No call is under way initially, so nothing is known of any.             *)
LEMMA KvInitInv == KvInit => KvInv
  BY KvAssumption DEF KvAssumption, KvInit, KvInv, KvTypeOK, CallSound, NoCall, Answers

(* A write gives the key its next revision. *)
LEMMA Written ==
  ASSUME KvTypeOK, NEW v \in Values, Stores(v)
  PROVE  /\ entry' \in [there : BOOLEAN, value : Values, rev : 0..MaxRev]
         /\ entry'.rev = entry.rev + 1 /\ entry.rev \in Nat
         /\ entry'.value = v
  BY KvAssumption DEF KvAssumption, KvTypeOK, Stores

(* What getKeyState leaves behind: the entry it read, and where that leads *)
(* to.                                                                     *)
LEMMA GotDoes ==
  ASSUME KvTypeOK, NEW c \in Callers, NEW step \in 0..MaxStep, Got(c, step)
  PROVE  /\ kv' \in [Callers ->
                      [at : {"idle", "get", "create", "again", "update",
                             "reply", "reget"} \cup Answers,
                       kind : {"get", "cas"}, expected : Values,
                       desired : Values, value : Values, rev : 0..MaxRev,
                       step : 0..MaxStep]]
         /\ \A d \in Callers \ {c} : kv'[d] = kv[d]
         /\ kv'[c].kind = kv[c].kind /\ kv'[c].expected = kv[c].expected
         /\ kv'[c].desired = kv[c].desired
         /\ kv'[c].value = entry.value /\ kv'[c].rev = entry.rev
         /\ kv[c].kind = "get" => kv'[c].at = "read"
         /\ kv[c].kind = "cas" /\ entry.value = kv[c].expected
              => kv'[c].at = "update"
         /\ kv[c].kind = "cas" /\ entry.value # kv[c].expected
              => kv'[c].at = "differs"
  <1>1. PICK p : p = IF kv[c].kind = "get" THEN "read"
                     ELSE IF entry.value = kv[c].expected THEN "update"
                     ELSE "differs"
    OBVIOUS
  <1>2. /\ kv[c].kind = "get" => p = "read"
        /\ kv[c].kind = "cas" /\ entry.value = kv[c].expected => p = "update"
        /\ kv[c].kind = "cas" /\ entry.value # kv[c].expected => p = "differs"
        /\ p \in {"read", "update", "differs"}
    BY <1>1
  <1>3. PICK r : r = [kv[c] EXCEPT !.value = entry.value, !.rev = entry.rev,
                                   !.step = step, !.at = p]
    OBVIOUS
  <1>4. kv' = [kv EXCEPT ![c] = r]
    BY <1>1, <1>3 DEF Got
  <1>5. /\ r \in [at : {"idle", "get", "create", "again", "update",
                        "reply", "reget"} \cup Answers,
                  kind : {"get", "cas"}, expected : Values,
                  desired : Values, value : Values, rev : 0..MaxRev,
                  step : 0..MaxStep]
        /\ r.kind = kv[c].kind /\ r.expected = kv[c].expected
        /\ r.desired = kv[c].desired
        /\ r.value = entry.value /\ r.rev = entry.rev /\ r.at = p
    BY <1>2, <1>3, ZenonT(60) DEF KvTypeOK, Answers
  <1> QED
    BY <1>2, <1>4, <1>5 DEF KvTypeOK

(* Every step of a caller, of the store or of the network keeps it.        *)
LEMMA KvStep == KvInv /\ [KvNext]_kvVars => KvInv'
  <1> SUFFICES ASSUME KvInv, [KvNext]_kvVars
               PROVE  KvInv'
    OBVIOUS
  <1> USE KvAssumption DEF KvAssumption, KvInv, KvTypeOK, CallSound, Answers
  <1>1. CASE Delete
    BY <1>1 DEF Delete, Purges
  <1>2. ASSUME NEW v \in Values, PutRevision(v) \/ PutNew(v) \/ Post(v)
        PROVE  KvInv'
    <2>1. Stores(v) /\ UNCHANGED <<kv, lost>>
      BY <1>2 DEF PutRevision, PutNew, Post
    <2> QED
      BY <2>1, Written
  <1>3. ASSUME NEW c \in Callers, CallKv(c)
        PROVE  KvInv'
    <2>1. KvTypeOK'
      BY <1>3 DEF CallKv
    <2>2. ASSUME NEW d \in Callers
          PROVE  CallSound(d)'
      BY <1>3, d = c \/ kv'[d] = kv[d] DEF CallKv
    <2> QED
      BY <2>1, <2>2
  <1>4. ASSUME NEW c \in Callers, GetState(c)
        PROVE  KvInv'
    <2>0. UNCHANGED <<entry, lost>>
      BY <1>4 DEF GetState
    <2>1. CASE Got(c, 0)
      <3>1. 0 \in 0..MaxStep
        BY MaxStep \in Nat
      <3> QED
        BY <2>0, <2>1, <3>1, GotDoes
    <2>2. ASSUME NEW place \in {"create", "error"}, To(c, place)
          PROVE  KvInv'
      BY <2>0, <2>2 DEF To
    <2> QED
      BY <1>4, <2>1, <2>2 DEF GetState
  <1>5. ASSUME NEW c \in Callers, CreateNull(c)
        PROVE  KvInv'
    <2>1. KvTypeOK'
      BY <1>5, Written DEF CreateNull, To
    <2>2. ASSUME NEW d \in Callers
          PROVE  CallSound(d)'
      BY <1>5, Written, d = c \/ kv'[d] = kv[d] DEF CreateNull, To
    <2> QED
      BY <2>1, <2>2
  <1>6. ASSUME NEW c \in Callers, Update(c)
        PROVE  KvInv'
    <2>1. KvTypeOK'
      BY <1>6, Written DEF Update, To
    <2>2. ASSUME NEW d \in Callers
          PROVE  CallSound(d)'
      BY <1>6, Written, d = c \/ kv'[d] = kv[d] DEF Update, To
    <2> QED
      BY <2>1, <2>2
  <1>7. ASSUME NEW c \in Callers, Reply(c)
        PROVE  KvInv'
    <2>1. KvTypeOK'
      BY <1>7 DEF Reply, To
    <2>2. ASSUME NEW d \in Callers
          PROVE  CallSound(d)'
      BY <1>7, d = c \/ kv'[d] = kv[d] DEF Reply, To
    <2> QED
      BY <2>1, <2>2
  <1>8. ASSUME NEW c \in Callers, Lose(c)
        PROVE  KvInv'
    <2>1. KvTypeOK'
      BY <1>8 DEF Lose, To
    <2>2. ASSUME NEW d \in Callers
          PROVE  CallSound(d)'
      BY <1>8, d = c \/ kv'[d] = kv[d] DEF Lose, To
    <2> QED
      BY <2>1, <2>2
  <1>9. ASSUME NEW c \in Callers, Reget(c)
        PROVE  KvInv'
    <2>0. UNCHANGED <<entry, lost>>
      BY <1>9 DEF Reget
    <2>1. CASE Got(c, kv[c].step + 1) /\ kv[c].step < MaxStep
      <3>1. kv[c].step + 1 \in 0..MaxStep
        BY <2>1
      <3> QED
        BY <2>0, <2>1, <3>1, GotDoes
    <2>2. ASSUME NEW place \in {"create", "error"}, To(c, place)
          PROVE  KvInv'
      BY <2>0, <2>2 DEF To
    <2> QED
      BY <1>9, <2>1, <2>2 DEF Reget
  <1>10. CASE UNCHANGED kvVars
    BY <1>10 DEF kvVars
  <1> QED
    BY <1>1, <1>2, <1>3, <1>4, <1>5, <1>6, <1>7, <1>8, <1>9, <1>10
    DEF KvNext, CompareAndSwap

(* A step of one call changes nothing that the register sees of others.    *)
LEMMA OthersStay ==
  ASSUME NEW c \in Callers, \A d \in Callers \ {c} : kv'[d] = kv[d]
  PROVE  [d \in Callers |-> AsOp(d)]'
           = [[d \in Callers |-> AsOp(d)] EXCEPT ![c] = AsOp(c)']
  BY DEF AsOp

(* Every step of the API is one step of the register, or none.            *)
LEMMA KvRefines ==
  KvInv /\ [KvNext]_kvVars => [Register!RegNext]_(Register!regVars)
  <1> SUFFICES ASSUME KvInv, [KvNext]_kvVars
               PROVE  Register!RegNext \/ UNCHANGED Register!regVars
    OBVIOUS
  <1> DEFINE op == [c \in Callers |-> AsOp(c)]
  <1> USE DEF KvInv, KvTypeOK, Answers
  <1> DEFINE Seen(c, at, value) ==
               [at |-> at, expected |-> kv[c].expected,
                desired |-> kv[c].desired, value |-> value]
  <1>1. ASSUME UNCHANGED kv
        PROVE  op' = op
    BY <1>1 DEF AsOp
  <1>2. ASSUME NEW c \in Callers, \A d \in Callers \ {c} : kv'[d] = kv[d],
               NEW at, NEW value, AsOp(c)' = Seen(c, at, value)
        PROVE  Register!Becomes(c, at, value)
    <2>1. op[c].expected = kv[c].expected /\ op[c].desired = kv[c].desired
      BY DEF AsOp
    <2>2. op' = [op EXCEPT ![c] = AsOp(c)']
      BY <1>2, OthersStay
    <2>3. op' = [op EXCEPT ![c] = [at |-> at, expected |-> op[c].expected,
                                   desired |-> op[c].desired, value |-> value]]
      BY <1>2, <2>1, <2>2
    <2> QED
      BY <2>3 DEF Register!Becomes
  <1>s. ASSUME NEW c \in Callers, \A d \in Callers \ {c} : kv'[d] = kv[d],
               AsOp(c)' = AsOp(c), UNCHANGED entry
        PROVE  UNCHANGED Register!regVars
    BY <1>s, OthersStay DEF Register!regVars
  <1>3. CASE Delete
    BY <1>1, <1>3, KvAssumption
    DEF KvAssumption, Delete, Purges, Register!RegNext, Register!Write
  <1>4. ASSUME NEW v \in Values, PutRevision(v) \/ PutNew(v) \/ Post(v)
        PROVE  Register!RegNext
    BY <1>1, <1>4, Written
    DEF PutRevision, PutNew, Post, Register!RegNext, Register!Write
  <1>5. ASSUME NEW c \in Callers, CallKv(c)
        PROVE  Register!Ask(c)
    <2>1. PICK e, d \in Values, k \in {"get", "cas"} :
            kv' = [kv EXCEPT ![c] = [at |-> "get", kind |-> k, expected |-> e,
                                     desired |-> d, value |-> Null, rev |-> 0,
                                     step |-> 0]]
      BY <1>5 DEF CallKv
    <2>2. op' = [op EXCEPT ![c] = AsOp(c)']
      BY <2>1, OthersStay
    <2>3. AsOp(c)' = [at |-> k, expected |-> e, desired |-> d, value |-> Null]
      BY <2>1 DEF AsOp
    <2>4. AsOp(c).at = "idle"
      BY <1>5 DEF CallKv, AsOp
    <2>5. op' = [op EXCEPT ![c] = [at |-> k, expected |-> e, desired |-> d,
                                   value |-> Null]]
      BY <2>2, <2>3
    <2>6. op[c].at = "idle" /\ UNCHANGED entry.value
      BY <1>5, <2>4 DEF CallKv
    <2>7. \E x, y \in Values, z \in {"get", "cas"} :
            op' = [op EXCEPT ![c] = [at |-> z, expected |-> x, desired |-> y,
                                     value |-> Null]]
      <3> HIDE DEF op
      <3> QED
        BY <2>5
    <2> QED
      BY <2>6, <2>7 DEF Register!Ask
  <1>6. ASSUME NEW c \in Callers, NEW step \in 0..MaxStep, Got(c, step),
               UNCHANGED entry,
               kv[c].at \in {"get", "again", "reget"}
        PROVE  \/ Register!Read(c) \/ Register!Differs(c)
               \/ UNCHANGED Register!regVars
    <2>1. \A d \in Callers \ {c} : kv'[d] = kv[d]
      BY <1>6, GotDoes DEF KvInv
    <2>2. AsOp(c) = Seen(c, kv[c].kind, Null)
      BY <1>6 DEF AsOp
    <2>3. CASE kv[c].kind = "get"
      <3>1. AsOp(c)' = Seen(c, "read", entry.value)
        BY <1>6, <2>3, GotDoes DEF KvInv, AsOp
      <3> QED
        BY <1>2, <1>6, <2>1, <2>2, <2>3, <3>1 DEF Register!Read
    <2>4. CASE kv[c].kind = "cas" /\ entry.value # kv[c].expected
      <3>1. AsOp(c)' = Seen(c, "differs", entry.value)
        BY <1>6, <2>4, GotDoes DEF KvInv, AsOp
      <3> QED
        BY <1>2, <1>6, <2>1, <2>2, <2>4, <3>1 DEF Register!Differs
    <2>5. CASE kv[c].kind = "cas" /\ entry.value = kv[c].expected
      <3>1. AsOp(c)' = Seen(c, "cas", Null)
        BY <1>6, <2>5, GotDoes DEF KvInv, AsOp
      <3> QED
        BY <1>s, <1>6, <2>1, <2>2, <2>5, <3>1
    <2> QED
      BY <2>3, <2>4, <2>5
  <1>7. ASSUME NEW c \in Callers, To(c, "error"), UNCHANGED entry,
               kv[c].at \in {"get", "again", "reget"}
        PROVE  Register!Errs(c)
    <2>1. /\ AsOp(c)' = Seen(c, "error", Null) /\ AsOp(c).at = kv[c].kind
          /\ \A d \in Callers \ {c} : kv'[d] = kv[d]
      BY <1>7 DEF To, AsOp
    <2> QED
      BY <1>2, <1>7, <2>1 DEF Register!Errs
  <1>8. ASSUME NEW c \in Callers, GetState(c)
        PROVE  Register!RegNext \/ UNCHANGED Register!regVars
    <2>1. CASE ~entry.there /\ kv[c].at = "get"
      <3>1. To(c, "create")
        BY <1>8, <2>1 DEF GetState
      <3>2. /\ AsOp(c)' = AsOp(c)
            /\ \A d \in Callers \ {c} : kv'[d] = kv[d]
        BY <2>1, <3>1 DEF To, AsOp
      <3> QED
        BY <1>s, <1>8, <3>2 DEF GetState
    <2>2. 0 \in 0..MaxStep
      BY KvAssumption DEF KvAssumption
    <2>3. CASE Got(c, 0)
      BY <1>6, <1>8, <2>2, <2>3 DEF GetState, Register!RegNext
    <2>4. CASE To(c, "error")
      BY <1>7, <1>8, <2>4 DEF GetState, Register!RegNext
    <2> QED
      BY <1>8, <2>1, <2>3, <2>4 DEF GetState
  <1>9. ASSUME NEW c \in Callers, CreateNull(c)
        PROVE  Register!RegNext \/ UNCHANGED Register!regVars
    <2>1. /\ AsOp(c)' = AsOp(c)
          /\ \A d \in Callers \ {c} : kv'[d] = kv[d]
      BY <1>9 DEF CreateNull, To, AsOp
    <2>2. op' = op
      BY <2>1, OthersStay
    <2>3. entry'.value \in Values
      BY <1>9, Written, KvAssumption DEF CreateNull, KvAssumption
    <2> QED
      BY <2>2, <2>3 DEF Register!RegNext, Register!Write
  <1>10. ASSUME NEW c \in Callers, Update(c)
         PROVE  Register!RegNext \/ UNCHANGED Register!regVars
    <2>1. AsOp(c) = Seen(c, "cas", Null)
      BY <1>10 DEF Update, CallSound, AsOp
    <2>2. CASE entry.rev = kv[c].rev
      <3>1. Stores(kv[c].desired) /\ To(c, "reply") /\ kv[c].desired \in Values
        BY <1>10, <2>2 DEF Update
      <3>2. entry.value = kv[c].expected /\ entry'.value = kv[c].desired
        BY <1>10, <2>2, <3>1, Written DEF Update, CallSound
      <3>3. /\ AsOp(c)' = Seen(c, "swapped", Null)
            /\ \A d \in Callers \ {c} : kv'[d] = kv[d]
        BY <3>1 DEF To, AsOp
      <3>4. Register!Swap(c)
        BY <1>2, <2>1, <3>2, <3>3 DEF Register!Swap
      <3> QED
        BY <3>4 DEF Register!RegNext
    <2>3. CASE entry.rev # kv[c].rev
      <3>1. To(c, "reget") /\ UNCHANGED entry
        BY <1>10, <2>3 DEF Update
      <3>2. /\ AsOp(c)' = AsOp(c)
            /\ \A d \in Callers \ {c} : kv'[d] = kv[d]
        BY <1>10, <3>1 DEF Update, CallSound, To, AsOp
      <3> QED
        BY <1>s, <3>1, <3>2
    <2> QED
      BY <2>2, <2>3
  <1>11. ASSUME NEW c \in Callers, Reply(c)
         PROVE  UNCHANGED Register!regVars
    <2>1. /\ AsOp(c)' = AsOp(c)
          /\ \A d \in Callers \ {c} : kv'[d] = kv[d]
      BY <1>11 DEF Reply, To, AsOp
    <2> QED
      BY <1>s, <1>11, <2>1 DEF Reply
  <1>12. ASSUME NEW c \in Callers, Lose(c)
         PROVE  Register!RegNext \/ UNCHANGED Register!regVars
    <2>1. CASE kv[c].at = "update" /\ To(c, "reget")
      <3>1. /\ AsOp(c)' = AsOp(c)
            /\ \A d \in Callers \ {c} : kv'[d] = kv[d]
        BY <2>1 DEF To, AsOp
      <3> QED
        BY <1>s, <1>12, <3>1 DEF Lose
    <2>2. CASE kv[c].at = "reply" /\ To(c, "reget")
      <3>1. /\ AsOp(c)' = Seen(c, "cas", Null) /\ AsOp(c).at = "swapped"
            /\ \A d \in Callers \ {c} : kv'[d] = kv[d]
        BY <2>2 DEF CallSound, To, AsOp
      <3>2. Register!LosesReply(c)
        BY <1>2, <1>12, <3>1 DEF Lose, Register!LosesReply
      <3> QED
        BY <3>2 DEF Register!RegNext
    <2> QED
      BY <1>7, <1>12, <2>1, <2>2 DEF Lose, Register!RegNext
  <1>13. ASSUME NEW c \in Callers, Reget(c)
         PROVE  Register!RegNext \/ UNCHANGED Register!regVars
    <2>1. CASE Got(c, kv[c].step + 1) /\ kv[c].step < MaxStep
      <3>1. kv[c].step + 1 \in 0..MaxStep
        BY <2>1, KvAssumption DEF KvAssumption, KvInv, KvTypeOK
      <3> QED
        BY <1>6, <1>13, <2>1, <3>1 DEF Reget, Register!RegNext
    <2>2. CASE To(c, "error")
      BY <1>7, <1>13, <2>2 DEF Reget, Register!RegNext
    <2> QED
      BY <1>13, <2>1, <2>2 DEF Reget
  <1>14. CASE UNCHANGED kvVars
    BY <1>1, <1>14 DEF kvVars, Register!regVars
  <1> QED
    BY <1>3, <1>4, <1>5, <1>8, <1>9, <1>10, <1>11, <1>12, <1>13, <1>14
    DEF KvNext, CompareAndSwap, Register!RegNext

(* The compare-and-swap of the KV API, a read and a conditional write of   *)
(* the store with lost replies and retries between them, implements the    *)
(* atomic register for any callers, values and revisions (CompareAndSwap). *)
THEOREM SwapIsAtomic == KvSpec => CasIsAtomic
  <1>1. KvInit => Register!RegInit
    BY DEF KvInit, NoCall, AsOp, Register!RegInit, Register!NoOp
  <1>2. KvInv => KvTypeOK
    BY DEF KvInv
  <1> QED
    BY <1>1, <1>2, KvInitInv, KvStep, KvRefines, PTL
    DEF KvSpec, CasIsAtomic, Register!RegSpec

-----------------------------------------------------------------------------
(* What is known of a sublistener: only one that listens is closed, and    *)
(* until the mux closes it, its user is alone to close it and does so once.*)
SubSound(s) ==
  /\ sub[s].by # {} \/ sub[s].done \/ sub[s].shut \/ sub[s].cleaned => Open(s)
  /\ s \notin doomed => /\ "mux" \notin sub[s].by
                        /\ sub[s].done => sub[s].by = {}
                        /\ ~sub[s].burst
  /\ sub[s].burst => sub[s].done
  /\ sub[s].bare => sub[s].shut

(* A protocol leads to a sublistener that listens.                         *)
BoundListens == \A p \in AllProtos : muxSub[p] # None => Open(muxSub[p])

(* A send that panicked went to a queue that is shut.                      *)
PanicIsShut ==
  \A c \in Conns : conn[c].at = "panic" => sub[conn[c].to].shut

MuxInv ==
  /\ MuxTypeOK /\ QueuedIsHeld /\ BoundIsOpen /\ BoundListens
  /\ \A s \in Subs : SubSound(s)

(* The empty queue is a queue.                                             *)
LEMMA EmptyQueue == <<>> \in Seq(Conns)
  OBVIOUS

(* A new queue, or a queue that is shut, leaves a sublistener its type.    *)
LEMMA QueueTyped ==
  ASSUME sub \in [Subs -> SubType], NEW s \in Subs, NEW q \in Seq(Conns),
         \/ sub' = [sub EXCEPT ![s].backlog = q]
         \/ sub' = [sub EXCEPT ![s] = [@ EXCEPT !.shut = TRUE, !.backlog = q]]
  PROVE  sub' \in [Subs -> SubType]
  <1>1. CASE sub' = [sub EXCEPT ![s].backlog = q]
    BY <1>1, ZenonT(60) DEF SubType
  <1>2. CASE sub' = [sub EXCEPT ![s] = [@ EXCEPT !.shut = TRUE, !.backlog = q]]
    BY <1>2, ZenonT(60) DEF SubType
  <1> QED
    BY <1>1, <1>2

(* The end of its closing, by one of those who close.                      *)
LEMMA DoneDoes ==
  ASSUME sub \in [Subs -> SubType], NEW s \in Subs, NEW who \in Closers,
         sub' = [sub EXCEPT ![s] =
                  [@ EXCEPT !.by = sub[s].by \ {who}, !.done = TRUE,
                            !.burst = sub[s].burst \/ sub[s].done]]
  PROVE  /\ sub' \in [Subs -> SubType]
         /\ sub'[s].by = sub[s].by \ {who} /\ sub'[s].done = TRUE
         /\ sub'[s].burst = (sub[s].burst \/ sub[s].done)
         /\ sub'[s].bare = sub[s].bare /\ sub'[s].backlog = sub[s].backlog
         /\ sub'[s].protos = sub[s].protos
         /\ sub'[s].shut = sub[s].shut /\ sub'[s].cleaned = sub[s].cleaned
         /\ \A t \in Subs \ {s} : sub'[t] = sub[t]
  <1>1. PICK by, b : /\ by = sub[s].by \ {who}
                     /\ b = (sub[s].burst \/ sub[s].done)
    OBVIOUS
  <1>2. PICK r : r = [sub[s] EXCEPT !.by = by, !.done = TRUE, !.burst = b]
    OBVIOUS
  <1>3. by \in SUBSET Closers /\ b \in BOOLEAN
    BY <1>1 DEF SubType
  <1>4. /\ r \in SubType /\ r.by = by /\ r.done = TRUE /\ r.burst = b
        /\ r.bare = sub[s].bare
        /\ r.backlog = sub[s].backlog /\ r.protos = sub[s].protos
        /\ r.shut = sub[s].shut /\ r.cleaned = sub[s].cleaned
    BY <1>2, <1>3 DEF SubType
  <1>5. sub' = [sub EXCEPT ![s] = r]
    BY <1>1, <1>2 
  <1> QED
    BY <1>1, <1>4, <1>5

(* Nobody listens and nothing is queued initially.                         *)
LEMMA MuxInitInv == MuxInit => MuxInv
  <1> SUFFICES ASSUME MuxInit
               PROVE  MuxInv
    OBVIOUS
  <1> USE MuxAssumption DEF MuxAssumption, MuxInit
  <1>1. PICK q : q = <<>>
    OBVIOUS
  <1>2. q \in Seq(Conns)
    BY <1>1, EmptyQueue
  <1>3. Len(q) = 0
    BY <1>1
  <1>4. NoSub = [protos |-> {}, done |-> FALSE, backlog |-> q, shut |-> FALSE,
                 by |-> {}, cleaned |-> FALSE, burst |-> FALSE, bare |-> FALSE]
    BY <1>1 DEF NoSub
  <1>5. NoSub \in SubType /\ Len(NoSub.backlog) = 0
    BY <1>2, <1>3, <1>4 DEF SubType
  <1>6. conn \in [Conns -> ConnType]
    BY DEF ConnType, AllProtos
  <1>7. MuxTypeOK
    <2>1. sub \in [Subs -> SubType] /\ \A s \in Subs : Len(sub[s].backlog) = 0
      BY <1>5
    <2>2. \A c \in Conns : conn[c].at = "off"
      OBVIOUS
    <2>3. muxSub \in [AllProtos -> Subs \cup {None}]
      OBVIOUS
    <2>4. \A s \in Subs : Len(sub[s].backlog) <= Backlog
      BY <2>1
    <2> QED
      BY <1>6, <2>1, <2>2, <2>3, <2>4 DEF MuxTypeOK
  <1>8. \A s \in Subs : ~Open(s) /\ SubSound(s)
    BY <1>4 DEF Open, SubSound
  <1>9. QueuedIsHeld /\ BoundIsOpen /\ BoundListens
    BY <1>8 DEF QueuedIsHeld, BoundIsOpen, BoundListens
  <1> QED
    BY <1>7, <1>8, <1>9 DEF MuxInv

(* A step that changes only where connections are, and queues none, keeps  *)
(* everything else.                                                        *)
LEMMA ConnMoves ==
  ASSUME MuxInv, NEW c \in Conns, UNCHANGED <<muxSub, muxClosed, doomed, sub>>,
         conn' \in [Conns -> ConnType],
         \A d \in Conns \ {c} : conn'[d] = conn[d], conn'[c].at # "queued",
         conn'[c].at = "send" => conn'[c].to \in Subs
  PROVE  MuxInv'
  <1>t. MuxTypeOK'
    BY DEF MuxInv, MuxTypeOK
  <1>1. QueuedIsHeld'
    BY DEF MuxInv, QueuedIsHeld
  <1>2. BoundIsOpen' /\ BoundListens' /\ \A s \in Subs : SubSound(s)'
    BY DEF MuxInv, BoundIsOpen, BoundListens, SubSound, Open
  <1> QED
    BY <1>t, <1>1, <1>2 DEF MuxInv

(* A step of the closing of one sublistener touches neither its protocols  *)
(* nor its queue.                                                          *)
LEMMA SubMoves ==
  ASSUME MuxInv, NEW s \in Subs, UNCHANGED <<muxSub, muxClosed, doomed>>,
         sub' \in [Subs -> SubType], conn' \in [Conns -> ConnType],
         \A c \in Conns : conn'[c].at \in {"send", "queued"}
                            => conn'[c].to \in Subs,
         \A t \in Subs \ {s} : sub'[t] = sub[t],
         Len(sub'[s].backlog) <= Backlog,
         sub'[s].protos = sub[s].protos, sub'[s].cleaned = sub[s].cleaned,
         QueuedIsHeld', SubSound(s)'
  PROVE  MuxInv'
  <1>t. MuxTypeOK'
    BY DEF MuxInv, MuxTypeOK
  <1>1. BoundIsOpen'
    BY DEF MuxInv, BoundIsOpen, Open
  <1>2. BoundListens'
    BY DEF MuxInv, BoundListens, MuxTypeOK, Open
  <1>3. ASSUME NEW t \in Subs \ {s}
        PROVE  SubSound(t)'
    BY DEF MuxInv, SubSound, Open
  <1> QED
    BY <1>t, <1>1, <1>2, <1>3 DEF MuxInv

(* A step that touches no queue holds every connection that was held.      *)
LEMMA QueuesStay ==
  ASSUME MuxInv, UNCHANGED conn,
         \A t \in Subs : /\ sub'[t].backlog = sub[t].backlog
                         /\ sub'[t].shut = sub[t].shut
  PROVE  QueuedIsHeld'
  <1> SUFFICES ASSUME NEW d \in Conns, conn[d].at = "queued"
               PROVE  /\ ~sub'[conn[d].to].shut
                      /\ \E i \in 1..Len(sub'[conn[d].to].backlog) :
                           sub'[conn[d].to].backlog[i] = d
    BY DEF QueuedIsHeld
  <1>1. conn[d].to \in Subs
    BY DEF MuxInv, MuxTypeOK
  <1>2. sub'[conn[d].to].backlog = sub[conn[d].to].backlog
    BY <1>1
  <1>3. ~sub'[conn[d].to].shut
    BY <1>1 DEF MuxInv, QueuedIsHeld
  <1> QED
    BY <1>2, <1>3 DEF MuxInv, QueuedIsHeld

(* Closing the mux binds no protocol and closes every sublistener it had.  *)
LEMMA CloseLockedStep ==
  ASSUME MuxTypeOK, NEW subs \in [AllProtos -> Subs \cup {None}],
         CloseLocked(subs)
  PROVE  /\ doomed \subseteq doomed' /\ doomed' \subseteq Subs /\ muxClosed'
         /\ muxSub' \in [AllProtos -> Subs \cup {None}]
         /\ \A p \in AllProtos : muxSub'[p] = None
  BY DEF MuxTypeOK, CloseLocked

(* Every step of accepting, listening and closing keeps it.                *)
LEMMA MuxStep == MuxInv /\ [MuxNext]_muxVars => MuxInv'
  <1> SUFFICES ASSUME MuxInv, [MuxNext]_muxVars
               PROVE  MuxInv'
    OBVIOUS
  <1> USE MuxAssumption DEF MuxAssumption
  <1>t. MuxTypeOK
    BY DEF MuxInv
  <1>1. ASSUME NEW s \in Subs, NEW protos \in SUBSET AllProtos,
               Listen(s, protos)
        PROVE  MuxInv'
    <2>0. sub' \in [Subs -> SubType]
      BY <1>1, <1>t, ZenonT(60) DEF Listen, MuxTypeOK, SubType
    <2>2. /\ sub'[s].protos = protos /\ sub'[s].backlog = sub[s].backlog
          /\ sub'[s].shut = sub[s].shut /\ sub'[s].done = sub[s].done
          /\ sub'[s].by = sub[s].by /\ sub'[s].cleaned = sub[s].cleaned
          /\ sub'[s].burst = sub[s].burst /\ sub'[s].bare = sub[s].bare
          /\ \A t \in Subs \ {s} : sub'[t] = sub[t]
      BY <1>1, <1>t DEF Listen, MuxTypeOK, SubType
    <2>1. MuxTypeOK'
      <3>1. \A t \in Subs : sub'[t].backlog = sub[t].backlog
        BY <2>2
      <3>2. muxSub' \in [AllProtos -> Subs \cup {None}]
        BY <1>1, <1>t DEF Listen, MuxTypeOK
      <3> QED
        BY <1>1, <1>t, <2>0, <3>1, <3>2 DEF Listen, MuxTypeOK
    <2>3. QueuedIsHeld'
      BY <1>1, <2>2, QueuesStay DEF Listen
    <2>4. ~Open(s) /\ ~sub[s].cleaned
      BY <1>1 DEF Listen, MuxInv, SubSound
    <2>5. \A p \in AllProtos : muxSub[p] # s
      BY <2>4 DEF MuxInv, BoundListens
    <2>6. BoundIsOpen'
      <3> SUFFICES ASSUME NEW t \in Subs, Open(t)'
                   PROVE  LET bound == {p \in AllProtos : muxSub'[p] = t} IN
                          IF sub'[t].cleaned \/ muxClosed'
                          THEN bound = {} ELSE bound = sub'[t].protos
        BY DEF BoundIsOpen
      <3>1. CASE t = s
        BY <1>1, <2>2, <2>4, <2>5, <3>1 DEF Listen
      <3>2. CASE t # s
        <4>1. {p \in AllProtos : muxSub'[p] = t}
                = {p \in AllProtos : muxSub[p] = t}
          BY <1>1, <3>2 DEF Listen
        <4>2. Open(t)
          BY <2>2, <3>2 DEF Open
        <4> QED
          BY <1>1, <2>2, <3>2, <4>1, <4>2 DEF Listen, MuxInv, BoundIsOpen
      <3> QED
        BY <3>1, <3>2
    <2>7. BoundListens'
      BY <1>1, <1>t, <2>2 DEF Listen, MuxInv, BoundListens, MuxTypeOK, Open
    <2>8. ASSUME NEW t \in Subs
          PROVE  SubSound(t)'
      BY <1>1, <2>2, t = s \/ t # s DEF Listen, MuxInv, SubSound, Open
    <2> QED
      BY <2>1, <2>3, <2>6, <2>7, <2>8 DEF MuxInv
  <1>2. ASSUME NEW c \in Conns, NEW p \in Protos, AcceptConn(c, p)
        PROVE  MuxInv'
    <2>1. conn' \in [Conns -> ConnType] /\ conn'[c].at = "hello"
      BY <1>2, <1>t DEF AcceptConn, MuxTypeOK, ConnType, AllProtos
    <2> QED
      BY <1>2, <2>1, ConnMoves DEF AcceptConn
  <1>3. ASSUME NEW c \in Conns, Handshake(c)
        PROVE  MuxInv'
    <2>1. conn' \in [Conns -> ConnType] /\ conn'[c].at \in {"closed", "find"}
      BY <1>3, <1>t DEF Handshake, MuxTypeOK, ConnType
    <2>2. \A d \in Conns \ {c} : conn'[d] = conn[d]
      BY <1>3, <1>t DEF Handshake, MuxTypeOK
    <2> QED
      BY <1>3, <2>1, <2>2, ConnMoves DEF Handshake
  <1>4. ASSUME NEW c \in Conns, FindConn(c)
        PROVE  MuxInv'
    <2>a. /\ conn[c].proto \in AllProtos /\ AnyProto \in AllProtos
          /\ conn \in [Conns -> ConnType]
      BY <1>t DEF MuxTypeOK, ConnType, AllProtos
    <2>b. \A p \in AllProtos : muxSub[p] \in Subs \cup {None}
      BY <1>t DEF MuxTypeOK
    <2>1. \A x \in FindListener({conn[c].proto}) : x \in Subs \cup {None}
      BY <2>a, <2>b DEF FindListener
    <2>2. PICK s \in Subs \cup {None} :
            conn' = [conn EXCEPT ![c] =
                      [@ EXCEPT !.at = IF s = None THEN "closed" ELSE "send",
                                !.to = s]]
      BY <1>4, <2>1 DEF FindConn
    <2>3. conn' \in [Conns -> ConnType]
      <3>1. PICK at \in {"closed", "send"} :
              conn' = [conn EXCEPT ![c] = [@ EXCEPT !.at = at, !.to = s]]
        BY <2>2
      <3> QED
        BY <2>a, <3>1, ZenonT(60) DEF ConnType
    <2>4. /\ conn'[c].at = IF s = None THEN "closed" ELSE "send"
          /\ conn'[c].to = s /\ \A d \in Conns \ {c} : conn'[d] = conn[d]
      BY <1>t, <2>2 DEF MuxTypeOK, ConnType
    <2>5. conn'[c].at # "queued" /\ (conn'[c].at = "send" => conn'[c].to \in Subs)
      BY <2>4
    <2> QED
      BY <1>4, <2>3, <2>4, <2>5, ConnMoves DEF FindConn
  <1>5. ASSUME NEW c \in Conns, HandOver(c)
        PROVE  MuxInv'
    <2>1. PICK s \in Subs : s = conn[c].to
      BY <1>5, <1>t DEF HandOver, MuxTypeOK
    <2>2. CASE UNCHANGED sub
      <3>1. PICK at \in {"closed", "panic", "queued"} :
              /\ conn' = [conn EXCEPT ![c].at = at]
              /\ at # "queued" \/ sub' = [sub EXCEPT ![s].backlog = Append(@, c)]
        BY <1>5, <2>1 DEF HandOver
      <3>2. at # "queued"
        <4> SUFFICES ASSUME sub = [sub EXCEPT ![s].backlog = Append(@, c)]
                     PROVE  FALSE
          BY <2>2, <3>1
        <4>1. sub[s].backlog = Append(sub[s].backlog, c)
          BY <1>t, <2>1 DEF MuxTypeOK, SubType
        <4>2. sub[s].backlog \in Seq(Conns)
          BY <1>t, <2>1 DEF MuxTypeOK, SubType
        <4> QED
          BY <4>1, <4>2, Len(sub[s].backlog) = Len(sub[s].backlog) + 1
      <3>3. conn' \in [Conns -> ConnType] /\ conn'[c].at = at
        BY <1>t, <3>1 DEF MuxTypeOK, ConnType
      <3>4. \A d \in Conns \ {c} : conn'[d] = conn[d]
        BY <1>t, <3>1 DEF MuxTypeOK
      <3> QED
        BY <1>5, <2>2, <3>2, <3>3, <3>4, ConnMoves DEF HandOver
    <2>3. CASE /\ ~sub[s].shut /\ Len(sub[s].backlog) < Backlog
               /\ sub' = [sub EXCEPT ![s].backlog = Append(@, c)]
               /\ conn' = [conn EXCEPT ![c].at = "queued"]
      <3>1. /\ sub'[s].backlog = Append(sub[s].backlog, c)
            /\ sub'[s].protos = sub[s].protos
            /\ sub'[s].shut = sub[s].shut /\ sub'[s].done = sub[s].done
            /\ sub'[s].by = sub[s].by /\ sub'[s].cleaned = sub[s].cleaned
            /\ sub'[s].burst = sub[s].burst /\ sub'[s].bare = sub[s].bare
            /\ \A t \in Subs \ {s} : sub'[t] = sub[t]
        BY <1>t, <2>1, <2>3 DEF MuxTypeOK, SubType
      <3>2. UNCHANGED <<muxSub, muxClosed, doomed>>
        BY <1>5 DEF HandOver
      <3>3. sub[s].backlog \in Seq(Conns) /\ Len(sub[s].backlog) \in Nat
        BY <1>t, <2>1 DEF MuxTypeOK, SubType
      <3>a. PICK q : q = Append(sub[s].backlog, c)
        OBVIOUS
      <3>b. q \in Seq(Conns) /\ Len(q) = Len(sub[s].backlog) + 1
        BY <3>a, <3>3
      <3>4. sub' \in [Subs -> SubType]
        BY <1>t, <2>1, <2>3, <3>a, <3>b, QueueTyped DEF MuxTypeOK
      <3>c. Len(sub'[s].backlog) <= Backlog
        BY <2>3, <3>1, <3>3, <3>a, <3>b
      <3>d. /\ conn' \in [Conns -> ConnType]
            /\ \A d \in Conns : conn'[d].to = conn[d].to
            /\ \A d \in Conns \ {c} : conn'[d] = conn[d]
        BY <1>t, <2>3 DEF MuxTypeOK, ConnType
      <3>e. \A d \in Conns : conn'[d].at \in {"send", "queued"}
                               => conn'[d].to \in Subs
        BY <1>t, <2>1, <3>d DEF MuxTypeOK
      <3>5. SubSound(s)'
        <4>1. SubSound(s)
          BY <2>1 DEF MuxInv
        <4> QED
          BY <3>1, <3>2, <4>1 DEF SubSound, Open
      <3>6. QueuedIsHeld'
        <4> SUFFICES ASSUME NEW d \in Conns, conn'[d].at = "queued"
                     PROVE  /\ ~sub'[conn'[d].to].shut
                            /\ \E i \in 1..Len(sub'[conn'[d].to].backlog) :
                                 sub'[conn'[d].to].backlog[i] = d
          BY DEF QueuedIsHeld
        <4>1. CASE d = c
          <5>1. conn'[d].to = s
            BY <2>1, <3>d, <4>1
          <5>2. /\ Len(sub[s].backlog) + 1 \in 1..Len(sub'[s].backlog)
                /\ sub'[s].backlog[Len(sub[s].backlog) + 1] = c
            BY <3>1, <3>3, <3>a, <3>b
          <5> QED
            BY <2>3, <3>1, <4>1, <5>1, <5>2
        <4>2. CASE d # c
          <5>1. conn'[d] = conn[d] /\ conn[d].to \in Subs
            BY <3>d, <3>e, <4>2
          <5>2. /\ ~sub[conn[d].to].shut
                /\ \E i \in 1..Len(sub[conn[d].to].backlog) :
                     sub[conn[d].to].backlog[i] = d
            BY <5>1 DEF MuxInv, QueuedIsHeld
          <5>3. CASE conn[d].to # s
            BY <3>1, <5>1, <5>2, <5>3
          <5>4. CASE conn[d].to = s
            <6>1. PICK i \in 1..Len(sub[s].backlog) : sub[s].backlog[i] = d
              BY <5>2, <5>4
            <6>2. i \in 1..Len(sub'[s].backlog) /\ sub'[s].backlog[i] = d
              BY <3>1, <3>3, <6>1
            <6> QED
              BY <2>3, <3>1, <5>1, <5>4, <6>2
          <5> QED
            BY <5>3, <5>4
        <4> QED
          BY <4>1, <4>2
      <3> QED
        <4> QED
          BY <2>1, <3>1, <3>2, <3>4, <3>c, <3>d, <3>e, <3>5, <3>6, SubMoves
    <2> QED
      BY <1>5, <2>1, <2>2, <2>3 DEF HandOver
  <1>6. ASSUME NEW s \in Subs, AcceptSub(s)
        PROVE  MuxInv'
    <2> DEFINE d == Head(sub[s].backlog)
    <2>1. /\ sub[s].backlog \in Seq(Conns) /\ sub[s].backlog # <<>>
          /\ d \in Conns /\ d = sub[s].backlog[1]
          /\ Tail(sub[s].backlog) \in Seq(Conns)
          /\ Len(Tail(sub[s].backlog)) = Len(sub[s].backlog) - 1
          /\ Len(sub[s].backlog) \in Nat \ {0}
          /\ \A i \in 1..(Len(sub[s].backlog) - 1) :
               Tail(sub[s].backlog)[i] = sub[s].backlog[i + 1]
      BY <1>6, <1>t DEF AcceptSub, MuxTypeOK, SubType
    <2>2. /\ sub'[s].backlog = Tail(sub[s].backlog)
          /\ sub'[s].protos = sub[s].protos
          /\ sub'[s].shut = sub[s].shut /\ sub'[s].done = sub[s].done
          /\ sub'[s].by = sub[s].by /\ sub'[s].cleaned = sub[s].cleaned
          /\ sub'[s].burst = sub[s].burst /\ sub'[s].bare = sub[s].bare
          /\ \A t \in Subs \ {s} : sub'[t] = sub[t]
      BY <1>6, <1>t DEF AcceptSub, MuxTypeOK, SubType
    <2>3. UNCHANGED <<muxSub, muxClosed, doomed>>
      BY <1>6 DEF AcceptSub
    <2>a. PICK q \in Seq(Conns) : q = Tail(sub[s].backlog)
      BY <2>1
    <2>b. sub' \in [Subs -> SubType]
      BY <1>6, <1>t, <2>a, QueueTyped DEF AcceptSub, MuxTypeOK
    <2>c. Len(sub[s].backlog) <= Backlog
      BY <1>t DEF MuxTypeOK
    <2>d. Len(sub'[s].backlog) <= Backlog
      BY <2>1, <2>2, <2>c
    <2>e. PICK h : h = d
      OBVIOUS
    <2>f. h \in Conns /\ conn' = [conn EXCEPT ![h].at = "given"]
      BY <1>6, <2>1, <2>e DEF AcceptSub
    <2>g. /\ conn' \in [Conns -> ConnType] /\ conn'[h].at = "given"
          /\ \A e \in Conns \ {h} : conn'[e] = conn[e]
      BY <1>t, <2>f DEF MuxTypeOK, ConnType
    <2>4. \A e \in Conns : conn'[e].at \in {"send", "queued"}
                             => conn'[e].to \in Subs
      BY <1>t, <2>g DEF MuxTypeOK
    <2>5. SubSound(s)'
      BY <2>2, <2>3 DEF MuxInv, SubSound, Open
    <2>6. QueuedIsHeld'
      <3> SUFFICES ASSUME NEW e \in Conns, conn'[e].at = "queued"
                   PROVE  /\ ~sub'[conn'[e].to].shut
                          /\ \E i \in 1..Len(sub'[conn'[e].to].backlog) :
                               sub'[conn'[e].to].backlog[i] = e
        BY DEF QueuedIsHeld
      <3>1. e # d /\ conn'[e] = conn[e]
        BY <2>e, <2>g
      <3>2. conn[e].to \in Subs
        BY <2>4, <3>1
      <3>3. ~sub[conn[e].to].shut
        BY <3>1 DEF MuxInv, QueuedIsHeld
      <3>4. PICK i \in 1..Len(sub[conn[e].to].backlog) :
              sub[conn[e].to].backlog[i] = e
        BY <3>1 DEF MuxInv, QueuedIsHeld
      <3>5. CASE conn[e].to = s
        <4>1. i # 1
          BY <2>1, <3>1, <3>4, <3>5
        <4>2. i - 1 \in 1..Len(sub'[s].backlog) /\ sub'[s].backlog[i - 1] = e
          BY <2>1, <2>2, <3>4, <3>5, <4>1
        <4> QED
          BY <2>2, <3>1, <3>3, <3>5, <4>2
      <3>6. CASE conn[e].to # s
        BY <2>2, <3>1, <3>2, <3>3, <3>4, <3>6
      <3> QED
        BY <3>5, <3>6
    <2> QED
      BY <2>2, <2>3, <2>b, <2>d, <2>g, <2>4, <2>5, <2>6, SubMoves
  <1>7. ASSUME NEW s \in Subs, NEW who \in Closers, CloseSub(s, who)
        PROVE  MuxInv'
    <2>1. /\ sub'[s].by = sub[s].by \cup {who}
          /\ sub'[s].backlog = sub[s].backlog
          /\ sub'[s].protos = sub[s].protos
          /\ sub'[s].shut = sub[s].shut /\ sub'[s].done = sub[s].done
          /\ sub'[s].cleaned = sub[s].cleaned
          /\ sub'[s].burst = sub[s].burst /\ sub'[s].bare = sub[s].bare
          /\ \A t \in Subs \ {s} : sub'[t] = sub[t]
      BY <1>7, <1>t DEF CloseSub, MuxTypeOK, SubType
    <2>2. UNCHANGED <<muxSub, muxClosed, doomed, conn>>
      BY <1>7 DEF CloseSub
    <2>a. sub' \in [Subs -> SubType]
      BY <1>7, <1>t DEF CloseSub, MuxTypeOK, SubType
    <2>3. /\ sub' \in [Subs -> SubType] /\ Len(sub'[s].backlog) <= Backlog
          /\ conn' \in [Conns -> ConnType]
          /\ \A c \in Conns : conn'[c].at \in {"send", "queued"}
                               => conn'[c].to \in Subs
      BY <1>t, <2>a, <2>1, <2>2 DEF MuxTypeOK
    <2>4. SubSound(s)'
      BY <1>7, <2>1, <2>2 DEF CloseSub, MuxInv, SubSound, Open, Closers
    <2>5. QueuedIsHeld'
      BY <2>1, <2>2, QueuesStay
    <2> QED
      BY <2>1, <2>2, <2>3, <2>4, <2>5, SubMoves
  <1>8. ASSUME NEW s \in Subs, NEW who \in Closers, CloseDone(s, who)
        PROVE  MuxInv'
    <2>1. /\ sub'[s].by = sub[s].by \ {who} /\ sub'[s].done = TRUE
          /\ sub'[s].burst = (sub[s].burst \/ sub[s].done)
          /\ sub'[s].bare = sub[s].bare /\ sub'[s].backlog = sub[s].backlog
          /\ sub'[s].protos = sub[s].protos
          /\ sub'[s].shut = sub[s].shut /\ sub'[s].cleaned = sub[s].cleaned
          /\ \A t \in Subs \ {s} : sub'[t] = sub[t]
      BY <1>8, <1>t, DoneDoes, ZenonT(60) DEF CloseDone, MuxTypeOK
    <2>2. UNCHANGED <<muxSub, muxClosed, doomed, conn>>
      BY <1>8 DEF CloseDone
    <2>a. sub' \in [Subs -> SubType]
      BY <1>8, <1>t, DoneDoes DEF CloseDone, MuxTypeOK
    <2>3. /\ sub' \in [Subs -> SubType] /\ Len(sub'[s].backlog) <= Backlog
          /\ conn' \in [Conns -> ConnType]
          /\ \A c \in Conns : conn'[c].at \in {"send", "queued"}
                               => conn'[c].to \in Subs
      BY <1>t, <2>a, <2>1, <2>2 DEF MuxTypeOK
    <2>4. SubSound(s)'
      <3>1. Open(s) /\ Open(s)'
        BY <1>8, <2>1 DEF CloseDone, MuxInv, SubSound, Open
      <3>2. ASSUME s \notin doomed
            PROVE  ~sub[s].done /\ ~sub[s].burst /\ sub[s].by \ {who} = {}
        BY <1>8, <1>t, <3>2
        DEF CloseDone, MuxInv, SubSound, Closers, MuxTypeOK, SubType
      <3>3. sub[s].bare => sub[s].shut
        BY DEF MuxInv, SubSound
      <3> QED
        BY <2>1, <2>2, <3>1, <3>2, <3>3 DEF SubSound
    <2>5. QueuedIsHeld'
      BY <2>1, <2>2, QueuesStay
    <2> QED
      BY <2>1, <2>2, <2>3, <2>4, <2>5, SubMoves
  <1>9. ASSUME NEW s \in Subs, DrainSub(s)
        PROVE  MuxInv'
    <2>1. /\ sub'[s].backlog = <<>> /\ sub'[s].shut = TRUE
          /\ sub'[s].by = sub[s].by /\ sub'[s].done = sub[s].done
          /\ sub'[s].burst = sub[s].burst /\ sub'[s].bare = sub[s].bare
          /\ sub'[s].protos = sub[s].protos
          /\ sub'[s].cleaned = sub[s].cleaned
          /\ \A t \in Subs \ {s} : sub'[t] = sub[t]
      BY <1>9, <1>t, ZenonT(60) DEF DrainSub, MuxTypeOK, SubType
    <2>2. UNCHANGED <<muxSub, muxClosed, doomed>>
      BY <1>9 DEF DrainSub
    <2>3. /\ conn' \in [Conns -> ConnType]
          /\ \A c \in Conns : \/ conn'[c] = conn[c]
                              \/ conn'[c].at = "closed"
      BY <1>9, <1>t DEF DrainSub, MuxTypeOK, ConnType
    <2>a. PICK q : q = <<>>
      OBVIOUS
    <2>b. q \in Seq(Conns)
      BY <2>a, EmptyQueue
    <2>c. sub' \in [Subs -> SubType]
      BY <1>9, <1>t, <2>a, <2>b, QueueTyped DEF DrainSub, MuxTypeOK
    <2>d. Len(sub'[s].backlog) <= Backlog
      BY <2>1
    <2>4. \A c \in Conns : conn'[c].at \in {"send", "queued"}
                             => conn'[c].to \in Subs
      BY <1>t, <2>3 DEF MuxTypeOK
    <2>5. SubSound(s)'
      BY <1>9, <2>1, <2>2 DEF DrainSub, MuxInv, SubSound, Open
    <2>6. QueuedIsHeld'
      <3> SUFFICES ASSUME NEW c \in Conns, conn'[c].at = "queued"
                   PROVE  /\ ~sub'[conn'[c].to].shut
                          /\ \E i \in 1..Len(sub'[conn'[c].to].backlog) :
                               sub'[conn'[c].to].backlog[i] = c
        BY DEF QueuedIsHeld
      <3>1. conn'[c] = conn[c]
        BY <2>3
      <3>2. conn[c].to \in Subs
        BY <2>4, <3>1
      <3>3. /\ ~sub[conn[c].to].shut
            /\ \E i \in 1..Len(sub[conn[c].to].backlog) :
                 sub[conn[c].to].backlog[i] = c
        BY <3>1 DEF MuxInv, QueuedIsHeld
      <3>4. conn[c].to # s
        <4> SUFFICES ASSUME conn[c].to = s
                     PROVE  FALSE
          OBVIOUS
        <4>1. conn'[c] = [conn[c] EXCEPT !.at = "closed"]
          BY <1>9, <3>3 DEF DrainSub
        <4>2. conn'[c].at = "closed"
          BY <1>t, <4>1 DEF MuxTypeOK, ConnType
        <4> QED
          BY <4>2
      <3> QED
        BY <2>1, <3>1, <3>2, <3>3, <3>4
    <2> QED
      BY <2>1, <2>2, <2>3, <2>c, <2>d, <2>4, <2>5, <2>6, SubMoves
  <1>10. ASSUME NEW s \in Subs, LeaveMux(s)
         PROVE  MuxInv'
    <2> DEFINE rest == [p \in AllProtos |->
                          IF muxSub[p] = s THEN None ELSE muxSub[p]]
    <2>0. rest \in [AllProtos -> Subs \cup {None}]
      BY <1>t DEF MuxTypeOK
    <2>1. /\ sub'[s].backlog = sub[s].backlog /\ sub'[s].shut = sub[s].shut
          /\ sub'[s].by = sub[s].by /\ sub'[s].done = sub[s].done
          /\ sub'[s].burst = sub[s].burst /\ sub'[s].bare = sub[s].bare
          /\ sub'[s].protos = sub[s].protos /\ sub'[s].cleaned = TRUE
          /\ \A t \in Subs \ {s} : sub'[t] = sub[t]
      BY <1>10, <1>t, ZenonT(60) DEF LeaveMux, MuxTypeOK, SubType
    <2>2. \/ CloseLocked(rest)
          \/ muxSub' = rest /\ UNCHANGED <<muxClosed, doomed>>
      BY <1>10 DEF LeaveMux
    <2>3. /\ muxSub' \in [AllProtos -> Subs \cup {None}]
          /\ \/ muxClosed' = TRUE /\ \A p \in AllProtos : muxSub'[p] = None
             \/ muxClosed' = muxClosed /\ muxSub' = rest
          /\ doomed \subseteq doomed' /\ doomed' \subseteq Subs
      <3> HIDE DEF rest
      <3> QED
        BY <1>t, <2>0, <2>2, CloseLockedStep DEF CloseLocked, MuxTypeOK
    <2>4. MuxTypeOK'
      <3>1. sub' \in [Subs -> SubType]
        BY <1>10, <1>t, ZenonT(60) DEF LeaveMux, MuxTypeOK, SubType
      <3>2. \A t \in Subs : sub'[t].backlog = sub[t].backlog
        BY <2>1
      <3>3. UNCHANGED conn /\ muxClosed' \in BOOLEAN
        BY <1>10, <1>t, <2>3 DEF LeaveMux, MuxTypeOK
      <3> QED
        BY <1>t, <2>3, <3>1, <3>2, <3>3 DEF MuxTypeOK
    <2>5. QueuedIsHeld'
      BY <1>10, <2>1, QueuesStay DEF LeaveMux
    <2>6. BoundListens'
      BY <1>t, <2>1, <2>3 DEF MuxInv, BoundListens, MuxTypeOK, Open
    <2>7. BoundIsOpen'
      <3> SUFFICES ASSUME NEW t \in Subs, Open(t)'
                   PROVE  LET bound == {p \in AllProtos : muxSub'[p] = t} IN
                          IF sub'[t].cleaned \/ muxClosed'
                          THEN bound = {} ELSE bound = sub'[t].protos
        BY DEF BoundIsOpen
      <3>1. CASE \A p \in AllProtos : muxSub'[p] = None
        <4>1. {p \in AllProtos : muxSub'[p] = t} = {}
          BY <3>1
        <4>2. \/ sub'[t].cleaned \/ muxClosed' 
              \/ t # s /\ muxClosed' = muxClosed /\ muxSub' = rest
          BY <2>1, <2>3
        <4>3. ASSUME t # s, muxClosed' = muxClosed, muxSub' = rest
              PROVE  IF sub'[t].cleaned \/ muxClosed'
                     THEN TRUE ELSE sub'[t].protos = {}
          <5>1. {p \in AllProtos : muxSub[p] = t} = {}
            BY <1>t, <3>1, <4>3 DEF MuxTypeOK
          <5> QED
            BY <2>1, <4>3, <5>1 DEF MuxInv, BoundIsOpen, Open
        <4> QED
          BY <4>1, <4>2, <4>3
      <3>2. CASE muxClosed' = muxClosed /\ muxSub' = rest
        <4>1. CASE t = s
          BY <2>1, <3>2, <4>1
        <4>2. CASE t # s
          <5>1. {p \in AllProtos : muxSub'[p] = t}
                  = {p \in AllProtos : muxSub[p] = t}
            BY <3>2, <4>2
          <5>2. Open(t)
            BY <2>1, <4>2 DEF Open
          <5> QED
            BY <2>1, <3>2, <4>2, <5>1, <5>2 DEF MuxInv, BoundIsOpen
        <4> QED
          BY <4>1, <4>2
      <3> QED
        BY <2>3, <3>1, <3>2
    <2>8. ASSUME NEW t \in Subs
          PROVE  SubSound(t)'
      <3>1. Open(s)
        BY <1>10 DEF LeaveMux, MuxInv, SubSound
      <3> QED
        BY <2>1, <2>3, <3>1, t = s \/ t # s DEF MuxInv, SubSound, Open
    <2> QED
      BY <2>4, <2>5, <2>6, <2>7, <2>8 DEF MuxInv
  <1>11. CASE CloseMux
    <2>1. muxSub \in [AllProtos -> Subs \cup {None}]
      BY <1>t DEF MuxTypeOK
    <2>2. /\ doomed \subseteq doomed' /\ doomed' \subseteq Subs /\ muxClosed'
          /\ muxSub' \in [AllProtos -> Subs \cup {None}]
          /\ \A p \in AllProtos : muxSub'[p] = None
      BY <1>11, <1>t, <2>1, CloseLockedStep DEF CloseMux
    <2>3. UNCHANGED <<sub, conn>> /\ muxClosed' = TRUE
      BY <1>11 DEF CloseMux, CloseLocked
    <2>4. MuxTypeOK'
      BY <1>t, <2>2, <2>3 DEF MuxTypeOK
    <2>5. QueuedIsHeld' /\ BoundListens'
      BY <2>2, <2>3 DEF MuxInv, QueuedIsHeld, BoundListens
    <2>6. BoundIsOpen'
      BY <2>2, <2>3 DEF BoundIsOpen
    <2>7. ASSUME NEW t \in Subs
          PROVE  SubSound(t)'
      BY <2>2, <2>3 DEF MuxInv, SubSound, Open
    <2> QED
      BY <2>4, <2>5, <2>6, <2>7 DEF MuxInv
  <1>12. ASSUME NEW s \in Subs, AcceptNil(s)
         PROVE  MuxInv'
    <2>1. /\ sub' \in [Subs -> SubType]
          /\ sub'[s].by = sub[s].by /\ sub'[s].backlog = sub[s].backlog
          /\ sub'[s].protos = sub[s].protos
          /\ sub'[s].shut = sub[s].shut /\ sub'[s].done = sub[s].done
          /\ sub'[s].cleaned = sub[s].cleaned
          /\ sub'[s].burst = sub[s].burst
          /\ \A t \in Subs \ {s} : sub'[t] = sub[t]
      BY <1>12, <1>t DEF AcceptNil, MuxTypeOK, SubType
    <2>2. UNCHANGED <<muxSub, muxClosed, doomed, conn>> /\ sub[s].shut
      BY <1>12 DEF AcceptNil
    <2>3. /\ Len(sub'[s].backlog) <= Backlog /\ conn' \in [Conns -> ConnType]
          /\ \A c \in Conns : conn'[c].at \in {"send", "queued"}
                               => conn'[c].to \in Subs
      BY <1>t, <2>1, <2>2 DEF MuxTypeOK
    <2>4. SubSound(s)'
      BY <2>1, <2>2 DEF MuxInv, SubSound, Open
    <2>5. QueuedIsHeld'
      BY <2>1, <2>2, QueuesStay
    <2> QED
      BY <2>1, <2>2, <2>3, <2>4, <2>5, SubMoves
  <1>13. CASE UNCHANGED muxVars
    BY <1>13
    DEF muxVars, MuxInv, MuxTypeOK, QueuedIsHeld, BoundIsOpen, BoundListens,
        SubSound, Open
  <1> QED
    BY <1>1, <1>2, <1>3, <1>4, <1>5, <1>6, <1>7, <1>8, <1>9, <1>10, <1>11,
       <1>12, <1>13
    DEF MuxNext, MuxSteps, MuxConn, MuxCloser, Closers

(* Only handing over panics, and nothing follows it.                       *)
LEMMA PanicStep ==
  MuxInv /\ PanicIsShut /\ [MuxNext]_muxVars => PanicIsShut'
  <1> SUFFICES ASSUME MuxInv, PanicIsShut, MuxNext
               PROVE  PanicIsShut'
    BY DEF PanicIsShut, muxVars
  <1>t. conn \in [Conns -> ConnType] /\ \A d \in Conns : conn[d].at # "panic"
    BY DEF MuxInv, MuxTypeOK, MuxNext, Crashed
  <1>1. ASSUME NEW c \in Conns, HandOver(c), conn'[c].at = "panic"
        PROVE  sub'[conn'[c].to].shut
    <2>1. sub[conn[c].to].shut /\ UNCHANGED sub
          /\ conn' = [conn EXCEPT ![c].at = "panic"]
      BY <1>t, <1>1 DEF HandOver, ConnType
    <2> QED
      BY <1>t, <2>1 DEF ConnType
  <1>2. ASSUME NEW c \in Conns, HandOver(c)
        PROVE  \A d \in Conns \ {c} : conn'[d] = conn[d]
    BY <1>t, <1>2 DEF HandOver
  <1>3. CASE \E c \in Conns : HandOver(c)
    BY <1>t, <1>1, <1>2, <1>3 DEF PanicIsShut
  <1>4. CASE \A d \in Conns : conn'[d].at # "panic"
    BY <1>4 DEF PanicIsShut
  <1>5. ASSUME NEW c \in Conns, NEW p \in Protos, AcceptConn(c, p)
        PROVE  \A d \in Conns : conn'[d].at # "panic"
    BY <1>t, <1>5 DEF AcceptConn
  <1>6. ASSUME NEW c \in Conns, Handshake(c)
        PROVE  \A d \in Conns : conn'[d].at # "panic"
    BY <1>t, <1>6 DEF Handshake, ConnType
  <1>7. ASSUME NEW c \in Conns, FindConn(c)
        PROVE  \A d \in Conns : conn'[d].at # "panic"
    <2>1. PICK at \in {"closed", "send"}, s \in Subs \cup {None} :
            conn' = [conn EXCEPT ![c] = [@ EXCEPT !.at = at, !.to = s]]
      <3>1. FindListener({conn[c].proto}) \subseteq Subs \cup {None}
        BY <1>t DEF MuxInv, MuxTypeOK, FindListener, ConnType, AllProtos
      <3> QED
        BY <1>7, <3>1 DEF FindConn
    <2> QED
      BY <1>t, <2>1 DEF ConnType
  <1>8. ASSUME NEW s \in Subs, AcceptSub(s)
        PROVE  \A d \in Conns : conn'[d].at # "panic"
    <2>1. PICK h : conn' = [conn EXCEPT ![h].at = "given"]
      BY <1>8 DEF AcceptSub
    <2> QED
      BY <1>t, <2>1 DEF ConnType
  <1>9. ASSUME NEW s \in Subs, DrainSub(s)
        PROVE  \A d \in Conns : conn'[d].at # "panic"
    BY <1>t, <1>9 DEF DrainSub, ConnType
  <1>10. CASE UNCHANGED conn
    BY <1>t, <1>10 DEF PanicIsShut
  <1> QED
    BY <1>3, <1>4, <1>5, <1>6, <1>7, <1>8, <1>9, <1>10
    DEF MuxNext, MuxSteps, MuxConn, MuxCloser, Listen, AcceptNil, CloseSub,
        CloseDone, LeaveMux, CloseMux

(* Whatever the order of accepting, handing over, listening and closing,   *)
(* with any protocols, connections and queue length: a queued connection   *)
(* is in a queue that is still to be drained, a protocol leads to an open  *)
(* sublistener, a double close needs the mux besides the user, and a send  *)
(* that panics or an Accept that returns nil needs a queue that is shut    *)
(* (Listen, handleConn, Accept, Close, closeLocked).                       *)
THEOREM MuxHolds == Spec => []MuxCorrect
  <1> DEFINE Both == MuxInv /\ PanicIsShut
  <1>1. Init => Both
    <2>1. MuxInit => PanicIsShut
      BY DEF MuxInit, PanicIsShut
    <2> QED
      BY <2>1, MuxInitInv DEF Init
  <1>2. Both /\ [Next]_vars => Both'
    <2>1. [Next]_vars => [MuxNext]_muxVars
      BY DEF Next, vars, muxVars
    <2> QED
      BY <2>1, MuxStep, PanicStep
  <1>3. Both => MuxTypeOK /\ QueuedIsHeld /\ BoundIsOpen /\ FailsOnlyClosing
    BY DEF MuxInv, SubSound, FailsOnlyClosing, PanicIsShut
  <1> QED
    BY <1>1, <1>2, <1>3, PTL DEF Spec, MuxCorrect

-----------------------------------------------------------------------------
(* The channels are closed once, with the mark they stand for, and a       *)
(* server that is marked alive and not dead took a write.                  *)
MarksSound ==
  /\ marks.readych = IF marks.ready THEN 1 ELSE 0
  /\ marks.donech = IF marks.done THEN 1 ELSE 0
  /\ marks.ready /\ ~marks.done => nats.js

(* Nothing belongs to a server that was not started; an Open that has one  *)
(* got past it when it was marked.                                         *)
OpenSound ==
  /\ nats.at = "off" => probe.at = "off" /\ ~nats.slot
  /\ gw.at \in {"connect", "create", "open"} /\ nats.at # "off" => marks.ready

(* An open connection is one that Close will find or has in hand, unless   *)
(* it came too late for it.                                                *)
ConnSound ==
  gw.conn = "open" => IF closer.at = "no" THEN gw.field
                      ELSE closer.at = "drain" \/ closer.raced

NodeInv == NodeTypeOK /\ LinksOnce /\ MarksSound /\ OpenSound /\ ConnSound

(* Before the start nothing is open and nothing is marked.                 *)
LEMMA NodeInitInv == NatsInit => NodeInv
  <1> SUFFICES ASSUME NatsInit
               PROVE  NodeInv
    OBVIOUS
  <1> USE NodeAssumption DEF NodeAssumption, NatsInit
  <1>a. /\ marks \in [ready : BOOLEAN, done : BOOLEAN, readych : 0..1,
                      donech : 0..1]
        /\ Buckets \in 0..Buckets
    OBVIOUS
  <1>b. gw \in [at : {"off", "select", "connect", "create", "open", "failed"},
               conn : {"none", "open", "closed"}, field : BOOLEAN,
               left : 0..Buckets]
    BY <1>a
  <1>1. NodeTypeOK
    BY <1>a, <1>b DEF NodeTypeOK
  <1>2. LinksOnce
    BY DEF LinksOnce
  <1>3. MarksSound /\ OpenSound /\ ConnSound
    BY DEF MarksSound, OpenSound, ConnSound
  <1> QED
    BY <1>1, <1>2, <1>3 DEF NodeInv

(* Marking is idempotent: a channel that is closed is not closed again.    *)
LEMMA Marked ==
  ASSUME NodeTypeOK, MarksSound
  PROVE  /\ MarkDead \in [ready : BOOLEAN, done : BOOLEAN,
                          readych : 0..1, donech : 0..1]
         /\ MarkAlive \in [ready : BOOLEAN, done : BOOLEAN,
                           readych : 0..1, donech : 0..1]
         /\ MarkDead.ready /\ MarkDead.done
         /\ MarkDead.readych = 1 /\ MarkDead.donech = 1
         /\ MarkAlive.ready /\ MarkAlive.readych = 1
         /\ MarkAlive.done = marks.done /\ MarkAlive.donech = marks.donech
  <1>1. /\ marks.ready \in BOOLEAN /\ marks.done \in BOOLEAN
        /\ marks \in [ready : BOOLEAN, done : BOOLEAN, readych : 0..1,
                      donech : 0..1]
        /\ marks.readych \in 0..1 /\ marks.donech \in 0..1
    BY DEF NodeTypeOK
  <1>2. PICK r, d \in 0..1 :
          /\ r = 1 /\ r = marks.readych + IF marks.ready THEN 0 ELSE 1
          /\ d = 1 /\ d = marks.donech + IF marks.done THEN 0 ELSE 1
    BY <1>1 DEF MarksSound
  <1>3. MarkDead = [ready |-> TRUE, done |-> TRUE, readych |-> r, donech |-> d]
    BY <1>2 DEF MarkDead
  <1>4. r = IF marks.ready THEN marks.readych ELSE marks.readych + 1
    BY <1>1, <1>2
  <1>5. MarkAlive = [marks EXCEPT !.ready = TRUE, !.readych = r]
    BY <1>1, <1>4 DEF MarkAlive
  <1> QED
    BY <1>1, <1>2, <1>3, <1>5

(* A node is linked to each cluster of its topology once.                  *)
LEMMA LinkedOnce ==
  ASSUME NEW t, NEW c \in t \cup {NoCluster}
  PROVE  LET l == Links(c, t)
         IN  /\ l.leaf \cup l.routes \cup l.gateways = t \ {NoCluster}
             /\ l.leaf \cap l.routes = {} /\ l.routes \cap l.gateways = {}
             /\ l.leaf \cap l.gateways = {}
  BY DEF Links

(* Every step of the server, its goroutines and the gateway keeps it.      *)
LEMMA NodeStep == NodeInv /\ [NatsNext]_natsVars => NodeInv'
  <1> SUFFICES ASSUME NodeInv, [NatsNext]_natsVars
               PROVE  NodeInv'
    OBVIOUS
  <1> USE NodeAssumption DEF NodeAssumption
  <1>1. ASSUME NEW t \in Topologies, NEW b \in BOOLEAN,
               NEW c \in t \cup {NoCluster}, StartServer(c, t, b)
        PROVE  NodeInv'
    <2>1. NodeTypeOK'
      BY <1>1, ZenonT(60) DEF StartServer, NodeInv, NodeTypeOK
    <2>2. LinksOnce'
      BY <1>1, LinkedOnce DEF StartServer, LinksOnce
    <2>3. MarksSound' /\ ConnSound'
      BY <1>1 DEF StartServer, NodeInv, NodeTypeOK, MarksSound, ConnSound
    <2>4. OpenSound'
      BY <1>1 DEF StartServer, NodeInv, NodeTypeOK, OpenSound
    <2> QED
      BY <2>1, <2>2, <2>3, <2>4 DEF NodeInv
  <1>2. ASSUME UNCHANGED <<links, marks, late, waiter, local, gw>>,
               NodeTypeOK', nats'.at = "off" <=> nats.at = "off",
               nats'.js = nats.js \/ nats'.js = TRUE,
               nats'.slot = nats.slot \/ nats'.slot = FALSE,
               probe'.at = "off" <=> probe.at = "off", ConnSound'
        PROVE  NodeInv'
    <2>1. LinksOnce' /\ MarksSound' /\ OpenSound'
      BY <1>2 DEF NodeInv, LinksOnce, MarksSound, OpenSound
    <2> QED
      BY <1>2, <2>1 DEF NodeInv
  <1> USE DEF NodeInv, NodeTypeOK, MarksSound, OpenSound
  <1>3. CASE NatsMoves
    <2>1. /\ nats' \in [at : {"off", "starting", "serving", "stopping", "down"},
                         js : BOOLEAN, slot : BOOLEAN, asked : BOOLEAN]
          /\ nats'.at = "off" <=> nats.at = "off"
          /\ nats'.js = nats.js \/ nats'.js = TRUE
          /\ nats'.slot = nats.slot
      <3>1. CASE nats.at = "starting" /\ nats' = [nats EXCEPT !.at = "serving"]
        BY <3>1
      <3>2. CASE nats.at = "serving" /\ nats' = [nats EXCEPT !.js = TRUE]
        BY <3>2
      <3> QED
        BY <1>3, <3>1, <3>2 DEF NatsMoves
    <2>2. NodeTypeOK' /\ ConnSound'
      BY <1>3, <2>1 DEF NatsMoves, ConnSound
    <2> QED
      BY <1>2, <1>3, <2>1, <2>2 DEF NatsMoves
  <1>4. CASE NatsStopped
    BY <1>2, <1>4 DEF NatsStopped, ConnSound
  <1>5. CASE TimeOut
    BY <1>5 DEF TimeOut, LinksOnce, ConnSound
  <1>6. CASE ProbeGivesUp
    BY <1>6, Marked DEF ProbeGivesUp, LinksOnce, ConnSound
  <1>7. CASE ProbeShutsDown
    BY <1>2, <1>7 DEF ProbeShutsDown, Shut, ConnSound
  <1>8. CASE ProbeConnects
    BY <1>2, <1>8 DEF ProbeConnects, ConnSound
  <1>9. CASE ProbeAsks
    BY <1>9, Marked DEF ProbeAsks, After, LinksOnce, ConnSound
  <1>10. CASE ProbeFails
    BY <1>2, <1>10 DEF ProbeFails, ConnSound
  <1>11. CASE WaiterMarks
    BY <1>11, Marked DEF WaiterMarks, LinksOnce, ConnSound
  <1>12. CASE WaiterCloses
    BY <1>12 DEF WaiterCloses, LinksOnce, ConnSound
  <1>13. CASE Accepting
    BY <1>13
    DEF Accepting, AcceptLocalFails, AcceptLocalPauses, LinksOnce, ConnSound
  <1>14. CASE OpenGateway
    BY <1>14 DEF OpenGateway, LinksOnce, ConnSound
  <1>15. CASE OpenCancelled
    BY <1>15 DEF OpenCancelled, LinksOnce, ConnSound
  <1>16. CASE OpenSelected
    BY <1>16 DEF OpenSelected, LinksOnce, ConnSound
  <1>17. CASE OpenConnects
    <2>1. CASE /\ gw' = [gw EXCEPT !.at = "create", !.conn = "open",
                                   !.field = TRUE]
               /\ closer' = [closer EXCEPT !.raced = closer.at # "no"]
      <3>1. /\ gw' \in [at : {"off", "select", "connect", "create", "open",
                               "failed"},
                         conn : {"none", "open", "closed"}, field : BOOLEAN,
                         left : 0..Buckets]
            /\ gw'.at = "create" /\ gw'.field = TRUE
        BY <2>1
      <3>2. /\ closer' \in [at : {"no", "drain", "shutdown", "wait", "closed"},
                             had : BOOLEAN, raced : BOOLEAN]
            /\ closer'.at = closer.at /\ closer'.raced = (closer.at # "no")
        BY <2>1
      <3>3. ConnSound'
        BY <3>1, <3>2 DEF ConnSound
      <3>4. NodeTypeOK' /\ MarksSound' /\ OpenSound' /\ LinksOnce'
        BY <1>17, <3>1, <3>2 DEF OpenConnects, LinksOnce
      <3> QED
        BY <3>3, <3>4
    <2>2. CASE gw' = [gw EXCEPT !.at = "failed"] /\ UNCHANGED closer
      BY <1>17, <2>2 DEF OpenConnects, LinksOnce, ConnSound
    <2> QED
      BY <1>17, <2>1, <2>2 DEF OpenConnects
  <1>18. CASE OpenCreates
    <2>1. PICK at \in {"open", "create", "failed"}, left \in 0..Buckets :
            gw' = [gw EXCEPT !.left = left, !.at = at]
      <3>1. CASE gw' = [gw EXCEPT !.at = "failed"]
        BY <3>1, gw' = [gw EXCEPT !.left = gw.left, !.at = "failed"]
      <3>2. CASE /\ gw.left > 0
                 /\ gw' = [gw EXCEPT !.left = @ - 1,
                              !.at = IF gw.left = 1 THEN "open" ELSE "create"]
        <4>1. gw.left - 1 \in 0..Buckets
          BY <3>2
        <4> QED
          BY <3>2, <4>1
      <3> QED
        BY <1>18, <3>1, <3>2 DEF OpenCreates
    <2>2. /\ gw' \in [at : {"off", "select", "connect", "create", "open",
                             "failed"},
                       conn : {"none", "open", "closed"}, field : BOOLEAN,
                       left : 0..Buckets]
          /\ gw'.at = at /\ gw'.field = gw.field /\ gw'.conn = gw.conn
      BY <2>1
    <2> QED
      BY <1>18, <2>2 DEF OpenCreates, LinksOnce, ConnSound
  <1>19. CASE CloseGateway
    <2>1. /\ gw' \in [at : {"off", "select", "connect", "create", "open",
                             "failed"},
                       conn : {"none", "open", "closed"}, field : BOOLEAN,
                       left : 0..Buckets]
          /\ gw'.at = gw.at /\ gw'.conn = gw.conn
      BY <1>19 DEF CloseGateway
    <2>2. /\ closer' \in [at : {"no", "drain", "shutdown", "wait", "closed"},
                           had : BOOLEAN, raced : BOOLEAN]
          /\ closer'.at = IF gw.field THEN "drain" ELSE "shutdown"
      <3>1. PICK at \in {"drain", "shutdown"}, had \in BOOLEAN :
              /\ at = IF gw.field THEN "drain" ELSE "shutdown"
              /\ had = gw.field
        OBVIOUS
      <3>2. closer' = [closer EXCEPT !.had = had, !.at = at]
        BY <1>19, <3>1 DEF CloseGateway
      <3> QED
        BY <3>1, <3>2
    <2>3. ConnSound'
      BY <1>19, <2>1, <2>2 DEF CloseGateway, ConnSound
    <2>4. NodeTypeOK' /\ MarksSound' /\ OpenSound' /\ LinksOnce'
      BY <1>19, <2>1, <2>2 DEF CloseGateway, LinksOnce
    <2> QED
      BY <2>3, <2>4
  <1>20. CASE CloseConn
    BY <1>20 DEF CloseConn, LinksOnce, ConnSound
  <1>21. CASE CloseShutsDown
    <2>1. /\ nats' \in [at : {"off", "starting", "serving", "stopping", "down"},
                         js : BOOLEAN, slot : BOOLEAN, asked : BOOLEAN]
          /\ nats'.at = "off" <=> nats.at = "off"
          /\ nats'.js = nats.js /\ nats'.slot = nats.slot
      <3>1. CASE UNCHANGED nats
        BY <3>1
      <3>2. CASE nats.slot /\ ~UNCHANGED nats
        <4>1. PICK at \in {"starting", "serving", "stopping", "down"} :
                nats' = [nats EXCEPT !.asked = TRUE, !.at = at]
          BY <1>21, <3>2, nats.at # "off" DEF CloseShutsDown
        <4> QED
          BY <3>2, <4>1
      <3> QED
        BY <1>21, <3>1, <3>2 DEF CloseShutsDown
    <2>2. /\ closer' \in [at : {"no", "drain", "shutdown", "wait", "closed"},
                           had : BOOLEAN, raced : BOOLEAN]
          /\ closer'.at # "no" /\ closer'.raced = closer.raced
      BY <1>21 DEF CloseShutsDown
    <2>3. NodeTypeOK' /\ ConnSound'
      BY <1>21, <2>1, <2>2 DEF CloseShutsDown, ConnSound
    <2> QED
      BY <1>2, <1>21, <2>1, <2>3 DEF CloseShutsDown
  <1>22. CASE CloseWaits
    <2>1. /\ nats' \in [at : {"off", "starting", "serving", "stopping", "down"},
                         js : BOOLEAN, slot : BOOLEAN, asked : BOOLEAN]
          /\ nats'.at = nats.at /\ nats'.js = nats.js
          /\ nats'.slot = nats.slot \/ nats'.slot = FALSE
      BY <1>22, ZenonT(60) DEF CloseWaits
    <2>2. /\ closer' \in [at : {"no", "drain", "shutdown", "wait", "closed"},
                           had : BOOLEAN, raced : BOOLEAN]
          /\ closer'.at = "closed" /\ closer'.raced = closer.raced
      BY <1>22, SMTT(30) DEF CloseWaits
    <2>3. NodeTypeOK' /\ ConnSound'
      BY <1>22, <2>1, <2>2 DEF CloseWaits, ConnSound
    <2> QED
      BY <1>2, <1>22, <2>1, <2>3, ZenonT(60) DEF CloseWaits
  <1>23. CASE UNCHANGED natsVars
    BY <1>23 DEF natsVars, LinksOnce, ConnSound
  <1> QED
    BY <1>1, <1>3, <1>4, <1>5, <1>6, <1>7, <1>8, <1>9, <1>10, <1>11, <1>12,
       <1>13, <1>14, <1>15, <1>16, <1>17, <1>18, <1>19, <1>20, <1>21, <1>22,
       <1>23
    DEF NatsNext, Probing, Waiting, Opening, Closing

(* It says enough about an Open that succeeded and a Close that returned.  *)
LEMMA NodeSafe == NodeInv => OpenIsUsable /\ ClosedHasNoConn
  BY DEF NodeInv, MarksSound, OpenSound, ConnSound, NodeTypeOK, OpenIsUsable,
         ClosedHasNoConn

(* For any topologies and any number of stores: a node has one link to     *)
(* each cluster, an Open that got past the wait has a server that took a   *)
(* write or is dead, and Close leaves no connection but one that was       *)
(* stored behind its back (StartServer, markAlive, Open, Close).           *)
THEOREM NodeHolds == Spec => []NodeCorrect
  <1>1. Init => NodeInv
    BY NodeInitInv DEF Init
  <1>2. NodeInv /\ [Next]_vars => NodeInv'
    <2>1. [Next]_vars => [NatsNext]_natsVars
      BY DEF Next, vars, natsVars
    <2> QED
      BY <2>1, NodeStep
  <1>3. NodeInv => NodeTypeOK /\ LinksOnce
    BY DEF NodeInv
  <1> QED
    BY <1>1, <1>2, <1>3, NodeSafe, PTL DEF Spec, NodeCorrect

-----------------------------------------------------------------------------
(* The list of peers (xpost/peerlist.go).                                  *)

(* The order of the numbers has no descent without end.                    *)
LEMMA LessIsWellFounded ==
  IsWellFoundedOn({ss \in Nat \X Nat : ss[1] < ss[2]}, Nat)
  BY NatLessThanWellFounded, Zenon DEF OpToRel

(* Numbers that are bounded have a greatest one: the one whose distance to *)
(* the bound is least.                                                     *)
LEMMA Greatest ==
  ASSUME NEW n \in Nat, NEW S, S \subseteq 1..n, S # {}
  PROVE  \E m \in S : \A x \in S : x <= m
  <1> DEFINE Less == {ss \in Nat \X Nat : ss[1] < ss[2]}
             D == {d \in Nat : n - d \in S}
  <1>1. \A x \in S : x \in Nat /\ n - x \in D
    OBVIOUS
  <1>2. \E d \in D : \A e \in D : ~(<<e, d>> \in Less)
    <2>1. D \subseteq Nat /\ D # {}
      BY <1>1
    <2> HIDE DEF Less, D
    <2> QED BY <2>1, LessIsWellFounded, WFMin DEF Less
  <1>3. \A x, y \in Nat : <<x, y>> \in Less <=> x < y
    OBVIOUS
  <1> HIDE DEF Less
  <1>4. PICK d \in D : \A e \in D : ~(e < d)
    BY <1>2, <1>3
  <1>5. n - d \in S /\ \A x \in S : ~(n - x < d)
    BY <1>1, <1>4
  <1> QED
    BY <1>1, <1>5

(* In a list sorted by heartbeat the last one of a host name is one of the *)
(* freshest.                                                               *)
LEMMA LastIsFreshest ==
  ASSUME NEW got, IsFiniteSet(got), NEW s \in Sorts(got), NEW p \in got,
         \A q \in got : q.beat \in Nat
  PROVE  \E q \in got : /\ Mappings(s)[HostOf[p.id]] = q.id
                        /\ HostOf[q.id] = HostOf[p.id]
                        /\ q.beat >= p.beat
  <1> DEFINE n == Cardinality(got)
             h == HostOf[p.id]
             last == CHOOSE i \in Of(s, h) : \A j \in Of(s, h) : j <= i
  <1>1. n \in Nat
    BY FS_CardinalityType
  <1>2. /\ s \in [1..n -> got] /\ \A q \in got : \E i \in 1..n : s[i] = q
        /\ \A i, j \in 1..n : i < j => s[i].beat <= s[j].beat
    BY DEF Sorts, Bijection, Surjection, Injection
  <1>3. PICK i \in 1..n : s[i] = p
    BY <1>2
  <1>4. i \in Of(s, h) /\ Of(s, h) \subseteq 1..n
    BY <1>2, <1>3 DEF Of
  <1>5. \E m \in Of(s, h) : \A j \in Of(s, h) : j <= m
    BY <1>1, <1>4, Greatest
  <1>6. last \in Of(s, h) /\ i <= last
    BY <1>4, <1>5
  <1>7. s[last] \in got /\ HostOf[s[last].id] = h
    BY <1>2, <1>6 DEF Of
  <1>8. h \in {HostOf[s[j].id] : j \in DOMAIN s}
    BY <1>2, <1>3
  <1>9. Mappings(s)[h] = s[last].id
    BY <1>8 DEF Mappings
  <1>10. s[last].beat >= p.beat
    <2>1. CASE i = last
      BY <1>3, <2>1
    <2>2. CASE i < last
      BY <1>2, <1>3, <1>4, <1>6, <1>7, <2>2
    <2> QED BY <1>1, <1>4, <1>6, <2>1, <2>2
  <1> QED BY <1>7, <1>9, <1>10

(* The latest stamp a node can have given: what its clock shows, or showed *)
(* when it closed.                                                         *)
Cap(m) == IF closing[m].at = "no" THEN now[m] ELSE closing[m].time

(* The record of a node and the heartbeat on its way there.                *)
KeyOk(m) ==
  /\ bucket[m] <= Cap(m) /\ flight[m] <= Cap(m)
  /\ flight[m] # 0 => bucket[m] <= flight[m]
  /\ closing[m].at # "no" /\ ~closing[m].raced => flight[m] = 0
  /\ closing[m].at = "closed" /\ ~closing[m].raced => bucket[m] = 0

(* What was read of a node is no newer than its stamps and, while it       *)
(* stays, no newer than its record.                                        *)
Seen(S) ==
  \A p \in S : /\ p.beat <= Cap(p.id)
               /\ closing[p.id].at = "no" => p.beat <= bucket[p.id]

(* An update still has to read, or has read as new, each node that stays   *)
(* and was in the list before.                                             *)
Covers(r) ==
  r.at = "get" =>
    \A p \in r.last : closing[p.id].at = "no" =>
      p.id \in r.todo \/ \E g \in r.got : g.id = p.id /\ g.beat >= p.beat

RecOk(r) ==
  /\ r \in PeerType /\ IsFiniteSet(r.got)
  /\ r.at # "get" => r.got = {}
  /\ r.at = "new" => ~r.up
  /\ Seen(r.got) /\ Seen(r.last) /\ Covers(r)

(* Only a node that stays is live or unopened.                             *)
Opens(m, r) == r.live \/ r.at = "new" => closing[m].at = "no"

ClosingType == [at : {"no", "purge", "closed", "failed"}, time : 0..MaxTime,
                raced : BOOLEAN]

PeersInv ==
  /\ bucket \in [Machines -> 0..MaxTime] /\ flight \in [Machines -> 0..MaxTime]
  /\ now \in [Machines -> 1..MaxTime]
  /\ closing \in [Machines -> ClosingType]
  /\ failures \in 0..MaxFailures
  /\ DOMAIN peer = Machines /\ peer = [n \in Machines |-> peer[n]]
  /\ \A n \in Machines : RecOk(peer[n]) /\ KeyOk(n) /\ Opens(n, peer[n])

(* Nobody has a list at first.                                             *)
LEMMA PeersStart == PeerInit => PeersInv
  <1> SUFFICES ASSUME PeerInit PROVE PeersInv
    OBVIOUS
  <1> USE PeersAssumption DEF PeersAssumption
  <1>1. RecOk(Away)
    <2>1. Away \in PeerType /\ Away.got = {} /\ Away.last = {} /\ Away.at = "new" /\ ~Away.up
      BY DEF Away, PeerType
    <2> QED BY <2>1, FS_EmptySet DEF RecOk, Seen, Covers
  <1>2. Staying \in ClosingType
    BY DEF Staying, ClosingType
  <1>3. \A n \in Machines : KeyOk(n)
    BY DEF PeerInit, KeyOk, Cap, Staying
  <1>4. \A n \in Machines : Opens(n, peer[n])
    BY DEF PeerInit, Opens, Staying
  <1> QED
    BY <1>1, <1>2, <1>3, <1>4 DEF PeerInit, PeersInv

(* A step that gives one peer a record of the right kind, and touches      *)
(* neither the bucket nor the clocks, keeps all in order.                  *)
LEMMA PeerSet ==
  ASSUME PeersInv, NEW n \in Machines, NEW r, RecOk(r), Opens(n, r),
         peer' = [peer EXCEPT ![n] = r], UNCHANGED <<bucket, now, closing>>,
         flight' \in [Machines -> 0..MaxTime],
         \A m \in Machines : KeyOk(m)',
         failures' \in 0..MaxFailures
  PROVE  PeersInv'
  <1>1. DOMAIN peer' = Machines /\ peer' = [m \in Machines |-> peer'[m]]
    BY DEF PeersInv
  <1>2. \A m \in Machines : peer'[m] = IF m = n THEN r ELSE peer[m]
    BY DEF PeersInv
  <1>3. ASSUME NEW x, RecOk(x)
        PROVE  RecOk(x)'
    BY <1>3 DEF RecOk, Seen, Covers, Cap
  <1>4. ASSUME NEW m \in Machines
        PROVE  RecOk(peer[m])' /\ Opens(m, peer[m])'
    <2>1. PICK x : x = peer'[m]
      OBVIOUS
    <2>2. RecOk(x) /\ Opens(m, x)
      BY <1>2, <2>1 DEF PeersInv
    <2>3. RecOk(x)' /\ Opens(m, x)'
      BY <1>3, <2>2 DEF Opens
    <2> QED BY <2>1, <2>3 DEF RecOk, Seen, Covers, Cap, Opens
  <1> QED
    BY <1>1, <1>4 DEF PeersInv

(* A record stays right when stamps only grow and no node comes back.      *)
LEMMA RecStays ==
  ASSUME PeersInv, NEW r, RecOk(r),
         \A m \in Machines :
           /\ Cap(m) \in Nat /\ Cap(m)' \in Nat /\ Cap(m) <= Cap(m)'
           /\ closing'[m].at = "no" => /\ closing[m].at = "no"
                                       /\ bucket[m] \in Nat /\ bucket'[m] \in Nat
                                       /\ bucket[m] <= bucket'[m]
  PROVE  RecOk(r)'
  <1>1. r.got \subseteq Sighting /\ r.last \subseteq Sighting
    BY DEF RecOk, PeerType
  <1>2. ASSUME NEW S, S \subseteq Sighting, Seen(S)
        PROVE  Seen(S)'
    <2>1. \A p \in S : p.id \in Machines /\ p.beat \in Nat
      BY <1>2 DEF Sighting
    <2> QED BY <1>2, <2>1 DEF Seen
  <1>3. Seen(r.got)' /\ Seen(r.last)'
    BY <1>1, <1>2 DEF RecOk
  <1>4. Covers(r)'
    <2>1. \A p \in r.last : p.id \in Machines
      BY <1>1 DEF Sighting
    <2> QED BY <2>1 DEF RecOk, Covers
  <1> QED
    BY <1>3, <1>4 DEF RecOk

(* What types say of stamps.                                               *)
LEMMA Stamps ==
  ASSUME PeersInv
  PROVE  /\ MaxTime \in Nat /\ MaxFailures \in Nat /\ Timeout \in Nat
         /\ \A m \in Machines :
              /\ bucket[m] \in 0..MaxTime /\ flight[m] \in 0..MaxTime
              /\ now[m] \in 1..MaxTime /\ closing[m].time \in 0..MaxTime
              /\ Cap(m) \in 0..MaxTime
  BY PeersAssumption DEF PeersAssumption, PeersInv, ClosingType, Cap

(* A failed update leaves a peer as it should be.                          *)
LEMMA FailedOk ==
  ASSUME PeersInv, NEW n \in Machines, Failed(n)
  PROVE  \E r : RecOk(r) /\ Opens(n, r) /\ peer' = [peer EXCEPT ![n] = r]
  <1>1. peer[n] \in PeerType /\ RecOk(peer[n]) /\ Opens(n, peer[n])
    BY DEF PeersInv, RecOk
  <1>2. PICK l, list, a :
          /\ l = Up(n) /\ list = (IF peer[n].up THEN peer[n].last ELSE {})
          /\ a = (IF Up(n) THEN "wait" ELSE "off")
    OBVIOUS
  <1>3. /\ l \in BOOLEAN /\ list \in SUBSET Sighting /\ a \in {"wait", "off"}
        /\ l => peer[n].live
    BY <1>1, <1>2 DEF PeerType, Up
  <1>4. PICK r : r = [peer[n] EXCEPT !.todo = {}, !.got = {}, !.at = a,
                                     !.live = l, !.last = list]
    OBVIOUS
  <1>5. peer' = [peer EXCEPT ![n] = r]
    BY <1>2, <1>4 DEF Failed
  <1>6. /\ r \in PeerType /\ r.got = {} /\ r.last = list /\ r.at = a
        /\ r.live = l
    BY <1>1, <1>3, <1>4 DEF PeerType
  <1>7. Seen({}) /\ Seen(list)
    BY <1>1, <1>2 DEF Seen, RecOk
  <1>8. RecOk(r)
    BY <1>3, <1>6, <1>7, FS_EmptySet DEF RecOk, Covers
  <1>9. Opens(n, r)
    BY <1>1, <1>3, <1>6 DEF Opens
  <1> QED
    BY <1>5, <1>8, <1>9

(* Sending a heartbeat, by a node that stays.                              *)
LEMMA SendOk ==
  ASSUME PeersInv, NEW n \in Machines, SendBeat(n), closing[n].at = "no",
         peer[n].at # "get", UNCHANGED <<bucket, now, closing, failures>>
  PROVE  PeersInv'
  <1>1. peer[n] \in PeerType /\ RecOk(peer[n])
    BY DEF PeersInv, RecOk
  <1>2. PICK b \in BOOLEAN : b = TRUE
    OBVIOUS
  <1>3. PICK r : r = [peer[n] EXCEPT !.at = "sent", !.live = b]
    OBVIOUS
  <1>4. peer' = [peer EXCEPT ![n] = r]
    BY <1>2, <1>3 DEF SendBeat
  <1>5. r \in PeerType /\ r.got = {} /\ r.last = peer[n].last /\ r.at = "sent"
    BY <1>1, <1>3 DEF PeerType, RecOk
  <1>6. RecOk(r) /\ Opens(n, r)
    <2>1. IsFiniteSet(r.got)
      BY <1>5, FS_EmptySet
    <2>2. Seen(r.got) /\ Seen(r.last) /\ Covers(r)
      BY <1>1, <1>5 DEF RecOk, Seen, Covers
    <2> QED BY <1>5, <2>1, <2>2 DEF RecOk, Opens
  <1>7. flight' \in [Machines -> 0..MaxTime]
    BY Stamps DEF SendBeat, PeersInv
  <1>8. ASSUME NEW m \in Machines
        PROVE  KeyOk(m)'
    <2>1. flight'[m] = IF m = n THEN now[n] ELSE flight[m]
      BY DEF SendBeat, PeersInv
    <2>2. KeyOk(m)
      BY DEF PeersInv
    <2>3. Cap(m)' = Cap(m)
      BY DEF Cap
    <2>4. CASE m = n
      BY <2>1, <2>2, <2>3, <2>4, Stamps DEF KeyOk, Cap
    <2>5. CASE m # n
      BY <2>1, <2>2, <2>3, <2>5 DEF KeyOk
    <2> QED BY <2>4, <2>5
  <1> QED
    BY <1>4, <1>6, <1>7, <1>8, PeerSet DEF PeersInv

(* A step that leaves the peers alone: stamps grow, records of nodes that  *)
(* stay do not go back.                                                    *)
LEMMA KeysMove ==
  ASSUME PeersInv, UNCHANGED peer, failures' \in 0..MaxFailures,
         bucket' \in [Machines -> 0..MaxTime],
         flight' \in [Machines -> 0..MaxTime],
         now' \in [Machines -> 1..MaxTime],
         closing' \in [Machines -> ClosingType],
         \A m \in Machines :
           /\ Cap(m)' \in Nat /\ Cap(m) <= Cap(m)'
           /\ closing'[m].at = "no" <=> closing[m].at = "no"
           /\ closing'[m].at = "no" => bucket[m] <= bucket'[m]
           /\ KeyOk(m)'
  PROVE  PeersInv'
  <1>1. \A m \in Machines :
          /\ Cap(m) \in Nat /\ Cap(m)' \in Nat /\ Cap(m) <= Cap(m)'
          /\ closing'[m].at = "no" => /\ closing[m].at = "no"
                                      /\ bucket[m] \in Nat /\ bucket'[m] \in Nat
                                      /\ bucket[m] <= bucket'[m]
    BY Stamps
  <1>2. ASSUME NEW n \in Machines
        PROVE  RecOk(peer[n])' /\ Opens(n, peer[n])'
    <2>1. PICK r : r = peer[n]
      OBVIOUS
    <2>2. RecOk(r)'
      BY <1>1, <2>1, RecStays DEF PeersInv
    <2>3. RecOk(peer[n])'
      BY <2>1, <2>2 DEF RecOk, Seen, Covers, Cap
    <2> QED BY <2>3 DEF PeersInv, Opens
  <1> QED
    BY <1>2 DEF PeersInv

(* Every step of an update, an Open, a Close and their failures keeps the  *)
(* lists in order and the closed gone.                                     *)
LEMMA PeersStep == PeersInv /\ [PeerNext]_peerVars => PeersInv'
  <1> SUFFICES ASSUME PeersInv, [PeerNext]_peerVars PROVE PeersInv'
    OBVIOUS
  <1>t. \A n \in Machines :
          /\ peer[n] \in PeerType /\ RecOk(peer[n]) /\ KeyOk(n)
          /\ Opens(n, peer[n])
    BY DEF PeersInv, RecOk
  <1>f. /\ flight \in [Machines -> 0..MaxTime] /\ bucket \in [Machines -> 0..MaxTime]
        /\ now \in [Machines -> 1..MaxTime] /\ closing \in [Machines -> ClosingType]
        /\ failures \in 0..MaxFailures
    BY DEF PeersInv
  <1>k. ASSUME UNCHANGED <<bucket, flight, now, closing>>
        PROVE  \A m \in Machines : KeyOk(m)'
    BY <1>t, <1>k DEF KeyOk, Cap
  <1>1. ASSUME NEW n \in Machines, ClockRuns(n) PROVE PeersInv'
    <2>1. now' \in [Machines -> 1..MaxTime]
      BY <1>f, <1>1, Stamps DEF ClockRuns
    <2>2. ASSUME NEW m \in Machines
          PROVE  Cap(m)' \in Nat /\ Cap(m) <= Cap(m)' /\ KeyOk(m)'
      <3>1. now'[m] \in Nat /\ now[m] <= now'[m]
        BY <1>f, <1>1, <2>1, Stamps DEF ClockRuns
      <3>2. Cap(m)' \in Nat /\ Cap(m) <= Cap(m)'
        BY <1>1, <3>1, Stamps DEF ClockRuns, Cap
      <3>3. KeyOk(m)
        BY <1>t
      <3>4. bucket[m] <= Cap(m)' /\ flight[m] <= Cap(m)'
        BY <3>2, <3>3, Stamps DEF KeyOk
      <3> QED BY <1>1, <3>2, <3>3, <3>4 DEF ClockRuns, KeyOk
    <2>3. \A m \in Machines : bucket[m] <= bucket[m]
      BY Stamps
    <2> QED BY <1>f, <1>1, <2>1, <2>2, <2>3, KeysMove DEF ClockRuns
  <1>2. ASSUME NEW n \in Machines, OpenPeers(n) PROVE PeersInv'
    BY <1>t, <1>2, SendOk DEF OpenPeers, Opens
  <1>3. ASSUME NEW n \in Machines, TickPeers(n) PROVE PeersInv'
    <2>1. CASE peer[n].live
      BY <1>t, <1>3, <2>1, SendOk DEF TickPeers, Opens
    <2>2. CASE ~peer[n].live
      <3>1. PICK r : r = [peer[n] EXCEPT !.at = "off"]
        OBVIOUS
      <3>2. peer' = [peer EXCEPT ![n] = r] /\ UNCHANGED <<bucket, flight, now, closing, failures>>
        BY <1>3, <2>2, <3>1 DEF TickPeers
      <3>3. /\ r \in PeerType /\ r.got = {} /\ r.last = peer[n].last
            /\ r.at = "off" /\ r.live = peer[n].live
        BY <1>t, <1>3, <3>1 DEF TickPeers, RecOk, PeerType
      <3>4. IsFiniteSet(r.got)
        BY <3>3, FS_EmptySet
      <3>5. RecOk(r) /\ Opens(n, r)
        BY <1>t, <2>2, <3>3, <3>4 DEF RecOk, Seen, Covers, Opens
      <3> QED BY <1>f, <1>k, <3>2, <3>5, PeerSet
    <2> QED BY <2>1, <2>2
  <1>4. ASSUME NEW n \in Machines, StoreBeat(n) PROVE PeersInv'
    <2>1. /\ bucket' \in [Machines -> 0..MaxTime] /\ flight' \in [Machines -> 0..MaxTime]
          /\ \A m \in Machines : /\ bucket'[m] = IF m = n THEN flight[n] ELSE bucket[m]
                                 /\ flight'[m] = IF m = n THEN 0 ELSE flight[m]
      BY <1>f, <1>4, Stamps DEF StoreBeat
    <2>2. ASSUME NEW m \in Machines
          PROVE  /\ Cap(m)' = Cap(m) /\ bucket[m] <= bucket'[m] /\ KeyOk(m)'
      <3>1. KeyOk(m) /\ Cap(m)' = Cap(m)
        BY <1>t, <1>4 DEF StoreBeat, Cap
      <3>2. CASE m = n
        <4>1. bucket'[m] = flight[m] /\ flight'[m] = 0 /\ flight[m] # 0
          BY <1>4, <2>1, <3>2 DEF StoreBeat
        <4> QED BY <1>4, <3>1, <4>1, Stamps DEF StoreBeat, KeyOk
      <3>3. CASE m # n
        <4>1. bucket'[m] = bucket[m] /\ flight'[m] = flight[m]
          BY <2>1, <3>3
        <4> QED BY <1>4, <3>1, <4>1, Stamps DEF StoreBeat, KeyOk
      <3> QED BY <3>1, <3>2, <3>3
    <2>3. \A m \in Machines : Cap(m)' \in Nat /\ Cap(m) <= Cap(m)'
      BY <2>2, Stamps
    <2> QED BY <1>f, <1>4, <2>1, <2>2, <2>3, KeysMove DEF StoreBeat
  <1>5. ASSUME NEW n \in Machines, ListKeys(n) PROVE PeersInv'
    <2>0. PICK keys \in SUBSET Machines : keys = {m \in Machines : bucket[m] # 0}
      OBVIOUS
    <2>1. PICK r : r = [peer[n] EXCEPT !.at = "get", !.todo = keys]
      OBVIOUS
    <2>2. peer' = [peer EXCEPT ![n] = r] /\ UNCHANGED <<bucket, flight, now, closing, failures>>
      BY <1>5, <2>0, <2>1 DEF ListKeys
    <2>3. /\ r \in PeerType /\ r.got = {} /\ r.last = peer[n].last
          /\ r.at = "get" /\ r.live = peer[n].live /\ r.todo = keys
      <3>1. peer[n] \in PeerType /\ peer[n].got = {}
        BY <1>t, <1>5 DEF ListKeys, RecOk
      <3> QED BY <2>1, <3>1 DEF PeerType
    <2>4. Covers(r)
      <3> SUFFICES ASSUME NEW p \in r.last, closing[p.id].at = "no"
                   PROVE  p.id \in keys
        BY <2>3 DEF Covers
      <3>1. p.id \in Machines /\ p.beat \in 1..MaxTime
        BY <1>t, <2>3 DEF PeerType, Sighting
      <3>2. p.beat <= bucket[p.id]
        BY <1>t, <2>3 DEF RecOk, Seen
      <3> QED BY <2>0, <3>1, <3>2, Stamps
    <2>5. RecOk(r) /\ Opens(n, r)
      <3>1. IsFiniteSet(r.got)
        BY <2>3, FS_EmptySet
      <3> QED BY <1>t, <2>3, <2>4, <3>1 DEF RecOk, Seen, Opens
    <2> QED BY <1>f, <1>k, <2>2, <2>5, PeerSet
  <1>6. ASSUME NEW n \in Machines, NEW m \in Machines, GetPeer(n, m) PROVE PeersInv'
    <2>1. CASE bucket[m] = 0
      <3>1. Failed(n) /\ UNCHANGED <<bucket, flight, now, closing, failures>>
        BY <1>6, <2>1 DEF GetPeer
      <3> QED BY <1>f, <1>k, <3>1, FailedOk, PeerSet
    <2>2. CASE bucket[m] # 0
      <3>0. PICK g : g = [id |-> m, beat |-> bucket[m]]
        OBVIOUS
      <3>a. PICK got, todo : got = peer[n].got \cup {g} /\ todo = peer[n].todo \ {m}
        OBVIOUS
      <3>1. PICK r : r = [peer[n] EXCEPT !.todo = todo, !.got = got]
        OBVIOUS
      <3>2. g \in Sighting /\ g.id = m /\ g.beat = bucket[m]
        BY <2>2, <3>0, Stamps DEF Sighting
      <3>3. peer[n].got \subseteq Sighting /\ peer[n].todo \subseteq Machines
            /\ IsFiniteSet(peer[n].got)
        BY <1>t DEF RecOk, PeerType
      <3>4. IsFiniteSet(got) /\ got \subseteq Sighting /\ todo \subseteq Machines
        BY <3>2, <3>3, <3>a, FS_AddElement
      <3>5. /\ r \in PeerType /\ r.got = got /\ r.last = peer[n].last
            /\ r.at = "get" /\ r.live = peer[n].live /\ r.todo = todo
        BY <1>t, <1>6, <3>1, <3>4 DEF GetPeer, PeerType
      <3>6. peer' = [peer EXCEPT ![n] = r] /\ UNCHANGED <<bucket, flight, now, closing, failures>>
        BY <1>6, <2>2, <3>0, <3>a, <3>1 DEF GetPeer
      <3>7. Seen(got)
        <4>1. Seen(peer[n].got)
          BY <1>t DEF RecOk
        <4>2. g.beat <= Cap(g.id) /\ g.beat <= bucket[g.id]
          BY <1>t, <3>2, Stamps DEF KeyOk
        <4> QED BY <3>a, <4>1, <4>2 DEF Seen
      <3>8. Covers(r)
        <4> SUFFICES ASSUME NEW p \in peer[n].last, closing[p.id].at = "no"
                     PROVE  p.id \in todo \/ \E x \in got : x.id = p.id /\ x.beat >= p.beat
          BY <3>5 DEF Covers
        <4>1. p.id \in peer[n].todo \/ \E x \in peer[n].got : x.id = p.id /\ x.beat >= p.beat
          BY <1>t, <1>6 DEF GetPeer, RecOk, Covers
        <4>2. p.beat <= bucket[p.id] /\ p.beat \in Nat
          BY <1>t DEF RecOk, Seen, PeerType, Sighting
        <4>3. CASE p.id = m
          BY <3>2, <3>a, <4>2, <4>3, Stamps
        <4>4. CASE p.id # m
          BY <3>a, <4>1, <4>4
        <4> QED BY <4>3, <4>4
      <3>9. RecOk(r) /\ Opens(n, r)
        BY <1>t, <3>4, <3>5, <3>7, <3>8 DEF RecOk, Opens
      <3> QED BY <1>f, <1>k, <3>6, <3>9, PeerSet
    <2> QED BY <2>1, <2>2
  <1>7. ASSUME NEW n \in Machines, RequestFails(n) PROVE PeersInv'
    <2>1. failures' \in 0..MaxFailures
      BY <1>7, <1>f, Stamps DEF RequestFails
    <2>2. /\ flight' \in [Machines -> 0..MaxTime]
          /\ \A m \in Machines : flight'[m] = flight[m] \/ flight'[m] = 0
      BY <1>7, <1>f, Stamps DEF RequestFails
    <2>3. UNCHANGED <<bucket, now, closing>> /\ Failed(n)
      BY <1>7 DEF RequestFails
    <2>4. ASSUME NEW m \in Machines
          PROVE  KeyOk(m)'
      <3>1. KeyOk(m) /\ Cap(m)' = Cap(m)
        BY <1>t, <2>3 DEF Cap
      <3>2. flight'[m] = flight[m] \/ flight'[m] = 0
        BY <2>2
      <3> QED BY <2>3, <3>1, <3>2, Stamps DEF KeyOk
    <2> QED BY <2>1, <2>2, <2>3, <2>4, FailedOk, PeerSet
  <1>8. ASSUME NEW n \in Machines, KeepList(n) PROVE PeersInv'
    <2>0. PICK b \in BOOLEAN : b = TRUE
      OBVIOUS
    <2>a. PICK list : list = IF peer[n].live THEN peer[n].got ELSE peer[n].last
      OBVIOUS
    <2>b. list \subseteq Sighting /\ Seen(list)
      BY <1>t, <2>a DEF RecOk, PeerType
    <2>c. PICK a \in {"wait", "off"} : a = IF peer[n].live THEN "wait" ELSE "off"
      OBVIOUS
    <2>1. PICK r : r = [peer[n] EXCEPT !.at = a, !.up = b, !.got = {}, !.last = list]
      OBVIOUS
    <2>2. /\ r \in PeerType /\ r.got = {} /\ r.last = list
          /\ r.at \in {"wait", "off"} /\ r.live = peer[n].live
      <3>1. peer[n] \in PeerType
        BY <1>t
      <3> QED BY <2>1, <2>b, <3>1 DEF PeerType
    <2>3. peer' = [peer EXCEPT ![n] = r] /\ UNCHANGED <<bucket, flight, now, closing, failures>>
      BY <1>8, <2>0, <2>a, <2>c, <2>1 DEF KeepList
    <2>4. IsFiniteSet(r.got) /\ Seen(r.got)
      BY <2>2, FS_EmptySet DEF Seen
    <2>5. RecOk(r) /\ Opens(n, r)
      BY <1>t, <2>2, <2>b, <2>4 DEF RecOk, Covers, Opens
    <2> QED BY <1>f, <1>k, <2>3, <2>5, PeerSet
  <1>9. ASSUME NEW n \in Machines, ClosePeers(n) PROVE PeersInv'
    <2>0. PICK b \in BOOLEAN : b = FALSE
      OBVIOUS
    <2>1. PICK r : r = [peer[n] EXCEPT !.live = b]
      OBVIOUS
    <2>2. /\ r \in PeerType /\ r.got = peer[n].got /\ r.last = peer[n].last
          /\ r.at = peer[n].at /\ r.todo = peer[n].todo /\ r.live = FALSE
          /\ r.up = peer[n].up
      <3>1. peer[n] \in PeerType
        BY <1>t
      <3> QED BY <2>0, <2>1, <3>1 DEF PeerType
    <2>3. RecOk(r)
      BY <1>t, <2>2 DEF RecOk, Covers
    <2>4. peer' = [peer EXCEPT ![n] = r] /\ UNCHANGED <<bucket, flight, now, failures>>
      BY <1>9, <2>0, <2>1 DEF ClosePeers
    <2>5. peer[n].at # "new"
      <3>1. peer[n].up => peer[n].at # "new"
        BY <1>t DEF RecOk
      <3> QED BY <1>9, <3>1 DEF ClosePeers
    <2>6. PICK z : z = [at |-> "purge", time |-> now[n], raced |-> flight[n] # 0]
      OBVIOUS
    <2>7. /\ z \in ClosingType /\ z.at = "purge" /\ z.time = now[n]
          /\ z.raced = (flight[n] # 0)
      BY <2>6, Stamps DEF ClosingType
    <2>8. /\ closing' \in [Machines -> ClosingType]
          /\ \A m \in Machines : closing'[m] = IF m = n THEN z ELSE closing[m]
      BY <1>f, <1>9, <2>6, <2>7 DEF ClosePeers
    <2>9. ASSUME NEW m \in Machines
          PROVE  /\ Cap(m)' = Cap(m) /\ KeyOk(m)'
                 /\ closing'[m].at = "no" => closing[m].at = "no"
      <3>1. CASE m = n
        <4>1. closing'[m] = z /\ closing[m].at = "no" /\ Cap(m) = now[m] /\ Cap(m)' = now[m]
          BY <1>9, <2>7, <2>8, <3>1 DEF ClosePeers, Cap
        <4> QED BY <1>t, <2>4, <2>7, <3>1, <4>1 DEF KeyOk
      <3>2. CASE m # n
        BY <1>t, <2>4, <2>8, <3>2 DEF KeyOk, Cap
      <3> QED BY <3>1, <3>2
    <2>10. ASSUME NEW x, RecOk(x)
           PROVE  RecOk(x)'
      BY <2>4, <2>9, <2>10, Stamps, RecStays
    <2>11. ASSUME NEW m \in Machines
           PROVE  RecOk(peer[m])' /\ Opens(m, peer[m])'
      <3>1. PICK x : x = peer'[m]
        OBVIOUS
      <3>2. x = IF m = n THEN r ELSE peer[m]
        BY <2>4, <3>1 DEF PeersInv
      <3>3. RecOk(x)'
        BY <1>t, <2>3, <2>10, <3>2
      <3>4. Opens(m, x)'
        BY <1>t, <2>2, <2>5, <2>8, <3>2 DEF Opens
      <3> QED BY <3>1, <3>3, <3>4 DEF RecOk, Seen, Covers, Cap, Opens
    <2>12. DOMAIN peer' = Machines /\ peer' = [m \in Machines |-> peer'[m]]
      BY <2>4 DEF PeersInv
    <2> QED BY <1>f, <2>4, <2>8, <2>9, <2>11, <2>12 DEF PeersInv
  <1>10. ASSUME NEW n \in Machines, Purging(n) PROVE PeersInv'
    <2>1. PICK a \in {"closed", "failed"} :
            /\ closing' = [closing EXCEPT ![n].at = a]
            /\ a = "closed" => bucket' = [bucket EXCEPT ![n] = 0]
      BY <1>10 DEF Purging, PurgePeer, PurgeFails
    <2>2. /\ closing[n].at = "purge" /\ UNCHANGED <<flight, now, peer>>
          /\ bucket' \in {bucket, [bucket EXCEPT ![n] = 0]}
          /\ failures' \in 0..MaxFailures
      BY <1>f, <1>10, Stamps DEF Purging, PurgePeer, PurgeFails
    <2>3. /\ bucket' \in [Machines -> 0..MaxTime]
          /\ \A m \in Machines : bucket'[m] = bucket[m] \/ (m = n /\ bucket'[m] = 0)
          /\ a = "closed" => bucket'[n] = 0
      BY <1>f, <2>1, <2>2, Stamps
    <2>4. /\ closing' \in [Machines -> ClosingType]
          /\ closing'[n].at = a /\ closing'[n].time = closing[n].time
          /\ closing'[n].raced = closing[n].raced
          /\ \A m \in Machines \ {n} : closing'[m] = closing[m]
      BY <1>f, <2>1 DEF ClosingType
    <2>5. ASSUME NEW m \in Machines
          PROVE  /\ Cap(m)' = Cap(m) /\ KeyOk(m)'
                 /\ closing'[m].at = "no" <=> closing[m].at = "no"
                 /\ closing'[m].at = "no" => bucket[m] <= bucket'[m]
      <3>1. CASE m = n
        <4>1. Cap(m)' = Cap(m)
          BY <2>2, <2>4, <3>1 DEF Cap
        <4>2. bucket'[m] = bucket[m] \/ bucket'[m] = 0
          BY <2>3
        <4>3. KeyOk(m)'
          BY <1>t, <2>2, <2>3, <2>4, <3>1, <4>1, <4>2, Stamps DEF KeyOk
        <4> QED BY <2>2, <2>4, <3>1, <4>1, <4>3
      <3>2. CASE m # n
        <4>1. bucket'[m] = bucket[m] /\ closing'[m] = closing[m]
          BY <2>3, <2>4, <3>2
        <4> QED BY <1>t, <2>2, <4>1, Stamps DEF KeyOk, Cap
      <3> QED BY <3>1, <3>2
    <2>6. \A m \in Machines : Cap(m)' \in Nat /\ Cap(m) <= Cap(m)'
      BY <2>5, Stamps
    <2> QED BY <1>f, <2>2, <2>3, <2>4, <2>5, <2>6, KeysMove
  <1>11. CASE UNCHANGED peerVars
    <2>1. \A m \in Machines : KeyOk(m)'
      BY <1>k, <1>11 DEF peerVars
    <2>2. ASSUME NEW m \in Machines
          PROVE  RecOk(peer[m])' /\ Opens(m, peer[m])'
      BY <1>t, <1>11 DEF peerVars, RecOk, Seen, Covers, Cap, Opens
    <2> QED BY <1>11, <2>1, <2>2 DEF peerVars, PeersInv
  <1> QED
    BY <1>1, <1>2, <1>3, <1>4, <1>5, <1>6, <1>7, <1>8, <1>9, <1>10, <1>11
    DEF PeerNext, Updating

(* It says that lists are of their type, names do not go back, and closed  *)
(* nodes are gone or fade.                                                 *)
LEMMA PeersSafe == PeersInv => PeersCorrect
  <1> SUFFICES ASSUME PeersInv PROVE PeersCorrect
    OBVIOUS
  <1>1. PeerTypeOK
    BY DEF PeersInv, RecOk, PeerTypeOK, ClosingType
  <1>2. ASSUME NEW n \in Machines, GotAll(n), NEW s \in Sorts(peer[n].got),
               NEW p \in peer[n].got \cup {x \in peer[n].last : closing[x.id].at = "no"}
        PROVE  \E q \in peer[n].got : /\ HostOf[q.id] = HostOf[p.id] /\ q.beat >= p.beat
                                      /\ Mappings(s)[HostOf[q.id]] = q.id
    <2>1. /\ IsFiniteSet(peer[n].got) /\ peer[n].got \subseteq Sighting
          /\ peer[n].last \subseteq Sighting /\ Covers(peer[n])
      BY DEF PeersInv, RecOk, PeerType
    <2>2. \A q \in peer[n].got \cup peer[n].last : q.beat \in Nat
      BY <2>1, PeersAssumption DEF Sighting, PeersAssumption
    <2>3. PICK g \in peer[n].got : g.id = p.id /\ g.beat >= p.beat
      BY <1>2, <2>1, <2>2 DEF GotAll, Covers
    <2>4. PICK q \in peer[n].got : /\ Mappings(s)[HostOf[g.id]] = q.id
                                   /\ HostOf[q.id] = HostOf[g.id] /\ q.beat >= g.beat
      BY <2>1, <2>2, LastIsFreshest
    <2> QED BY <2>2, <2>3, <2>4
  <1>3. NamesFreshest
    BY <1>2 DEF NamesFreshest
  <1>4. ClosedIsGone
    BY DEF PeersInv, KeyOk, ClosedIsGone
  <1>5. ASSUME NEW n \in Machines, NEW m \in Machines, closing[m].at # "no",
               m \in List(n, TRUE)
        PROVE  closing[m].time > now[n] - Timeout
    <2>1. PICK p \in peer[n].last : p.id = m /\ p.beat > now[n] - Timeout
      BY <1>5 DEF List
    <2>2. p.beat <= closing[m].time
      BY <1>5, <2>1 DEF PeersInv, RecOk, Seen, Cap
    <2>3. p.beat \in Nat
      BY <2>1, PeersAssumption DEF PeersInv, RecOk, PeerType, Sighting, PeersAssumption
    <2> QED BY <2>1, <2>2, <2>3, Stamps
  <1> QED
    BY <1>1, <1>3, <1>4, <1>5 DEF PeersCorrect, ClosedFades

(* For any number of machines, with clocks that differ as they may,        *)
(* however often requests and purges fail and whoever closes meanwhile: a  *)
(* host name does not go back to a machine with an older stamp; a node     *)
(* that closed is in the bucket only if a heartbeat was on its way when    *)
(* Close cancelled, and is listed as alive by none whose clock is past the *)
(* timeout (update, tick, List, Close).                                    *)
THEOREM PeersHold == Spec => []PeersCorrect
  <1>1. Init => PeersInv
    BY PeersStart DEF Init
  <1>2. PeersInv /\ [Next]_vars => PeersInv'
    <2>1. [Next]_vars => [PeerNext]_peerVars
      BY DEF Next, vars, peerVars
    <2> QED BY <2>1, PeersStep
  <1> QED
    BY <1>1, <1>2, PeersSafe, PTL DEF Spec
=============================================================================
