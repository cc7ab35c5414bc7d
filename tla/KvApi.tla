-------------------------------- MODULE KvApi -------------------------------
(***************************************************************************)
(* The key-value API over one key of a JetStream bucket: every entry has a *)
(* revision, Update takes the one it replaces.  /kv/{key}/cas compares,    *)
(* updates and begins again when somebody was faster.                      *)
(***************************************************************************)
EXTENDS Integers

CONSTANTS
  Callers,    (* requests in progress                                       *)
  Values,     (* values, Null among them                                    *)
  Null,       (* "null"                                                     *)
  MaxStep,    (* the 16 of the loop                                         *)
  MaxRev,     (* BOUND: revisions                                           *)
  MaxLost     (* BOUND: requests or replies that get lost                   *)

ASSUME KvAssumption ==
  Null \in Values /\ MaxStep \in Nat /\ MaxRev \in Nat /\ MaxLost \in Nat

VARIABLES
  entry,   (* the key: [there, value, rev]; rev is that of the last write   *)
  kv,      (* per caller: [at, kind, expected, desired, value, rev, step]   *)
  lost     (* number of lost messages                                       *)

kvVars == <<entry, kv, lost>>

NoCall == [at |-> "idle", kind |-> "get", expected |-> Null,
           desired |-> Null, value |-> Null, rev |-> 0, step |-> 0]
Answers == {"read", "ok", "differs", "error"}

(* Every variable has its type; no call makes more turns than the loop has.*)
KvTypeOK ==
  /\ entry \in [there : BOOLEAN, value : Values, rev : 0..MaxRev]
  /\ kv \in [Callers -> [at : {"idle", "get", "create", "again", "update",
                               "reply", "reget"} \cup Answers,
                         kind : {"get", "cas"}, expected : Values,
                         desired : Values, value : Values, rev : 0..MaxRev,
                         step : 0..MaxStep]]
  /\ lost \in 0..MaxLost

KvInit ==
  /\ entry = [there |-> FALSE, value |-> Null, rev |-> 0]
  /\ kv = [c \in Callers |-> NoCall] /\ lost = 0

-----------------------------------------------------------------------------
(* The bucket.                                                             *)

Stores(v) ==
  /\ entry.rev < MaxRev
  /\ entry' = [there |-> TRUE, value |-> v, rev |-> entry.rev + 1]

Purges ==
  /\ entry.rev < MaxRev
  /\ entry' = [there |-> FALSE, value |-> Null, rev |-> entry.rev + 1]

(* PUT: Update with a revision, or Create.  POST: Put.  DELETE: Purge.     *)
PutRevision(v) ==
  /\ entry.rev # 0 /\ Stores(v) /\ UNCHANGED <<kv, lost>>
PutNew(v) ==
  /\ ~entry.there /\ Stores(v) /\ UNCHANGED <<kv, lost>>
Post(v) ==
  /\ Stores(v) /\ UNCHANGED <<kv, lost>>
Delete ==
  /\ Purges /\ UNCHANGED <<kv, lost>>

-----------------------------------------------------------------------------
(* getKeyState, for GET and for cas.                                       *)

CallKv(c) ==
  /\ kv[c].at = "idle"
  /\ \E e, d \in Values, k \in {"get", "cas"} :
       kv' = [kv EXCEPT ![c] = [at |-> "get", kind |-> k, expected |-> e,
                                desired |-> d, value |-> Null, rev |-> 0,
                                step |-> 0]]
  /\ UNCHANGED <<entry, lost>>

To(c, place) == kv' = [kv EXCEPT ![c].at = place]

(* The value is compared as soon as it is known.                           *)
Got(c, step) ==
  kv' = [kv EXCEPT ![c] =
          [@ EXCEPT !.value = entry.value, !.rev = entry.rev,
                    !.step = step,
                    !.at = IF kv[c].kind = "get" THEN "read"
                           ELSE IF entry.value = kv[c].expected THEN "update"
                           ELSE "differs"]]

GetState(c) ==
  /\ kv[c].at \in {"get", "again"}
  /\ IF entry.there THEN Got(c, 0)
     ELSE To(c, IF kv[c].at = "get" THEN "create" ELSE "error")
  /\ UNCHANGED <<entry, lost>>

(* The key is created with null; whether that works is not asked.          *)
CreateNull(c) ==
  /\ kv[c].at = "create" /\ To(c, "again")
  /\ IF entry.there THEN UNCHANGED entry ELSE Stores(Null)
  /\ UNCHANGED lost

-----------------------------------------------------------------------------
(* The loop of cas.                                                        *)

(* MUTANT: the value is put without its revision.                          *)
UpdatePuts(c) ==
  /\ kv[c].at = "update" /\ Stores(kv[c].desired) /\ To(c, "reply")
  /\ UNCHANGED lost

(* kv.Update                                                               *)
Update(c) ==
  /\ kv[c].at = "update"
  /\ IF entry.rev = kv[c].rev
     THEN Stores(kv[c].desired) /\ To(c, "reply")
     ELSE UNCHANGED entry /\ To(c, "reget")
  /\ UNCHANGED lost

Reply(c) ==
  /\ kv[c].at = "reply" /\ To(c, "ok") /\ UNCHANGED <<entry, lost>>

(* The request or its reply is lost, and Update reports a timeout.         *)
Lose(c) ==
  /\ lost < MaxLost /\ lost' = lost + 1
  /\ \/ kv[c].at \in {"update", "reply"} /\ To(c, "reget")
     \/ kv[c].at \in {"get", "again", "reget"} /\ To(c, "error")
  /\ UNCHANGED entry

(* Another revision is tried, unless the key is gone, nothing has changed  *)
(* or the turns are used up.                                               *)
Reget(c) ==
  /\ kv[c].at = "reget"
  /\ IF entry.there /\ entry.rev # kv[c].rev /\ kv[c].step < MaxStep
     THEN Got(c, kv[c].step + 1)
     ELSE To(c, "error")
  /\ UNCHANGED <<entry, lost>>

CompareAndSwap(c) ==
  GetState(c) \/ CreateNull(c) \/ Update(c) \/ Reply(c) \/ Reget(c)

KvNext ==
  \/ Delete \/ \E v \in Values : PutRevision(v) \/ PutNew(v) \/ Post(v)
  \/ \E c \in Callers : CallKv(c) \/ CompareAndSwap(c) \/ Lose(c)

KvSpec == KvInit /\ [][KvNext]_kvVars

-----------------------------------------------------------------------------
(* The calls as the register sees them.                                    *)
AsOp(c) ==
  [at |-> CASE kv[c].at \in {"idle", "read", "differs", "error"} -> kv[c].at
            [] kv[c].at \in {"reply", "ok"} -> "swapped"
            [] OTHER -> kv[c].kind,
   expected |-> kv[c].expected, desired |-> kv[c].desired,
   value |-> IF kv[c].at \in {"read", "differs"} THEN kv[c].value ELSE Null]

Register == INSTANCE KvRegister
              WITH cell <- entry.value, op <- [c \in Callers |-> AsOp(c)]

(* The loop is one atomic compare-and-swap: an answer that it was made or  *)
(* that the value differs is true of one moment of the call, with writers, *)
(* deletions and other calls in between any two of its requests.  A lost   *)
(* reply makes it begin again, with what it wrote itself (cas).            *)
CasIsAtomic == []KvTypeOK /\ Register!RegSpec
=============================================================================
