----------------------------- MODULE KvRegister -----------------------------
(***************************************************************************)
(* What /kv/{key} promises: a value that is read, written and swapped in   *)
(* one step each.  A key that is not there has the value Null.  A swap     *)
(* whose reply got lost may be made again; a call may fail at any time.    *)
(***************************************************************************)
CONSTANTS Callers, Values, Null

VARIABLES
  cell,   (* the value *)
  op      (* per caller: [at, expected, desired, value] *)

regVars == <<cell, op>>

NoOp == [at |-> "idle", expected |-> Null, desired |-> Null, value |-> Null]

RegInit == cell = Null /\ op = [c \in Callers |-> NoOp]

Becomes(c, at, value) ==
  op' = [op EXCEPT ![c] = [at |-> at, expected |-> op[c].expected,
                           desired |-> op[c].desired, value |-> value]]

Ask(c) ==
  /\ op[c].at = "idle"
  /\ \E e, d \in Values, k \in {"get", "cas"} :
       op' = [op EXCEPT ![c] = [at |-> k, expected |-> e, desired |-> d,
                                value |-> Null]]
  /\ UNCHANGED cell

Read(c) ==
  op[c].at = "get" /\ Becomes(c, "read", cell) /\ UNCHANGED cell

Swap(c) ==
  /\ op[c].at = "cas" /\ cell = op[c].expected
  /\ cell' = op[c].desired /\ Becomes(c, "swapped", Null)

Differs(c) ==
  /\ op[c].at = "cas" /\ cell # op[c].expected
  /\ Becomes(c, "differs", cell) /\ UNCHANGED cell

LosesReply(c) ==
  op[c].at = "swapped" /\ Becomes(c, "cas", Null) /\ UNCHANGED cell

Errs(c) ==
  op[c].at \in {"get", "cas"} /\ Becomes(c, "error", Null) /\ UNCHANGED cell

Write == cell' \in Values /\ UNCHANGED op

RegNext ==
  \/ Write
  \/ \E c \in Callers : \/ Ask(c) \/ Read(c) \/ Swap(c) \/ Differs(c)
                        \/ LosesReply(c) \/ Errs(c)

RegSpec == RegInit /\ [][RegNext]_regVars
=============================================================================
