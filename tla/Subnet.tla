------------------------------- MODULE Subnet -------------------------------
(***************************************************************************)
(* The allocator of loopback addresses for service instances               *)
(* (subnet/allocator.go): candidates come from a counter, an address is    *)
(* taken under the lock and tried by listening on it.                      *)
(***************************************************************************)
EXTENDS Integers

CONSTANTS
  Addresses,   (* number of addresses in the subnet                         *)
  Takers,      (* goroutines that allocate                                  *)
  Tries,       (* attempts of Allocate: 64 in the code                      *)
  MaxSteps     (* BOUND: candidates generated                               *)

ASSUME SubnetAssumption == Addresses \in Nat \ {0}

VARIABLES
  stepCount,   (* step                                                      *)
  taken,       (* addresses that are taken                                  *)
  taker,       (* [k -> [at, ip, tries]]                                    *)
  leaked       (* history: addresses on which listening failed              *)

subnetVars == <<stepCount, taken, taker, leaked>>

Free == [at |-> "off", ip |-> 0, tries |-> 0]

SubnetInit ==
  /\ stepCount = 1 /\ taken = {} /\ taker = [k \in Takers |-> Free]
  /\ leaked = {}

(* Generate: the counter within the mask; it comes round.                  *)
Allocate(k) ==
  /\ \/ taker[k].at = "off"
     \/ taker[k].at = "try" /\ taker[k].tries < Tries
  /\ stepCount < MaxSteps /\ stepCount' = stepCount + 1
  /\ taker' = [taker EXCEPT ![k] =
                 [at |-> "check", ip |-> (stepCount + 1) % Addresses,
                  tries |-> IF taker[k].at = "off" THEN 1 ELSE @.tries + 1]]
  /\ UNCHANGED <<taken, leaked>>

(* Look and take, under the lock.                                          *)
CheckTaken(k) ==
  /\ taker[k].at = "check"
  /\ taken' = taken \cup {taker[k].ip}
  /\ taker' = [taker EXCEPT ![k].at = IF taker[k].ip \in taken THEN "try"
                                      ELSE "listen"]
  /\ UNCHANGED <<stepCount, leaked>>

(* Listen; on failure the next candidate, and the address stays taken.     *)
TryListen(k, ok) ==
  /\ taker[k].at = "listen"
  /\ taker' = [taker EXCEPT ![k].at = IF ok THEN "has" ELSE "try"]
  /\ leaked' = IF ok THEN leaked ELSE leaked \cup {taker[k].ip}
  /\ UNCHANGED <<stepCount, taken>>

NoAddress(k) ==
  /\ taker[k].at = "try" /\ taker[k].tries = Tries
  /\ taker' = [taker EXCEPT ![k] = Free] /\ UNCHANGED <<stepCount, taken, leaked>>

(* AllocateContext: when the context of the instance ends.                 *)
Deallocate(k) ==
  /\ taker[k].at = "has" /\ taken' = taken \ {taker[k].ip}
  /\ taker' = [taker EXCEPT ![k] = Free] /\ UNCHANGED <<stepCount, leaked>>

SubnetNext ==
  \E k \in Takers :
    \/ Allocate(k) \/ CheckTaken(k) \/ NoAddress(k) \/ Deallocate(k)
    \/ \E ok \in BOOLEAN : TryListen(k, ok)

-----------------------------------------------------------------------------
Holds(k) == taker[k].at \in {"listen", "has"}

(* An address has one holder although the candidates come round, and what  *)
(* is taken is held, or was lost when listening on it failed (Allocate     *)
(* does not give it back).                                                 *)
AddressesExact ==
  /\ \A k, l \in Takers : Holds(k) /\ Holds(l) /\ taker[k].ip = taker[l].ip
                            => k = l
  /\ \A a \in taken \ leaked : \E k \in Takers : Holds(k) /\ taker[k].ip = a
  /\ \A k \in Takers : Holds(k) => taker[k].ip \in taken
=============================================================================
