------------------------- MODULE LoadBalancer_proofs ------------------------
(***************************************************************************)
(* What a request is given and what it holds, for any number of upstreams, *)
(* requests and retries.                                                   *)
(***************************************************************************)
EXTENDS LoadBalancer, FiniteSetTheorems, WellFoundedInduction, TLAPS

-----------------------------------------------------------------------------
(* Least and greatest members, and where a walk along the list ends.       *)

(* The order of the naturals is well founded.                              *)
LEMMA LessIsWellFounded ==
  IsWellFoundedOn({ss \in Nat \X Nat : ss[1] < ss[2]}, Nat)
  BY NatLessThanWellFounded, Zenon DEF OpToRel

(* A set of naturals has a least member ...                                *)
LEMMA Least ==
  ASSUME NEW S, S \subseteq Nat, S # {}
  PROVE  \E m \in S : \A x \in S : m <= x
  <1> DEFINE Less == {ss \in Nat \X Nat : ss[1] < ss[2]}
  <1>1. \E m \in S : \A x \in S : ~(<<x, m>> \in Less)
    <2> HIDE DEF Less
    <2> QED
      BY LessIsWellFounded, WFMin DEF Less
  <1>2. \A x, m \in Nat : <<x, m>> \in Less <=> x < m
    OBVIOUS
  <1>3. \A x \in S : x \in Nat
    OBVIOUS
  <1>4. PICK m \in S : \A x \in S : ~(<<x, m>> \in Less)
    BY <1>1
  <1> HIDE DEF Less
  <1>5. \A x \in S : ~(x < m)
    BY <1>2, <1>3, <1>4
  <1> QED
    BY <1>3, <1>5

(* ... and a bounded one a greatest member.                                *)
LEMMA Greatest ==
  ASSUME NEW n \in Nat, NEW S, S \subseteq 0..n, S # {}
  PROVE  \E m \in S : \A x \in S : x <= m
  <1> DEFINE T == {t \in Nat : n - t \in S}
  <1>1. \A x \in S : n - x \in T
    OBVIOUS
  <1>2. PICK t \in T : \A y \in T : t <= y
    BY <1>1, Least
  <1> QED
    BY <1>1, <1>2

(* The walk of getHealthyIdxLocked ends at one of its positions.           *)
LEMMA WalkEnds ==
  ASSUME NEW k \in Nat, NEW C, C \subseteq 1..k, C # {}, NEW n \in Nat
  PROVE  Walk(C, n) \in C
  <1> DEFINE Reached == {i \in C : Cardinality({j \in C : j < i}) <= n}
  <1>0. C \subseteq Nat /\ \A i \in C : i \in 1..k
    OBVIOUS
  <1>1. PICK m \in C : \A x \in C : m <= x
    BY <1>0, Least
  <1>2. {j \in C : j < m} = {}
    <2>1. \A j \in C : ~(j < m)
      BY <1>0, <1>1
    <2> QED
      BY <2>1
  <1>3. m \in Reached
    <2>1. Cardinality({j \in C : j < m}) = 0
      BY <1>2, FS_EmptySet
    <2> QED
      BY <2>1
  <1>4. \E i \in Reached : \A j \in Reached : j <= i
    <2>1. Reached \subseteq C /\ Reached # {}
      BY <1>3
    <2>2. C \subseteq 0..k
      BY <1>0
    <2> HIDE DEF Reached
    <2>3. Reached \subseteq 0..k
      BY <2>1, <2>2
    <2> QED
      BY <2>1, <2>3, Greatest
  <1> QED
    BY <1>4 DEF Walk

(* The choice of least-conn is one of the healthy upstreams, if any.       *)
LEMMA BestIsHealthy ==
  ASSUME LbTypeOK, HealthyAt # {}
  PROVE  \E i \in HealthyAt : BestByLoad = list[i]
  <1> DEFINE L == {load[list[i]] : i \in HealthyAt}
             Rank(i, j) == \/ load[list[i]] < load[list[j]]
                           \/ load[list[i]] = load[list[j]] /\ i <= j
  <1>1. HealthyAt \subseteq Nat /\ \A i \in HealthyAt : load[list[i]] \in Nat
    BY DEF LbTypeOK, HealthyAt
  <1>2. L \subseteq Nat /\ L # {}
    BY <1>1
  <1>3. PICK l \in L : \A x \in L : l <= x
    <2> HIDE DEF L
    <2> QED
      BY <1>2, Least
  <1> DEFINE M == {i \in HealthyAt : load[list[i]] = l}
  <1>4. M \subseteq Nat /\ M # {}
    BY <1>1, <1>3
  <1>5. PICK i \in M : \A j \in M : i <= j
    <2> HIDE DEF M
    <2> QED
      BY <1>4, Least
  <1>6. i \in HealthyAt /\ \A j \in HealthyAt : Rank(i, j)
    BY <1>1, <1>3, <1>5
  <1> QED
    BY <1>6 DEF BestByLoad

-----------------------------------------------------------------------------
(* The inductive invariant: no upstream is listed twice, and the depth of  *)
(* the stack follows the retries that were consumed: what is on it, and    *)
(* what is about to be put there, fits the attempts.                       *)

ListedOnce == \A i, j \in DOMAIN list : list[i] = list[j] => i = j

DepthFits(r) ==
  /\ pc[r] = "serve" => bad[r] \in Upstreams
  /\ pc[r] \in {"new", "pick", "next", "index", "serve", "wait"} =>
       Len(held[r]) <= step[r] /\ step[r] <= RetryAttempts
  /\ pc[r] \in {"upstream", "error", "consume"} =>
       Len(held[r]) <= step[r] + 1 /\ step[r] <= RetryAttempts
  /\ Len(held[r]) <= RetryAttempts + 1

LbIInv == LbTypeOK /\ ListedOnce /\ (\A r \in Calls : DepthFits(r)) /\ LoadExact

(* A list without repetition is no longer than the set it is taken from.   *)
LEMMA ListFits ==
  ASSUME NEW l \in Seq(Upstreams),
         \A i, j \in DOMAIN l : l[i] = l[j] => i = j
  PROVE  Len(l) <= Cardinality(Upstreams)
  <1>1. l \in Injection(1..Len(l), Upstreams)
    BY DEF Injection, IsInjective
  <1>2. Cardinality(1..Len(l)) <= Cardinality(Upstreams)
    BY <1>1, FS_Injection, BalancerAssumption DEF BalancerAssumption
  <1>3. Len(l) \in Nat
    OBVIOUS
  <1>4. Cardinality(1..Len(l)) = Len(l)
    BY <1>3, FS_Interval, SMTT(60)
  <1> QED
    BY <1>2, <1>4

(* The head of a list that is not empty is an upstream.                    *)
LEMMA FirstListed ==
  ASSUME LbTypeOK, Len(list) = 1 \/ Len(list) > 1
  PROVE  list[1] \in Upstreams
  <1>0. Len(list) \in Nat
    BY DEF LbTypeOK
  <1>1. 1 \in 1..Len(list)
    BY <1>0
  <1>2. \A i \in 1..Len(list) : list[i] \in Upstreams
    BY DEF LbTypeOK
  <1> QED
    BY <1>1, <1>2, Zenon

(* There are no more healthy places in the list than upstreams.            *)
LEMMA HealthyFits ==
  ASSUME LbTypeOK
  PROVE  /\ HealthyAt \subseteq 1..Len(list)
         /\ Cardinality(HealthyAt) \in Nat
         /\ Cardinality(HealthyAt) <= Cardinality(Upstreams)
         /\ Cardinality(Upstreams) \in Nat
         /\ \A i \in HealthyAt : list[i] \in Upstreams /\ healthy[list[i]]
  <1>1. HealthyAt \subseteq 1..Len(list) /\ Len(list) \in Nat
    BY DEF LbTypeOK, HealthyAt
  <1>2. IsFiniteSet(1..Len(list)) /\ Cardinality(1..Len(list)) = Len(list)
    BY <1>1, FS_Interval
  <1>3. IsFiniteSet(HealthyAt) /\ Cardinality(HealthyAt) <= Len(list)
    BY <1>1, <1>2, FS_Subset
  <1>4. Cardinality(HealthyAt) \in Nat /\ Cardinality(Upstreams) \in Nat
    BY <1>3, FS_CardinalityType, BalancerAssumption DEF BalancerAssumption
  <1> QED
    BY <1>1, <1>3, <1>4 DEF LbTypeOK, HealthyAt

(* What getHealthyIdxLocked returns: a healthy upstream that did not just  *)
(* fail, and the one that failed, or nothing, only without such a one.     *)
LEMMA IndexedPick ==
  ASSUME LbTypeOK, NEW n \in Nat, NEW b \in Maybe
  PROVE  \/ /\ getHealthyIdxLocked(n, b) \in Upstreams
            /\ healthy[getHealthyIdxLocked(n, b)]
            /\ getHealthyIdxLocked(n, b) # b
         \/ getHealthyIdxLocked(n, b) = b /\ Better(b) = {}
  <1> DEFINE C == {i \in HealthyAt : list[i] # b}
  <1>1. CASE C = {}
    BY <1>1 DEF getHealthyIdxLocked, Better, Listed, HealthyAt
  <1>2. CASE C # {}
    <2>1. C \subseteq 1..Len(list) /\ Len(list) \in Nat
      BY HealthyFits DEF LbTypeOK
    <2>2. Walk(C, n) \in C
      <3> HIDE DEF C
      <3> QED
        BY <1>2, <2>1, WalkEnds
    <2>3. getHealthyIdxLocked(n, b) = list[Walk(C, n)]
      BY <1>2 DEF getHealthyIdxLocked
    <2> QED
      BY <2>2, <2>3, HealthyFits
  <1> QED
    BY <1>1, <1>2

-----------------------------------------------------------------------------
(* The frames on the stacks.                                               *)

(* The frames that count for an upstream can be counted.                   *)
LEMMA FramesFinite ==
  ASSUME NEW u
  PROVE  IsFiniteSet(Frames(u)) /\ Cardinality(Frames(u)) \in Nat
  <1>1. IsFiniteSet(Calls \X (1..(RetryAttempts + 1)))
    <2>1. IsFiniteSet(1..(RetryAttempts + 1))
      BY BalancerAssumption, FS_Interval DEF BalancerAssumption
    <2>2. IsFiniteSet(Calls)
      BY BalancerAssumption DEF BalancerAssumption
    <2> QED
      BY <2>1, <2>2, FS_Product
  <1>2. Frames(u) \in SUBSET (Calls \X (1..(RetryAttempts + 1)))
    BY DEF Frames
  <1> QED
    BY <1>1, <1>2, FS_Subset, FS_CardinalityType

(* A call adds one frame, of its own upstream.                             *)
LEMMA FrameAdded ==
  ASSUME LbTypeOK, NEW r \in Calls, NEW b \in Upstreams,
         Len(held[r]) <= RetryAttempts,
         held' = [held EXCEPT ![r] = Append(@, b)], NEW u \in Upstreams
  PROVE  Cardinality(Frames(u))' =
           IF u = b THEN Cardinality(Frames(u)) + 1 ELSE Cardinality(Frames(u))
  <1> DEFINE top == <<r, Len(held[r]) + 1>>
  <1>1. /\ Len(held[r]) \in Nat /\ Len(held[r]) + 1 \in 1..(RetryAttempts + 1)
        /\ DOMAIN held[r] = 1..Len(held[r])
    BY BalancerAssumption DEF BalancerAssumption, LbTypeOK
  <1>2. /\ held'[r] = Append(held[r], b)
        /\ DOMAIN held'[r] = 1..(Len(held[r]) + 1)
        /\ \A q \in Calls : q # r => held'[q] = held[q]
    BY DEF LbTypeOK
  <1>3. \A i \in 1..Len(held[r]) : held'[r][i] = held[r][i]
    BY <1>2 DEF LbTypeOK
  <1>4. held'[r][Len(held[r]) + 1] = b
    BY <1>2 DEF LbTypeOK
  <1>5. top \notin Frames(u)
    BY <1>1 DEF Frames
  <1>6. ASSUME NEW q \in Calls, NEW i \in 1..(RetryAttempts + 1)
        PROVE  <<q, i>> \in Frames(u)' <=>
                 <<q, i>> \in Frames(u) \/ (u = b /\ <<q, i>> = top)
    <2>1. CASE q # r
      BY <1>2, <2>1 DEF Frames
    <2>2. CASE q = r
      BY <1>1, <1>2, <1>3, <1>4, <2>2 DEF Frames
    <2> QED
      BY <2>1, <2>2
  <1>7. top \in Calls \X (1..(RetryAttempts + 1))
    BY <1>1
  <1>8. /\ Frames(u) \subseteq Calls \X (1..(RetryAttempts + 1))
        /\ Frames(u)' \subseteq Calls \X (1..(RetryAttempts + 1))
    BY DEF Frames
  <1>9. Frames(u)' = IF u = b THEN Frames(u) \cup {top} ELSE Frames(u)
    <2> HIDE DEF top
    <2>1. \A f \in Calls \X (1..(RetryAttempts + 1)) :
            f \in Frames(u)' <=> f \in Frames(u) \/ (u = b /\ f = top)
      BY <1>6
    <2>2. \A f : f \in Frames(u)' <=> f \in Frames(u) \/ (u = b /\ f = top)
      BY <1>7, <1>8, <2>1
    <2> QED
      BY <2>2
  <1> HIDE DEF top
  <1> QED
    BY <1>5, <1>9, FramesFinite, FS_AddElement

(* A return removes the last frame, of the upstream it was made for.       *)
LEMMA FrameRemoved ==
  ASSUME LbTypeOK, NEW r \in Calls, held[r] # <<>>,
         Len(held[r]) <= RetryAttempts + 1,
         held' = [held EXCEPT ![r] = SubSeq(@, 1, Len(@) - 1)],
         NEW u \in Upstreams
  PROVE  /\ Cardinality(Frames(u))' =
              IF u = FrameUpstream(r) THEN Cardinality(Frames(u)) - 1
              ELSE Cardinality(Frames(u))
         /\ Cardinality(Frames(u))' \in Nat
  <1> DEFINE top == <<r, Len(held[r])>>
  <1>1. /\ Len(held[r]) \in 1..(RetryAttempts + 1)
        /\ DOMAIN held[r] = 1..Len(held[r])
    BY BalancerAssumption DEF BalancerAssumption, LbTypeOK
  <1>2. /\ held'[r] = SubSeq(held[r], 1, Len(held[r]) - 1)
        /\ DOMAIN held'[r] = 1..(Len(held[r]) - 1)
        /\ \A q \in Calls : q # r => held'[q] = held[q]
    BY <1>1 DEF LbTypeOK
  <1>3. \A i \in 1..(Len(held[r]) - 1) : held'[r][i] = held[r][i]
    BY <1>1, <1>2 DEF LbTypeOK
  <1>4. top \in Frames(u) <=> u = FrameUpstream(r)
    BY <1>1 DEF Frames, FrameUpstream
  <1>5. ASSUME NEW q \in Calls, NEW i \in 1..(RetryAttempts + 1)
        PROVE  <<q, i>> \in Frames(u)' <=> <<q, i>> \in Frames(u) /\ <<q, i>> # top
    <2>1. CASE q # r
      BY <1>2, <2>1 DEF Frames
    <2>2. CASE q = r
      BY <1>1, <1>2, <1>3, <2>2 DEF Frames
    <2> QED
      BY <2>1, <2>2
  <1>6. /\ Frames(u) \subseteq Calls \X (1..(RetryAttempts + 1))
        /\ Frames(u)' \subseteq Calls \X (1..(RetryAttempts + 1))
    BY DEF Frames
  <1>7. Frames(u)' = Frames(u) \ {top}
    <2> HIDE DEF top
    <2> QED
      BY <1>5, <1>6
  <1> HIDE DEF top
  <1> QED
    BY <1>4, <1>7, FramesFinite, FS_RemoveElement, FS_CardinalityType

-----------------------------------------------------------------------------
(* The invariant is inductive.                                             *)

(* It holds before the first request.                                      *)
LEMMA LbInitInv == LbInit => LbIInv
  <1> SUFFICES ASSUME LbInit
               PROVE  LbIInv
    OBVIOUS
  <1> USE BalancerAssumption DEF BalancerAssumption, LbInit
  <1>1. Cardinality(Upstreams) \in Nat
    BY FS_CardinalityType
  <1>2. LbTypeOK
    BY <1>1 DEF LbTypeOK, Maybe
  <1>3. \A u \in Upstreams : Frames(u) = {}
    BY DEF Frames
  <1>4. LoadExact
    BY <1>3, FS_EmptySet DEF LoadExact
  <1> QED
    BY <1>2, <1>4 DEF LbIInv, ListedOnce, DepthFits

(* A new list: its members are upstreams, each of them once.               *)
LEMMA ListStep ==
  ASSUME LbIInv, list' \in Seq(Upstreams),
         \A i, j \in DOMAIN list' : list'[i] = list'[j] => i = j,
         UNCHANGED <<healthy, load, sticky>>, UNCHANGED reqVars
  PROVE  LbIInv'
  <1>1. Len(list') <= Cardinality(Upstreams)
    BY ListFits
  <1>2. LbTypeOK'
    BY <1>1 DEF LbIInv, LbTypeOK, reqVars
  <1>3. ListedOnce' /\ (\A r \in Calls : DepthFits(r))' /\ LoadExact'
    BY DEF LbIInv, ListedOnce, DepthFits, LoadExact, Frames, reqVars
  <1> QED
    BY <1>2, <1>3 DEF LbIInv

(* A step of request r that is no call and no return.                      *)
LEMMA RequestStep ==
  ASSUME LbIInv, LbTypeOK', NEW r \in Calls, DepthFits(r)',
         \A q \in Calls : q # r => pc'[q] = pc[q] /\ bad'[q] = bad[q]
                                     /\ step'[q] = step[q],
         UNCHANGED <<list, load, held>>
  PROVE  LbIInv'
  BY DEF LbIInv, ListedOnce, DepthFits, LoadExact, Frames

(* A call that is given an upstream, or none, keeps it.                    *)
LEMMA PickedStep ==
  ASSUME LbIInv, NEW r \in Calls, NEW u \in Maybe, Picked(r, u),
         pc[r] \in {"next", "index"},
         index' \in [Calls -> 0..Cardinality(Upstreams)],
         UNCHANGED <<list, healthy, load, held, step, cancelled>>
  PROVE  LbIInv'
  <1>1. LbTypeOK'
    BY DEF LbIInv, LbTypeOK, Picked, Goto, Maybe, CompareAndSwap
  <1>2. DepthFits(r)'
    BY BalancerAssumption
    DEF LbIInv, LbTypeOK, DepthFits, Picked, Goto, Maybe, BalancerAssumption
  <1> QED
    BY <1>1, <1>2, RequestStep DEF LbIInv, LbTypeOK, Picked, Goto

(* NextUpstream, case by case.                                             *)
LEMMA NextStep ==
  ASSUME LbIInv, NEW r \in Calls, NextUpstream(r)
  PROVE  LbIInv'
  <1> USE DEF LbIInv
  <1>1. pc[r] = "next" /\ UNCHANGED <<list, healthy, load, held, step, cancelled>>
    BY DEF NextUpstream
  <1>2. ASSUME NEW u \in Maybe, Picked(r, u), UNCHANGED index
        PROVE  LbIInv'
    BY <1>1, <1>2, PickedStep DEF LbTypeOK
  <1>3. CASE list = <<>> /\ Picked(r, NoUpstream) /\ UNCHANGED index
    BY <1>2, <1>3 DEF Maybe
  <1>4. CASE Len(list) = 1 /\ Picked(r, list[1]) /\ UNCHANGED index
    <2>1. list[1] \in Upstreams
      BY <1>4, FirstListed
    <2> QED
      BY <1>2, <1>4, <2>1 DEF Maybe
  <1>5. CASE Len(list) > 1 /\ Picked(r, BestByLoad) /\ UNCHANGED index
    <2>1. BestByLoad \in Upstreams
      <3>1. CASE HealthyAt = {}
        BY <1>5, <3>1, FirstListed DEF BestByLoad
      <3>2. CASE HealthyAt # {}
        BY <3>2, BestIsHealthy, HealthyFits
      <3> QED
        BY <3>1, <3>2
    <2> QED
      BY <1>2, <1>5, <2>1 DEF Maybe
  <1>6. CASE HealthyAt = {} /\ Picked(r, NoUpstream) /\ UNCHANGED index
    BY <1>2, <1>6 DEF Maybe
  <1>7. CASE /\ \E i \in HealthyAt : HealthyAt = {i} /\ Picked(r, list[i])
             /\ UNCHANGED index
    BY <1>2, <1>7, HealthyFits DEF Maybe
  <1>8. CASE /\ Cardinality(HealthyAt) > 1
             /\ \E n \in 0..(Cardinality(HealthyAt) - 1) :
                  index' = [index EXCEPT ![r] = n]
             /\ Goto(r, "index")
             /\ UNCHANGED <<bad, sticky>>
    <2>1. PICK n \in 0..(Cardinality(HealthyAt) - 1) :
            index' = [index EXCEPT ![r] = n]
      BY <1>8
    <2>2. n \in 0..Cardinality(Upstreams)
      BY HealthyFits
    <2>3. LbTypeOK'
      BY <1>1, <1>8, <2>1, <2>2 DEF LbTypeOK, Goto
    <2>4. DepthFits(r)'
      BY <1>1, <1>8 DEF LbTypeOK, Goto, DepthFits
    <2> QED
      BY <1>1, <1>8, <2>3, <2>4, RequestStep DEF LbTypeOK, Goto
  <1> QED
    BY <1>3, <1>4, <1>5, <1>6, <1>7, <1>8 DEF NextUpstream

(* Upstream.ServeHTTP: the stack and the load factor grow together.        *)
LEMMA EnterStep ==
  ASSUME LbIInv, NEW r \in Calls, Enter(r)
  PROVE  LbIInv'
  <1> USE DEF LbIInv
  <1>1. bad[r] \in Upstreams /\ Len(held[r]) \in Nat /\ step[r] \in Nat
        /\ Len(held[r]) <= step[r] /\ step[r] <= RetryAttempts
        /\ RetryAttempts \in Nat
    BY BalancerAssumption DEF BalancerAssumption, Enter, DepthFits, LbTypeOK
  <1>2. held' = [held EXCEPT ![r] = Append(@, bad[r])]
    BY DEF Enter
  <1>3. LbTypeOK'
    BY <1>1, <1>2 DEF Enter, Goto, LbTypeOK
  <1>4. Len(held'[r]) = Len(held[r]) + 1
    BY <1>1, <1>2 DEF LbTypeOK
  <1>5. ASSUME NEW q \in Calls
        PROVE  DepthFits(q)'
    BY <1>1, <1>2, <1>4 DEF Enter, Goto, LbTypeOK, DepthFits
  <1>6. LoadExact'
    <2> SUFFICES ASSUME NEW u \in Upstreams
                 PROVE  load'[u] = Cardinality(Frames(u))'
      BY DEF LoadExact
    <2>1. Cardinality(Frames(u))' =
            IF u = bad[r] THEN Cardinality(Frames(u)) + 1
            ELSE Cardinality(Frames(u))
      <3>1. Len(held[r]) <= RetryAttempts
        BY <1>1
      <3> QED
        BY <1>1, <1>2, <3>1, FrameAdded
    <2> QED
      BY <1>1, <2>1 DEF Enter, LoadExact, LbTypeOK
  <1> QED
    BY <1>3, <1>5, <1>6 DEF ListedOnce, Enter

(* The deferred decrement is that of the frame's own upstream.             *)
LEMMA UnwindStep ==
  ASSUME LbIInv, NEW r \in Calls, Unwind(r)
  PROVE  LbIInv'
  <1> USE DEF LbIInv
  <1>1. CASE held[r] = <<>>
    <2>1. LbTypeOK' /\ DepthFits(r)'
      BY <1>1 DEF Unwind, Goto, LbTypeOK, DepthFits
    <2> QED
      BY <1>1, <2>1, RequestStep DEF Unwind, Goto, LbTypeOK
  <1>2. CASE held[r] # <<>>
    <2>1. /\ held' = [held EXCEPT ![r] = SubSeq(@, 1, Len(@) - 1)]
          /\ load' = [load EXCEPT ![FrameUpstream(r)] = @ - 1]
          /\ UNCHANGED <<list, healthy, sticky, pc, bad, index, step, cancelled>>
      BY <1>2 DEF Unwind
    <2>2. /\ Len(held[r]) \in Nat \ {0} /\ held[r] \in Seq(Upstreams)
          /\ FrameUpstream(r) \in Upstreams
          /\ Len(held[r]) <= RetryAttempts + 1
      BY <1>2 DEF LbTypeOK, FrameUpstream, DepthFits
    <2>3. SubSeq(held[r], 1, Len(held[r]) - 1) \in Seq(Upstreams)
          /\ Len(SubSeq(held[r], 1, Len(held[r]) - 1)) = Len(held[r]) - 1
      BY <2>2
    <2>4. ASSUME NEW q \in Calls
          PROVE  DepthFits(q)'
      <3>1. CASE q = r
        BY <2>1, <2>2, <2>3, <3>1, BalancerAssumption
        DEF BalancerAssumption, LbTypeOK, DepthFits, Unwind
      <3>2. CASE q # r
        BY <2>1, <3>2 DEF LbTypeOK, DepthFits
      <3> QED
        BY <3>1, <3>2
    <2>5. LoadExact'
      <3> SUFFICES ASSUME NEW u \in Upstreams
                   PROVE  load'[u] = Cardinality(Frames(u))'
        BY DEF LoadExact
      <3>1. Cardinality(Frames(u))' =
              IF u = FrameUpstream(r) THEN Cardinality(Frames(u)) - 1
              ELSE Cardinality(Frames(u))
        BY <1>2, <2>1, <2>2, FrameRemoved
      <3> QED
        BY <2>1, <3>1 DEF LoadExact, LbTypeOK
    <2>6. load' \in [Upstreams -> Nat]
      <3>1. \A u \in Upstreams : load'[u] \in Nat
        <4>1. \A u \in Upstreams : Cardinality(Frames(u))' \in Nat
          BY <1>2, <2>1, <2>2, FrameRemoved
        <4> QED
          BY <2>5, <4>1 DEF LoadExact
      <3> QED
        BY <2>1, <3>1 DEF LbTypeOK
    <2>7. LbTypeOK'
      BY <2>1, <2>3, <2>6 DEF LbTypeOK
    <2> QED
      BY <2>1, <2>4, <2>5, <2>7 DEF ListedOnce
  <1> QED
    BY <1>1, <1>2

(* Every step of a request, of an upstream or of the list keeps it.        *)
LEMMA LbStep == LbIInv /\ [LbNext]_balanceVars => LbIInv'
  <1> SUFFICES ASSUME LbIInv, [LbNext]_balanceVars
               PROVE  LbIInv'
    OBVIOUS
  <1> USE DEF LbIInv
  <1>1. ASSUME NEW u \in Upstreams, AddUpstream(u)
        PROVE  LbIInv'
    <2>1. list' = Append(list, u) /\ list \in Seq(Upstreams) /\ u \notin Listed
      BY <1>1 DEF AddUpstream, LbTypeOK
    <2>2. list' \in Seq(Upstreams)
      BY <2>1
    <2>3. \A i, j \in DOMAIN list' : list'[i] = list'[j] => i = j
      BY <2>1 DEF Listed, ListedOnce
    <2> QED
      BY <1>1, <2>2, <2>3, ListStep DEF AddUpstream
  <1>2. ASSUME NEW u \in Upstreams, RemoveUpstream(u)
        PROVE  LbIInv'
    <2>1. PICK k \in DOMAIN list :
            list' = SubSeq(list, 1, k - 1) \o SubSeq(list, k + 1, Len(list))
      BY <1>2 DEF RemoveUpstream
    <2>2. list \in Seq(Upstreams) /\ Len(list) \in Nat /\ k \in 1..Len(list)
      BY DEF LbTypeOK
    <2>3. list' \in Seq(Upstreams)
      BY <2>1, <2>2
    <2>4. \A i, j \in DOMAIN list' : list'[i] = list'[j] => i = j
      <3> DEFINE A == SubSeq(list, 1, k - 1)
                 B == SubSeq(list, k + 1, Len(list))
      <3>1. /\ A \in Seq(Upstreams) /\ Len(A) = k - 1
            /\ B \in Seq(Upstreams) /\ Len(B) = Len(list) - k
        BY <2>2
      <3>2. /\ \A i \in 1..(k - 1) : A[i] = list[i]
            /\ \A i \in 1..(Len(list) - k) : B[i] = list[i + k]
        BY <2>2
      <3>0. list' = A \o B
        BY <2>1
      <3> HIDE DEF A, B
      <3>3. /\ Len(A \o B) = Len(list) - 1
            /\ \A i \in 1..(Len(list) - 1) :
                 (A \o B)[i] = IF i <= Len(A) THEN A[i] ELSE B[i - Len(A)]
        <4>1. A \o B \in Seq(Upstreams) /\ Len(A \o B) = Len(A) + Len(B)
          BY <3>1
        <4>2. \A i \in 1..(Len(A) + Len(B)) :
                (A \o B)[i] = IF i <= Len(A) THEN A[i] ELSE B[i - Len(A)]
          BY <3>1
        <4>3. Len(A) + Len(B) = Len(list) - 1
          BY <2>2, <3>1
        <4> QED
          BY <4>1, <4>2, <4>3
      <3>4. ASSUME NEW i \in 1..(Len(list) - 1)
            PROVE  list'[i] = IF i < k THEN list[i] ELSE list[i + 1]
        <4>1. CASE i < k
          BY <2>2, <3>0, <3>1, <3>2, <3>3, <4>1
        <4>2. CASE ~(i < k)
          <5>1. list'[i] = B[i - (k - 1)] /\ i - (k - 1) \in 1..(Len(list) - k)
            BY <2>2, <3>0, <3>1, <3>3, <4>2
          <5>2. B[i - (k - 1)] = list[i - (k - 1) + k] /\ i - (k - 1) + k = i + 1
            BY <2>2, <3>2, <5>1
          <5> QED
            BY <4>2, <5>1, <5>2
        <4> QED
          BY <4>1, <4>2
      <3>5. /\ DOMAIN list = 1..Len(list)
            /\ \A i, j \in 1..Len(list) : list[i] = list[j] => i = j
        BY <2>2 DEF ListedOnce
      <3>6. ASSUME NEW i \in 1..(Len(list) - 1), NEW j \in 1..(Len(list) - 1),
                   list'[i] = list'[j]
            PROVE  i = j
        BY <2>2, <3>4, <3>5, <3>6
      <3>7. DOMAIN list' = 1..(Len(list) - 1)
        BY <3>0, <3>1, <3>3
      <3> QED
        BY <3>6, <3>7
    <2> QED
      BY <1>2, <2>3, <2>4, ListStep DEF RemoveUpstream
  <1>3. CASE ClearUpstreams
    <2>1. list' \in Seq(Upstreams) /\ DOMAIN list' = {}
      BY <1>3 DEF ClearUpstreams
    <2> QED
      BY <1>3, <2>1, ListStep DEF ClearUpstreams
  <1>4. ASSUME NEW u \in Upstreams, SetHealthy(u)
        PROVE  LbIInv'
    BY <1>4
    DEF SetHealthy, reqVars, LbTypeOK, ListedOnce, DepthFits, LoadExact, Frames
  <1>5. ASSUME NEW r \in Calls, Cancel(r)
        PROVE  LbIInv'
    <2>1. LbTypeOK' /\ DepthFits(r)'
      BY <1>5, BalancerAssumption
      DEF Cancel, lbVars, LbTypeOK, DepthFits, BalancerAssumption
    <2> QED
      BY <1>5, <2>1, RequestStep DEF Cancel, lbVars, LbTypeOK
  <1>6. ASSUME NEW r \in Calls, ServeHTTP(r)
        PROVE  LbIInv'
    <2>1. LbTypeOK' /\ DepthFits(r)'
      BY <1>6, BalancerAssumption
      DEF ServeHTTP, Goto, lbVars, LbTypeOK, DepthFits, BalancerAssumption
    <2> QED
      BY <1>6, <2>1, RequestStep DEF ServeHTTP, Goto, lbVars, LbTypeOK
  <1>7. ASSUME NEW r \in Calls, StickyPick(r)
        PROVE  LbIInv'
    <2>1. LbTypeOK' /\ DepthFits(r)'
      BY <1>7, BalancerAssumption, ZenonT(60)
      DEF StickyPick, Goto, Maybe, LbTypeOK, DepthFits, BalancerAssumption
    <2> QED
      BY <1>7, <2>1, RequestStep DEF StickyPick, Goto, Maybe, LbTypeOK
  <1>8. ASSUME NEW r \in Calls, Responds(r)
        PROVE  LbIInv'
    <2>1. LbTypeOK' /\ DepthFits(r)'
      BY <1>8, BalancerAssumption
      DEF Responds, Goto, lbVars, LbTypeOK, DepthFits, BalancerAssumption
    <2> QED
      BY <1>8, <2>1, RequestStep DEF Responds, Goto, lbVars, LbTypeOK
  <1>9. ASSUME NEW r \in Calls, ServerError(r)
        PROVE  LbIInv'
    <2>1. LbTypeOK' /\ DepthFits(r)'
      BY <1>9, BalancerAssumption
      DEF ServerError, Goto, lbVars, LbTypeOK, DepthFits, BalancerAssumption
    <2> QED
      BY <1>9, <2>1, RequestStep DEF ServerError, Goto, lbVars, LbTypeOK
  <1>10. ASSUME NEW r \in Calls, TransportError(r)
        PROVE  LbIInv'
    <2>1. LbTypeOK' /\ DepthFits(r)'
      BY <1>10, BalancerAssumption
      DEF TransportError, Goto, lbVars, LbTypeOK, DepthFits, BalancerAssumption
    <2> QED
      BY <1>10, <2>1, RequestStep DEF TransportError, Goto, lbVars, LbTypeOK
  <1>11. ASSUME NEW r \in Calls, OnError(r)
        PROVE  LbIInv'
    <2>1. LbTypeOK' /\ DepthFits(r)'
      BY <1>11, BalancerAssumption
      DEF OnError, Goto, lbVars, LbTypeOK, DepthFits, BalancerAssumption
    <2> QED
      BY <1>11, <2>1, RequestStep DEF OnError, Goto, lbVars, LbTypeOK
  <1>12. ASSUME NEW r \in Calls, Consume(r)
        PROVE  LbIInv'
    <2>1. /\ step[r] \in Nat /\ Len(held[r]) \in Nat
          /\ RetryAttempts \in Nat /\ UNCHANGED held
          /\ Len(held[r]) <= step[r] + 1 /\ step[r] <= RetryAttempts
          /\ step' = [step EXCEPT ![r] = step[r] + 1]
          /\ \/ step[r] < RetryAttempts /\ Goto(r, "wait")
             \/ Goto(r, "unwind")
      BY <1>12, BalancerAssumption
      DEF Consume, RetryLeft, LbTypeOK, DepthFits, BalancerAssumption
    <2>2. LbTypeOK'
      <3>1. step' \in [Calls -> Nat]
        BY <2>1 DEF LbTypeOK
      <3> QED
        BY <1>12, <3>1 DEF Consume, Goto, lbVars, LbTypeOK
    <2>3. DepthFits(r)'
      BY <2>1 DEF Goto, LbTypeOK, DepthFits
    <2> QED
      BY <1>12, <2>1, <2>2, <2>3, RequestStep
      DEF Consume, Goto, lbVars, RetryLeft, LbTypeOK
  <1>13. ASSUME NEW r \in Calls, Retry(r)
        PROVE  LbIInv'
    <2>1. LbTypeOK' /\ DepthFits(r)'
      BY <1>13, BalancerAssumption
      DEF Retry, Goto, lbVars, LbTypeOK, DepthFits, BalancerAssumption
    <2> QED
      BY <1>13, <2>1, RequestStep DEF Retry, Goto, lbVars, LbTypeOK
  <1>14. ASSUME NEW r \in Calls, RetryCancelled(r)
        PROVE  LbIInv'
    <2>1. LbTypeOK' /\ DepthFits(r)'
      BY <1>14, BalancerAssumption
      DEF RetryCancelled, Goto, lbVars, LbTypeOK, DepthFits, BalancerAssumption
    <2> QED
      BY <1>14, <2>1, RequestStep DEF RetryCancelled, Goto, lbVars, LbTypeOK
  <1>15. ASSUME NEW r \in Calls, PickByIndex(r)
         PROVE  LbIInv'
    <2>1. /\ pc[r] = "index" /\ index[r] \in Nat /\ bad[r] \in Maybe
          /\ Picked(r, getHealthyIdxLocked(index[r], bad[r]))
          /\ index' = [index EXCEPT ![r] = 0]
          /\ UNCHANGED <<list, healthy, load, held, step, cancelled>>
      BY <1>15 DEF PickByIndex, LbTypeOK
    <2>2. getHealthyIdxLocked(index[r], bad[r]) \in Maybe
      BY <2>1, IndexedPick DEF Maybe
    <2>3. index' \in [Calls -> 0..Cardinality(Upstreams)]
      BY <2>1, HealthyFits DEF LbTypeOK
    <2> QED
      BY <2>1, <2>2, <2>3, PickedStep
  <1>16. CASE UNCHANGED balanceVars
    BY <1>16
    DEF balanceVars, LbTypeOK, ListedOnce, DepthFits, LoadExact, Frames
  <1> QED
    BY <1>1, <1>2, <1>3, <1>4, <1>5, <1>6, <1>7, <1>8, <1>9, <1>10, <1>11, <1>12, <1>13, <1>14, <1>15, <1>16,
       NextStep, EnterStep, UnwindStep
    DEF LbNext, Balancer, Upstream

-----------------------------------------------------------------------------
(* Every choice of an upstream is a good one.                              *)

(* What Picked says of the request that it is made for, and of others.     *)
LEMMA PickedIsWell ==
  ASSUME LbIInv, NEW r \in Calls, NEW u \in Maybe, Picked(r, u),
         \/ u \in Upstreams /\ healthy[u] /\ u # bad[r]
         \/ u \in Upstreams /\ (Len(list) = 1 \/ Better(bad[r]) = {})
         \/ u = NoUpstream /\ Better(NoUpstream) = {}
  PROVE  \A q \in Calls : PickedWell(q)
  BY BalancerAssumption
  DEF BalancerAssumption, LbIInv, LbTypeOK, Picked, Goto, PickedWell, Maybe

(* Every step that gives a call an upstream gives it the right one.        *)
LEMMA PickStep ==
  LbIInv /\ [LbNext]_balanceVars
    => [\A r \in Calls : PickedWell(r)]_balanceVars
  <1> SUFFICES ASSUME LbIInv, LbNext
               PROVE  \A r \in Calls : PickedWell(r)
    OBVIOUS
  <1> USE DEF LbIInv
  <1>1. ASSUME UNCHANGED pc
        PROVE  \A r \in Calls : PickedWell(r)
    BY <1>1 DEF PickedWell
  <1>2. ASSUME NEW r \in Calls, NEW l, Goto(r, l), l \notin {"serve", "error"}
        PROVE  \A q \in Calls : PickedWell(q)
    BY <1>2 DEF Goto, PickedWell, LbTypeOK
  <1>3. ASSUME NEW r \in Calls, Goto(r, "error"), pc[r] \in {"upstream"}
        PROVE  \A q \in Calls : PickedWell(q)
    BY <1>3 DEF Goto, PickedWell, LbTypeOK
  <1>4. CASE \/ ClearUpstreams
             \/ \E u \in Upstreams : AddUpstream(u) \/ RemoveUpstream(u) \/ SetHealthy(u)
             \/ \E r \in Calls : Cancel(r)
    BY <1>1, <1>4
    DEF ClearUpstreams, AddUpstream, RemoveUpstream, SetHealthy, Cancel, reqVars
  <1>5. ASSUME NEW r \in Calls,
               \/ ServeHTTP(r) \/ Enter(r) \/ Responds(r) \/ ServerError(r)
               \/ OnError(r) \/ Consume(r) \/ Retry(r) \/ RetryCancelled(r)
               \/ Unwind(r)
        PROVE  \A q \in Calls : PickedWell(q)
    BY <1>1, <1>2, <1>5
    DEF ServeHTTP, Enter, Responds, ServerError, OnError, Consume, Retry,
        RetryCancelled, Unwind
  <1>6. ASSUME NEW r \in Calls, TransportError(r)
        PROVE  \A q \in Calls : PickedWell(q)
    BY <1>3, <1>6 DEF TransportError
  <1>7. ASSUME NEW r \in Calls, StickyPick(r)
        PROVE  \A q \in Calls : PickedWell(q)
    BY <1>7 DEF StickyPick, Goto, PickedWell, LbTypeOK
  <1>8. ASSUME NEW r \in Calls, PickByIndex(r)
        PROVE  \A q \in Calls : PickedWell(q)
    <2>1. index[r] \in Nat /\ bad[r] \in Maybe
      BY DEF LbTypeOK
    <2> DEFINE u == getHealthyIdxLocked(index[r], bad[r])
    <2>2. \/ u \in Upstreams /\ healthy[u] /\ u # bad[r]
          \/ u = bad[r] /\ Better(bad[r]) = {}
      BY <2>1, IndexedPick
    <2>3. Picked(r, u)
      BY <1>8 DEF PickByIndex
    <2> HIDE DEF u
    <2> QED
      BY <2>1, <2>2, <2>3, PickedIsWell DEF Maybe
  <1>9. ASSUME NEW r \in Calls, NextUpstream(r)
        PROVE  \A q \in Calls : PickedWell(q)
    <2>1. CASE list = <<>> /\ Picked(r, NoUpstream)
      <3>1. Better(NoUpstream) = {}
        BY <2>1 DEF Better, Listed
      <3> QED
        BY <2>1, <3>1, PickedIsWell DEF Maybe
    <2>2. CASE Len(list) = 1 /\ Picked(r, list[1])
      BY <2>2, FirstListed, PickedIsWell DEF Maybe
    <2>3. CASE Len(list) > 1 /\ bad[r] = NoUpstream /\ Picked(r, BestByLoad)
      <3>1. CASE HealthyAt = {}
        <4>1. Better(bad[r]) = {}
          BY <3>1 DEF Better, Listed, HealthyAt
        <4>2. BestByLoad \in Upstreams
          BY <2>3, <3>1, FirstListed DEF BestByLoad
        <4> QED
          BY <2>3, <4>1, <4>2, PickedIsWell DEF Maybe
      <3>2. CASE HealthyAt # {}
        <4>1. BestByLoad \in Upstreams /\ healthy[BestByLoad]
          BY <3>2, BestIsHealthy, HealthyFits
        <4> QED
          BY <2>3, <4>1, PickedIsWell, BalancerAssumption
          DEF Maybe, BalancerAssumption
      <3> QED
        BY <3>1, <3>2
    <2>4. CASE HealthyAt = {} /\ Picked(r, NoUpstream)
      <3>1. Better(NoUpstream) = {}
        BY <2>4 DEF Better, Listed, HealthyAt
      <3> QED
        BY <2>4, <3>1, PickedIsWell DEF Maybe
    <2>5. ASSUME NEW i \in HealthyAt, HealthyAt = {i}, Picked(r, list[i])
          PROVE  \A q \in Calls : PickedWell(q)
      <3>1. list[i] \in Upstreams /\ healthy[list[i]]
        BY HealthyFits
      <3>2. bad[r] = list[i] => Better(bad[r]) = {}
        BY <2>5 DEF Better, Listed, HealthyAt
      <3> QED
        BY <2>5, <3>1, <3>2, PickedIsWell DEF Maybe
    <2>6. CASE Goto(r, "index")
      BY <1>2, <2>6
    <2> QED
      BY <1>9, <2>1, <2>2, <2>3, <2>4, <2>5, <2>6 DEF NextUpstream
  <1> QED
    BY <1>4, <1>5, <1>6, <1>7, <1>8, <1>9 DEF LbNext, Balancer, Upstream

-----------------------------------------------------------------------------
(* The load factors, the depth of the retries and the choice of upstreams  *)
(* are as BalanceCorrect says, for any number of upstreams and requests    *)
(* and any number of retries (lb/lb.go, lb/upstream.go, retry).            *)
THEOREM BalancesCorrectly == LbSpec => BalanceCorrect
  <1>1. LbIInv => LbTypeOK /\ RetriesBounded /\ LoadExact
    BY DEF LbIInv, RetriesBounded, DepthFits
  <1> QED
    BY <1>1, LbInitInv, LbStep, PickStep, PTL
    DEF LbSpec, BalanceCorrect, PickIsBest
=============================================================================
