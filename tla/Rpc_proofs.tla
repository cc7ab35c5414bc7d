----------------------------- MODULE Rpc_proofs -----------------------------
(***************************************************************************)
(* Proofs about the parts of the rpc layer.  Each part has an invariant of *)
(* its own, which its initial state establishes and its steps keep; a step *)
(* of the suite is a step of each part or leaves it alone.                 *)
(***************************************************************************)
EXTENDS MCRpc, FiniteSetTheorems, FunctionTheorems, SequenceTheorems,
        WellFoundedInduction, TLAPS

-----------------------------------------------------------------------------
(* The lock of the home directory.                                         *)

(* Who has the file is the process that counts sessions or is on its way   *)
(* to the first or from the last; while it is on its way it counts none.   *)
LockInv ==
  /\ flock \in Procs \cup {NoProc}
  /\ lockCount \in [Procs -> Nat]
  /\ lockAt \in [Procs -> {"idle", "pid", "rmpid", "unlock"}]
  /\ HolderIsNamed /\ LockExact
  /\ \A p \in Procs : lockAt[p] # "idle" => lockCount[p] = 0

(* Nobody has the lock at first.                                           *)
LEMMA LockInitInv == LockInit => LockInv
BY LockAssumption DEF LockAssumption, LockInit, LockInv, HolderIsNamed,
   LockExact, NoProc

(* Every step of tryLockLocked and unlockLocked keeps the lock exact, and  *)
(* so does the end of a process.                                           *)
LEMMA LockStep == LockInv /\ [LockNext]_lockVars => LockInv'
  <1> SUFFICES ASSUME LockInv, [LockNext]_lockVars PROVE LockInv'
    OBVIOUS
  <1> USE DEF LockInv, HolderIsNamed, LockExact
  <1>0. NoProc \notin Procs
    BY LockAssumption DEF LockAssumption
  <1>1. CASE UNCHANGED lockVars
    BY <1>1 DEF lockVars
  <1>2. ASSUME NEW p \in Procs, TryLock(p) PROVE LockInv'
    <2>1. CASE lockCount[p] > 0
      BY <1>2, <2>1 DEF TryLock
    <2>2. CASE ~(lockCount[p] > 0)
      BY <1>0, <1>2, <2>2 DEF TryLock
    <2> QED BY <2>1, <2>2
  <1>3. ASSUME NEW p \in Procs, WritePid(p) PROVE LockInv'
    BY <1>0, <1>3 DEF WritePid
  <1>4. ASSUME NEW p \in Procs, Unlock(p) PROVE LockInv'
    <2>1. CASE lockCount[p] > 1
      BY <1>4, <2>1 DEF Unlock
    <2>2. CASE ~(lockCount[p] > 1)
      BY <1>0, <1>4, <2>2 DEF Unlock
    <2> QED BY <2>1, <2>2
  <1>5. ASSUME NEW p \in Procs, RemovePid(p) PROVE LockInv'
    BY <1>0, <1>5 DEF RemovePid
  <1>6. ASSUME NEW p \in Procs, ReleaseFile(p) PROVE LockInv'
    BY <1>0, <1>6 DEF ReleaseFile
  <1>7. ASSUME NEW p \in Procs, ProcEnds(p) PROVE LockInv'
    BY <1>0, <1>7 DEF ProcEnds
  <1> QED
    BY <1>1, <1>2, <1>3, <1>4, <1>5, <1>6, <1>7 DEF LockNext

-----------------------------------------------------------------------------
(* The allocator of addresses.                                             *)

(* An address on which listening failed stays taken, so that nobody gets   *)
(* it again; what is held was not lost.                                    *)
SubnetInv ==
  /\ stepCount \in Nat
  /\ taker \in [Takers -> [at : {"off", "check", "try", "listen", "has"},
                           ip : Nat, tries : Nat]]
  /\ AddressesExact
  /\ leaked \subseteq taken
  /\ \A k \in Takers : Holds(k) => taker[k].ip \notin leaked

(* No address is taken at first.                                           *)
LEMMA SubnetInitInv == SubnetInit => SubnetInv
BY DEF SubnetInit, SubnetInv, AddressesExact, Holds, Free

(* Looking and taking is one step, so that candidates that come round do   *)
(* no harm, and every other step changes what one taker holds.             *)
LEMMA SubnetStep == SubnetInv /\ [SubnetNext]_subnetVars => SubnetInv'
  <1> SUFFICES ASSUME SubnetInv, [SubnetNext]_subnetVars PROVE SubnetInv'
    OBVIOUS
  <1> USE DEF SubnetInv, AddressesExact, Holds
  <1>1. CASE UNCHANGED subnetVars
    BY <1>1 DEF subnetVars
  <1>2. ASSUME NEW k \in Takers, Allocate(k) PROVE SubnetInv'
    <2>1. (stepCount + 1) % Addresses \in Nat
      BY SubnetAssumption DEF SubnetAssumption
    <2> QED BY <1>2, <2>1 DEF Allocate
  <1>3. ASSUME NEW k \in Takers, CheckTaken(k) PROVE SubnetInv'
    BY <1>3 DEF CheckTaken
  <1>4. ASSUME NEW k \in Takers, NEW ok \in BOOLEAN, TryListen(k, ok)
        PROVE SubnetInv'
    BY <1>4 DEF TryListen
  <1>5. ASSUME NEW k \in Takers, NoAddress(k) PROVE SubnetInv'
    BY <1>5 DEF NoAddress, Free
  <1>6. ASSUME NEW k \in Takers, Deallocate(k) PROVE SubnetInv'
    BY <1>6 DEF Deallocate, Free
  <1> QED
    BY <1>1, <1>2, <1>3, <1>4, <1>5, <1>6 DEF SubnetNext
-----------------------------------------------------------------------------
(* The serving end.                                                        *)

(* Every request that is not answered is on a stream that is not closed,   *)
(* and the one that writes has the lock of its stream.                     *)
ServeInv ==
  /\ mux \in {"off", "accept", "wait", "goaway", "closed"} /\ cut \in BOOLEAN
  /\ stream \in [Streams -> {"none", "read", "wait", "closed"}]
  /\ request \in [Requests -> [at : {"none", "serve", "lock", "write", "lost",
                                    "answered"},
                               on : Streams \cup {"none"}]]
  /\ sending \in [Streams -> Requests \cup {"nobody"}]
  /\ LostOnlyWhenCut
  /\ mux \in {"goaway", "closed"} =>
       \A s \in Streams : stream[s] \in {"none", "closed"}
  /\ \A r \in Requests : Unanswered(r) =>
       request[r].on \in Streams /\ stream[request[r].on] \in {"read", "wait"}
  /\ \A r \in Requests : request[r].at = "write" =>
       sending[request[r].on] = r

(* Nothing is served at first.                                             *)
LEMMA ServeInitInv == ServeInit => ServeInv
  <1> SUFFICES ASSUME ServeInit PROVE ServeInv
    OBVIOUS
  <1>1. request \in [Requests -> [at : {"none", "serve", "lock", "write", "lost",
                                      "answered"},
                                 on : Streams \cup {"none"}]]
    BY DEF ServeInit, NoRequest
  <1>2. \A r \in Requests : request[r].at = "none"
    BY DEF ServeInit, NoRequest
  <1> QED
    BY <1>1, <1>2 DEF ServeInit, ServeInv, LostOnlyWhenCut, Unanswered

(* The wait groups: a stream is closed when none of its requests is left,  *)
(* the session when none of its streams is.                                *)
LEMMA ServeStep == ServeInv /\ [ServeNext]_serveVars => ServeInv'
  <1> SUFFICES ASSUME ServeInv, [ServeNext]_serveVars PROVE ServeInv'
    OBVIOUS
  <1> USE DEF ServeInv, LostOnlyWhenCut, Unanswered
  <1>0. "nobody" \notin Requests
    BY ServeAssumption DEF ServeAssumption
  <1>1. CASE UNCHANGED serveVars
    BY <1>1 DEF serveVars
  <1>2. CASE ServeMux \/ Cut \/ AcceptFails \/ GoAway \/ CloseMux
    BY <1>2 DEF ServeMux, Cut, AcceptFails, GoAway, CloseMux
  <1>3. ASSUME NEW s \in Streams, AcceptStream(s) \/ ReadStdFails(s)
        PROVE ServeInv'
    BY <1>3 DEF AcceptStream, ReadStdFails
  <1>4. ASSUME NEW s \in Streams, CloseStd(s) PROVE ServeInv'
    BY <1>4 DEF CloseStd
  <1>5. ASSUME NEW s \in Streams, NEW r \in Requests, ReadStd(s, r)
        PROVE ServeInv'
    BY <1>5 DEF ReadStd
  <1>6. ASSUME NEW r \in Requests, ServeRPC(r) PROVE ServeInv'
    BY <1>6 DEF ServeRPC
  <1>7. ASSUME NEW r \in Requests, LockSending(r) PROVE ServeInv'
    BY <1>0, <1>7 DEF LockSending
  <1>8. ASSUME NEW r \in Requests, WriteResponse(r) PROVE ServeInv'
    BY <1>0, <1>8 DEF WriteResponse
  <1> QED
    BY <1>1, <1>2, <1>3, <1>4, <1>5, <1>6, <1>7, <1>8
       DEF ServeNext, ServeRequest

(* A lock has one holder: of two writers to a stream both would be it.     *)
LEMMA ServeSafe == ServeInv => LostOnlyWhenCut /\ OneWriter /\ ClosedInOrder
BY DEF ServeInv, OneWriter, ClosedInOrder, Unanswered

-----------------------------------------------------------------------------
(* The duplex.                                                             *)

Numbered == {c \in Calls : rpc[c].at # "off"}

(* The calls that have a number have the first ones, 1 and on, of which    *)
(* the last may be 0, each its own.                                        *)
NumbersInv ==
  /\ nextSeq = Cardinality(Numbered) % Seqs
  /\ \A c \in Numbered : rpc[c].seq <= Cardinality(Numbered)
  /\ \A c \in Numbered : rpc[c].seq = 0 => Cardinality(Numbered) = Seqs
  /\ \A c, d \in Numbered : rpc[c].seq = rpc[d].seq => c = d

(* Messages with the number of the call they belong to.                    *)
Sent == {m \in Msg : rpc[m.call].at # "off" /\ m.seq = rpc[m.call].seq}

(* Whoever is about to wait or waits will be found by a reply or by        *)
(* Shutdown, was found, or lost its reply.                                 *)
Known(c) ==
  \/ Entry(c) \in pending \/ c \in rejected \/ c \in orphans
  \/ inp.at \in {"body", "signal"} /\ c \in inp.for

MessagesInv ==
  /\ pending \subseteq Sent /\ serving \subseteq Sent
  /\ up \in Seq(Sent) /\ down \in Seq(Sent)
  /\ inp.at \in {"pop", "body", "signal"} => inp.msg \in Sent
  /\ inp.at \in {"body", "signal"} => inp.for \subseteq {inp.msg.call}

DuplexInv ==
  /\ DuplexTypeOK /\ NumbersInv /\ MessagesInv /\ ReplyMatches
  /\ shut => pending = {}
  /\ \A c \in Calls : rpc[c].at \in {"write", "wait"} => Known(c)

(* There are no calls and no messages at first.                            *)
LEMMA DuplexInitInv == DuplexInit => DuplexInv
  <1> SUFFICES ASSUME DuplexInit PROVE DuplexInv
    OBVIOUS
  <1> USE DEF DuplexInit, NewCall
  <1>a. Seqs \in Nat \ {0}
    BY DuplexAssumption DEF DuplexAssumption
  <1>1. DuplexTypeOK
    <2>1. rpc \in [Calls -> [at : {"off", "promise", "write", "wait", "ok", "err"},
                          seq : 0..(Seqs - 1), got : Calls \cup {"none"}]]
      BY <1>a
    <2>2. inp \in [at : {"header", "pop", "body", "signal", "fail", "end"},
                msg : Msg \cup {NoMsg}, for : SUBSET Calls]
      OBVIOUS
    <2>3. up \in Seq(Msg) /\ down \in Seq(Msg)
      OBVIOUS
    <2>4. nextSeq \in 0..(Seqs - 1)
      BY <1>a
    <2>5. /\ pending \subseteq Msg /\ serving \subseteq Msg
          /\ rejected \subseteq Calls /\ orphans \subseteq Calls
          /\ shut \in BOOLEAN /\ broken \in BOOLEAN
          /\ served \in {"off", "open", "shut"}
      OBVIOUS
    <2> HIDE DEF DuplexInit
    <2> QED BY <2>1, <2>2, <2>3, <2>4, <2>5 DEF DuplexTypeOK
  <1>2. \A c \in Calls : rpc[c].at = "off"
    OBVIOUS
  <1>3. NumbersInv
    <2>1. Numbered = {}
      BY <1>2 DEF Numbered
    <2>2. Cardinality(Numbered) = 0
      BY <2>1, FS_EmptySet
    <2> QED BY <1>a, <2>1, <2>2 DEF NumbersInv
  <1>4. MessagesInv
    <2>1. up \in Seq(Sent) /\ down \in Seq(Sent)
      OBVIOUS
    <2>2. inp.at = "header"
      OBVIOUS
    <2> QED BY <2>1, <2>2 DEF MessagesInv
  <1> QED
    BY <1>1, <1>2, <1>3, <1>4 DEF DuplexInv, ReplyMatches

(* Most steps give no numbers: what messages there may be stays the same.  *)
LEMMA SameNumbers ==
  ASSUME nextSeq' = nextSeq, DuplexTypeOK,
         \A c \in Calls : /\ rpc'[c].at # "off" <=> rpc[c].at # "off"
                          /\ rpc'[c].seq = rpc[c].seq
  PROVE  Sent' = Sent /\ (NumbersInv => NumbersInv')
  <1>1. Numbered' = Numbered
    BY DEF Numbered
  <1>2. Sent' = Sent
    BY DEF Sent, Msg
  <1> QED
    BY <1>1, <1>2 DEF NumbersInv, Numbered

(* A new call gets a number that no other call has.                        *)
LEMMA NewNumber ==
  ASSUME NEW c \in Calls, Number(c), DuplexTypeOK, NumbersInv
  PROVE  NumbersInv' /\ nextSeq' \in 0..(Seqs - 1)
  <1> DEFINE n == Cardinality(Numbered)
  <1>a. Seqs \in Nat \ {0} /\ IsFiniteSet(Calls) /\ Cardinality(Calls) <= Seqs
    BY DuplexAssumption DEF DuplexAssumption
  <1>1. Numbered' = Numbered \cup {c} /\ c \notin Numbered /\ c \in Calls
    BY DEF Numbered, Number, DuplexTypeOK
  <1>2. IsFiniteSet(Numbered)
    BY <1>a, FS_Subset DEF Numbered
  <1>3. Cardinality(Numbered') = n + 1 /\ n \in Nat
    BY <1>1, <1>2, FS_AddElement, FS_CardinalityType
  <1>4. n + 1 <= Seqs
    <2>1. Numbered' \subseteq Calls
      BY <1>1 DEF Numbered
    <2>2. Cardinality(Numbered') <= Cardinality(Calls) /\ Cardinality(Calls) \in Nat
      BY <2>1, <1>a, FS_Subset, FS_CardinalityType
    <2> QED BY <2>2, <1>3, <1>a
  <1>5. nextSeq = n
    <2>1. nextSeq = n % Seqs
      BY DEF NumbersInv
    <2>2. n < Seqs
      BY <1>3, <1>4, <1>a
    <2> HIDE DEF n
    <2> QED BY <1>a, <1>3, <2>1, <2>2
  <1>6. nextSeq' = IF n + 1 = Seqs THEN 0 ELSE n + 1
    <2>1. nextSeq' = (n + 1) % Seqs
      BY <1>5 DEF Number
    <2> HIDE DEF n
    <2>2. CASE n + 1 = Seqs
      BY <1>a, <1>3, <2>1, <2>2
    <2>3. CASE n + 1 < Seqs
      BY <1>a, <1>3, <2>1, <2>3
    <2> QED BY <1>3, <1>4, <1>a, <2>2, <2>3
  <1>7. rpc'[c].seq = nextSeq' /\ \A d \in Calls \ {c} : rpc'[d] = rpc[d]
    BY DEF Number, DuplexTypeOK
  <1>8. \A d \in Numbered : /\ rpc'[d].seq = rpc[d].seq /\ rpc[d].seq \in Nat
                            /\ rpc[d].seq # 0 /\ rpc[d].seq <= n
    <2> SUFFICES ASSUME NEW d \in Numbered
                 PROVE  /\ rpc'[d].seq = rpc[d].seq /\ rpc[d].seq \in Nat
                        /\ rpc[d].seq # 0 /\ rpc[d].seq <= n
      OBVIOUS
    <2>1. d \in Calls \ {c}
      BY <1>1 DEF Numbered
    <2>2. rpc[d].seq \in Nat
      BY <2>1, <1>a DEF DuplexTypeOK
    <2>3. rpc[d].seq # 0 /\ rpc[d].seq <= n
      BY <1>3, <1>4, <1>a DEF NumbersInv
    <2> QED BY <1>7, <2>1, <2>2, <2>3
  <1> HIDE DEF n
  <1>9. nextSeq' = Cardinality(Numbered') % Seqs
    BY <1>3, <1>5 DEF Number
  <1>10. \A d \in Numbered' : rpc'[d].seq <= n + 1
    BY <1>1, <1>3, <1>6, <1>7, <1>8
  <1>11. \A d \in Numbered' : rpc'[d].seq = 0 => n + 1 = Seqs
    BY <1>1, <1>3, <1>6, <1>7, <1>8
  <1>12. \A d, e \in Numbered' : rpc'[d].seq = rpc'[e].seq => d = e
    <2>1. \A d \in Numbered : rpc'[d].seq # rpc'[c].seq
      BY <1>3, <1>6, <1>7, <1>8
    <2>2. \A d, e \in Numbered : rpc'[d].seq = rpc'[e].seq => d = e
      BY <1>8 DEF NumbersInv
    <2> QED BY <1>1, <2>1, <2>2
  <1>13. nextSeq' \in 0..(Seqs - 1)
    BY <1>3, <1>4, <1>6, <1>a
  <1> QED
    BY <1>3, <1>9, <1>10, <1>11, <1>12, <1>13 DEF NumbersInv

(* A step of a message or of an end of the connection keeps the numbers    *)
(* right, the messages theirs, and every call that waits known.            *)
LEMMA DuplexStep == DuplexInv /\ [DuplexNext]_duplexVars => DuplexInv'
  <1> SUFFICES ASSUME DuplexInv, [DuplexNext]_duplexVars PROVE DuplexInv'
    OBVIOUS
  <1>a. Seqs \in Nat \ {0}
    BY DuplexAssumption DEF DuplexAssumption
  <1>i. DuplexTypeOK /\ NumbersInv /\ MessagesInv /\ ReplyMatches
    BY DEF DuplexInv
  <1>1. CASE UNCHANGED duplexVars
    <2>1. Sent' = Sent /\ NumbersInv'
      BY <1>1, <1>i, SameNumbers DEF duplexVars
    <2> QED
      BY <1>1, <2>1 DEF duplexVars, DuplexInv, DuplexTypeOK, MessagesInv,
         ReplyMatches, Known, Entry
  <1>2. CASE OpenDuplex \/ Break \/ ServeEnds
    <2>1. Sent' = Sent /\ NumbersInv'
      BY <1>2, <1>i, SameNumbers DEF OpenDuplex, Break, ServeEnds
    <2>2. DuplexTypeOK'
      BY <1>2, <1>i DEF OpenDuplex, Break, ServeEnds, DuplexTypeOK
    <2>3. MessagesInv' /\ ReplyMatches'
      BY <1>2, <1>i, <2>1 DEF OpenDuplex, Break, ServeEnds, MessagesInv, ReplyMatches
    <2> QED
      BY <1>2, <2>1, <2>2, <2>3 DEF OpenDuplex, Break, ServeEnds, DuplexInv,
         Known, Entry
  <1>3. CASE CloseDuplex
    <2>1. Sent' = Sent /\ NumbersInv'
      BY <1>3, <1>i, SameNumbers DEF CloseDuplex
    <2>2. \A c \in Calls : Entry(c) \in pending => c \in rejected'
      BY <1>3 DEF CloseDuplex, Shutdown, Entry
    <2>3. DuplexTypeOK'
      BY <1>3, <1>i DEF CloseDuplex, Shutdown, DuplexTypeOK, Msg
    <2> QED
      BY <1>3, <2>1, <2>2, <2>3 DEF CloseDuplex, Shutdown, DuplexInv,
         MessagesInv, ReplyMatches, Known, Entry
  <1>4. ASSUME NEW c \in Calls, Number(c) PROVE DuplexInv'
    <2>1. NumbersInv' /\ nextSeq' \in 0..(Seqs - 1)
      BY <1>4, <1>i, NewNumber
    <2>2. \A d \in Calls \ {c} : rpc'[d] = rpc[d]
      BY <1>4, <1>i DEF Number, DuplexTypeOK
    <2>3. rpc'[c].at = "promise" /\ rpc[c].at = "off"
      BY <1>4, <1>i DEF Number, DuplexTypeOK
    <2>4. Sent \subseteq Sent'
      BY <2>2, <2>3 DEF Sent, Msg
    <2>5. DuplexTypeOK'
      BY <1>4, <1>i, <2>1 DEF Number, DuplexTypeOK
    <2>6. up' \in Seq(Sent') /\ down' \in Seq(Sent')
      BY <1>4, <1>i, <2>4 DEF Number, MessagesInv
    <2>7. MessagesInv'
      BY <1>4, <1>i, <2>4, <2>6 DEF Number, MessagesInv
    <2>8. ReplyMatches'
      BY <1>i, <2>2, <2>3 DEF ReplyMatches
    <2>9. \A d \in Calls : rpc'[d].at \in {"write", "wait"} => Known(d)'
      BY <1>4, <2>2, <2>3 DEF Number, DuplexInv, Known, Entry
    <2> QED
      BY <1>4, <2>1, <2>5, <2>7, <2>8, <2>9 DEF DuplexInv, Number
  <1>5. ASSUME NEW c \in Calls, Promise(c) PROVE DuplexInv'
    <2>1. Sent' = Sent /\ NumbersInv'
      <3>1. nextSeq' = nextSeq
        BY <1>5 DEF Promise
      <3>2. \A d \in Calls : /\ rpc'[d].at # "off" <=> rpc[d].at # "off"
                             /\ rpc'[d].seq = rpc[d].seq
        BY <1>5, <1>i DEF Promise, DuplexTypeOK
      <3> QED BY <3>1, <3>2, <1>i, SameNumbers
    <2>2. Entry(c) \in Sent /\ Sent \subseteq Msg
      BY <1>5, <1>i DEF Promise, Entry, Sent, Msg, DuplexTypeOK
    <2>3. DuplexTypeOK'
      BY <1>5, <1>i, <2>2 DEF Promise, PutEntry, DuplexTypeOK
    <2>4. MessagesInv'
      BY <1>5, <1>i, <2>1, <2>2 DEF Promise, PutEntry, MessagesInv
    <2>5. ReplyMatches'
      BY <1>5, <1>i DEF Promise, DuplexTypeOK, ReplyMatches
    <2>6. ASSUME NEW d \in Calls, rpc'[d].at \in {"write", "wait"}
          PROVE  Known(d)'
      <3>1. CASE d = c
        BY <1>5, <1>i, <2>6, <3>1 DEF Promise, PutEntry, Known, Entry, DuplexTypeOK
      <3>2. CASE d # c
        <4>1. rpc'[d] = rpc[d]
          BY <1>5, <1>i, <3>2 DEF Promise, DuplexTypeOK
        <4>2. rpc[c].seq # rpc[d].seq
          BY <1>5, <1>i, <2>6, <3>2, <4>1 DEF Promise, NumbersInv, Numbered
        <4>3. Entry(d) \in pending => Entry(d) \in pending'
          BY <1>5, <4>2 DEF Promise, PutEntry, Entry
        <4> QED
          BY <1>5, <2>6, <4>1, <4>3 DEF Promise, DuplexInv, Known, Entry
      <3> QED BY <3>1, <3>2
    <2> QED
      BY <1>5, <2>1, <2>3, <2>4, <2>5, <2>6 DEF DuplexInv, Promise
  <1>6. ASSUME NEW c \in Calls, WriteRequest(c) PROVE DuplexInv'
    <2>a. PICK a \in {"wait", "err"} : rpc' = [rpc EXCEPT ![c].at = a]
      BY <1>6 DEF WriteRequest
    <2>b. rpc[c].at = "write" /\ up' \in {up, Append(up, Entry(c))}
      BY <1>6 DEF WriteRequest
    <2>1. Sent' = Sent /\ NumbersInv'
      <3>1. nextSeq' = nextSeq
        BY <1>6 DEF WriteRequest
      <3>2. \A d \in Calls : /\ rpc'[d].at # "off" <=> rpc[d].at # "off"
                             /\ rpc'[d].seq = rpc[d].seq
        BY <1>i, <2>a, <2>b DEF DuplexTypeOK
      <3> QED BY <3>1, <3>2, <1>i, SameNumbers
    <2>2. Entry(c) \in Sent /\ Sent \subseteq Msg
      BY <1>6, <1>i DEF WriteRequest, Entry, Sent, Msg, DuplexTypeOK
    <2>3. \A d \in Calls : Entry(d) \in pending => Entry(d) \in pending' \/ d \in rejected'
      BY <1>6 DEF WriteRequest, Shutdown, Entry
    <2>4. pending' \subseteq pending /\ rejected \subseteq rejected'
      BY <1>6 DEF WriteRequest, Shutdown
    <2>5. DuplexTypeOK'
      <3>1. rpc' \in [Calls -> [at : {"off", "promise", "write", "wait", "ok", "err"},
                          seq : 0..(Seqs - 1), got : Calls \cup {"none"}]]
        BY <1>i, <2>a, ZenonT(60) DEF DuplexTypeOK
      <3>2. up' \in Seq(Msg)
        <4>1. up \in Seq(Msg) /\ Entry(c) \in Msg
          BY <1>i, <2>2 DEF DuplexTypeOK
        <4> QED BY <2>b, <4>1, AppendProperties
      <3>3. rejected' \subseteq Calls /\ shut' \in BOOLEAN /\ broken' \in BOOLEAN
        <4>1. {m.call : m \in pending} \subseteq Calls
          BY <1>i DEF DuplexTypeOK, Msg
        <4> QED BY <1>6, <1>i, <4>1 DEF WriteRequest, Shutdown, DuplexTypeOK
      <3> QED
        BY <1>6, <1>i, <2>4, <3>1, <3>2, <3>3 DEF WriteRequest, DuplexTypeOK
    <2>6. MessagesInv'
      <3>1. up' \in Seq(Sent)
        <4>1. up \in Seq(Sent) /\ Entry(c) \in Sent
          BY <1>i, <2>2 DEF MessagesInv
        <4> QED BY <2>b, <4>1, AppendProperties
      <3> QED
        BY <1>6, <1>i, <2>1, <2>4, <3>1 DEF WriteRequest, MessagesInv
    <2>7. ReplyMatches'
      BY <1>6, <1>i DEF WriteRequest, DuplexTypeOK, ReplyMatches
    <2>8. ASSUME NEW d \in Calls, rpc'[d].at \in {"write", "wait"}
          PROVE  Known(d)'
      <3>1. rpc'[d].seq = rpc[d].seq /\ rpc[d].at \in {"write", "wait"}
        BY <1>6, <1>i, <2>8, SMTT(60) DEF WriteRequest, DuplexTypeOK
      <3>2. Known(d)
        BY <3>1 DEF DuplexInv
      <3> QED
        BY <1>6, <2>3, <2>4, <3>1, <3>2 DEF WriteRequest, Known, Entry
    <2>9. shut' => pending' = {}
      BY <1>6 DEF WriteRequest, Shutdown, DuplexInv
    <2> QED
      BY <2>1, <2>5, <2>6, <2>7, <2>8, <2>9 DEF DuplexInv
  <1>7. ASSUME NEW c \in Calls, WaitRejected(c) PROVE DuplexInv'
    <2>1. Sent' = Sent /\ NumbersInv'
      <3>1. nextSeq' = nextSeq
        BY <1>7 DEF WaitRejected
      <3>2. \A d \in Calls : /\ rpc'[d].at # "off" <=> rpc[d].at # "off"
                             /\ rpc'[d].seq = rpc[d].seq
        BY <1>7, <1>i DEF WaitRejected, DuplexTypeOK
      <3> QED BY <3>1, <3>2, <1>i, SameNumbers
    <2>2. DuplexTypeOK'
      BY <1>7, <1>i, ZenonT(60) DEF WaitRejected, DuplexTypeOK
    <2> QED
      BY <1>7, <2>1, <2>2 DEF WaitRejected, DuplexInv, DuplexTypeOK, MessagesInv,
         ReplyMatches, Known, Entry
  <1>8. CASE ReadHeader
    <2>1. Sent' = Sent /\ NumbersInv'
      BY <1>8, <1>i, SameNumbers DEF ReadHeader, InputOnly
    <2>2. CASE down # <<>> /\ down' = Tail(down)
               /\ inp' = [at |-> "pop", msg |-> Head(down), for |-> {}]
      <3>1. Head(down) \in Sent /\ Head(down) \in Msg
        BY <1>i, <2>2 DEF MessagesInv, DuplexTypeOK
      <3>2. down' \in Seq(Sent) /\ down' \in Seq(Msg)
        BY <1>i, <2>2 DEF MessagesInv, DuplexTypeOK
      <3>3. inp' \in [at : {"header", "pop", "body", "signal", "fail", "end"},
                      msg : Msg \cup {NoMsg}, for : SUBSET Calls]
        BY <2>2, <3>1
      <3> QED
        BY <1>8, <2>1, <2>2, <3>1, <3>2, <3>3 DEF ReadHeader, InputOnly,
           DuplexInv, DuplexTypeOK, MessagesInv, ReplyMatches, Known, Entry
    <2>3. CASE inp' = [inp EXCEPT !.at = "fail"] /\ UNCHANGED down
      <3>3. /\ inp' \in [at : {"header", "pop", "body", "signal", "fail", "end"},
                         msg : Msg \cup {NoMsg}, for : SUBSET Calls]
            /\ inp'.at = "fail"
        BY <1>i, <2>3 DEF DuplexTypeOK
      <3> QED
        BY <1>8, <2>1, <2>3, <3>3 DEF ReadHeader, InputOnly,
           DuplexInv, DuplexTypeOK, MessagesInv, ReplyMatches, Known, Entry
    <2> QED BY <1>8, <2>2, <2>3 DEF ReadHeader
  <1>9. CASE Pop
    <2>1. Sent' = Sent /\ NumbersInv'
      BY <1>9, <1>i, SameNumbers DEF Pop, InputOnly
    <2>2. \A m \in Popped : m \in Sent /\ m.call = inp.msg.call /\ m.call \in Calls
      BY <1>9, <1>i DEF Pop, Popped, MessagesInv, Sent, Msg, NumbersInv, Numbered
    <2>3. /\ inp' \in [at : {"header", "pop", "body", "signal", "fail", "end"},
                       msg : Msg \cup {NoMsg}, for : SUBSET Calls]
          /\ inp'.at = "body" /\ inp'.msg = inp.msg
          /\ inp'.for = {m.call : m \in Popped}
      BY <1>9, <1>i, <2>2 DEF Pop, DuplexTypeOK
    <2>4. \A c \in Calls : Entry(c) \in pending => Entry(c) \in pending' \/ c \in inp'.for
      BY <1>9, <2>3 DEF Pop, Popped, Entry
    <2>5. inp.msg \in Sent /\ pending' \subseteq pending
      BY <1>9, <1>i DEF Pop, MessagesInv
    <2>6. DuplexTypeOK'
      BY <1>9, <1>i, <2>3, <2>5 DEF Pop, InputOnly, DuplexTypeOK
    <2>7. MessagesInv'
      BY <1>9, <1>i, <2>1, <2>2, <2>3, <2>5 DEF Pop, InputOnly, MessagesInv
    <2>8. ASSUME NEW d \in Calls, rpc'[d].at \in {"write", "wait"}
          PROVE  Known(d)'
      BY <1>9, <2>3, <2>4, <2>8 DEF Pop, InputOnly, DuplexInv, Known, Entry
    <2> QED
      BY <1>9, <2>1, <2>5, <2>6, <2>7, <2>8 DEF Pop, InputOnly, DuplexInv,
         ReplyMatches
  <1>10. CASE ReadBody
    <2>1. Sent' = Sent /\ NumbersInv'
      BY <1>10, <1>i, SameNumbers DEF ReadBody, InputOnly
    <2>2. PICK a \in {"header", "signal", "fail"} : inp' = [inp EXCEPT !.at = a]
      BY <1>10 DEF ReadBody
    <2>3. /\ inp' \in [at : {"header", "pop", "body", "signal", "fail", "end"},
                       msg : Msg \cup {NoMsg}, for : SUBSET Calls]
          /\ inp'.at = a /\ inp'.msg = inp.msg /\ inp'.for = inp.for
      BY <1>i, <2>2 DEF DuplexTypeOK
    <2>4. /\ a = "header" => inp.for = {}
          /\ a = "fail" => inp.for \subseteq orphans'
          /\ orphans \subseteq orphans' /\ orphans' \subseteq Calls
      BY <1>10, <1>i, <2>3 DEF ReadBody, DuplexTypeOK
    <2> QED
      BY <1>10, <2>1, <2>3, <2>4 DEF ReadBody, InputOnly, DuplexInv,
         DuplexTypeOK, MessagesInv, ReplyMatches, Known, Entry
  <1>11. CASE Signal
    <2>1. PICK c \in inp.for : /\ rpc[c].at = "wait"
                               /\ rpc' = [rpc EXCEPT ![c] =
                                           [@ EXCEPT !.at = "ok", !.got = inp.msg.call]]
      BY <1>11 DEF Signal
    <2>2. c = inp.msg.call /\ c \in Calls /\ inp.for = {c}
      BY <1>11, <1>i, <2>1 DEF Signal, MessagesInv, Sent, Msg
    <2>3. /\ rpc' \in [Calls -> [at : {"off", "promise", "write", "wait", "ok", "err"},
                          seq : 0..(Seqs - 1), got : Calls \cup {"none"}]]
          /\ rpc'[c].at = "ok" /\ rpc'[c].got = c /\ rpc'[c].seq = rpc[c].seq
          /\ \A d \in Calls \ {c} : rpc'[d] = rpc[d]
      <3>1. PICK r : r = [rpc[c] EXCEPT !.at = "ok", !.got = inp.msg.call]
        OBVIOUS
      <3>2. rpc' = [rpc EXCEPT ![c] = r]
        BY <2>1, <3>1
      <3>3. /\ r \in [at : {"off", "promise", "write", "wait", "ok", "err"},
                      seq : 0..(Seqs - 1), got : Calls \cup {"none"}]
            /\ r.at = "ok" /\ r.got = c /\ r.seq = rpc[c].seq
        <4>1. rpc[c] \in [at : {"off", "promise", "write", "wait", "ok", "err"},
                          seq : 0..(Seqs - 1), got : Calls \cup {"none"}]
          BY <1>i, <2>2 DEF DuplexTypeOK
        <4> QED BY <2>2, <3>1, <4>1
      <3> QED BY <1>i, <2>2, <3>2, <3>3 DEF DuplexTypeOK
    <2>4. Sent' = Sent /\ NumbersInv'
      <3>1. nextSeq' = nextSeq
        BY <1>11 DEF Signal
      <3>2. \A d \in Calls : /\ rpc'[d].at # "off" <=> rpc[d].at # "off"
                             /\ rpc'[d].seq = rpc[d].seq
        BY <2>1, <2>3
      <3> QED BY <3>1, <3>2, <1>i, SameNumbers
    <2>5. /\ inp' \in [at : {"header", "pop", "body", "signal", "fail", "end"},
                       msg : Msg \cup {NoMsg}, for : SUBSET Calls]
          /\ inp'.at = "header"
      BY <1>11 DEF Signal
    <2>6. DuplexTypeOK' /\ MessagesInv'
      BY <1>11, <1>i, <2>3, <2>4, <2>5 DEF Signal, DuplexTypeOK, MessagesInv
    <2>7. ASSUME NEW d \in Calls, rpc'[d].at \in {"write", "wait"}
          PROVE  Known(d)'
      <3>1. d # c /\ rpc'[d] = rpc[d]
        BY <2>3, <2>7
      <3> QED
        BY <1>11, <2>2, <2>7, <3>1 DEF Signal, DuplexInv, Known, Entry
    <2>8. ReplyMatches'
      BY <1>i, <2>3 DEF ReplyMatches
    <2> QED
      BY <1>11, <2>4, <2>6, <2>7, <2>8 DEF DuplexInv, Signal
  <1>12. CASE InputEnds
    <2>1. Sent' = Sent /\ NumbersInv'
      BY <1>12, <1>i, SameNumbers DEF InputEnds, InputOnly
    <2>2. \A d \in Calls : Entry(d) \in pending => Entry(d) \in pending' \/ d \in rejected'
      BY <1>12 DEF InputEnds, Shutdown, Entry
    <2>3. pending' \subseteq pending /\ rejected \subseteq rejected'
      BY <1>12 DEF InputEnds, Shutdown
    <2>4. /\ inp' \in [at : {"header", "pop", "body", "signal", "fail", "end"},
                       msg : Msg \cup {NoMsg}, for : SUBSET Calls]
          /\ inp'.at = "end" /\ inp.at = "fail"
      BY <1>12, <1>i DEF InputEnds, DuplexTypeOK
    <2>5. rejected' \subseteq Calls /\ shut' \in BOOLEAN /\ broken' \in BOOLEAN
      <3>1. {m.call : m \in pending} \subseteq Calls
        BY <1>i DEF DuplexTypeOK, Msg
      <3> QED BY <1>12, <1>i, <3>1 DEF InputEnds, Shutdown, DuplexTypeOK
    <2>6. DuplexTypeOK' /\ MessagesInv'
      BY <1>12, <1>i, <2>1, <2>3, <2>4, <2>5 DEF InputEnds, InputOnly,
         DuplexTypeOK, MessagesInv
    <2>7. ASSUME NEW d \in Calls, rpc'[d].at \in {"write", "wait"}
          PROVE  Known(d)'
      BY <1>12, <2>2, <2>3, <2>4, <2>7 DEF InputEnds, InputOnly, DuplexInv,
         Known, Entry
    <2>8. shut' => pending' = {}
      BY <1>12 DEF InputEnds, Shutdown, DuplexInv
    <2> QED
      BY <1>12, <2>1, <2>6, <2>7, <2>8 DEF InputEnds, InputOnly, DuplexInv,
         ReplyMatches
  <1>13. CASE ReadRequest
    <2>1. Sent' = Sent /\ NumbersInv'
      BY <1>13, <1>i, SameNumbers DEF ReadRequest
    <2>2. /\ Head(up) \in Sent /\ Head(up) \in Msg
          /\ Tail(up) \in Seq(Sent) /\ Tail(up) \in Seq(Msg)
      BY <1>13, <1>i DEF ReadRequest, MessagesInv, DuplexTypeOK
    <2> QED
      BY <1>13, <2>1, <2>2 DEF ReadRequest, DuplexInv, DuplexTypeOK, MessagesInv,
         ReplyMatches, Known, Entry
  <1>14. ASSUME NEW m \in Msg, Reply(m) PROVE DuplexInv'
    <2>1. Sent' = Sent /\ NumbersInv'
      BY <1>14, <1>i, SameNumbers DEF Reply
    <2>2. m \in Sent
      BY <1>14, <1>i DEF Reply, MessagesInv
    <2>3. down' \in Seq(Sent) /\ down' \in Seq(Msg)
      <3>1. down' \in {down, Append(down, m)}
        BY <1>14 DEF Reply
      <3>2. down \in Seq(Sent) /\ down \in Seq(Msg)
        BY <1>i DEF MessagesInv, DuplexTypeOK
      <3> QED BY <2>2, <3>1, <3>2, AppendProperties
    <2>4. DuplexTypeOK'
      BY <1>14, <1>i, <2>3 DEF Reply, DuplexTypeOK
    <2>5. MessagesInv'
      BY <1>14, <1>i, <2>1, <2>3 DEF Reply, MessagesInv
    <2> QED
      BY <1>14, <2>1, <2>4, <2>5 DEF Reply, DuplexInv, ReplyMatches, Known, Entry
  <1> QED
    BY <1>1, <1>2, <1>3, <1>4, <1>5, <1>6, <1>7, <1>8, <1>9, <1>10, <1>11,
       <1>12, <1>13, <1>14 DEF DuplexNext, Caller, Input, Serving

(* When the connection is shut the map is empty: a call that waits was     *)
(* rejected, lost its reply or is about to get it.                         *)
LEMMA DuplexSafe ==
  DuplexInv => DuplexTypeOK /\ ReplyMatches /\ NoneLeftPending
BY DEF DuplexInv, NoneLeftPending, Known

-----------------------------------------------------------------------------
(* The pool.                                                               *)

Vacant(i) == slots[i] = 0 \/ conn[slots[i]] # "open"
VacantThen(i) == slots'[i] = 0 \/ conn'[slots'[i]] # "open"

(* The user that dials has connsMu since it looked, and what it is about   *)
(* to replace is not open.                                                 *)
DialInv ==
  \A u \in Users : user[u].at = "dial" =>
    /\ holder = u
    /\ user[u].slot = 0 => common = 0 \/ ~Usable(common)
    /\ user[u].slot # 0 => Vacant(user[u].slot)

PoolInv ==
  /\ PoolTypeOK /\ OpenIsTracked /\ ClosedPoolIsEmpty /\ DialInv
  /\ poolShut => dialled > 0
  /\ \A u \in Users : user[u].at # "off" => dialled > 0
  /\ \A c \in Conns : Usable(c) => c <= dialled
  /\ common <= dialled /\ \A i \in 1..MaxConns : slots[i] <= dialled
  /\ \A u \in Users : user[u].at \in {"have", "call", "release"} =>
                        user[u].cli \in Conns

UserAt == {"off", "check", "queue", "unique", "shared", "dial", "have", "call",
           "release", "end"}
UserType == [Users -> [at : UserAt, cli : 0..MaxClients, unique : BOOLEAN,
                       slot : 0..MaxConns]]

(* There are no connections at first.                                      *)
LEMMA PoolInitInv == PoolInit => PoolInv
  <1> SUFFICES ASSUME PoolInit PROVE PoolInv
    OBVIOUS
  <1>a. MaxConns \in Nat \ {0} /\ MaxClients \in Nat \ {0}
    BY PoolAssumption DEF PoolAssumption
  <1>1. user \in UserType /\ \A u \in Users : user[u].at = "off"
    BY <1>a DEF PoolInit, NoUser, UserType, UserAt
  <1>2. free \in Seq(Conns) /\ Len(free) = 0
    BY DEF PoolInit
  <1>3. PoolTypeOK
    <2>1. dialled \in 0..MaxClients /\ common \in 0..MaxClients
      BY <1>a DEF PoolInit
    <2>2. slots \in [1..MaxConns -> 0..MaxClients]
      BY <1>a DEF PoolInit
    <2>3. conn \in [Conns -> {"none", "open", "dead", "closed"}]
      BY DEF PoolInit
    <2>4. Len(free) <= MaxConns
      BY <1>2, <1>a
    <2>5. yamux \in BOOLEAN /\ poolShut \in BOOLEAN /\ late \subseteq Conns
          /\ holder \in Users \cup {"nobody"}
      BY DEF PoolInit
    <2> QED
      BY <1>1, <1>2, <2>1, <2>2, <2>3, <2>4, <2>5
         DEF PoolTypeOK, UserType, UserAt
  <1>4. \A c \in Conns : ~Usable(c)
    BY DEF PoolInit, Usable
  <1> QED
    BY <1>1, <1>3, <1>4, <1>a DEF PoolInit, PoolInv, OpenIsTracked,
       ClosedPoolIsEmpty, DialInv, Conns

(* The order of the numbers has no descent without end.                    *)
LEMMA LessIsWellFounded ==
  IsWellFoundedOn({ss \in Nat \X Nat : ss[1] < ss[2]}, Nat)
BY NatLessThanWellFounded, Zenon DEF OpToRel

(* A set of numbers has a least one.                                       *)
LEMMA Least ==
  ASSUME NEW S, S \subseteq Nat, S # {}
  PROVE  \E m \in S : \A x \in S : m <= x
  <1> DEFINE Less == {ss \in Nat \X Nat : ss[1] < ss[2]}
  <1>1. \E m \in S : \A x \in S : ~(<<x, m>> \in Less)
    <2> HIDE DEF Less
    <2> QED BY LessIsWellFounded, WFMin DEF Less
  <1>2. \A x, m \in Nat : <<x, m>> \in Less <=> x < m
    OBVIOUS
  <1>3. PICK m \in S : \A x \in S : ~(<<x, m>> \in Less)
    BY <1>1
  <1> HIDE DEF Less
  <1>4. \A x \in S : x \in Nat /\ ~(x < m)
    BY <1>2, <1>3
  <1> QED
    BY <1>4

(* First finds a slot if there is one.                                     *)
LEMMA FirstIn == ASSUME NEW S, S \subseteq 1..MaxConns, S # {}
                 PROVE  First(S) \in S
  <1>1. S \subseteq Nat
    BY PoolAssumption DEF PoolAssumption
  <1>2. \E i \in S : \A j \in S : i <= j
    BY <1>1, Least
  <1> QED
    BY <1>2 DEF First

(* Of slots with connections some are the least busy.                      *)
LEMMA LeastBusy ==
  ASSUME NEW S, S \subseteq 1..MaxConns, S # {}
  PROVE  {i \in S : \A j \in S : Busy(slots[i]) <= Busy(slots[j])} # {}
  <1> DEFINE B == {Busy(slots[i]) : i \in S}
  <1>1. \A c : Busy(c) \in Nat
    <2> SUFFICES ASSUME NEW c PROVE Busy(c) \in Nat
      OBVIOUS
    <2> DEFINE T == {u \in Users : user[u].at = "call" /\ user[u].cli = c}
    <2>1. T \subseteq Users /\ IsFiniteSet(Users)
      BY PoolAssumption DEF PoolAssumption
    <2>2. IsFiniteSet(T)
      BY <2>1, FS_Subset
    <2>3. Cardinality(T) \in Nat
      BY <2>2, FS_CardinalityType
    <2> QED BY <2>3 DEF Busy
  <1>2. B \subseteq Nat /\ B # {}
    BY <1>1
  <1>3. \E m \in B : \A x \in B : m <= x
    <2> HIDE DEF B
    <2> QED BY <1>2, Least
  <1> QED
    BY <1>3

(* A user moves on, maybe after slots were emptied that have nothing open  *)
(* in them, and begins to dial only with connsMu.                          *)
UserMove(u) ==
  /\ user' \in UserType /\ \A v \in Users \ {u} : user'[v] = user[v]
  /\ yamux' = yamux /\ conn' = conn /\ dialled' = dialled
  /\ common' = common /\ poolShut' = poolShut /\ late' = late
  /\ free' \in Seq(Conns) /\ Len(free') <= MaxConns /\ dialled > 0
  /\ user'[u].at \in {"have", "call", "release"} => user'[u].cli \in Conns
  /\ slots' \in [1..MaxConns -> 0..MaxClients]
  /\ \A i \in 1..MaxConns : slots'[i] = slots[i] \/ (slots'[i] = 0 /\ Vacant(i))
  /\ \/ user'[u].at # "dial" /\ holder' = holder
     \/ /\ holder = "nobody" /\ holder' = u
        /\ user'[u].slot = 0 => common = 0 \/ ~Usable(common)
        /\ user'[u].slot # 0 => VacantThen(user'[u].slot)

(* Any move of a user of that form keeps the invariant of the pool.        *)
LEMMA UserMoves ==
  ASSUME PoolInv, NEW u \in Users, UserMove(u) PROVE PoolInv'
  <1> USE DEF UserMove
  <1>a. MaxConns \in Nat \ {0} /\ MaxClients \in Nat \ {0} /\ "nobody" \notin Users
    BY PoolAssumption DEF PoolAssumption
  <1>i. PoolTypeOK /\ OpenIsTracked /\ ClosedPoolIsEmpty /\ DialInv
    BY DEF PoolInv
  <1>1. PoolTypeOK'
    <2>1. holder' \in Users \cup {"nobody"}
      BY <1>i DEF PoolTypeOK
    <2> QED BY <1>i, <2>1 DEF PoolTypeOK, UserType, UserAt
  <1>2. OpenIsTracked'
    BY <1>i, <1>a DEF OpenIsTracked, Tracked, Usable, Vacant, Conns
  <1>3. ClosedPoolIsEmpty'
    BY <1>i DEF ClosedPoolIsEmpty, Usable
  <1>4. ASSUME NEW v \in Users, user'[v].at = "dial"
        PROVE  /\ holder' = v
               /\ user'[v].slot = 0 => common' = 0 \/ ~Usable(common)'
               /\ user'[v].slot # 0 => VacantThen(user'[v].slot)
    <2>1. CASE v = u
      BY <1>4, <2>1 DEF Usable
    <2>2. CASE v # u
      <3>1. user'[v] = user[v] /\ holder = v
        BY <1>4, <1>i, <2>2 DEF DialInv
      <3>2. holder' = holder
        BY <1>a, <3>1
      <3>3. user[v].slot \in 0..MaxConns
        BY <1>i DEF PoolTypeOK
      <3> QED
        BY <1>4, <1>i, <1>a, <3>1, <3>2, <3>3, SMTT(60) DEF DialInv, Usable, Vacant, VacantThen
    <2> QED BY <2>1, <2>2
  <1>5. DialInv'
    BY <1>4 DEF DialInv, Vacant, VacantThen
  <1>6. \A c \in Conns : Usable(c)' => c <= dialled'
    BY DEF PoolInv, Usable
  <1>7. common' <= dialled' /\ \A i \in 1..MaxConns : slots'[i] <= dialled'
    BY <1>i DEF PoolInv, PoolTypeOK
  <1>8. \A v \in Users : user'[v].at \in {"have", "call", "release"} =>
                          user'[v].cli \in Conns
    BY DEF PoolInv
  <1> QED
    BY <1>1, <1>2, <1>3, <1>5, <1>6, <1>7, <1>8 DEF PoolInv

(* No step loses sight of an open connection: a slot is emptied or filled  *)
(* when what was in it is not open, and Close closes what it can see.      *)
LEMMA PoolStep == PoolInv /\ [PoolNext]_poolVars => PoolInv'
  <1> SUFFICES ASSUME PoolInv, [PoolNext]_poolVars PROVE PoolInv'
    OBVIOUS
  <1>a. MaxConns \in Nat \ {0} /\ MaxClients \in Nat \ {0} /\ "nobody" \notin Users
    BY PoolAssumption DEF PoolAssumption
  <1>i. PoolTypeOK /\ OpenIsTracked /\ ClosedPoolIsEmpty /\ DialInv
    BY DEF PoolInv
  <1> USE DEF Usable, Tracked
  <1>1. CASE UNCHANGED poolVars
    BY <1>1 DEF poolVars, PoolInv, PoolTypeOK, OpenIsTracked, ClosedPoolIsEmpty,
       DialInv, Vacant
  <1>2. CASE NewPoolMux
    <2>1. \A u \in Users : user[u].at = "off"
      BY <1>2 DEF NewPoolMux, PoolInv
    <2>2. ~poolShut
      BY <1>2 DEF NewPoolMux, PoolInv
    <2>3. free' \in Seq(Conns) /\ Len(free') = 1
      BY <1>2, <1>a DEF NewPoolMux, Conns
    <2>4. 1 \in 1..MaxConns /\ 1 \in Conns
      BY <1>a DEF Conns
    <2>5. /\ conn' \in [Conns -> {"none", "open", "dead", "closed"}]
          /\ slots' \in [1..MaxConns -> 0..MaxClients] /\ slots'[1] = 1
          /\ \A c \in Conns : Usable(c)' => Usable(c) \/ c = 1
      BY <1>2, <1>i, <2>4, <1>a DEF NewPoolMux, PoolTypeOK
    <2>6. PoolTypeOK'
      BY <1>2, <1>i, <1>a, <2>3, <2>5 DEF NewPoolMux, PoolTypeOK
    <2>7. \A c \in Conns : ~Usable(c)
      BY <1>2, <1>a DEF NewPoolMux, PoolInv, Conns
    <2>8. OpenIsTracked'
      BY <2>4, <2>5, <2>7 DEF OpenIsTracked
    <2>9. common' <= dialled' /\ \A i \in 1..MaxConns : slots'[i] <= dialled'
      BY <1>2, <1>a, <1>i DEF NewPoolMux, PoolInv, PoolTypeOK
    <2> QED
      BY <1>2, <2>1, <2>2, <2>5, <2>6, <2>7, <2>8, <2>9 DEF NewPoolMux, PoolInv,
         ClosedPoolIsEmpty, DialInv
  <1>3. ASSUME NEW c \in Conns, Die(c) PROVE PoolInv'
    <2>1. /\ conn' \in [Conns -> {"none", "open", "dead", "closed"}]
          /\ \A d \in Conns : Usable(d)' => Usable(d)
      BY <1>3, <1>i DEF Die, PoolTypeOK
    <2>2. \A x : Usable(x)' => Usable(x) 
      BY <1>3, <1>i DEF Die, PoolTypeOK
    <2>3. PoolTypeOK'
      BY <1>3, <1>i, <2>1 DEF Die, PoolTypeOK
    <2> QED
      BY <1>3, <2>2, <2>3 DEF Die, PoolInv, OpenIsTracked, ClosedPoolIsEmpty,
         DialInv, Vacant
  <1>4. CASE ClosePool
    <2>1. /\ conn' \in [Conns -> {"none", "open", "dead", "closed"}]
          /\ \A c \in Conns : ~Usable(c)'
      BY <1>4, <1>i DEF ClosePool, CloseConns, PoolTypeOK, OpenIsTracked
    <2>2. PoolTypeOK'
      BY <1>4, <1>i, <1>a, <2>1 DEF ClosePool, PoolTypeOK
    <2>3. \A u \in Users : user[u].at # "dial"
      BY <1>4, <1>a, <1>i DEF ClosePool, DialInv
    <2>4. dialled \in Nat
      BY <1>i DEF PoolTypeOK
    <2> QED
      BY <1>4, <2>1, <2>2, <2>3, <2>4 DEF ClosePool, PoolInv, OpenIsTracked,
         ClosedPoolIsEmpty, DialInv
  <1>t. user \in UserType /\ free \in Seq(Conns) /\ Len(free) <= MaxConns
        /\ slots \in [1..MaxConns -> 0..MaxClients]
    BY <1>i DEF PoolTypeOK, UserType, UserAt
  <1>5. ASSUME NEW u \in Users, Enter(u) \/ Acquire(u) \/ BeginCall(u) \/ EndCall(u)
        PROVE  PoolInv'
    <2>1. PICK a \in {"check", "end", "queue", "call", "release"} :
            user' = [user EXCEPT ![u].at = a]
      BY <1>5 DEF Enter, Acquire, BeginCall, EndCall
    <2>2. /\ user' \in UserType /\ user'[u].at = a /\ user'[u].cli = user[u].cli
          /\ \A v \in Users \ {u} : user'[v] = user[v]
      BY <1>t, <2>1 DEF UserType, UserAt
    <2>3. a \in {"call", "release"} => user[u].cli \in Conns
      <3>1. a \in {"call", "release"} => user[u].at \in {"have", "call"}
        BY <1>5, <2>2, <1>t DEF Enter, Acquire, BeginCall, EndCall, UserType
      <3> QED BY <3>1 DEF PoolInv
    <2>4. dialled > 0
      BY <1>5 DEF Enter, Acquire, BeginCall, EndCall, PoolInv
    <2>5. UserMove(u)
      BY <1>5, <1>a, <1>t, <2>2, <2>3, <2>4
         DEF Enter, Acquire, BeginCall, EndCall, UserMove, Vacant
    <2> QED BY <2>5, UserMoves
  <1>h. ASSUME NEW u \in Users, NEW c \in Conns, NEW q \in BOOLEAN, Has(u, c, q)
        PROVE  /\ user' \in UserType /\ user'[u].at = "have" /\ user'[u].cli = c
               /\ \A v \in Users \ {u} : user'[v] = user[v]
    BY <1>h, <1>t, <1>a DEF Has, UserType, UserAt, Conns
  <1>c. ASSUME NEW u \in Users, NEW i \in 0..MaxConns, NEW q \in BOOLEAN,
               Connects(u, i, q)
        PROVE  /\ user' \in UserType /\ user'[u].at = "dial" /\ user'[u].slot = i
               /\ \A v \in Users \ {u} : user'[v] = user[v]
    BY <1>c, <1>t, <1>a DEF Connects, UserType, UserAt
  <1>m. ASSUME NEW u \in Users, NEW a \in UserAt, user' = [user EXCEPT ![u].at = a]
        PROVE  /\ user' \in UserType /\ user'[u].at = a
               /\ \A v \in Users \ {u} : user'[v] = user[v]
    BY <1>m, <1>t DEF UserType
  <1>6. ASSUME NEW u \in Users, FromQueue(u) PROVE PoolInv'
    <2>1. dialled > 0 /\ UNCHANGED <<slots, holder, yamux, conn, dialled, common, poolShut, late>>
      BY <1>6 DEF FromQueue, PoolInv
    <2>2. CASE free # <<>> /\ free' = Tail(free) /\ Has(u, Head(free), TRUE)
      <3>1. Head(free) \in Conns /\ free' \in Seq(Conns) /\ Len(free') <= MaxConns
        BY <1>t, <1>a, <2>2
      <3>2. /\ user' \in UserType /\ user'[u].at = "have" /\ user'[u].cli = Head(free)
            /\ \A v \in Users \ {u} : user'[v] = user[v]
        BY <1>h, <2>2, <3>1
      <3>u. UserMove(u)
        BY <1>a, <1>t, <2>1, <3>1, <3>2 DEF UserMove, Vacant
      <3> QED BY <3>u, UserMoves
    <2>3. CASE free # <<>> /\ free' = Tail(free) /\ UNCHANGED user
      <3>1. free' \in Seq(Conns) /\ Len(free') <= MaxConns
        BY <1>t, <1>a, <2>3
      <3>2. user'[u].at = "queue"
        BY <1>6, <2>3 DEF FromQueue
      <3>u. UserMove(u)
        BY <1>a, <1>t, <2>1, <2>3, <3>1, <3>2 DEF UserMove, Vacant
      <3> QED BY <3>u, UserMoves
    <2>4. CASE user' = [user EXCEPT ![u].at = "unique"] /\ UNCHANGED free
      <3>1. /\ user' \in UserType /\ user'[u].at = "unique"
            /\ \A v \in Users \ {u} : user'[v] = user[v]
        BY <1>m, <2>4 DEF UserAt
      <3>u. UserMove(u)
        BY <1>a, <1>t, <2>1, <2>4, <3>1 DEF UserMove, Vacant
      <3> QED BY <3>u, UserMoves
    <2> QED BY <1>6, <2>2, <2>3, <2>4 DEF FromQueue
  <1>7. ASSUME NEW u \in Users, Release(u) PROVE PoolInv'
    <2>1. dialled > 0 /\ UNCHANGED <<slots, holder, yamux, conn, dialled, common, poolShut, late>>
      BY <1>7 DEF Release, PoolInv
    <2>2. user[u].cli \in Conns
      BY <1>7 DEF Release, PoolInv
    <2>3. /\ user' \in UserType /\ user'[u].at = "end"
          /\ \A v \in Users \ {u} : user'[v] = user[v]
      BY <1>7, <1>m DEF UserAt, Release
    <2>4. free' \in Seq(Conns) /\ Len(free') <= MaxConns
      <3>1. CASE free' = free
        BY <3>1, <1>t
      <3>2. CASE free' = Append(free, user[u].cli) /\ Len(free) < MaxConns
        <4>1. free' \in Seq(Conns) /\ Len(free') = Len(free) + 1
          BY <3>2, <2>2, <1>t, AppendProperties
        <4>2. Len(free) \in Nat
          BY <1>t
        <4> QED BY <3>2, <4>1, <4>2, <1>a
      <3> QED BY <1>7, <3>1, <3>2 DEF Release
    <2>u. UserMove(u)
      BY <1>a, <1>t, <2>1, <2>3, <2>4 DEF UserMove, Vacant
    <2> QED BY <2>u, UserMoves
  <1>8. ASSUME NEW u \in Users, Scan(u) PROVE PoolInv'
    <2> DEFINE fit == {i \in 1..MaxConns : slots[i] = 0 \/ Dead(i) \/ Rests(i)}
    <2>1. dialled > 0 /\ UNCHANGED <<free, yamux, conn, dialled, common, poolShut, late>>
      BY <1>8 DEF Scan, PoolInv
    <2>f. fit # {} => First(fit) \in fit
      <3>1. fit \subseteq 1..MaxConns
        OBVIOUS
      <3> HIDE DEF fit
      <3> QED BY <3>1, FirstIn
    <2>2. CASE user' = [user EXCEPT ![u].at = "shared"] /\ UNCHANGED <<slots, holder>>
      <3>1. /\ user' \in UserType /\ user'[u].at = "shared"
            /\ \A v \in Users \ {u} : user'[v] = user[v]
        BY <1>m, <2>2 DEF UserAt
      <3>u. UserMove(u)
        BY <1>a, <1>t, <2>1, <2>2, <3>1 DEF UserMove, Vacant
      <3> QED BY <3>u, UserMoves
    <2>3. CASE /\ fit # {} /\ Rests(First(fit)) /\ Has(u, slots[First(fit)], TRUE)
               /\ UNCHANGED <<slots, holder>>
      <3>1. slots[First(fit)] \in Conns
        <4> HIDE DEF fit
        <4>1. First(fit) \in 1..MaxConns
          BY <2>f, <2>3 DEF fit
        <4>2. slots[First(fit)] \in 0..MaxClients /\ slots[First(fit)] # 0
          BY <1>t, <2>3, <4>1 DEF Rests
        <4> QED BY <1>a, <4>2 DEF Conns
      <3>2. /\ user' \in UserType /\ user'[u].at = "have"
            /\ user'[u].cli = slots[First(fit)]
            /\ \A v \in Users \ {u} : user'[v] = user[v]
        <4> HIDE DEF fit
        <4> QED BY <1>h, <2>3, <3>1
      <3> QED
        <4> HIDE DEF fit
        <4>u. UserMove(u)
          BY <1>a, <1>t, <2>1, <2>3, <3>1, <3>2 DEF UserMove, Vacant
        <4> QED BY <4>u, UserMoves
    <2>4. CASE /\ fit # {} /\ ~Rests(First(fit)) /\ Connects(u, First(fit), TRUE)
               /\ slots' = [slots EXCEPT ![First(fit)] = 0]
      <3> DEFINE f == First(fit)
      <3>1. f \in 1..MaxConns /\ Vacant(f)
        BY <2>f, <2>4 DEF Vacant, Dead
      <3> HIDE DEF f
      <3>2. /\ Connects(u, f, TRUE)
            /\ slots' = [slots EXCEPT ![f] = 0]
        BY <2>4 DEF f
      <3>3. /\ user' \in UserType /\ user'[u].at = "dial" /\ user'[u].slot = f
            /\ \A v \in Users \ {u} : user'[v] = user[v]
        <4>1. f \in 0..MaxConns /\ TRUE \in BOOLEAN
          BY <1>a, <3>1
        <4> QED BY <1>c, <3>2, <4>1
      <3>4. /\ slots' \in [1..MaxConns -> 0..MaxClients] /\ slots'[f] = 0
            /\ \A i \in 1..MaxConns : slots'[i] = slots[i] \/ (slots'[i] = 0 /\ Vacant(i))
        BY <1>t, <1>a, <3>1, <3>2
      <3>5. holder = "nobody" /\ holder' = u
        BY <1>8, <3>2 DEF Scan, Connects
      <3>6. f # 0 /\ VacantThen(f)
        BY <1>a, <3>1, <3>4 DEF VacantThen
      <3>u. UserMove(u)
        BY <1>a, <1>t, <2>1, <3>3, <3>4, <3>5, <3>6 DEF UserMove, Vacant
      <3> QED BY <3>u, UserMoves
    <2> QED BY <1>8, <2>2, <2>3, <2>4 DEF Scan
  <1>9. ASSUME NEW u \in Users, SharedMux(u) PROVE PoolInv'
    <2>1. dialled > 0 /\ UNCHANGED <<free, yamux, conn, dialled, common, poolShut, late, slots>>
      BY <1>9 DEF SharedMux, PoolInv
    <2>2. CASE common # 0 /\ Has(u, common, FALSE) /\ UNCHANGED holder
      <3>1. common \in Conns
        BY <1>i, <1>a, <2>2 DEF PoolTypeOK, Conns
      <3>2. /\ user' \in UserType /\ user'[u].at = "have" /\ user'[u].cli = common
            /\ \A v \in Users \ {u} : user'[v] = user[v]
        BY <1>h, <2>2, <3>1
      <3>u. UserMove(u)
        BY <1>a, <1>t, <2>1, <2>2, <3>1, <3>2 DEF UserMove, Vacant
      <3> QED BY <3>u, UserMoves
    <2>3. CASE ~(common # 0 /\ Usable(common)) /\ Connects(u, 0, FALSE)
      <3>1. /\ user' \in UserType /\ user'[u].at = "dial" /\ user'[u].slot = 0
            /\ \A v \in Users \ {u} : user'[v] = user[v]
        <4>1. 0 \in 0..MaxConns /\ FALSE \in BOOLEAN
          BY <1>a
        <4> QED BY <1>c, <2>3, <4>1
      <3>2. holder = "nobody" /\ holder' = u
        BY <1>9, <2>3 DEF SharedMux, Connects
      <3>u. UserMove(u)
        BY <1>a, <1>t, <2>1, <2>3, <3>1, <3>2 DEF UserMove, Vacant
      <3> QED BY <3>u, UserMoves
    <2> QED BY <1>9, <2>2, <2>3 DEF SharedMux
  <1>10. ASSUME NEW u \in Users, SharedBusy(u) PROVE PoolInv'
    <2> DEFINE open == {i \in 1..MaxConns : slots[i] # 0 /\ ~Dead(i)}
               best == {i \in open : \A j \in open : Busy(slots[i]) <= Busy(slots[j])}
    <2>1. dialled > 0 /\ UNCHANGED <<free, yamux, conn, dialled, common, poolShut, late>>
      BY <1>10 DEF SharedBusy, PoolInv
    <2>2. /\ slots' \in [1..MaxConns -> 0..MaxClients]
          /\ \A i \in 1..MaxConns : slots'[i] = slots[i] \/ (slots'[i] = 0 /\ Vacant(i))
          /\ \A i \in 1..MaxConns : i \notin open => slots'[i] = 0
      BY <1>10, <1>t, <1>a DEF SharedBusy, Dead, Vacant
    <2>3. CASE open # {} /\ Has(u, slots[First(best)], FALSE) /\ UNCHANGED holder
      <3>1. best # {} /\ best \subseteq open /\ open \subseteq 1..MaxConns
        <4>1. open \subseteq 1..MaxConns /\ best \subseteq open
          OBVIOUS
        <4>2. best # {}
          <5> HIDE DEF open
          <5> QED BY <2>3, <4>1, LeastBusy
        <4> QED BY <4>1, <4>2
      <3>2. First(best) \in best
        <4> HIDE DEF best, open
        <4> QED BY <3>1, FirstIn
      <3>3. slots[First(best)] \in Conns
        <4> DEFINE b == First(best)
        <4>1. b \in 1..MaxConns /\ slots[b] # 0
          BY <3>1, <3>2
        <4> HIDE DEF b
        <4>2. slots[b] \in Conns
          BY <1>t, <1>a, <4>1 DEF Conns
        <4> QED BY <4>2 DEF b
      <3>4. /\ user' \in UserType /\ user'[u].at = "have"
            /\ user'[u].cli = slots[First(best)]
            /\ \A v \in Users \ {u} : user'[v] = user[v]
        <4> HIDE DEF best, open
        <4> QED BY <1>h, <2>3, <3>3
      <3> QED
        <4> HIDE DEF best, open
        <4>u. UserMove(u)
          BY <1>a, <1>t, <2>1, <2>2, <2>3, <3>3, <3>4 DEF UserMove, Vacant
        <4> QED BY <4>u, UserMoves
    <2>4. CASE open = {} /\ Connects(u, 1, TRUE)
      <3>1. /\ user' \in UserType /\ user'[u].at = "dial" /\ user'[u].slot = 1
            /\ \A v \in Users \ {u} : user'[v] = user[v]
        <4>1. 1 \in 0..MaxConns /\ TRUE \in BOOLEAN
          BY <1>a
        <4> QED BY <1>c, <2>4, <4>1
      <3>2. holder = "nobody" /\ holder' = u
        BY <1>10, <2>4 DEF SharedBusy, Connects
      <3>3. VacantThen(1) /\ 1 # 0
        BY <1>a, <2>2, <2>4 DEF VacantThen
      <3> HIDE DEF best, open
      <3>u. UserMove(u)
        BY <1>a, <1>t, <2>1, <2>2, <2>4, <3>1, <3>2, <3>3 DEF UserMove, Vacant
      <3> QED BY <3>u, UserMoves
    <2> QED BY <1>10, <2>3, <2>4 DEF SharedBusy
  <1>11. ASSUME NEW u \in Users, Dial(u) PROVE PoolInv'
    <2> DEFINE c == dialled + 1
               s == user[u].slot
    <2>1. c \in Conns /\ dialled \in Nat /\ s \in 0..MaxConns
      BY <1>11, <1>a, <1>i DEF Dial, PoolTypeOK, Conns
    <2>2. /\ holder = u
          /\ s = 0 => common = 0 \/ ~Usable(common)
          /\ s # 0 => Vacant(s)
      BY <1>11, <1>i DEF Dial, DialInv
    <2> HIDE DEF c, s
    <2>3. /\ dialled' = c /\ conn' = [conn EXCEPT ![c] = "open"]
          /\ slots' = (IF s = 0 THEN slots ELSE [slots EXCEPT ![s] = c])
          /\ common' = (IF s = 0 THEN c ELSE common)
          /\ Has(u, c, user[u].unique) /\ holder' = "nobody"
          /\ late' = (IF poolShut THEN late \cup {c} ELSE late)
          /\ UNCHANGED <<yamux, free, poolShut>>
      BY <1>11 DEF Dial, c, s
    <2>4. c = dialled + 1
      BY DEF c
    <2>5. /\ user' \in UserType /\ user'[u].at = "have" /\ user'[u].cli = c
          /\ \A v \in Users \ {u} : user'[v] = user[v]
      <3>1. user[u].unique \in BOOLEAN
        BY <1>t DEF UserType
      <3> QED BY <1>h, <2>1, <2>3, <3>1
    <2>6. /\ conn' \in [Conns -> {"none", "open", "dead", "closed"}]
          /\ \A d \in Conns : Usable(d)' => Usable(d) \/ d = c
      BY <1>i, <2>1, <2>3 DEF PoolTypeOK
    <2>7. /\ slots' \in [1..MaxConns -> 0..MaxClients] /\ common' \in 0..MaxClients
          /\ s # 0 => slots'[s] = c
          /\ \A i \in 1..MaxConns : i # s => slots'[i] = slots[i]
      BY <1>i, <1>t, <1>a, <2>1, <2>3 DEF Conns, PoolTypeOK
    <2>8. c \in 0..MaxClients /\ late' \subseteq Conns
      BY <1>i, <1>a, <2>1, <2>3 DEF PoolTypeOK, Conns
    <2>9. PoolTypeOK'
      BY <1>i, <2>3, <2>5, <2>6, <2>7, <2>8 DEF PoolTypeOK, UserType, UserAt
    <2>10. OpenIsTracked'
      <3> SUFFICES ASSUME NEW d \in Conns, Usable(d)' PROVE d \in Tracked'
        BY DEF OpenIsTracked
      <3>1. CASE d = c
        <4>1. CASE s = 0
          BY <2>3, <3>1, <4>1
        <4>2. CASE s # 0
          BY <1>a, <2>1, <2>7, <3>1, <4>2
        <4> QED BY <4>1, <4>2
      <3>2. CASE d # c
        <4>1. Usable(d) /\ d # 0
          BY <1>a, <2>6, <3>2 DEF Conns
        <4>2. CASE d = common
          BY <2>2, <2>3, <4>1, <4>2
        <4>3. ASSUME NEW i \in 1..MaxConns, d = slots[i] PROVE d \in Tracked'
          <5>1. i # s
            BY <2>2, <4>1, <4>3, <1>a DEF Vacant
          <5> QED BY <2>7, <4>3, <5>1
        <4> QED BY <1>i, <4>1, <4>2, <4>3 DEF OpenIsTracked
      <3> QED BY <3>1, <3>2
    <2>11. ClosedPoolIsEmpty'
      BY <1>i, <2>3, <2>6 DEF ClosedPoolIsEmpty
    <2>12. DialInv'
      <3>1. \A v \in Users : user'[v].at # "dial"
        BY <1>i, <2>2, <2>5 DEF DialInv
      <3> QED BY <3>1 DEF DialInv
    <2>13. \A d \in Conns : Usable(d)' => d <= dialled'
      BY <1>a, <2>1, <2>3, <2>4, <2>6 DEF PoolInv, Conns
    <2>14. common' <= dialled' /\ \A i \in 1..MaxConns : slots'[i] <= dialled'
      <3>1. common <= dialled /\ \A i \in 1..MaxConns : slots[i] <= dialled
        BY DEF PoolInv
      <3>2. common \in Nat /\ \A i \in 1..MaxConns : slots[i] \in Nat
        BY <1>i, <1>a DEF PoolTypeOK
      <3> QED BY <2>1, <2>3, <2>4, <2>7, <3>1, <3>2
    <2>15. \A v \in Users : user'[v].at \in {"have", "call", "release"} =>
                              user'[v].cli \in Conns
      BY <2>1, <2>5 DEF PoolInv
    <2>16. dialled' > 0
      BY <2>1, <2>3, <2>4
    <2> QED
      BY <2>9, <2>10, <2>11, <2>12, <2>13, <2>14, <2>15, <2>16 DEF PoolInv
  <1>12. ASSUME NEW u \in Users, DialFails(u) PROVE PoolInv'
    <2>1. /\ holder = u
          /\ user[u].slot = 0 => common = 0 \/ ~Usable(common)
      BY <1>12, <1>i DEF DialFails, DialInv
    <2>2. /\ user' \in UserType /\ user'[u].at = "end"
          /\ \A v \in Users \ {u} : user'[v] = user[v]
      BY <1>12, <1>m DEF UserAt, DialFails
    <2>3. common' \in 0..MaxClients
      BY <1>12, <1>a, <1>i DEF DialFails, PoolTypeOK
    <2>4. PoolTypeOK'
      BY <1>12, <1>i, <2>2, <2>3 DEF DialFails, PoolTypeOK, UserType, UserAt
    <2>5. OpenIsTracked'
      BY <1>12, <1>a, <1>i, <2>1 DEF DialFails, OpenIsTracked, Conns
    <2>6. DialInv'
      <3>1. \A v \in Users : user'[v].at # "dial"
        BY <1>i, <2>1, <2>2 DEF DialInv
      <3> QED BY <3>1 DEF DialInv
    <2>7. common' <= dialled'
      BY <1>12, <1>i DEF DialFails, PoolInv, PoolTypeOK
    <2> QED
      BY <1>12, <2>2, <2>4, <2>5, <2>6, <2>7 DEF DialFails, PoolInv,
         ClosedPoolIsEmpty
  <1> QED
    BY <1>1, <1>2, <1>3, <1>4, <1>5, <1>6, <1>7, <1>8, <1>9, <1>10, <1>11, <1>12
       DEF PoolNext, PoolUser, PeerAnswers

-----------------------------------------------------------------------------
(* Certificates.                                                           *)

CertAts == {"off", "load", "lock", "again", "gen", "made", "key", "key2",
            "crt", "crt2", "store"}
Locked(c) == c.at \in {"again", "gen", "made", "key", "key2", "crt", "crt2", "store"}
Making(c) == c.at \in {"gen", "made", "key", "key2", "crt", "crt2", "store"}

CertTypes ==
  /\ certCache \in [CertIds -> Nat] /\ given \in [CertIds -> Nat]
  /\ crtFile \in [CertIds -> Int] /\ certs \in Nat
  /\ keyFile \in [CertIds -> {"none", "torn", "key"}]
  /\ genLock \in [0..1 -> Askers \cup {"none"}]
  /\ asker \in [Askers -> [1..2 -> [id : CertIds, at : CertAts, cert : Nat]]]

(* The second call is there for the root of the first.                     *)
NestedInv ==
  \A a \in Askers : asker[a][2].at # "off" =>
    asker[a][2].id = "root" /\ asker[a][1].id # "root" /\ asker[a][1].at = "gen"

(* Whoever makes a certificate has its lock since it found that there is   *)
(* none, neither in the cache nor whole in its files.                      *)
CallInv(a, d) ==
  LET c == asker[a][d] IN
  /\ Locked(c) => genLock[LockOf(c.id)] = a
  /\ Making(c) => certCache[c.id] = NoCert /\ given[c.id] = NoCert
  /\ c.at \in {"key", "key2", "crt", "crt2", "store"} => c.cert # NoCert
  /\ c.at \in {"crt", "crt2", "store"} => keyFile[c.id] = "key"
  /\ c.at = "store" => crtFile[c.id] = c.cert

SavedInv ==
  \A i \in CertIds : /\ certCache[i] # NoCert => given[i] = certCache[i]
                     /\ GivenIsSaved(i)

CertInv ==
  /\ CertTypes /\ NestedInv /\ SavedInv
  /\ \A a \in Askers, d \in 1..2 : CallInv(a, d)

(* There are no certificates at first.                                     *)
LEMMA CertInitInv == CertInit => CertInv
  <1> SUFFICES ASSUME CertInit PROVE CertInv
    OBVIOUS
  <1>a. "root" \in CertIds
    BY CertAssumption DEF CertAssumption
  <1>1. /\ asker \in [Askers -> [1..2 -> [id : CertIds, at : CertAts, cert : Nat]]]
        /\ \A a \in Askers, d \in 1..2 : asker[a][d].at = "off"
    BY <1>a DEF CertInit, NoAsk, NoCert, CertAts
  <1> QED
    BY <1>1 DEF CertInit, CertInv, CertTypes, NestedInv, CallInv, SavedInv,
       Locked, Making, GivenIsSaved, NoCert

(* One call at a time has a lock: the call that needs the root and that    *)
(* for the root have different ones.                                       *)
LEMMA OneMaker ==
  ASSUME CertInv, NEW a \in Askers, NEW d \in 1..2, NEW b \in Askers, NEW e \in 1..2,
         Locked(asker[a][d]), Locked(asker[b][e]),
         asker[a][d].id = asker[b][e].id
  PROVE  a = b /\ d = e
  <1>1. a = b
    BY DEF CertInv, CertTypes, NestedInv, CallInv
  <1>2. d = e
    <2>1. ~(asker[a][1].id = asker[a][2].id /\ asker[a][2].at # "off")
      BY DEF CertInv, CertTypes, NestedInv, CallInv
    <2>2. d \in {1, 2} /\ e \in {1, 2}
      OBVIOUS
    <2> QED BY <1>1, <2>1, <2>2 DEF Locked
  <1> QED BY <1>1, <1>2

(* Every step of ObtainCertificate keeps what is given out in its files,   *)
(* and what was given out as it was; so does the end of the process.       *)
LEMMA CertStepInv ==
  CertInv /\ [CertNext]_certVars =>
    CertInv' /\ \A i \in CertIds : given[i] # NoCert => given'[i] = given[i]
  <1> DEFINE Kept == \A i \in CertIds : given[i] # NoCert => given'[i] = given[i]
  <1> SUFFICES ASSUME CertInv, [CertNext]_certVars PROVE CertInv' /\ Kept
    OBVIOUS
  <1>a. "root" \in CertIds /\ "none" \notin Askers
    BY CertAssumption DEF CertAssumption
  <1>1. CASE UNCHANGED certVars
    BY <1>1 DEF certVars, CertInv, CertTypes, NestedInv, CallInv, SavedInv,
       GivenIsSaved
  <1>2. CASE CertCrash
    <2>1. /\ asker' \in [Askers -> [1..2 -> [id : CertIds, at : CertAts, cert : Nat]]]
          /\ \A a \in Askers, d \in 1..2 : asker'[a][d].at = "off"
      BY <1>2, <1>a DEF CertCrash, NoAsk, NoCert, CertAts
    <2> QED
      BY <1>2, <2>1 DEF CertCrash, CertInv, CertTypes, NestedInv, CallInv,
         SavedInv, Locked, Making, GivenIsSaved, NoCert
  <1>3. ASSUME NEW a \in Askers, NEW id \in CertIds, Obtain(a, id)
        PROVE CertInv' /\ Kept
    <2>1. asker[a][1].at = "off" /\ asker[a][2].at = "off"
      BY <1>3 DEF Obtain, CertAt, CertTop, Depth, CertInv, CertTypes, NestedInv
    <2>2. /\ asker' \in [Askers -> [1..2 -> [id : CertIds, at : CertAts, cert : Nat]]]
          /\ asker'[a][1].at = "load" /\ asker'[a][2] = asker[a][2]
          /\ \A b \in Askers \ {a}, d \in 1..2 : asker'[b][d] = asker[b][d]
      BY <1>3 DEF Obtain, Call, CertInv, CertTypes, CertAts, NoCert
    <2>3. \A b \in Askers, d \in 1..2 : asker'[b][d] = asker[b][d] \/ asker'[b][d].at = "load"
      BY <2>2
    <2> QED
      BY <1>3, <2>1, <2>2, <2>3 DEF Obtain, CertInv, CertTypes, NestedInv,
         CallInv, SavedInv, Locked, Making, GivenIsSaved
  <1>p. ASSUME NEW a \in Askers, NEW at \in CertAts, NEW x \in Nat, Put(a, at, x),
               ~CertAt(a, "off")
        PROVE  /\ asker' \in [Askers -> [1..2 -> [id : CertIds, at : CertAts, cert : Nat]]]
               /\ asker'[a][Depth(a)].at = at /\ asker'[a][Depth(a)].cert = x
               /\ asker'[a][Depth(a)].id = CertTop(a).id
               /\ \A b \in Askers, e \in 1..2 :
                    b # a \/ e # Depth(a) => asker'[b][e] = asker[b][e]
    BY <1>p DEF Put, CertInv, CertTypes, CertTop, Depth
  <1>d. ASSUME NEW a \in Askers, ~CertAt(a, "off")
        PROVE  /\ Depth(a) \in 1..2 /\ CertTop(a) = asker[a][Depth(a)]
               /\ CertTop(a).id \in CertIds /\ CertTop(a).cert \in Nat
               /\ asker[a][2].at # "off" => Depth(a) = 2
               /\ Depth(a) = 2 => asker[a][2].at # "off"
    BY <1>d DEF CertInv, CertTypes, CertTop, Depth, CertAt
  <1>o. ASSUME NEW a \in Askers, Locked(CertTop(a))
        PROVE  \A b \in Askers, e \in 1..2 :
                 Locked(asker[b][e]) /\ asker[b][e].id = CertTop(a).id
                   => b = a /\ e = Depth(a)
    <2>1. Depth(a) \in 1..2
      BY DEF Depth
    <2> QED BY <1>o, <2>1, OneMaker DEF CertTop
  <1>r. ASSUME NEW a \in Askers, ReturnCert(a), ~CertAt(a, "off")
        PROVE  /\ asker' \in [Askers -> [1..2 -> [id : CertIds, at : CertAts, cert : Nat]]]
               /\ asker'[a][2].at = "off"
               /\ Depth(a) = 1 => asker'[a][1].at = "off"
               /\ Depth(a) = 2 => /\ asker'[a][1].at = "made"
                                  /\ asker'[a][1].id = asker[a][1].id
                                  /\ asker[a][1].at = "gen"
                                  /\ asker[a][1].id # CertTop(a).id
               /\ \A b \in Askers \ {a}, e \in 1..2 : asker'[b][e] = asker[b][e]
    <2>1. asker' \in [Askers -> [1..2 -> [id : CertIds, at : CertAts, cert : Nat]]]
      BY <1>r, <1>a DEF ReturnCert, CertInv, CertTypes, NoAsk, NoCert, CertAts
    <2>2. \A b \in Askers \ {a}, e \in 1..2 : asker'[b][e] = asker[b][e]
      BY <1>r DEF ReturnCert, CertInv, CertTypes
    <2>3. asker'[a][2].at = "off"
      BY <1>r DEF ReturnCert, CertInv, CertTypes, NoAsk
    <2>4. Depth(a) = 1 => asker'[a][1].at = "off"
      BY <1>r DEF ReturnCert, CertInv, CertTypes, NoAsk
    <2>5. Depth(a) = 2 => asker'[a][1].at = "made" /\ asker'[a][1].id = asker[a][1].id
      BY <1>r DEF ReturnCert, CertInv, CertTypes
    <2>6. Depth(a) = 2 => asker[a][1].at = "gen" /\ asker[a][1].id # CertTop(a).id
      BY DEF CertInv, NestedInv, Depth, CertTop
    <2> QED BY <2>1, <2>2, <2>3, <2>4, <2>5, <2>6
(* Returning a certificate without a change of files or locks.             *)
  <1>s. ASSUME NEW a \in Askers, ReturnCert(a), ~CertAt(a, "off"),
               given' = given,
               UNCHANGED <<certCache, crtFile, keyFile, genLock, certs>>
        PROVE  CertInv' /\ Kept
    <2>1. CertTypes' /\ SavedInv' /\ Kept
      BY <1>s, <1>r DEF CertInv, CertTypes, SavedInv, GivenIsSaved
    <2>2. NestedInv'
      BY <1>s, <1>r DEF CertInv, NestedInv
    <2>3. ASSUME NEW b \in Askers, NEW e \in 1..2 PROVE CallInv(b, e)'
      <3>1. CASE b # a
        BY <1>s, <1>r, <3>1 DEF CertInv, CallInv
      <3>2. CASE b = a /\ asker'[b][e].at = "off"
        BY <3>2 DEF CallInv, Locked, Making
      <3>3. CASE b = a /\ e = 1 /\ Depth(a) = 2
        <4>1. CallInv(a, 1)
          BY DEF CertInv
        <4> QED BY <1>s, <1>r, <3>3, <4>1 DEF CallInv, Locked, Making
      <3> QED
        <4>1. e \in {1, 2} /\ Depth(a) \in {1, 2}
          BY DEF Depth
        <4> QED BY <1>s, <1>r, <3>1, <3>2, <3>3, <4>1
    <2> QED BY <2>1, <2>2, <2>3 DEF CertInv
  <1>4. ASSUME NEW a \in Askers, LoadCached(a) PROVE CertInv' /\ Kept
    <2>0. CertTop(a).at = "load" /\ ~CertAt(a, "off")
      BY <1>4 DEF LoadCached, CertAt
    <2>1. CASE certCache[CertTop(a).id] # NoCert
      <3>1. /\ ReturnCert(a)
            /\ given' = [given EXCEPT ![CertTop(a).id] = certCache[CertTop(a).id]]
        BY <1>4, <2>1 DEF LoadCached
      <3>2. given' = given
        BY <1>d, <2>0, <2>1, <3>1 DEF CertInv, CertTypes, SavedInv
      <3>3. UNCHANGED <<certCache, crtFile, keyFile, genLock, certs>>
        BY <1>4 DEF LoadCached
      <3> QED BY <1>s, <2>0, <3>1, <3>2, <3>3
    <2>2. CASE certCache[CertTop(a).id] = NoCert
      <3>1. Goto(a, "lock") /\ given' = given
        BY <1>4, <2>2 DEF LoadCached
      <3>2. /\ asker' \in [Askers -> [1..2 -> [id : CertIds, at : CertAts, cert : Nat]]]
            /\ asker'[a][Depth(a)].at = "lock"
            /\ asker'[a][Depth(a)].id = CertTop(a).id
            /\ \A b \in Askers, e \in 1..2 :
                 b # a \/ e # Depth(a) => asker'[b][e] = asker[b][e]
        BY <1>p, <1>d, <2>0, <3>1 DEF Goto, CertAts
      <3>3. UNCHANGED <<certCache, crtFile, keyFile, genLock, certs, given>>
        BY <1>4, <3>1 DEF LoadCached
      <3>4. CertTypes' /\ SavedInv' /\ Kept
        BY <3>2, <3>3 DEF CertInv, CertTypes, SavedInv, GivenIsSaved
      <3>5. NestedInv'
        BY <1>d, <2>0, <3>2 DEF CertInv, NestedInv
      <3>6. \A b \in Askers, e \in 1..2 : CallInv(b, e)'
        BY <3>2, <3>3, SMTT(60) DEF CertInv, CallInv, Locked, Making
      <3> QED BY <3>4, <3>5, <3>6 DEF CertInv
    <2> QED BY <2>1, <2>2
  <1>5. ASSUME NEW a \in Askers, LockGen(a) PROVE CertInv' /\ Kept
    <2>0. CertTop(a).at = "lock" /\ ~CertAt(a, "off") /\ Goto(a, "again")
      BY <1>5 DEF LockGen, CertAt
    <2>1. /\ asker' \in [Askers -> [1..2 -> [id : CertIds, at : CertAts, cert : Nat]]]
          /\ asker'[a][Depth(a)].at = "again"
          /\ asker'[a][Depth(a)].id = CertTop(a).id
          /\ \A b \in Askers, e \in 1..2 :
               b # a \/ e # Depth(a) => asker'[b][e] = asker[b][e]
      BY <1>p, <1>d, <2>0 DEF Goto, CertAts
    <2>2. LockOf(CertTop(a).id) \in 0..1
      BY DEF LockOf
    <2>3. \A b \in Askers, e \in 1..2 : Locked(asker[b][e]) =>
            LockOf(asker[b][e].id) # LockOf(CertTop(a).id)
      BY <1>5, <1>a DEF LockGen, CertInv, CallInv
    <2>4. /\ genLock' \in [0..1 -> Askers \cup {"none"}]
          /\ genLock'[LockOf(CertTop(a).id)] = a
          /\ \A k \in 0..1 : k # LockOf(CertTop(a).id) => genLock'[k] = genLock[k]
      BY <1>5, <2>2 DEF LockGen, CertInv, CertTypes
    <2>5. \A b \in Askers, e \in 1..2 : Locked(asker'[b][e]) =>
            genLock'[LockOf(asker'[b][e].id)] = b
      <3> SUFFICES ASSUME NEW b \in Askers, NEW e \in 1..2, Locked(asker'[b][e])
                   PROVE  genLock'[LockOf(asker'[b][e].id)] = b
        OBVIOUS
      <3>1. CASE b = a /\ e = Depth(a)
        BY <2>1, <2>4, <3>1
      <3>2. CASE ~(b = a /\ e = Depth(a))
        <4>1. LockOf(asker[b][e].id) \in 0..1
          BY DEF LockOf
        <4> QED BY <2>1, <2>3, <2>4, <3>2, <4>1 DEF CertInv, CallInv
      <3> QED BY <3>1, <3>2
    <2>6. UNCHANGED <<certCache, crtFile, keyFile, certs, given>>
      BY <1>5 DEF LockGen
    <2>7. CertTypes' /\ SavedInv' /\ Kept
      BY <2>1, <2>4, <2>6 DEF CertInv, CertTypes, SavedInv, GivenIsSaved
    <2>8. NestedInv'
      BY <1>d, <2>0, <2>1 DEF CertInv, NestedInv
    <2>9. \A b \in Askers, e \in 1..2 : CallInv(b, e)'
      BY <2>1, <2>5, <2>6 DEF CertInv, CallInv, Locked, Making
    <2> QED BY <2>7, <2>8, <2>9 DEF CertInv
(* A certificate is given out under the lock.                              *)
  <1>g. ASSUME NEW a \in Askers, NEW have \in Nat \ {NoCert}, ReturnCert(a),
               Locked(CertTop(a)),
               given[CertTop(a).id] # NoCert => given[CertTop(a).id] = have,
               crtFile[CertTop(a).id] = have, keyFile[CertTop(a).id] = "key",
               certCache' = [certCache EXCEPT ![CertTop(a).id] = have],
               given' = [given EXCEPT ![CertTop(a).id] = have],
               genLock' = [genLock EXCEPT ![LockOf(CertTop(a).id)] = "none"],
               UNCHANGED <<crtFile, keyFile, certs>>
        PROVE  CertInv' /\ Kept
    <2> DEFINE id == CertTop(a).id
    <2>0. ~CertAt(a, "off")
      BY <1>g DEF CertAt, Locked
    <2>i. id \in CertIds /\ LockOf(id) \in 0..1
      BY <1>d, <2>0 DEF LockOf
    <2>r. /\ asker' \in [Askers -> [1..2 -> [id : CertIds, at : CertAts, cert : Nat]]]
          /\ asker'[a][2].at = "off"
          /\ Depth(a) = 1 => asker'[a][1].at = "off"
          /\ Depth(a) = 2 => /\ asker'[a][1].at = "made"
                             /\ asker'[a][1].id = asker[a][1].id
                             /\ asker[a][1].at = "gen"
                             /\ asker[a][1].id # id
          /\ \A b \in Askers \ {a}, e \in 1..2 : asker'[b][e] = asker[b][e]
      BY <1>r, <1>g, <2>0
    <2>o. \A b \in Askers, e \in 1..2 :
            Locked(asker[b][e]) /\ LockOf(asker[b][e].id) = LockOf(id) => b = a
      BY <1>g, <1>d, <2>0 DEF CertInv, CallInv
    <2>l. Depth(a) = 2 => LockOf(asker[a][1].id) # LockOf(id)
      BY DEF CertInv, NestedInv, Depth, CertTop, LockOf
    <2> HIDE DEF id
    <2>u. /\ certCache' = [certCache EXCEPT ![id] = have]
          /\ given' = [given EXCEPT ![id] = have]
          /\ genLock' = [genLock EXCEPT ![LockOf(id)] = "none"]
          /\ crtFile' = crtFile /\ keyFile' = keyFile /\ certs' = certs
          /\ crtFile[id] = have /\ keyFile[id] = "key"
          /\ given[id] # NoCert => given[id] = have
      BY <1>g DEF id
    <2>c. /\ certCache' \in [CertIds -> Nat] /\ given' \in [CertIds -> Nat]
          /\ genLock' \in [0..1 -> Askers \cup {"none"}]
          /\ certCache'[id] = have /\ given'[id] = have
          /\ \A i \in CertIds \ {id} : certCache'[i] = certCache[i] /\ given'[i] = given[i]
          /\ \A k \in 0..1 : k # LockOf(id) => genLock'[k] = genLock[k]
      <3>1. /\ certCache' \in [CertIds -> Nat] /\ given' \in [CertIds -> Nat]
            /\ certCache'[id] = have /\ given'[id] = have
            /\ \A i \in CertIds \ {id} :
                 certCache'[i] = certCache[i] /\ given'[i] = given[i]
        BY <2>i, <2>u DEF CertInv, CertTypes
      <3>2. /\ genLock' \in [0..1 -> Askers \cup {"none"}]
            /\ \A k \in 0..1 : k # LockOf(id) => genLock'[k] = genLock[k]
        <4> DEFINE l == LockOf(id)
        <4>1. l \in 0..1 /\ genLock' = [genLock EXCEPT ![l] = "none"]
          BY <2>i, <2>u
        <4> HIDE DEF l
        <4>2. /\ genLock' \in [0..1 -> Askers \cup {"none"}]
              /\ \A k \in 0..1 : k # l => genLock'[k] = genLock[k]
          BY <4>1 DEF CertInv, CertTypes
        <4> QED BY <4>2 DEF l
      <3> QED BY <3>1, <3>2
    <2>1. CertTypes'
      BY <2>c, <2>r, <2>u DEF CertInv, CertTypes
    <2>2. SavedInv' /\ Kept
      <3> SUFFICES ASSUME NEW i \in CertIds
                   PROVE  /\ certCache'[i] # NoCert => given'[i] = certCache'[i]
                          /\ given'[i] # NoCert =>
                               crtFile'[i] = given'[i] /\ keyFile'[i] = "key"
                          /\ given[i] # NoCert => given'[i] = given[i]
        BY DEF SavedInv, GivenIsSaved
      <3>1. CASE i = id
        BY <2>c, <2>u, <3>1
      <3>2. CASE i # id
        BY <2>c, <2>u, <3>2 DEF CertInv, SavedInv, GivenIsSaved
      <3> QED BY <3>1, <3>2
    <2>3. NestedInv'
      BY <2>r DEF CertInv, NestedInv
    <2>4. ASSUME NEW b \in Askers, NEW e \in 1..2 PROVE CallInv(b, e)'
      <3>1. CASE asker'[b][e].at = "off"
        BY <3>1 DEF CallInv, Locked, Making
      <3>2. CASE b # a
        <4>1. asker'[b][e] = asker[b][e] /\ asker[b][e].id \in CertIds
          BY <2>r, <3>2 DEF CertInv, CertTypes
        <4>2. LockOf(asker[b][e].id) \in 0..1
          BY DEF LockOf
        <4>3. Locked(asker[b][e]) => LockOf(asker[b][e].id) # LockOf(id)
          BY <2>o, <3>2
        <4>4. Locked(asker[b][e]) => asker[b][e].id # id
          BY <4>3
        <4>5. CallInv(b, e)
          BY DEF CertInv
        <4> QED
          BY <2>c, <2>u, <4>1, <4>2, <4>3, <4>4, <4>5 DEF CallInv, Locked, Making
      <3>3. CASE b = a /\ e = 1 /\ Depth(a) = 2
        <4>1. CallInv(a, 1) /\ asker[a][1].id \in CertIds
          BY DEF CertInv, CertTypes
        <4>2. LockOf(asker[a][1].id) \in 0..1
          BY DEF LockOf
        <4> QED
          BY <2>c, <2>l, <2>r, <2>u, <3>3, <4>1, <4>2 DEF CallInv, Locked, Making
      <3> QED
        <4>1. e \in {1, 2} /\ Depth(a) \in {1, 2}
          BY DEF Depth
        <4> QED BY <2>r, <3>1, <3>2, <3>3, <4>1
    <2> QED BY <2>1, <2>2, <2>3, <2>4 DEF CertInv
(* A step of a call that has its lock and stays.                           *)
  <1>q. ASSUME NEW a \in Askers, NEW at \in CertAts, NEW x \in Nat,
               Put(a, at, x), Locked(CertTop(a)), at # "off",
               Depth(a) = 1 => at # "off",
               Making(CertTop(a)) \/ (certCache[CertTop(a).id] = NoCert
                                       /\ given[CertTop(a).id] = NoCert),
               at \in {"key", "key2", "crt", "crt2", "store"} => x # NoCert,
               at \in {"crt", "crt2", "store"} => keyFile'[CertTop(a).id] = "key",
               at = "store" => crtFile'[CertTop(a).id] = x,
               crtFile' \in [CertIds -> Int], certs' \in Nat,
               keyFile' \in [CertIds -> {"none", "torn", "key"}],
               \A i \in CertIds \ {CertTop(a).id} :
                 crtFile'[i] = crtFile[i] /\ keyFile'[i] = keyFile[i],
               UNCHANGED <<certCache, given, genLock>>
        PROVE  CertInv' /\ Kept
    <2> DEFINE id == CertTop(a).id
    <2>0. ~CertAt(a, "off")
      BY <1>q DEF CertAt, Locked
    <2>p. /\ asker' \in [Askers -> [1..2 -> [id : CertIds, at : CertAts, cert : Nat]]]
          /\ asker'[a][Depth(a)].at = at /\ asker'[a][Depth(a)].cert = x
          /\ asker'[a][Depth(a)].id = id
          /\ \A b \in Askers, e \in 1..2 :
               b # a \/ e # Depth(a) => asker'[b][e] = asker[b][e]
      BY <1>p, <1>q, <2>0
    <2>d. /\ Depth(a) \in 1..2 /\ CertTop(a) = asker[a][Depth(a)] /\ id \in CertIds
          /\ asker[a][2].at # "off" => Depth(a) = 2
          /\ Depth(a) = 2 => asker[a][2].at # "off"
      BY <1>d, <2>0
    <2>n. /\ certCache[id] = NoCert /\ given[id] = NoCert
          /\ genLock[LockOf(id)] = a
      BY <1>q, <2>d DEF CertInv, CallInv
    <2>o. \A b \in Askers, e \in 1..2 :
            Locked(asker[b][e]) /\ asker[b][e].id = id => b = a /\ e = Depth(a)
      BY <1>o, <1>q
    <2>u. certCache' = certCache /\ given' = given /\ genLock' = genLock
      BY <1>q
    <2>1. CertTypes'
      BY <1>q, <2>p, <2>u DEF CertInv, CertTypes
    <2>2. SavedInv' /\ Kept
      BY <1>q, <2>n, <2>u DEF CertInv, SavedInv, GivenIsSaved
    <2>3. NestedInv'
      BY <1>q, <2>d, <2>p DEF CertInv, NestedInv
    <2>4. ASSUME NEW b \in Askers, NEW e \in 1..2 PROVE CallInv(b, e)'
      <3>1. CASE b = a /\ e = Depth(a)
        BY <1>q, <2>n, <2>p, <2>u, <3>1 DEF CallInv
      <3>2. CASE ~(b = a /\ e = Depth(a))
        <4>1. asker'[b][e] = asker[b][e] /\ asker[b][e].id \in CertIds
          BY <2>p, <3>2 DEF CertInv, CertTypes
        <4>2. Locked(asker[b][e]) => asker[b][e].id # id
          BY <2>o, <3>2
        <4>3. CallInv(b, e)
          BY DEF CertInv
        <4> QED BY <1>q, <2>u, <4>1, <4>2, <4>3 DEF CallInv, Locked, Making
      <3> QED BY <3>1, <3>2
    <2> QED BY <2>1, <2>2, <2>3, <2>4 DEF CertInv
  <1>6. ASSUME NEW a \in Askers, LoadAgain(a) PROVE CertInv' /\ Kept
    <2> DEFINE id == CertTop(a).id
               whole == crtFile[id] > NoCert /\ keyFile[id] = "key"
               have == IF certCache[id] # NoCert THEN certCache[id] ELSE crtFile[id]
    <2>0. CertTop(a).at = "again" /\ Locked(CertTop(a)) /\ ~CertAt(a, "off")
      BY <1>6 DEF LoadAgain, CertAt, Locked
    <2>i. id \in CertIds /\ CertTop(a).cert \in Nat
      BY <1>d, <2>0
    <2>s. /\ certCache[id] # NoCert => given[id] = certCache[id]
          /\ given[id] # NoCert => crtFile[id] = given[id] /\ keyFile[id] = "key"
          /\ certCache[id] \in Nat /\ given[id] \in Nat /\ crtFile[id] \in Int
      BY <2>i DEF CertInv, CertTypes, SavedInv, GivenIsSaved
    <2>1. CASE certCache[id] # NoCert \/ whole
      <3>1. have \in Nat \ {NoCert}
        BY <2>1, <2>s DEF NoCert
      <3>2. given[id] # NoCert => given[id] = have
        BY <2>s
      <3>3. crtFile[id] = have /\ keyFile[id] = "key"
        BY <2>1, <2>s
      <3>4. /\ certCache' = [certCache EXCEPT ![id] = have]
            /\ given' = [given EXCEPT ![id] = have]
            /\ genLock' = [genLock EXCEPT ![LockOf(id)] = "none"]
            /\ ReturnCert(a) /\ UNCHANGED <<crtFile, keyFile, certs>>
        BY <1>6, <2>1 DEF LoadAgain
      <3> HIDE DEF have
      <3> QED BY <1>g, <2>0, <3>1, <3>2, <3>3, <3>4
    <2>2. CASE ~(certCache[id] # NoCert \/ whole)
      <3>1. Put(a, "gen", CertTop(a).cert) /\ UNCHANGED <<certCache, given, genLock>>
        BY <1>6, <2>2 DEF LoadAgain, Goto
      <3>2. UNCHANGED <<crtFile, keyFile, certs>>
        BY <1>6 DEF LoadAgain
      <3>3. certCache[id] = NoCert /\ given[id] = NoCert
        BY <2>2, <2>s DEF NoCert
      <3>4. "gen" \in CertAts
        BY DEF CertAts
      <3>5. /\ crtFile \in [CertIds -> Int] /\ certs \in Nat
            /\ keyFile \in [CertIds -> {"none", "torn", "key"}]
        BY DEF CertInv, CertTypes
      <3> QED BY <1>q, <2>0, <2>i, <3>1, <3>2, <3>3, <3>4, <3>5
    <2> QED BY <2>1, <2>2
  <1>7. ASSUME NEW a \in Askers, Generate1(a) PROVE CertInv' /\ Kept
    <2>0. CertTop(a).at = "gen" /\ Locked(CertTop(a)) /\ Making(CertTop(a))
          /\ ~CertAt(a, "off")
      BY <1>7 DEF Generate1, CertAt, Locked, Making
    <2>u. UNCHANGED <<certCache, crtFile, keyFile, genLock, certs, given>>
      BY <1>7 DEF Generate1
    <2>1. CASE CertTop(a).id = "root"
      <3>1. Put(a, "made", CertTop(a).cert) /\ CertTop(a).cert \in Nat
        BY <1>7, <1>d, <2>0, <2>1 DEF Generate1, Goto
      <3>2. "made" \in CertAts
        BY DEF CertAts
      <3>3. /\ crtFile \in [CertIds -> Int] /\ certs \in Nat
            /\ keyFile \in [CertIds -> {"none", "torn", "key"}]
        BY DEF CertInv, CertTypes
      <3> QED BY <1>q, <2>0, <2>u, <3>1, <3>2, <3>3
    <2>2. CASE CertTop(a).id # "root"
      <3>1. Depth(a) = 1 /\ asker[a][2].at = "off" /\ CertTop(a) = asker[a][1]
        BY <1>d, <2>0, <2>2 DEF CertInv, NestedInv, Depth, CertTop
      <3>2. /\ asker' \in [Askers -> [1..2 -> [id : CertIds, at : CertAts, cert : Nat]]]
            /\ asker'[a][2].at = "load" /\ asker'[a][2].id = "root"
            /\ asker'[a][1] = asker[a][1]
            /\ \A b \in Askers \ {a}, d \in 1..2 : asker'[b][d] = asker[b][d]
        <4> DEFINE c == Call("root")
        <4>1. /\ c \in [id : CertIds, at : CertAts, cert : Nat]
              /\ c.at = "load" /\ c.id = "root"
          BY <1>a DEF Call, CertAts, NoCert
        <4>2. asker' = [asker EXCEPT ![a][2] = c]
          BY <1>7, <2>2 DEF Generate1
        <4>3. asker \in [Askers -> [1..2 -> [id : CertIds, at : CertAts, cert : Nat]]]
          BY DEF CertInv, CertTypes
        <4> HIDE DEF c
        <4> QED BY <4>1, <4>2, <4>3
      <3>3. CertTypes' /\ SavedInv' /\ Kept
        BY <2>u, <3>2 DEF CertInv, CertTypes, SavedInv, GivenIsSaved
      <3>4. NestedInv'
        BY <2>0, <2>2, <3>1, <3>2 DEF CertInv, NestedInv
      <3>5. ASSUME NEW b \in Askers, NEW e \in 1..2 PROVE CallInv(b, e)'
        <4>1. asker'[b][e] = asker[b][e] \/ asker'[b][e].at = "load"
          <5>1. e \in {1, 2}
            OBVIOUS
          <5> QED BY <3>2, <5>1
        <4>2. CallInv(b, e)
          BY DEF CertInv
        <4> QED BY <2>u, <4>1, <4>2 DEF CallInv, Locked, Making
      <3> QED BY <3>3, <3>4, <3>5 DEF CertInv
    <2> QED BY <2>1, <2>2
  <1>8. ASSUME NEW a \in Askers, Sign(a) PROVE CertInv' /\ Kept
    <2>0. CertTop(a).at = "made" /\ Locked(CertTop(a)) /\ Making(CertTop(a))
      BY <1>8 DEF Sign, CertAt, Locked, Making
    <2>1. Put(a, "key", certs + 1) /\ "key" \in CertAts
      BY <1>8 DEF Sign, CertAts
    <2>2. /\ crtFile \in [CertIds -> Int] /\ certs \in Nat
          /\ keyFile \in [CertIds -> {"none", "torn", "key"}]
      BY DEF CertInv, CertTypes
    <2>3. certs + 1 \in Nat /\ certs + 1 # NoCert
      BY <2>2 DEF NoCert
    <2>4. certs' = certs + 1 /\ UNCHANGED <<certCache, crtFile, keyFile, genLock, given>>
      BY <1>8 DEF Sign
    <2> QED BY <1>q, <2>0, <2>1, <2>2, <2>3, <2>4
  <1>9. ASSUME NEW a \in Askers, SaveKey(a) PROVE CertInv' /\ Kept
    <2>1. PICK f \in {"torn", "key"}, at \in {"key2", "crt"} :
            /\ keyFile' = [keyFile EXCEPT ![CertTop(a).id] = f]
            /\ Put(a, at, CertTop(a).cert) /\ (at = "crt" => f = "key")
            /\ CertTop(a).at \in {"key", "key2"}
      BY <1>9 DEF SaveKey, Goto, CertAt
    <2>2. Locked(CertTop(a)) /\ Making(CertTop(a)) /\ ~CertAt(a, "off") /\ at \in CertAts
      BY <2>1 DEF Locked, Making, CertAt, CertAts
    <2>3. /\ CertTop(a).id \in CertIds /\ CertTop(a).cert \in Nat
          /\ CertTop(a).cert # NoCert
      <3>1. Depth(a) \in 1..2
        BY DEF Depth
      <3> QED BY <1>d, <2>1, <2>2, <3>1 DEF CertInv, CallInv, CertTop
    <2>4. /\ keyFile' \in [CertIds -> {"none", "torn", "key"}]
          /\ keyFile'[CertTop(a).id] = f
          /\ \A i \in CertIds \ {CertTop(a).id} : keyFile'[i] = keyFile[i]
      BY <2>1, <2>3 DEF CertInv, CertTypes
    <2>5. crtFile \in [CertIds -> Int] /\ certs \in Nat
      BY DEF CertInv, CertTypes
    <2>6. UNCHANGED <<certCache, crtFile, genLock, certs, given>>
      BY <1>9 DEF SaveKey
    <2>7. /\ at # "off" /\ at # "store"
          /\ at \in {"crt", "crt2", "store"} => keyFile'[CertTop(a).id] = "key"
      BY <2>1, <2>4
    <2> QED BY <1>q, <2>1, <2>2, <2>3, <2>4, <2>5, <2>6, <2>7
  <1>10. ASSUME NEW a \in Askers, SaveCrt(a) PROVE CertInv' /\ Kept
    <2>1. PICK f \in {Torn, CertTop(a).cert}, at \in {"crt2", "store"} :
            /\ crtFile' = [crtFile EXCEPT ![CertTop(a).id] = f]
            /\ Put(a, at, CertTop(a).cert) /\ (at = "store" => f = CertTop(a).cert)
            /\ CertTop(a).at \in {"crt", "crt2"}
      BY <1>10 DEF SaveCrt, Goto, CertAt
    <2>2. Locked(CertTop(a)) /\ Making(CertTop(a)) /\ ~CertAt(a, "off") /\ at \in CertAts
      BY <2>1 DEF Locked, Making, CertAt, CertAts
    <2>3. /\ CertTop(a).id \in CertIds /\ CertTop(a).cert \in Nat
          /\ CertTop(a).cert # NoCert /\ keyFile[CertTop(a).id] = "key"
      <3>1. Depth(a) \in 1..2
        BY DEF Depth
      <3> QED BY <1>d, <2>1, <2>2, <3>1 DEF CertInv, CallInv, CertTop
    <2>4. /\ crtFile' \in [CertIds -> Int]
          /\ crtFile'[CertTop(a).id] = f
          /\ \A i \in CertIds \ {CertTop(a).id} : crtFile'[i] = crtFile[i]
      <3>1. f \in Int
        BY <2>3 DEF Torn
      <3> QED BY <2>1, <2>3, <3>1 DEF CertInv, CertTypes
    <2>5. keyFile \in [CertIds -> {"none", "torn", "key"}] /\ certs \in Nat
      BY DEF CertInv, CertTypes
    <2>6. UNCHANGED <<certCache, keyFile, genLock, certs, given>>
      BY <1>10 DEF SaveCrt
    <2>7. at # "off" /\ (at = "store" => crtFile'[CertTop(a).id] = CertTop(a).cert)
      BY <2>1, <2>4
    <2> QED BY <1>q, <2>1, <2>2, <2>3, <2>4, <2>5, <2>6, <2>7
  <1>11. ASSUME NEW a \in Askers, StoreCert(a) PROVE CertInv' /\ Kept
    <2> DEFINE id == CertTop(a).id
               have == IF certCache[id] # NoCert THEN certCache[id] ELSE CertTop(a).cert
    <2>0. /\ CertTop(a).at = "store" /\ Locked(CertTop(a)) /\ Making(CertTop(a))
          /\ ~CertAt(a, "off")
      BY <1>11 DEF StoreCert, CertAt, Locked, Making
    <2>1. /\ CertTop(a).cert \in Nat \ {NoCert} /\ keyFile[id] = "key"
          /\ crtFile[id] = CertTop(a).cert
          /\ certCache[id] = NoCert /\ given[id] = NoCert
      <3>1. Depth(a) \in 1..2
        BY DEF Depth
      <3> QED BY <1>d, <2>0, <3>1 DEF CertInv, CallInv, CertTop
    <2>2. have = CertTop(a).cert
      BY <2>1
    <2>3. /\ certCache' = [certCache EXCEPT ![id] = have]
          /\ given' = [given EXCEPT ![id] = have]
          /\ genLock' = [genLock EXCEPT ![LockOf(id)] = "none"]
          /\ ReturnCert(a) /\ UNCHANGED <<crtFile, keyFile, certs>>
      BY <1>11 DEF StoreCert
    <2> HIDE DEF have
    <2> QED BY <1>g, <2>0, <2>1, <2>2, <2>3
  <1> QED
    BY <1>1, <1>2, <1>3, <1>4, <1>5, <1>6, <1>7, <1>8, <1>9, <1>10, <1>11
       DEF CertNext, CertStep

-----------------------------------------------------------------------------
(* The expiring cache of shared clients.                                   *)

Filed(e) == e \in Dialers /\ dialer[e].at \notin {"off", "get", "dial", "store"}
Holders(e) == {d \in Dialers : dialer[d].at = "hold" /\ dialer[d].ent = e}
Swapping == \E d \in Dialers : dialer[d].at = "swap"
Cached(e) == \E k \in Keys : cache[k] = e

(* The type, but for the bound of the count.                               *)
EntryType == [conn : {"none", "open", "closed"}, acq : 0..Cardinality(Dialers),
              old : BOOLEAN, ref : BOOLEAN]
CleanerType == [at : {"none", "sleep", "range", "delete", "uncount", "load", "exit"},
                todo : SUBSET Keys, doomed : Dialers \cup {NoEntry}]
DialerType == [at : {"off", "get", "dial", "store", "count", "swap", "acquire", "hold",
                     "end", "panic"},
               key : Keys, ent : Dialers \cup {NoEntry}]
CacheTyped ==
  /\ cache \in [Keys -> Dialers \cup {NoEntry}]
  /\ entry \in [Dialers -> EntryType]
  /\ items \in Int /\ ticker \in 0..MaxTickers /\ made \in 0..MaxTickers
  /\ stopped \subseteq 1..made /\ lost \subseteq Dialers
  /\ cleaner \in [Tickers -> CleanerType] /\ dialer \in [Dialers -> DialerType]
  /\ ticker <= made

(* Users have an entry that was dialled; as long as it has a reference,    *)
(* its users are counted.  An entry is in the cache under one key.         *)
DialerOk(d) ==
  /\ dialer[d].at \in {"count", "swap", "acquire", "hold"} => dialer[d].ent # NoEntry
  /\ dialer[d].ent # NoEntry => Filed(dialer[d].ent)
EntryOk(e) == entry[e].ref => entry[e].acq = Cardinality(Holders(e))
KeyOk(k) == cache[k] # NoEntry => Filed(cache[k]) /\ dialer[cache[k]].key = k

(* What a cleaner deletes was in the cache; what it has deleted is not,    *)
(* and no other cleaner has deleted it.                                    *)
CleanerOk(t) ==
  /\ t > made => cleaner[t].at = "none"
  /\ cleaner[t].at \in {"delete", "uncount"} => Filed(cleaner[t].doomed)
  /\ cleaner[t].at = "uncount" =>
       /\ ~Cached(cleaner[t].doomed)
       /\ \A u \in Tickers : u # t /\ cleaner[u].at = "uncount"
            => cleaner[u].doomed # cleaner[t].doomed

(* The insert that makes one item starts a cleaner, which runs as long as  *)
(* there are items or is replaced by one that does.                        *)
AliveInv == items > 0 /\ ~Swapping => \E t \in Tickers : Live(t)

CacheInv ==
  /\ CacheTyped /\ ItemsExact /\ OpenIsCached /\ AliveInv
  /\ \A d \in Dialers : DialerOk(d)
  /\ \A e \in Dialers : EntryOk(e)
  /\ \A k \in Keys : KeyOk(k)
  /\ \A t \in Tickers : CleanerOk(t)

(* The constants.                                                          *)
LEMMA CacheConstants ==
  /\ MaxTickers \in Nat \ {0} /\ Keys # {} /\ IsFiniteSet(Keys)
  /\ IsFiniteSet(Dialers) /\ NoEntry \notin Dialers
  /\ Cardinality(Dialers) \in Nat
BY CacheAssumption, FS_CardinalityType DEF CacheAssumption

(* The sets that are counted are finite.                                   *)
LEMMA CacheFinite ==
  /\ IsFiniteSet({d \in Dialers : dialer[d].at = "count"})
  /\ IsFiniteSet({t \in Tickers : cleaner[t].at = "uncount"})
  /\ IsFiniteSet({k \in Keys : cache[k] # NoEntry})
  /\ \A e : IsFiniteSet(Holders(e)) /\ Cardinality(Holders(e)) \in 0..Cardinality(Dialers)
  <1>1. IsFiniteSet(Tickers)
    BY CacheConstants, FS_Interval DEF Tickers
  <1>2. /\ {d \in Dialers : dialer[d].at = "count"} \subseteq Dialers
        /\ {t \in Tickers : cleaner[t].at = "uncount"} \subseteq Tickers
        /\ {k \in Keys : cache[k] # NoEntry} \subseteq Keys
        /\ \A e : Holders(e) \subseteq Dialers
    BY DEF Holders
  <1>3. ASSUME NEW e
        PROVE  IsFiniteSet(Holders(e)) /\ Cardinality(Holders(e)) \in 0..Cardinality(Dialers)
    <2>1. /\ IsFiniteSet(Holders(e)) /\ Cardinality(Holders(e)) <= Cardinality(Dialers)
      BY <1>2, CacheConstants, FS_Subset
    <2>2. Cardinality(Holders(e)) \in Nat
      BY <2>1, FS_CardinalityType
    <2> QED BY <2>1, <2>2, CacheConstants
  <1> QED BY <1>1, <1>2, <1>3, CacheConstants, FS_Subset

(* Nothing is cached at first.                                             *)
LEMMA CacheStart == CacheInit => CacheInv
  <1> SUFFICES ASSUME CacheInit PROVE CacheInv
    OBVIOUS
  <1>1. Fresh \in EntryType /\ ~Fresh.ref /\ Fresh.conn = "none"
    BY CacheConstants DEF Fresh, EntryType
  <1>2. NoCleaner \in CleanerType /\ NoCleaner.at = "none"
    BY DEF NoCleaner, CleanerType
  <1>3. /\ dialer \in [Dialers -> DialerType]
        /\ \A d \in Dialers : dialer[d].at = "off" /\ dialer[d].ent = NoEntry
    BY CacheConstants DEF CacheInit, DialerType
  <1>4. /\ entry \in [Dialers -> EntryType]
        /\ \A e \in Dialers : ~entry[e].ref /\ entry[e].conn = "none"
    BY <1>1 DEF CacheInit
  <1>5. /\ cleaner \in [Tickers -> CleanerType]
        /\ \A t \in Tickers : cleaner[t].at = "none"
    BY <1>2 DEF CacheInit
  <1>6. CacheTyped
    BY <1>3, <1>4, <1>5, CacheConstants DEF CacheInit, CacheTyped
  <1>7. ItemsExact
    <2>1. /\ {d \in Dialers : dialer[d].at = "count"} = {}
          /\ {t \in Tickers : cleaner[t].at = "uncount"} = {}
          /\ {k \in Keys : cache[k] # NoEntry} = {}
      BY <1>3, <1>5 DEF CacheInit
    <2>2. Cardinality({}) = 0
      BY FS_EmptySet
    <2> QED BY <2>1, <2>2, SMTT(60) DEF ItemsExact, CacheInit
  <1>8. AliveInv /\ OpenIsCached
    BY <1>4 DEF CacheInit, AliveInv, OpenIsCached
  <1>9. \A e \in Dialers : EntryOk(e)
    BY <1>4 DEF EntryOk
  <1>10. \A k \in Keys : KeyOk(k)
    BY DEF CacheInit, KeyOk
  <1> QED BY <1>3, <1>5, <1>6, <1>7, <1>8, <1>9, <1>10
          DEF CacheInv, DialerOk, CleanerOk

(* Entries in the cache and entries just deleted are different ones: there *)
(* are no more items than users.                                           *)
LEMMA ItemsBound == CacheInv => CacheTypeOK
  <1> SUFFICES ASSUME CacheInv PROVE CacheTypeOK
    OBVIOUS
  <1> DEFINE C == {d \in Dialers : dialer[d].at = "count"}
             U == {t \in Tickers : cleaner[t].at = "uncount"}
             K == {k \in Keys : cache[k] # NoEntry}
             A == {e \in Dialers : Cached(e)}
             B == {e \in Dialers : \E t \in U : cleaner[t].doomed = e}
             f == [k \in K |-> cache[k]]
             g == [t \in U |-> cleaner[t].doomed]
  <1>1. IsFiniteSet(C) /\ IsFiniteSet(U) /\ IsFiniteSet(K)
    BY CacheFinite
  <1>2. items + Cardinality(C) - Cardinality(U) = Cardinality(K)
    BY DEF CacheInv, ItemsExact
  <1>3. f \in Injection(K, A)
    <2>1. \A k \in K : cache[k] \in A /\ dialer[cache[k]].key = k
      BY DEF CacheInv, CacheTyped, KeyOk, Cached
    <2>2. f \in [K -> A]
      BY <2>1
    <2>3. \A k, l \in K : f[k] = f[l] => k = l
      BY <2>1
    <2> QED BY <2>2, <2>3, Fun_IsInj
  <1>4. g \in Injection(U, B)
    <2>1. \A t \in U : cleaner[t].doomed \in B
      BY DEF CacheInv, CleanerOk, Filed
    <2>2. g \in [U -> B]
      BY <2>1
    <2>3. \A t, u \in U : g[t] = g[u] => t = u
      BY DEF CacheInv, CleanerOk
    <2> QED BY <2>2, <2>3, Fun_IsInj
  <1>5. A \cap B = {} /\ A \subseteq Dialers /\ B \subseteq Dialers
    BY DEF CacheInv, CleanerOk
  <1>6. C \subseteq Dialers
    OBVIOUS
  <1>7. items \in Int
    BY DEF CacheInv, CacheTyped
  <1> HIDE DEF C, U, K, A, B, f, g
  <1>8. IsFiniteSet(A) /\ IsFiniteSet(B) /\ IsFiniteSet(A \cup B)
    BY <1>5, CacheConstants, FS_Subset
  <1>9. Cardinality(K) <= Cardinality(A) /\ Cardinality(U) <= Cardinality(B)
    BY <1>3, <1>4, <1>8, FS_Injection
  <1>10. Cardinality(A \cup B) = Cardinality(A) + Cardinality(B) - 0
    BY <1>5, <1>8, FS_Union, FS_EmptySet
  <1>11. Cardinality(A \cup B) <= Cardinality(Dialers) /\ Cardinality(C) <= Cardinality(Dialers)
    BY <1>5, <1>6, CacheConstants, FS_Subset
  <1>12. /\ Cardinality(A) \in Nat /\ Cardinality(B) \in Nat /\ Cardinality(C) \in Nat
         /\ Cardinality(U) \in Nat /\ Cardinality(K) \in Nat
    BY <1>1, <1>8, FS_CardinalityType
  <1>13. items \in -Cardinality(Dialers)..Cardinality(Dialers)
    BY <1>2, <1>7, <1>9, <1>10, <1>11, <1>12, CacheConstants
  <1> QED BY <1>13, CacheConstants
          DEF CacheInv, CacheTyped, CacheTypeOK, EntryType, CleanerType, DialerType, Tickers

(* The count is right as long as nothing is inserted, deleted or counted.  *)
LEMMA ItemsStay ==
  ASSUME ItemsExact, items' = items,
         \A k \in Keys : cache'[k] = NoEntry <=> cache[k] = NoEntry,
         \A d \in Dialers : dialer'[d].at = "count" <=> dialer[d].at = "count",
         \A t \in Tickers : cleaner'[t].at = "uncount" <=> cleaner[t].at = "uncount"
  PROVE  ItemsExact'
  <1>1. /\ {d \in Dialers : dialer'[d].at = "count"} = {d \in Dialers : dialer[d].at = "count"}
        /\ {t \in Tickers : cleaner'[t].at = "uncount"}
             = {t \in Tickers : cleaner[t].at = "uncount"}
        /\ {k \in Keys : cache'[k] # NoEntry} = {k \in Keys : cache[k] # NoEntry}
    OBVIOUS
  <1> QED BY <1>1 DEF ItemsExact

(* A user, or the age of an entry, moves.                                  *)
LEMMA DialerMoves ==
  ASSUME CacheInv, CacheTyped', NEW d \in Dialers,
         UNCHANGED <<cache, items, ticker, made, stopped, cleaner>>,
         \A x \in Dialers : x # d => dialer'[x] = dialer[x],
         dialer'[d].at = "count" <=> dialer[d].at = "count",
         dialer'[d].at = "swap" <=> dialer[d].at = "swap",
         Filed(d) => Filed(d)' /\ dialer'[d].key = dialer[d].key,
         DialerOk(d)', lost \subseteq lost',
         \A e \in Dialers : EntryOk(e)',
         \A e \in Dialers : entry'[e].conn = "open" =>
           entry[e].conn = "open" \/ (e = d /\ dialer'[d].at = "store"),
         dialer[d].at = "store" => d \in lost' \/ dialer'[d].at = "store"
  PROVE  CacheInv'
  <1>1. \A e : Filed(e) => Filed(e)'
    BY DEF Filed
  <1>2. ItemsExact'
    BY ItemsStay DEF CacheInv
  <1>3. OpenIsCached'
    BY DEF CacheInv, OpenIsCached
  <1>4. AliveInv'
    <2>1. Swapping' <=> Swapping
      BY DEF Swapping
    <2>2. \A t \in Tickers : Live(t)' = Live(t)
      BY DEF Live
    <2> QED BY <2>1, <2>2 DEF CacheInv, AliveInv
  <1>5. ASSUME NEW x \in Dialers PROVE DialerOk(x)'
    <2>1. CASE x = d
      BY <2>1
    <2>2. CASE x # d
      <3>1. DialerOk(x) /\ dialer'[x] = dialer[x]
        BY <2>2 DEF CacheInv
      <3> QED BY <1>1, <3>1 DEF DialerOk, Filed
    <2> QED BY <2>1, <2>2
  <1>6. ASSUME NEW k \in Keys PROVE KeyOk(k)'
    <2>1. KeyOk(k) /\ cache'[k] = cache[k]
      BY DEF CacheInv
    <2>2. cache[k] # NoEntry => Filed(cache[k])' /\ dialer'[cache[k]].key = k
      BY <1>1, <2>1 DEF KeyOk, Filed
    <2> QED BY <2>1, <2>2 DEF KeyOk
  <1>7. ASSUME NEW t \in Tickers PROVE CleanerOk(t)'
    <2>1. CleanerOk(t) /\ cleaner' = cleaner
      BY DEF CacheInv
    <2>2. \A e : Cached(e)' = Cached(e)
      BY DEF Cached
    <2>3. Filed(cleaner[t].doomed) => Filed(cleaner[t].doomed)'
      BY DEF Filed
    <2> QED BY <2>1, <2>2, <2>3 DEF CleanerOk, Cached
  <1> QED BY <1>2, <1>3, <1>4, <1>5, <1>6, <1>7 DEF CacheInv

(* What the invariant says of a user, its entry and its key.               *)
LEMMA DialerFacts ==
  ASSUME CacheInv, NEW d \in Dialers
  PROVE  /\ dialer \in [Dialers -> DialerType] /\ dialer[d] \in DialerType
         /\ dialer[d].key \in Keys /\ DialerOk(d)
         /\ dialer[d].at \in {"count", "swap", "acquire", "hold"} =>
              dialer[d].ent \in Dialers
         /\ cache[dialer[d].key] \in Dialers \cup {NoEntry}
         /\ KeyOk(dialer[d].key)
         /\ entry \in [Dialers -> EntryType]
  <1>1. dialer[d] \in DialerType /\ dialer[d].key \in Keys
        /\ dialer[d].ent \in Dialers \cup {NoEntry}
    BY DEF CacheInv, CacheTyped, DialerType
  <1> QED BY <1>1 DEF CacheInv, CacheTyped, DialerOk

(* Users that hold an entry go on holding it.                              *)
LEMMA HoldersStay ==
  ASSUME CacheInv, NEW e \in Dialers, NEW d \in Dialers,
         \A x \in Dialers : x # d => dialer'[x] = dialer[x],
         dialer[d].at # "hold", dialer'[d].at # "hold",
         entry'[e].ref => entry[e].ref, entry'[e].acq = entry[e].acq
  PROVE  EntryOk(e)'
  <1>1. Holders(e)' = Holders(e)
    BY DEF Holders
  <1>2. EntryOk(e)
    BY DEF CacheInv
  <1> QED BY <1>1, <1>2 DEF EntryOk

(* GrowOld                                                                 *)
LEMMA Ages == ASSUME CacheInv, NEW e \in Dialers, GrowOld(e) PROVE CacheInv'
  <1>1. /\ entry' = [entry EXCEPT ![e].old = TRUE]
        /\ UNCHANGED <<cache, items, ticker, made, stopped, cleaner, dialer, lost>>
    BY DEF GrowOld
  <1>2. /\ entry' \in [Dialers -> EntryType]
        /\ \A x \in Dialers : /\ entry'[x].conn = entry[x].conn
                              /\ entry'[x].acq = entry[x].acq
                              /\ entry'[x].ref = entry[x].ref
    BY <1>1, DialerFacts, ZenonT(60) DEF EntryType
  <1>3. CacheTyped'
    BY <1>1, <1>2 DEF CacheInv, CacheTyped
  <1>4. \A x \in Dialers : EntryOk(x)'
    <2>1. \A x : Holders(x)' = Holders(x)
      BY <1>1 DEF Holders
    <2> QED BY <1>2, <2>1 DEF CacheInv, EntryOk
  <1>5. DialerOk(e)'
    BY <1>1 DEF CacheInv, DialerOk, Filed
  <1>6. Filed(e) => Filed(e)' /\ dialer'[e].key = dialer[e].key
    BY <1>1 DEF Filed
  <1> QED BY <1>1, <1>2, <1>3, <1>4, <1>5, <1>6, DialerMoves

(* Connect                                                                 *)
LEMMA ConnectsUser ==
  ASSUME CacheInv, NEW d \in Dialers, NEW k \in Keys, Connect(d, k) PROVE CacheInv'
  <1>1. /\ dialer[d].at = "off" /\ dialer' = [dialer EXCEPT ![d] =
                                               [@ EXCEPT !.at = "get", !.key = k]]
        /\ UNCHANGED <<cache, entry, items, ticker, made, stopped, cleaner, lost>>
    BY DEF Connect
  <1>2. /\ dialer' \in [Dialers -> DialerType] /\ dialer'[d].at = "get"
        /\ dialer'[d].ent = dialer[d].ent
        /\ \A x \in Dialers : x # d => dialer'[x] = dialer[x]
    <2>1. PICK r : r = [dialer[d] EXCEPT !.at = "get", !.key = k]
      OBVIOUS
    <2>2. dialer' = [dialer EXCEPT ![d] = r]
      BY <1>1, <2>1
    <2>3. r \in DialerType /\ r.at = "get" /\ r.ent = dialer[d].ent
      <3>1. dialer[d] \in DialerType
        BY DialerFacts
      <3> QED BY <2>1, <3>1 DEF DialerType
    <2> QED BY <2>2, <2>3, DialerFacts
  <1>3. CacheTyped'
    BY <1>1, <1>2 DEF CacheInv, CacheTyped
  <1>4. ~Filed(d)
    BY <1>1 DEF Filed
  <1>5. DialerOk(d)'
    BY <1>2, <1>4, DialerFacts DEF DialerOk, Filed
  <1>6. \A e \in Dialers : EntryOk(e)'
    BY <1>1, <1>2, HoldersStay
  <1> QED BY <1>1, <1>2, <1>3, <1>4, <1>5, <1>6, DialerMoves

(* GetEntry, on a miss.                                                    *)
LEMMA Misses ==
  ASSUME CacheInv, NEW d \in Dialers, NEW place,
         \/ dialer[d].at = "get" /\ place = "dial"
         \/ dialer[d].at = "dial" /\ place = "end",
         At(d, place), UNCHANGED <<cache, entry, items, ticker, made, stopped, cleaner, lost>>
  PROVE  CacheInv'
  <1>2. /\ dialer' \in [Dialers -> DialerType] /\ dialer'[d].at = place
        /\ dialer'[d].ent = dialer[d].ent
        /\ \A x \in Dialers : x # d => dialer'[x] = dialer[x]
    BY DialerFacts DEF DialerType, At
  <1>3. CacheTyped'
    BY <1>2 DEF CacheInv, CacheTyped
  <1>4. ~Filed(d)
    BY DEF Filed
  <1>5. DialerOk(d)'
    BY <1>2, <1>4, DialerFacts DEF DialerOk, Filed
  <1>6. \A e \in Dialers : EntryOk(e)'
    BY <1>2, HoldersStay
  <1> QED BY <1>2, <1>3, <1>4, <1>5, <1>6, DialerMoves

(* GetEntry on a hit, or SetEntry when another was first: the entry of the *)
(* cache is taken.                                                         *)
LEMMA Hits ==
  ASSUME CacheInv, NEW d \in Dialers, cache[dialer[d].key] # NoEntry,
         dialer[d].at \in {"get", "store"},
         dialer' = [dialer EXCEPT ![d] =
                     [@ EXCEPT !.at = "acquire", !.ent = cache[dialer[d].key]]],
         entry' \in [Dialers -> EntryType],
         \A x \in Dialers : /\ entry'[x].conn = entry[x].conn
                            /\ entry'[x].acq = entry[x].acq
                            /\ entry'[x].ref = entry[x].ref,
         lost \subseteq lost', lost' \subseteq Dialers,
         dialer[d].at = "store" => d \in lost',
         UNCHANGED <<cache, items, ticker, made, stopped, cleaner>>
  PROVE  CacheInv'
  <1>1. /\ cache[dialer[d].key] \in Dialers /\ Filed(cache[dialer[d].key]) /\ ~Filed(d)
    BY DialerFacts DEF KeyOk, Filed
  <1>2. /\ dialer' \in [Dialers -> DialerType] /\ dialer'[d].at = "acquire"
        /\ dialer'[d].ent = cache[dialer[d].key]
        /\ \A x \in Dialers : x # d => dialer'[x] = dialer[x]
    BY <1>1, DialerFacts, ZenonT(60) DEF DialerType
  <1>3. CacheTyped'
    BY <1>2 DEF CacheInv, CacheTyped
  <1>4. DialerOk(d)'
    BY <1>1, <1>2 DEF DialerOk, Filed
  <1>5. \A e \in Dialers : EntryOk(e)'
    BY <1>2, HoldersStay
  <1> QED BY <1>1, <1>2, <1>3, <1>4, <1>5, DialerMoves

(* Cache.New: nobody has the entry yet.                                    *)
LEMMA Dials == ASSUME CacheInv, NEW d \in Dialers, DialNew(d) PROVE CacheInv'
  <1> DEFINE x == [conn |-> "open", acq |-> 0, old |-> FALSE, ref |-> TRUE]
  <1>1. /\ dialer[d].at = "dial" /\ At(d, "store") /\ entry' = [entry EXCEPT ![d] = x]
        /\ UNCHANGED <<cache, items, ticker, made, stopped, cleaner, lost>>
    BY DEF DialNew
  <1>2. /\ dialer' \in [Dialers -> DialerType] /\ dialer'[d].at = "store"
        /\ dialer'[d].ent = dialer[d].ent
        /\ \A y \in Dialers : y # d => dialer'[y] = dialer[y]
    BY <1>1, DialerFacts DEF DialerType, At
  <1>3. x \in EntryType /\ x.acq = 0 /\ x.conn = "open"
    BY CacheConstants DEF EntryType
  <1> HIDE DEF x
  <1>4. /\ entry' \in [Dialers -> EntryType] /\ entry'[d] = x
        /\ \A y \in Dialers : y # d => entry'[y] = entry[y]
    BY <1>1, <1>3, DialerFacts
  <1>5. CacheTyped'
    BY <1>1, <1>2, <1>4 DEF CacheInv, CacheTyped
  <1>6. ~Filed(d)
    BY <1>1 DEF Filed
  <1>7. DialerOk(d)'
    BY <1>2, <1>6, DialerFacts DEF DialerOk, Filed
  <1>8. EntryOk(d)'
    <2>1. \A y \in Dialers : dialer[y].ent # d
      BY <1>6, CacheConstants, DialerFacts DEF DialerOk
    <2>2. Holders(d)' = {}
      BY <1>2, <2>1 DEF Holders
    <2>3. Cardinality(Holders(d)') = 0
      BY <2>2, FS_EmptySet
    <2>4. entry'[d].acq = 0
      BY <1>3, <1>4
    <2> QED BY <2>3, <2>4 DEF EntryOk
  <1>9. \A e \in Dialers : e # d => EntryOk(e)'
    BY <1>1, <1>2, <1>4, HoldersStay
  <1>10. \A e \in Dialers : EntryOk(e)'
    BY <1>8, <1>9
  <1> QED BY <1>1, <1>2, <1>4, <1>5, <1>6, <1>7, <1>10, DialerMoves

(* AcquireEntry: one more user, or none and a panic.                       *)
LEMMA Acquires == ASSUME CacheInv, NEW d \in Dialers, AcquireEntry(d) PROVE CacheInv'
  <1> DEFINE e == dialer[d].ent
  <1>1. /\ dialer[d].at = "acquire"
        /\ IF entry[e].ref THEN entry' = [entry EXCEPT ![e].acq = @ + 1] /\ At(d, "hold")
           ELSE UNCHANGED entry /\ At(d, "panic")
        /\ UNCHANGED <<cache, items, ticker, made, stopped, cleaner, lost>>
    BY DEF AcquireEntry
  <1>2. e \in Dialers /\ Filed(d)
    BY <1>1, DialerFacts DEF Filed
  <1>3. /\ dialer' \in [Dialers -> DialerType] /\ dialer'[d].at \in {"hold", "panic"}
        /\ dialer'[d].ent = e /\ dialer'[d].key = dialer[d].key
        /\ \A y \in Dialers : y # d => dialer'[y] = dialer[y]
    BY <1>1, DialerFacts DEF DialerType, At
  <1>4. Filed(d)' /\ (\A y : Filed(y) => Filed(y)')
    BY <1>3 DEF Filed
  <1>5. DialerOk(d)'
    BY <1>1, <1>2, <1>3, <1>4, DialerFacts DEF DialerOk, Filed
  <1>6. CASE entry[e].ref
    <2>1. entry' = [entry EXCEPT ![e].acq = @ + 1] /\ At(d, "hold")
      BY <1>1, <1>6
    <2>2. dialer'[d].at = "hold"
      BY <2>1, DialerFacts DEF At, DialerType
    <2>3. Holders(e)' = Holders(e) \cup {d} /\ d \notin Holders(e)
      BY <1>1, <1>3, <2>2 DEF Holders
    <2>4. IsFiniteSet(Holders(e)) /\ EntryOk(e) /\ Cardinality(Holders(e)) \in Nat
      BY <1>2, CacheFinite DEF CacheInv
    <2>5. Cardinality(Holders(e) \cup {d}) = Cardinality(Holders(e)) + 1
      BY <2>3, <2>4, FS_AddElement
    <2>6. Holders(e) \cup {d} \subseteq Dialers
      BY DEF Holders
    <2>7. Cardinality(Holders(e) \cup {d}) <= Cardinality(Dialers)
      BY <2>6, CacheConstants, FS_Subset
    <2>8. entry[e].acq = Cardinality(Holders(e))
      BY <1>6, <2>4 DEF EntryOk
    <2>9. entry[e].acq + 1 \in 0..Cardinality(Dialers)
      BY <2>4, <2>5, <2>7, <2>8, CacheConstants
    <2>10. /\ entry' \in [Dialers -> EntryType] /\ entry'[e].acq = entry[e].acq + 1
           /\ \A y \in Dialers : /\ entry'[y].conn = entry[y].conn
                                 /\ entry'[y].ref = entry[y].ref
                                 /\ y # e => entry'[y].acq = entry[y].acq
      BY <1>2, <2>1, <2>9, DialerFacts DEF EntryType
    <2>11. CacheTyped'
      BY <1>1, <1>3, <2>10 DEF CacheInv, CacheTyped
    <2>12. EntryOk(e)'
      <3>1. Holders(dialer[d].ent)' = Holders(e)'
        BY <1>3 DEF Holders
      <3> QED BY <1>3, <2>3, <2>5, <2>8, <2>10, <3>1 DEF EntryOk
    <2>13. ASSUME NEW y \in Dialers, y # e PROVE EntryOk(y)'
      <3>1. Holders(y)' = Holders(y)
        BY <1>1, <1>3, <2>13 DEF Holders
      <3> QED BY <2>10, <2>13, <3>1 DEF CacheInv, EntryOk
    <2>14. \A y \in Dialers : EntryOk(y)'
      BY <1>3, <2>12, <2>13 DEF EntryOk
    <2> QED BY <1>1, <1>3, <1>4, <1>5, <2>2, <2>10, <2>11, <2>14, DialerMoves
  <1>7. CASE ~entry[e].ref
    <2>1. UNCHANGED entry /\ At(d, "panic")
      BY <1>1, <1>7
    <2>2. dialer'[d].at = "panic"
      BY <2>1, DialerFacts DEF At, DialerType
    <2>3. CacheTyped'
      BY <1>1, <1>3, <2>1 DEF CacheInv, CacheTyped
    <2>4. \A y \in Dialers : EntryOk(y)'
      BY <1>1, <1>3, <2>1, <2>2, HoldersStay
    <2> QED BY <1>1, <1>3, <1>4, <1>5, <2>1, <2>2, <2>3, <2>4, DialerMoves
  <1> QED BY <1>6, <1>7

(* CloseShared: the users are not counted any more.                        *)
LEMMA ClosesShared == ASSUME CacheInv, NEW d \in Dialers, CloseShared(d) PROVE CacheInv'
  <1>0. PICK e : e = dialer[d].ent
    OBVIOUS
  <1> DEFINE x == [conn |-> "closed", acq |-> entry[e].acq - 1, old |-> FALSE, ref |-> FALSE]
  <1>1. /\ dialer[d].at = "hold" /\ At(d, "end")
        /\ entry' = IF entry[e].ref THEN [entry EXCEPT ![e] = x] ELSE entry
        /\ UNCHANGED <<cache, items, ticker, made, stopped, cleaner, lost>>
    BY <1>0 DEF CloseShared
  <1>2. e \in Dialers /\ Filed(d) /\ EntryOk(e) /\ d \in Holders(e)
    BY <1>0, <1>1, DialerFacts DEF Filed, CacheInv, Holders
  <1>3. /\ dialer' \in [Dialers -> DialerType] /\ dialer'[d].at = "end"
        /\ dialer'[d].ent = dialer[d].ent /\ dialer'[d].key = dialer[d].key
        /\ \A y \in Dialers : y # d => dialer'[y] = dialer[y]
    BY <1>1, DialerFacts DEF DialerType, At
  <1>4. Filed(d)' /\ (\A y : Filed(y) => Filed(y)')
    BY <1>3 DEF Filed
  <1>5. DialerOk(d)'
    BY <1>3, <1>4, DialerFacts DEF DialerOk, Filed
  <1>6. entry[e].ref => x \in EntryType
    <2>1. IsFiniteSet(Holders(e)) /\ Cardinality(Holders(e)) \in 0..Cardinality(Dialers)
      BY CacheFinite
    <2>2. Cardinality(Holders(e)) # 0
      BY <1>2, <2>1, FS_EmptySet
    <2>3. entry[e].ref => entry[e].acq - 1 \in 0..Cardinality(Dialers)
      BY <1>2, <2>1, <2>2, CacheConstants DEF EntryOk
    <2> QED BY <2>3 DEF EntryType
  <1>7. x.conn = "closed" /\ ~x.ref
    OBVIOUS
  <1> HIDE DEF x
  <1>8. /\ entry' \in [Dialers -> EntryType] /\ entry'[e].ref = FALSE
        /\ \A y \in Dialers : /\ y # e => entry'[y] = entry[y]
                              /\ entry'[y].conn = "open" => entry[y].conn = "open"
    <2>1. CASE entry[e].ref
      BY <1>1, <1>2, <1>6, <1>7, <2>1, DialerFacts
    <2>2. CASE ~entry[e].ref
      <3>1. entry' = entry
        BY <1>1, <2>2
      <3>2. entry[e].ref \in BOOLEAN
        BY <1>2, DialerFacts DEF EntryType
      <3>3. entry[e].ref = FALSE
        BY <2>2, <3>2
      <3> QED BY <3>1, <3>3, DialerFacts
    <2> QED BY <2>1, <2>2
  <1>9. CacheTyped'
    BY <1>1, <1>3, <1>8 DEF CacheInv, CacheTyped
  <1>10. ASSUME NEW y \in Dialers PROVE EntryOk(y)'
    <2>1. CASE y = e
      BY <1>8, <2>1 DEF EntryOk
    <2>2. CASE y # e
      <3>1. Holders(y)' = Holders(y)
        BY <1>0, <1>1, <1>3, <2>2 DEF Holders
      <3> QED BY <1>8, <2>2, <3>1 DEF CacheInv, EntryOk
    <2> QED BY <2>1, <2>2
  <1> QED BY <1>1, <1>3, <1>4, <1>5, <1>8, <1>9, <1>10, DialerMoves

(* SetEntry, when it is first: the entry is new to the cache and to the    *)
(* cleaners.                                                               *)
LEMMA Inserts ==
  ASSUME CacheInv, NEW d \in Dialers, SetEntry(d), cache[dialer[d].key] = NoEntry
  PROVE  CacheInv'
  <1>0. PICK k : k = dialer[d].key
    OBVIOUS
  <1>1. /\ dialer[d].at = "store" /\ cache' = [cache EXCEPT ![k] = d]
        /\ dialer' = [dialer EXCEPT ![d] =
                       [@ EXCEPT !.at = "count", !.ent = d]]
        /\ UNCHANGED <<entry, items, ticker, made, stopped, cleaner, lost>>
    BY <1>0 DEF SetEntry
  <1>2. k \in Keys /\ cache[k] = NoEntry /\ d # NoEntry /\ ~Filed(d)
    BY <1>0, <1>1, DialerFacts, CacheConstants DEF Filed
  <1>3. /\ dialer' \in [Dialers -> DialerType] /\ dialer'[d].at = "count"
        /\ dialer'[d].ent = d /\ dialer'[d].key = k
        /\ \A y \in Dialers : y # d => dialer'[y] = dialer[y]
    BY <1>0, <1>1, DialerFacts, ZenonT(60) DEF DialerType
  <1>4. /\ cache' \in [Keys -> Dialers \cup {NoEntry}] /\ cache'[k] = d
        /\ \A l \in Keys : l # k => cache'[l] = cache[l]
    BY <1>1, <1>2 DEF CacheInv, CacheTyped
  <1>5. CacheTyped'
    BY <1>1, <1>3, <1>4 DEF CacheInv, CacheTyped
  <1>6. Filed(d)' /\ \A y : Filed(y) => Filed(y)'
    BY <1>3 DEF Filed
  <1>7. \A y \in Dialers : DialerOk(y)'
    BY <1>2, <1>3, <1>6 DEF CacheInv, DialerOk, Filed
  <1>8. \A y \in Dialers : EntryOk(y)'
    BY <1>1, <1>3, HoldersStay
  <1>9. \A l \in Keys : KeyOk(l)'
    BY <1>2, <1>3, <1>4, <1>6 DEF CacheInv, KeyOk, Filed
  <1>10. ASSUME NEW t \in Tickers PROVE CleanerOk(t)'
    <2>1. CleanerOk(t) /\ cleaner' = cleaner /\ made' = made
      BY <1>1 DEF CacheInv
    <2>2. Filed(cleaner[t].doomed) =>
            /\ Filed(cleaner[t].doomed)' /\ cleaner[t].doomed # d
      BY <1>1, <1>2, <1>6 DEF Filed
    <2>3. Filed(cleaner[t].doomed) /\ ~Cached(cleaner[t].doomed)
            => ~Cached(cleaner[t].doomed)'
      BY <1>1, <1>4, <2>2 DEF Cached
    <2> QED BY <2>1, <2>2, <2>3 DEF CleanerOk
  <1>11. AliveInv'
    <2>1. Swapping' <=> Swapping
      BY <1>1, <1>3 DEF Swapping
    <2>2. \A t \in Tickers : Live(t)' = Live(t)
      BY <1>1 DEF Live
    <2> QED BY <1>1, <2>1, <2>2 DEF CacheInv, AliveInv
  <1>12. OpenIsCached'
    <2>1. ASSUME NEW e \in Dialers, entry[e].conn = "open", e # d
          PROVE  \/ e \in lost \/ dialer'[e].at = "store"
                 \/ \E l \in Keys : cache'[l] = e
                 \/ \E t \in Tickers : cleaner[t].at = "uncount" /\ cleaner[t].doomed = e
      <3>1. \/ e \in lost \/ dialer[e].at = "store"
            \/ \E l \in Keys : cache[l] = e
            \/ \E t \in Tickers : cleaner[t].at = "uncount" /\ cleaner[t].doomed = e
        BY <2>1 DEF CacheInv, OpenIsCached
      <3>2. \A l \in Keys : cache[l] = e => cache'[l] = e
        BY <1>2, <1>4, CacheConstants
      <3> QED BY <1>3, <2>1, <3>1, <3>2
    <2> QED BY <1>1, <1>2, <1>4, <2>1 DEF OpenIsCached
  <1>13. ItemsExact'
    <2> DEFINE C == {x \in Dialers : dialer[x].at = "count"}
               U == {t \in Tickers : cleaner[t].at = "uncount"}
               K == {l \in Keys : cache[l] # NoEntry}
               C1 == {x \in Dialers : dialer'[x].at = "count"}
               U1 == {t \in Tickers : cleaner'[t].at = "uncount"}
               K1 == {l \in Keys : cache'[l] # NoEntry}
    <2>1. C1 = C \cup {d} /\ d \notin C
      BY <1>1, <1>3
    <2>2. K1 = K \cup {k} /\ k \notin K /\ U1 = U
      BY <1>1, <1>2, <1>4
    <2>3. IsFiniteSet(C) /\ IsFiniteSet(K) /\ IsFiniteSet(U)
      BY CacheFinite
    <2>4. items + Cardinality(C) - Cardinality(U) = Cardinality(K)
      BY DEF CacheInv, ItemsExact
    <2>5. items' + Cardinality(C1) - Cardinality(U1) = Cardinality(K1) => ItemsExact'
      BY DEF ItemsExact
    <2>6. items \in Int /\ items' = items
      BY <1>1 DEF CacheInv, CacheTyped
    <2> HIDE DEF C, K, U, C1, K1, U1
    <2>7. Cardinality(C1) = Cardinality(C) + 1 /\ Cardinality(K1) = Cardinality(K) + 1
      BY <2>1, <2>2, <2>3, FS_AddElement
    <2>8. Cardinality(C) \in Int /\ Cardinality(K) \in Int /\ Cardinality(U) \in Int
      BY <2>3, FS_CardinalityType
    <2>9. items' + Cardinality(C1) - Cardinality(U1) = Cardinality(K1)
      BY <2>2, <2>4, <2>6, <2>7, <2>8
    <2> QED BY <2>5, <2>9
  <1> QED BY <1>5, <1>7, <1>8, <1>9, <1>10, <1>11, <1>12, <1>13 DEF CacheInv

(* A user whose entry is in the cache goes on: nothing changes for others. *)
LEMMA UsersStay ==
  ASSUME CacheInv, NEW d \in Dialers, cache' = cache, entry' = entry, lost' = lost,
         dialer[d].at \in {"count", "swap"}, dialer'[d].at \in {"swap", "acquire"},
         dialer'[d].ent = dialer[d].ent, dialer'[d].key = dialer[d].key,
         \A y \in Dialers : y # d => dialer'[y] = dialer[y],
         \A t \in Tickers : cleaner[t].at = "uncount" => cleaner'[t] = cleaner[t]
  PROVE  /\ \A e : Filed(e) => Filed(e)'
         /\ \A y \in Dialers : DialerOk(y)' /\ EntryOk(y)'
         /\ \A k \in Keys : KeyOk(k)'
         /\ OpenIsCached'
  <1>1. \A e : Filed(e) => Filed(e)'
    BY DEF Filed
  <1>2. \A y \in Dialers : DialerOk(y)'
    BY <1>1, DialerFacts DEF CacheInv, DialerOk, Filed
  <1>3. \A y \in Dialers : EntryOk(y)'
    BY HoldersStay
  <1>4. \A k \in Keys : KeyOk(k)'
    BY <1>1 DEF CacheInv, KeyOk, Filed
  <1>5. OpenIsCached'
    BY DEF CacheInv, OpenIsCached
  <1> QED BY <1>1, <1>2, <1>3, <1>4, <1>5

(* CountInsert: the first item makes a cleaner be started.                 *)
LEMMA CountsItem == ASSUME CacheInv, NEW d \in Dialers, CountInsert(d) PROVE CacheInv'
  <1>1. /\ dialer[d].at = "count" /\ items' = items + 1
        /\ At(d, IF items' = 1 THEN "swap" ELSE "acquire")
        /\ UNCHANGED <<cache, entry, ticker, made, stopped, cleaner, lost>>
    BY DEF CountInsert
  <1>2. /\ dialer' \in [Dialers -> DialerType]
        /\ dialer'[d].at = IF items' = 1 THEN "swap" ELSE "acquire"
        /\ dialer'[d].ent = dialer[d].ent /\ dialer'[d].key = dialer[d].key
        /\ \A y \in Dialers : y # d => dialer'[y] = dialer[y]
    BY <1>1, DialerFacts DEF DialerType, At
  <1>3. items \in Int
    BY DEF CacheInv, CacheTyped
  <1>4. CacheTyped'
    BY <1>1, <1>2, <1>3 DEF CacheInv, CacheTyped
  <1>5. /\ \A e : Filed(e) => Filed(e)'
        /\ \A y \in Dialers : DialerOk(y)' /\ EntryOk(y)'
        /\ \A k \in Keys : KeyOk(k)'
        /\ OpenIsCached'
    BY <1>1, <1>2, UsersStay
  <1>6. \A t \in Tickers : CleanerOk(t)'
    BY <1>1, <1>5 DEF CacheInv, CleanerOk, Cached
  <1>7. AliveInv'
    <2>1. CASE items' = 1
      BY <1>2, <2>1 DEF AliveInv, Swapping
    <2>2. CASE items' # 1
      <3>1. items' > 0 => items > 0
        BY <1>1, <1>3, <2>2
      <3>2. Swapping => Swapping'
        BY <1>1, <1>2 DEF Swapping
      <3>3. \A t \in Tickers : Live(t)' = Live(t)
        BY <1>1 DEF Live
      <3> QED BY <3>1, <3>2, <3>3 DEF CacheInv, AliveInv
    <2> QED BY <2>1, <2>2
  <1>8. ItemsExact'
    <2> DEFINE C == {x \in Dialers : dialer[x].at = "count"}
               U == {t \in Tickers : cleaner[t].at = "uncount"}
               K == {l \in Keys : cache[l] # NoEntry}
               C1 == {x \in Dialers : dialer'[x].at = "count"}
    <2>1. C1 = C \ {d} /\ d \in C
      BY <1>1, <1>2
    <2>2. IsFiniteSet(C) /\ IsFiniteSet(K) /\ IsFiniteSet(U)
      BY CacheFinite
    <2>3. items + Cardinality(C) - Cardinality(U) = Cardinality(K)
      BY DEF CacheInv, ItemsExact
    <2>4. items' + Cardinality(C1) - Cardinality(U) = Cardinality(K) => ItemsExact'
      BY <1>1 DEF ItemsExact
    <2> HIDE DEF C, K, U, C1
    <2>5. Cardinality(C1) = Cardinality(C) - 1
      BY <2>1, <2>2, FS_RemoveElement
    <2>6. Cardinality(C) \in Int /\ Cardinality(K) \in Int /\ Cardinality(U) \in Int
      BY <2>2, FS_CardinalityType
    <2>7. items' + Cardinality(C1) - Cardinality(U) = Cardinality(K)
      BY <1>1, <1>3, <2>3, <2>5, <2>6
    <2> QED BY <2>4, <2>7
  <1> QED BY <1>4, <1>5, <1>6, <1>7, <1>8 DEF CacheInv

(* StartCleaner: the new ticker is not stopped, and its cleaner runs.      *)
LEMMA StartsCleaner == ASSUME CacheInv, NEW d \in Dialers, StartCleaner(d) PROVE CacheInv'
  <1>1. /\ dialer[d].at = "swap" /\ made < MaxTickers /\ made' = made + 1
        /\ ticker' = made + 1
        /\ stopped' = IF ticker = 0 THEN stopped ELSE stopped \cup {ticker}
        /\ cleaner' = [cleaner EXCEPT ![made + 1].at = "sleep"]
        /\ At(d, "acquire")
        /\ UNCHANGED <<cache, entry, items, lost>>
    BY DEF StartCleaner
  <1>2. /\ dialer' \in [Dialers -> DialerType] /\ dialer'[d].at = "acquire"
        /\ dialer'[d].ent = dialer[d].ent /\ dialer'[d].key = dialer[d].key
        /\ \A y \in Dialers : y # d => dialer'[y] = dialer[y]
    BY <1>1, DialerFacts DEF DialerType, At
  <1>3. /\ made \in 0..MaxTickers /\ ticker \in 0..MaxTickers /\ ticker <= made
        /\ stopped \subseteq 1..made /\ cleaner \in [Tickers -> CleanerType]
    BY DEF CacheInv, CacheTyped
  <1>4. made + 1 \in Tickers /\ made + 1 \notin stopped' /\ stopped' \subseteq 1..(made + 1)
    BY <1>1, <1>3, CacheConstants DEF Tickers
  <1>5. cleaner[made + 1].at = "none"
    BY <1>3, <1>4 DEF CacheInv, CleanerOk
  <1>6. /\ cleaner' \in [Tickers -> CleanerType] /\ cleaner'[made + 1].at = "sleep"
        /\ \A t \in Tickers : t # made + 1 => cleaner'[t] = cleaner[t]
    BY <1>1, <1>3, <1>4 DEF CleanerType
  <1>7. CacheTyped'
    BY <1>1, <1>2, <1>3, <1>4, <1>6, CacheConstants DEF CacheInv, CacheTyped, Tickers
  <1>8. \A t \in Tickers : cleaner[t].at = "uncount" => cleaner'[t] = cleaner[t]
    BY <1>5, <1>6
  <1>9. /\ \A e : Filed(e) => Filed(e)'
        /\ \A y \in Dialers : DialerOk(y)' /\ EntryOk(y)'
        /\ \A k \in Keys : KeyOk(k)'
        /\ OpenIsCached'
    BY <1>1, <1>2, <1>8, UsersStay
  <1>10. ASSUME NEW t \in Tickers PROVE CleanerOk(t)'
    <2>1. \A e : Cached(e)' = Cached(e)
      BY <1>1 DEF Cached
    <2>2. CASE t = made + 1
      BY <1>1, <1>3, <1>6, <2>2 DEF CleanerOk
    <2>3. CASE t # made + 1
      <3>1. t \in Int /\ made \in Int
        BY <1>3, CacheConstants DEF Tickers
      <3>2. CleanerOk(t) /\ cleaner'[t] = cleaner[t] /\ (t > made' => t > made)
        BY <1>1, <1>6, <2>3, <3>1 DEF CacheInv
      <3>3. \A u \in Tickers : cleaner'[u].at = "uncount" => cleaner'[u] = cleaner[u]
        BY <1>6
      <3>4. Filed(cleaner[t].doomed) => Filed(cleaner[t].doomed)'
        BY <1>9, <3>2 DEF Filed
      <3> QED BY <2>1, <3>2, <3>3, <3>4 DEF CleanerOk, Cached
    <2> QED BY <2>2, <2>3
  <1>11. AliveInv'
    BY <1>4, <1>6 DEF AliveInv, Live
  <1>12. ItemsExact'
    <2>1. \A t \in Tickers : cleaner'[t].at = "uncount" <=> cleaner[t].at = "uncount"
      BY <1>5, <1>6
    <2>2. \A y \in Dialers : dialer'[y].at = "count" <=> dialer[y].at = "count"
      BY <1>1, <1>2
    <2> QED BY <1>1, <2>1, <2>2, ItemsStay DEF CacheInv
  <1> QED BY <1>7, <1>9, <1>10, <1>11, <1>12 DEF CacheInv

(* A cleaner moves that has deleted nothing just now.                      *)
LEMMA CleanerMoves ==
  ASSUME CacheInv, CacheTyped', NEW t \in Tickers,
         UNCHANGED <<cache, entry, items, made, dialer, lost>>,
         \A u \in Tickers : u # t => cleaner'[u] = cleaner[u],
         cleaner[t].at # "uncount", cleaner'[t].at # "uncount", cleaner[t].at # "none",
         cleaner'[t].at = "delete" => Filed(cleaner'[t].doomed),
         \/ Live(t) => Live(t)'
         \/ items = 0,
         \A u \in Tickers : u # t => (u \in stopped' <=> u \in stopped)
  PROVE  CacheInv'
  <1>1. \A e : Filed(e)' = Filed(e) /\ Cached(e)' = Cached(e) /\ Holders(e)' = Holders(e)
    BY DEF Filed, Cached, Holders
  <1>2. \A y \in Dialers : DialerOk(y)' /\ EntryOk(y)'
    BY <1>1 DEF CacheInv, DialerOk, EntryOk, Filed
  <1>3. \A k \in Keys : KeyOk(k)'
    BY <1>1 DEF CacheInv, KeyOk, Filed
  <1>4. ItemsExact'
    BY ItemsStay DEF CacheInv
  <1>5. OpenIsCached'
    BY DEF CacheInv, OpenIsCached
  <1>6. ASSUME NEW u \in Tickers PROVE CleanerOk(u)'
    <2>1. CASE u = t
      <3>1. t > made => cleaner[t].at = "none"
        BY DEF CacheInv, CleanerOk
      <3>2. cleaner'[t].at \in {"delete", "uncount"} => Filed(cleaner[t].doomed)'
        BY DEF Filed
      <3> QED BY <2>1, <3>1, <3>2 DEF CleanerOk
    <2>2. CASE u # t
      <3>1. CleanerOk(u) /\ cleaner'[u] = cleaner[u]
        BY <2>2 DEF CacheInv
      <3>2. \A w \in Tickers : cleaner'[w].at = "uncount" => cleaner'[w] = cleaner[w]
        OBVIOUS
      <3>3. Filed(cleaner[u].doomed)' = Filed(cleaner[u].doomed)
        BY <3>1 DEF Filed
      <3>4. Cached(cleaner[u].doomed)' = Cached(cleaner[u].doomed)
        BY <3>1 DEF Cached
      <3> QED BY <3>1, <3>2, <3>3, <3>4 DEF CleanerOk
    <2> QED BY <2>1, <2>2
  <1>7. AliveInv'
    <2>1. Swapping' = Swapping
      BY DEF Swapping
    <2>2. \A u \in Tickers : u # t => Live(u)' = Live(u)
      BY DEF Live
    <2>3. CASE items = 0
      BY <2>3 DEF AliveInv
    <2>4. CASE Live(t) => Live(t)'
      BY <2>1, <2>2, <2>4 DEF CacheInv, AliveInv
    <2> QED BY <2>3, <2>4
  <1> QED BY <1>2, <1>3, <1>4, <1>5, <1>6, <1>7 DEF CacheInv

(* TickCleaner, RangeEnds, LoadCount: a cleaner stops only at no items.    *)
LEMMA CleanerGoes ==
  ASSUME CacheInv, NEW t \in Tickers, NEW place, NEW ks \in SUBSET Keys,
         cleaner[t].at \in {"sleep", "range", "load"},
         place \in {"range", "load", "sleep"} \/ (place = "exit" /\ items = 0),
         \/ cleaner' = [cleaner EXCEPT ![t].at = place]
         \/ cleaner' = [cleaner EXCEPT ![t] =
                         [@ EXCEPT !.at = place, !.todo = ks]],
         UNCHANGED <<cache, entry, items, ticker, made, stopped, dialer, lost>>
  PROVE  CacheInv'
  <1>1. cleaner \in [Tickers -> CleanerType]
    BY DEF CacheInv, CacheTyped
  <1>2. /\ cleaner' \in [Tickers -> CleanerType] /\ cleaner'[t].at = place
        /\ \A u \in Tickers : u # t => cleaner'[u] = cleaner[u]
    BY <1>1, ZenonT(60) DEF CleanerType
  <1>3. CacheTyped'
    BY <1>2 DEF CacheInv, CacheTyped
  <1>4. (Live(t) => Live(t)') \/ items = 0
    BY <1>2 DEF Live
  <1> QED BY <1>2, <1>3, <1>4, CleanerMoves

(* RangeKey: what is to be deleted is in the cache.                        *)
LEMMA Ranges ==
  ASSUME CacheInv, NEW t \in Tickers, NEW k \in Keys, RangeKey(t, k) PROVE CacheInv'
  <1>0. PICK e : e = cache[k]
    OBVIOUS
  <1>1. PICK place : place = IF e # NoEntry /\ Expired(e) THEN "delete" ELSE "range"
    OBVIOUS
  <1>2. /\ cleaner[t].at = "range" /\ k \in cleaner[t].todo
        /\ cleaner' = [cleaner EXCEPT ![t] =
                        [@ EXCEPT !.todo = cleaner[t].todo \ {k}, !.at = place,
                                  !.doomed = IF e # NoEntry THEN e ELSE NoEntry]]
        /\ UNCHANGED <<cache, entry, items, ticker, made, stopped, dialer, lost>>
    BY <1>0, <1>1 DEF RangeKey
  <1>3. /\ cleaner \in [Tickers -> CleanerType] /\ e \in Dialers \cup {NoEntry}
        /\ e # NoEntry => Filed(e)
    BY <1>0 DEF CacheInv, CacheTyped, KeyOk
  <1>4. place \in {"delete", "range"} /\ (place = "delete" => e # NoEntry)
    BY <1>1
  <1>5. /\ cleaner' \in [Tickers -> CleanerType] /\ cleaner'[t].at = place
        /\ cleaner'[t].doomed = e
        /\ \A u \in Tickers : u # t => cleaner'[u] = cleaner[u]
    <2>1. PICK left, gone : /\ left = cleaner[t].todo \ {k}
                            /\ gone = IF e # NoEntry THEN e ELSE NoEntry
      OBVIOUS
    <2>2. PICK r : r = [cleaner[t] EXCEPT !.todo = left, !.at = place,
                                          !.doomed = gone]
      OBVIOUS
    <2>3. cleaner' = [cleaner EXCEPT ![t] = r]
      BY <1>2, <2>1, <2>2
    <2>4. r \in CleanerType /\ r.at = place /\ r.doomed = e
      BY <1>3, <1>4, <2>1, <2>2 DEF CleanerType
    <2> QED BY <1>3, <2>3, <2>4
  <1>6. CacheTyped'
    BY <1>2, <1>5 DEF CacheInv, CacheTyped
  <1>7. Live(t) => Live(t)'
    BY <1>2, <1>4, <1>5 DEF Live
  <1>8. cleaner'[t].at = "delete" => Filed(cleaner'[t].doomed)
    BY <1>3, <1>4, <1>5
  <1> QED BY <1>2, <1>4, <1>5, <1>6, <1>7, <1>8, CleanerMoves

(* CleanerExits: it was not alive.                                         *)
LEMMA Exits == ASSUME CacheInv, NEW t \in Tickers, CleanerExits(t) PROVE CacheInv'
  <1>1. /\ cleaner[t].at = "exit" /\ ticker' = IF ticker = t THEN 0 ELSE ticker
        /\ cleaner' = [cleaner EXCEPT ![t] = NoCleaner]
        /\ stopped' = stopped \cup {t}
        /\ UNCHANGED <<cache, entry, items, made, dialer, lost>>
    BY DEF CleanerExits
  <1>2. NoCleaner \in CleanerType /\ NoCleaner.at = "none"
    BY DEF NoCleaner, CleanerType
  <1>3. /\ cleaner' \in [Tickers -> CleanerType] /\ cleaner'[t].at = "none"
        /\ \A u \in Tickers : u # t => cleaner'[u] = cleaner[u]
    BY <1>1, <1>2 DEF CacheInv, CacheTyped
  <1>4. /\ made \in 0..MaxTickers /\ ticker \in 0..MaxTickers /\ ticker <= made
        /\ stopped \subseteq 1..made
    BY DEF CacheInv, CacheTyped
  <1>5. ~(t > made)
    BY <1>1 DEF CacheInv, CleanerOk
  <1>6. t \in 1..made /\ ticker' \in 0..MaxTickers /\ ticker' <= made
    BY <1>1, <1>4, <1>5, CacheConstants DEF Tickers
  <1>7. CacheTyped'
    BY <1>1, <1>3, <1>4, <1>6 DEF CacheInv, CacheTyped
  <1>8. ~Live(t)
    BY <1>1 DEF Live
  <1> QED BY <1>1, <1>3, <1>7, <1>8, CleanerMoves

(* DeleteEntry: at most one key has the entry.                             *)
LEMMA DeletesItem == ASSUME CacheInv, NEW t \in Tickers, DeleteEntry(t) PROVE CacheInv'
  <1>0. PICK e : e = cleaner[t].doomed
    OBVIOUS
  <1>1. PICK hit : hit = {k \in Keys : cache[k] = e}
    OBVIOUS
  <1>2. /\ cleaner[t].at = "delete"
        /\ cache' = [k \in Keys |-> IF k \in hit THEN NoEntry ELSE cache[k]]
        /\ cleaner' = [cleaner EXCEPT ![t].at = IF hit = {} THEN "range" ELSE "uncount"]
        /\ UNCHANGED <<entry, items, ticker, made, stopped, dialer, lost>>
    BY <1>0, <1>1 DEF DeleteEntry
  <1>3. /\ cleaner \in [Tickers -> CleanerType] /\ Filed(e) /\ e \in Dialers
        /\ cache \in [Keys -> Dialers \cup {NoEntry}] /\ ~(t > made)
    BY <1>0, <1>2 DEF CacheInv, CacheTyped, CleanerOk, Filed
  <1>4. e # NoEntry
    BY <1>3, CacheConstants
  <1>5. /\ cleaner' \in [Tickers -> CleanerType] /\ cleaner'[t].doomed = e
        /\ cleaner'[t].at = IF hit = {} THEN "range" ELSE "uncount"
        /\ \A u \in Tickers : u # t => cleaner'[u] = cleaner[u]
    BY <1>0, <1>2, <1>3 DEF CleanerType
  <1>6. CASE hit = {}
    <2>1. cache' = cache
      BY <1>2, <1>3, <1>6
    <2>2. CacheTyped'
      BY <1>2, <1>5, <2>1 DEF CacheInv, CacheTyped
    <2>3. Live(t) => Live(t)'
      BY <1>2, <1>5, <1>6 DEF Live
    <2> QED BY <1>2, <1>5, <1>6, <2>1, <2>2, <2>3, CleanerMoves
  <1>7. CASE hit # {}
    <2>1. PICK k \in Keys : hit = {k} /\ cache[k] = e
      <3>1. \A l \in hit : l \in Keys /\ l = dialer[e].key /\ cache[l] = e
        BY <1>1, <1>4 DEF CacheInv, KeyOk
      <3> QED BY <1>7, <3>1
    <2>2. /\ cache' \in [Keys -> Dialers \cup {NoEntry}] /\ cache'[k] = NoEntry
          /\ \A l \in Keys : l # k => cache'[l] = cache[l]
          /\ \A l \in Keys : cache'[l] # e
      BY <1>1, <1>2, <1>3, <1>4, <2>1
    <2>3. CacheTyped'
      BY <1>2, <1>5, <2>2 DEF CacheInv, CacheTyped
    <2>4. \A x : Filed(x)' = Filed(x) /\ Holders(x)' = Holders(x)
      BY <1>2 DEF Filed, Holders
    <2>5. \A y \in Dialers : DialerOk(y)' /\ EntryOk(y)'
      BY <1>2, <2>4 DEF CacheInv, DialerOk, EntryOk, Filed
    <2>6. \A l \in Keys : KeyOk(l)'
      BY <1>2, <2>2, <2>4 DEF CacheInv, KeyOk, Filed
    <2>7. \A x : x # NoEntry /\ Cached(x)' => Cached(x)
      BY <2>2 DEF Cached
    <2>8. ASSUME NEW u \in Tickers PROVE CleanerOk(u)'
      <3>1. CASE u = t
        <4>1. ~Cached(cleaner[t].doomed)' /\ Filed(cleaner[t].doomed)'
          BY <1>2, <1>3, <1>5, <2>2 DEF Cached, Filed
        <4>2. \A w \in Tickers : w # t /\ cleaner'[w].at = "uncount" => cleaner'[w].doomed # e
          BY <1>5, <2>1 DEF CacheInv, CleanerOk, Cached
        <4> QED BY <1>2, <1>3, <1>5, <3>1, <4>1, <4>2 DEF CleanerOk
      <3>2. CASE u # t
        <4>1. CleanerOk(u) /\ cleaner'[u] = cleaner[u] /\ made' = made
          BY <1>2, <1>5, <3>2 DEF CacheInv
        <4>2. Filed(cleaner[u].doomed) => /\ Filed(cleaner[u].doomed)'
                                          /\ cleaner[u].doomed # NoEntry
          BY <1>2, <4>1, CacheConstants DEF Filed
        <4>3. Filed(cleaner[u].doomed) /\ ~Cached(cleaner[u].doomed)
                => ~Cached(cleaner[u].doomed)'
          BY <2>2, <4>1, <4>2 DEF Cached
        <4>4. cleaner[u].at = "uncount" => cleaner[u].doomed # e
          BY <2>1, <4>1 DEF CleanerOk, Cached
        <4>5. \A w \in Tickers : w # u /\ cleaner'[w].at = "uncount"
                => w = t \/ (cleaner[w].at = "uncount" /\ cleaner'[w] = cleaner[w])
          BY <1>5
        <4> QED BY <1>5, <4>1, <4>2, <4>3, <4>4, <4>5 DEF CleanerOk
      <3> QED BY <3>1, <3>2
    <2>9. AliveInv'
      <3>1. Swapping' = Swapping
        BY <1>2 DEF Swapping
      <3>2. \A u \in Tickers : Live(u) => Live(u)'
        BY <1>2, <1>5, <1>7 DEF Live
      <3> QED BY <1>2, <3>1, <3>2 DEF CacheInv, AliveInv
    <2>10. OpenIsCached'
      <3>1. ASSUME NEW x \in Dialers, entry[x].conn = "open"
            PROVE  \/ x \in lost \/ dialer[x].at = "store"
                   \/ \E l \in Keys : cache'[l] = x
                   \/ \E u \in Tickers : cleaner'[u].at = "uncount" /\ cleaner'[u].doomed = x
        <4>1. CASE x = e
          BY <1>5, <1>7, <4>1
        <4>2. CASE x # e
          <5>1. \/ x \in lost \/ dialer[x].at = "store"
                \/ \E l \in Keys : cache[l] = x
                \/ \E u \in Tickers : cleaner[u].at = "uncount" /\ cleaner[u].doomed = x
            BY <3>1 DEF CacheInv, OpenIsCached
          <5>2. \A u \in Tickers : cleaner[u].at = "uncount" => cleaner'[u] = cleaner[u]
            BY <1>2, <1>5
          <5> QED BY <2>1, <2>2, <4>2, <5>1, <5>2
        <4> QED BY <4>1, <4>2
      <3> QED BY <1>2, <3>1 DEF OpenIsCached
    <2>11. ItemsExact'
      <3> DEFINE C == {x \in Dialers : dialer[x].at = "count"}
                 U == {u \in Tickers : cleaner[u].at = "uncount"}
                 K == {l \in Keys : cache[l] # NoEntry}
                 U1 == {u \in Tickers : cleaner'[u].at = "uncount"}
                 K1 == {l \in Keys : cache'[l] # NoEntry}
      <3>1. U1 = U \cup {t} /\ t \notin U
        BY <1>2, <1>5, <1>7
      <3>2. K1 = K \ {k} /\ k \in K
        BY <1>4, <2>1, <2>2
      <3>3. IsFiniteSet(C) /\ IsFiniteSet(K) /\ IsFiniteSet(U)
        BY CacheFinite
      <3>4. items + Cardinality(C) - Cardinality(U) = Cardinality(K)
        BY DEF CacheInv, ItemsExact
      <3>5. items' + Cardinality(C) - Cardinality(U1) = Cardinality(K1) => ItemsExact'
        BY <1>2 DEF ItemsExact
      <3>6. items \in Int /\ items' = items
        BY <1>2 DEF CacheInv, CacheTyped
      <3> HIDE DEF C, K, U, K1, U1
      <3>7. Cardinality(U1) = Cardinality(U) + 1 /\ Cardinality(K1) = Cardinality(K) - 1
        BY <3>1, <3>2, <3>3, FS_AddElement, FS_RemoveElement
      <3>8. Cardinality(C) \in Int /\ Cardinality(K) \in Int /\ Cardinality(U) \in Int
        BY <3>3, FS_CardinalityType
      <3>9. items' + Cardinality(C) - Cardinality(U1) = Cardinality(K1)
        BY <3>4, <3>6, <3>7, <3>8
      <3> QED BY <3>5, <3>9
    <2> QED BY <2>3, <2>5, <2>6, <2>8, <2>9, <2>10, <2>11 DEF CacheInv
  <1> QED BY <1>6, <1>7

(* OnDelete: the entry is closed, and one item less is counted.            *)
LEMMA UncountsItem == ASSUME CacheInv, NEW t \in Tickers, OnDelete(t) PROVE CacheInv'
  <1>0. PICK e : e = cleaner[t].doomed
    OBVIOUS
  <1>1. /\ cleaner[t].at = "uncount" /\ items' = items - 1
        /\ entry' = [entry EXCEPT ![e].conn = "closed"]
        /\ cleaner' = [cleaner EXCEPT ![t].at = "range"]
        /\ UNCHANGED <<cache, ticker, made, stopped, dialer, lost>>
    BY <1>0 DEF OnDelete
  <1>2. /\ cleaner \in [Tickers -> CleanerType] /\ entry \in [Dialers -> EntryType]
        /\ e \in Dialers /\ items \in Int /\ ~(t > made)
    BY <1>0, <1>1 DEF CacheInv, CacheTyped, CleanerOk, Filed
  <1>3. /\ cleaner' \in [Tickers -> CleanerType] /\ cleaner'[t].at = "range"
        /\ \A u \in Tickers : u # t => cleaner'[u] = cleaner[u]
    BY <1>1, <1>2 DEF CleanerType
  <1>4. /\ entry' \in [Dialers -> EntryType] /\ entry'[e].conn = "closed"
        /\ \A x \in Dialers : /\ entry'[x].acq = entry[x].acq /\ entry'[x].ref = entry[x].ref
                              /\ x # e => entry'[x] = entry[x]
    BY <1>1, <1>2 DEF EntryType
  <1>5. CacheTyped'
    BY <1>1, <1>2, <1>3, <1>4 DEF CacheInv, CacheTyped
  <1>6. \A x : Filed(x)' = Filed(x) /\ Holders(x)' = Holders(x) /\ Cached(x)' = Cached(x)
    BY <1>1 DEF Filed, Holders, Cached
  <1>7. \A y \in Dialers : DialerOk(y)' /\ EntryOk(y)'
    BY <1>1, <1>4, <1>6 DEF CacheInv, DialerOk, EntryOk, Filed
  <1>8. \A k \in Keys : KeyOk(k)'
    BY <1>1, <1>6 DEF CacheInv, KeyOk, Filed
  <1>9. ASSUME NEW u \in Tickers PROVE CleanerOk(u)'
    <2>1. CASE u = t
      BY <1>1, <1>2, <1>3, <2>1 DEF CleanerOk
    <2>2. CASE u # t
      <3>1. CleanerOk(u) /\ cleaner'[u] = cleaner[u]
        BY <1>3, <2>2 DEF CacheInv
      <3>2. \A w \in Tickers : cleaner'[w].at = "uncount" => cleaner'[w] = cleaner[w]
        BY <1>3
      <3>3. /\ Filed(cleaner[u].doomed)' = Filed(cleaner[u].doomed)
            /\ Cached(cleaner[u].doomed)' = Cached(cleaner[u].doomed)
        BY <1>1, <3>1 DEF Filed, Cached
      <3> QED BY <1>1, <3>1, <3>2, <3>3 DEF CleanerOk
    <2> QED BY <2>1, <2>2
  <1>10. AliveInv'
    <2>1. Swapping' = Swapping /\ (items' > 0 => items > 0)
      BY <1>1, <1>2 DEF Swapping
    <2>2. \A u \in Tickers : Live(u) => Live(u)'
      BY <1>1, <1>3 DEF Live
    <2> QED BY <2>1, <2>2 DEF CacheInv, AliveInv
  <1>11. OpenIsCached'
    <2>1. ASSUME NEW x \in Dialers, entry'[x].conn = "open"
          PROVE  \/ x \in lost \/ dialer[x].at = "store"
                 \/ \E l \in Keys : cache[l] = x
                 \/ \E u \in Tickers : cleaner'[u].at = "uncount" /\ cleaner'[u].doomed = x
      <3>1. x # e /\ entry[x].conn = "open"
        BY <1>4, <2>1
      <3>2. \/ x \in lost \/ dialer[x].at = "store"
            \/ \E l \in Keys : cache[l] = x
            \/ \E u \in Tickers : cleaner[u].at = "uncount" /\ cleaner[u].doomed = x
        BY <3>1 DEF CacheInv, OpenIsCached
      <3>3. \A u \in Tickers : cleaner[u].doomed = x => cleaner'[u] = cleaner[u]
        BY <1>0, <1>3, <3>1
      <3> QED BY <3>2, <3>3
    <2> QED BY <1>1, <2>1 DEF OpenIsCached
  <1>12. ItemsExact'
    <2> DEFINE C == {x \in Dialers : dialer[x].at = "count"}
               U == {u \in Tickers : cleaner[u].at = "uncount"}
               K == {l \in Keys : cache[l] # NoEntry}
               U1 == {u \in Tickers : cleaner'[u].at = "uncount"}
    <2>1. U1 = U \ {t} /\ t \in U
      BY <1>1, <1>3
    <2>2. IsFiniteSet(C) /\ IsFiniteSet(K) /\ IsFiniteSet(U)
      BY CacheFinite
    <2>3. items + Cardinality(C) - Cardinality(U) = Cardinality(K)
      BY DEF CacheInv, ItemsExact
    <2>4. items' + Cardinality(C) - Cardinality(U1) = Cardinality(K) => ItemsExact'
      BY <1>1 DEF ItemsExact
    <2> HIDE DEF C, K, U, U1
    <2>5. Cardinality(U1) = Cardinality(U) - 1
      BY <2>1, <2>2, FS_RemoveElement
    <2>6. Cardinality(C) \in Int /\ Cardinality(K) \in Int /\ Cardinality(U) \in Int
      BY <2>2, FS_CardinalityType
    <2>7. items' + Cardinality(C) - Cardinality(U1) = Cardinality(K)
      BY <1>1, <1>2, <2>3, <2>5, <2>6
    <2> QED BY <2>4, <2>7
  <1> QED BY <1>5, <1>7, <1>8, <1>9, <1>10, <1>11, <1>12 DEF CacheInv

(* Every step of the users and the cleaners keeps the cache right.         *)
LEMMA CacheStep == CacheInv /\ [CacheNext]_cacheVars => CacheInv'
  <1> SUFFICES ASSUME CacheInv, [CacheNext]_cacheVars PROVE CacheInv'
    OBVIOUS
  <1>1. CASE \E d \in Dialers, k \in Keys : Connect(d, k)
    BY <1>1, ConnectsUser
  <1>2. ASSUME NEW d \in Dialers, GetEntry(d) PROVE CacheInv'
    <2>1. CASE cache[dialer[d].key] = NoEntry
      BY <1>2, <2>1, Misses DEF GetEntry
    <2>2. CASE cache[dialer[d].key] # NoEntry
      <3>0. PICK e : e = cache[dialer[d].key]
        OBVIOUS
      <3>1. /\ dialer[d].at = "get" /\ entry' = [entry EXCEPT ![e].old = FALSE]
            /\ dialer' = [dialer EXCEPT ![d] =
                           [@ EXCEPT !.at = "acquire", !.ent = cache[dialer[d].key]]]
            /\ UNCHANGED <<cache, items, ticker, made, stopped, cleaner, lost>>
        BY <1>2, <2>2, <3>0 DEF GetEntry
      <3>2. /\ entry' \in [Dialers -> EntryType]
            /\ \A x \in Dialers : /\ entry'[x].conn = entry[x].conn
                                  /\ entry'[x].acq = entry[x].acq
                                  /\ entry'[x].ref = entry[x].ref
        BY <3>1, DialerFacts, ZenonT(60) DEF EntryType
      <3>3. lost \subseteq Dialers
        BY DEF CacheInv, CacheTyped
      <3> QED BY <2>2, <3>1, <3>2, <3>3, Hits
    <2> QED BY <2>1, <2>2
  <1>3. ASSUME NEW d \in Dialers, SetEntry(d) PROVE CacheInv'
    <2>1. CASE cache[dialer[d].key] = NoEntry
      BY <1>3, <2>1, Inserts
    <2>2. CASE cache[dialer[d].key] # NoEntry
      <3>1. /\ dialer[d].at = "store" /\ lost' = lost \cup {d} /\ entry' = entry
            /\ dialer' = [dialer EXCEPT ![d] =
                           [@ EXCEPT !.at = "acquire", !.ent = cache[dialer[d].key]]]
            /\ UNCHANGED <<cache, items, ticker, made, stopped, cleaner>>
        BY <1>3, <2>2 DEF SetEntry
      <3>2. lost \subseteq Dialers /\ entry \in [Dialers -> EntryType]
        BY DEF CacheInv, CacheTyped
      <3>3. lost \subseteq lost' /\ lost' \subseteq Dialers /\ d \in lost'
        BY <3>1, <3>2
      <3> QED BY <2>2, <3>1, <3>2, <3>3, Hits
    <2> QED BY <2>1, <2>2
  <1>4. ASSUME NEW d \in Dialers, DialNewFails(d) PROVE CacheInv'
    BY <1>4, Misses DEF DialNewFails
  <1>5. ASSUME NEW d \in Dialers,
               \/ GrowOld(d) \/ ConnectShared(d) \/ CloseShared(d)
               \/ DialNew(d) \/ DialNewFails(d)
        PROVE  CacheInv'
    BY <1>2, <1>3, <1>4, <1>5, Ages, Dials, CountsItem, StartsCleaner, Acquires, ClosesShared
    DEF ConnectShared
  <1>6. ASSUME NEW t \in Tickers, Cleanup(t) PROVE CacheInv'
    <2>1. CASE TickCleaner(t)
      <3>1. Keys \in SUBSET Keys
        OBVIOUS
      <3> QED BY <2>1, <3>1, CleanerGoes DEF TickCleaner
    <2>2. CASE RangeEnds(t)
      <3>1. Keys \in SUBSET Keys
        OBVIOUS
      <3> QED BY <2>2, <3>1, CleanerGoes DEF RangeEnds
    <2>3. CASE LoadCount(t)
      <3>1. Keys \in SUBSET Keys
        OBVIOUS
      <3>2. PICK place : place = IF items = 0 THEN "exit" ELSE "sleep"
        OBVIOUS
      <3>3. place \in {"range", "load", "sleep"} \/ (place = "exit" /\ items = 0)
        BY <3>2
      <3>4. /\ cleaner' = [cleaner EXCEPT ![t].at = place]
            /\ cleaner[t].at \in {"sleep", "range", "load"}
            /\ UNCHANGED <<cache, entry, items, ticker, made, stopped, dialer, lost>>
        BY <2>3, <3>2 DEF LoadCount
      <3> QED BY <3>1, <3>3, <3>4, CleanerGoes
    <2> QED BY <1>6, <2>1, <2>2, <2>3, Ranges, Exits, DeletesItem, UncountsItem DEF Cleanup
  <1>7. CASE UNCHANGED cacheVars
    BY <1>7 DEF cacheVars, CacheInv, CacheTyped, ItemsExact, OpenIsCached, AliveInv, Swapping,
       Live, DialerOk, EntryOk, KeyOk, CleanerOk, Filed, Holders, Cached
  <1> QED BY <1>1, <1>5, <1>6, <1>7 DEF CacheNext

-----------------------------------------------------------------------------
(* Setting up a connection (pmtp/conn.go, pmtp/upgrade.go).                *)

(* The answer that opens a connection names what the server serves.        *)
Accepted ==
  /\ sv.at \in {"serving", "ended"}
  /\ IF sent.kind = Ws
     THEN answer.proto = Negotiated /\ sv.code = Protocol(Negotiated)
     ELSE answer.proto = sent.proto /\ sv.code = sent.proto

(* Client, request, answer and server are in step: there is no connection  *)
(* before it was dialled and no request before it was written, the request *)
(* names the code of the client, and a client that goes on was accepted.   *)
SetUpInv ==
  /\ DialTypeOK /\ FailedDialIsClosed /\ URLStable
  /\ cli \in [at : {"off", "tcp", "tls", "write", "read", "open", "up", "err",
                    "closed"},
              code : Codes \cup {"none"}]
  /\ cli.at \in {"off", "tcp"} => raw = "none"
  /\ cli.at \in {"off", "tcp", "tls", "write"} => sent = NoSent
  /\ sent = NoSent => answer = NoAnswer
  /\ sent # NoSent => /\ sent.kind = (IF url.websocket THEN Ws ELSE "native")
                      /\ sent.proto = cli.code
  /\ answer.status = 101 => answer.proto = "?" \/ Accepted
  /\ cli.at \in {"open", "up"} => answer.status = 101 /\ answer.proto # "?"

(* Nobody has dialled at first.                                            *)
LEMMA SetUpStart == DialInit => SetUpInv
BY DEF DialInit, SetUpInv, DialTypeOK, FailedDialIsClosed, URLStable, Codes,
   NoSent, NoAnswer

(* Parsing the URL that is dialled gives the endpoint that was asked for,  *)
(* and the codes that are asked for are codes.                             *)
LEMMA Converts ==
  ASSUME NEW u \in Urls
  PROVE  /\ ConvertURL(u) # Invalid =>
              Endpoint(ConvertURL(URL(ConvertURL(u)))) = Endpoint(ConvertURL(u))
         /\ ConvertURL(u) # Invalid => DialCodes(ConvertURL(u)) \subseteq Codes
  <1> DEFINE c == ConvertURL(u)
  <1>1. CASE u.scheme = "ftp" \/ u.code = "bogus"
    BY <1>1 DEF ConvertURL
  <1>2. CASE ~(u.scheme = "ftp" \/ u.code = "bogus")
    <2>1. /\ c.tls \in BOOLEAN /\ c.websocket \in BOOLEAN /\ c.host = u.host
          /\ c.port = u.port /\ c.path \in {"/connect", "/x"}
          /\ c.code \in {"jrpc", "json-rpc", "jrpc+yamux"}
      <3>1. TLS(u) \in BOOLEAN
        BY DEF TLS
      <3>2. c.tls = TLS(u) /\ c.websocket = (u.scheme \in {"ws", "wss", "pmtp+ws"})
        BY <1>2 DEF ConvertURL
      <3>3. /\ c.host = u.host /\ c.port = u.port /\ c.path \in {"/connect", "/x"}
            /\ c.code \in {"jrpc", "json-rpc", "jrpc+yamux"}
        BY <1>2 DEF ConvertURL, Urls
      <3> QED BY <3>1, <3>2, <3>3
    <2>2. PICK v : v = URL(c)
      OBVIOUS
    <2>3. /\ v.scheme = IF c.tls THEN (IF c.websocket THEN "wss" ELSE "https")
                        ELSE (IF c.websocket THEN "ws" ELSE "http")
          /\ v.port = c.port /\ v.host = c.host /\ v.path = c.path /\ v.code = "none"
      BY <2>2 DEF URL
    <2>4. TLS(v) = c.tls /\ (v.scheme \in {"ws", "wss", "pmtp+ws"}) = c.websocket
      <3>1. CASE c.tls = TRUE /\ c.websocket = TRUE
        BY <2>3, <3>1 DEF TLS
      <3>2. CASE c.tls = TRUE /\ c.websocket = FALSE
        <4>1. v.scheme \notin {"ws", "wss", "pmtp+ws"} /\ TLS(v) = c.tls
          BY <2>3, <3>2 DEF TLS
        <4>2. (v.scheme \in {"ws", "wss", "pmtp+ws"}) \in BOOLEAN
          OBVIOUS
        <4>3. ~(v.scheme \in {"ws", "wss", "pmtp+ws"})
          BY <4>1
        <4> HIDE DEF c
        <4> QED BY <3>2, <4>1, <4>2, <4>3
      <3>3. CASE c.tls = FALSE /\ c.websocket = TRUE
        BY <2>3, <3>3 DEF TLS
      <3>4. CASE c.tls = FALSE /\ c.websocket = FALSE
        <4>1. v.scheme \notin {"ws", "wss", "pmtp+ws"} /\ TLS(v) = c.tls
          BY <2>3, <3>4 DEF TLS
        <4>2. (v.scheme \in {"ws", "wss", "pmtp+ws"}) \in BOOLEAN
          OBVIOUS
        <4>3. ~(v.scheme \in {"ws", "wss", "pmtp+ws"})
          BY <4>1
        <4> HIDE DEF c
        <4> QED BY <3>4, <4>1, <4>2, <4>3
      <3> QED BY <2>1, <3>1, <3>2, <3>3, <3>4
    <2>5. ConvertURL(v).tls = TLS(v)
          /\ ConvertURL(v).websocket = (v.scheme \in {"ws", "wss", "pmtp+ws"})
          /\ ConvertURL(v).host = v.host /\ ConvertURL(v).port = v.port
          /\ ConvertURL(v).path = v.path
      BY <2>1, <2>3 DEF ConvertURL
    <2>6. Endpoint(ConvertURL(v)) = Endpoint(c)
      BY <2>3, <2>4, <2>5 DEF Endpoint
    <2>7. DialCodes(c) \subseteq Codes
      BY <2>1 DEF DialCodes, Plain, Muxed, Codes
    <2> QED BY <2>2, <2>6, <2>7
  <1> QED BY <1>1, <1>2

(* Every step of a dial, an upgrade and their failures keeps them in step. *)
LEMMA SetUpStep == SetUpInv /\ [DialNext]_dialVars => SetUpInv'
  <1> SUFFICES ASSUME SetUpInv, [DialNext]_dialVars PROVE SetUpInv'
    OBVIOUS
  <1> DEFINE Sites == {"off", "tcp", "tls", "write", "read", "open", "up", "err", "closed"}
  <1> USE DEF SetUpInv, DialTypeOK, FailedDialIsClosed
  <1>1. ASSUME NEW u \in Urls, DialContext(u) PROVE SetUpInv'
    <2>1. URLStable'
      BY <1>1, Converts DEF DialContext, URLStable
    <2>2. cli' \in [at : {"err", "tcp"}, code : Codes \cup {"none"}]
      BY <1>1, Converts DEF DialContext
    <2> QED
      BY <1>1, <2>1, <2>2 DEF DialContext, Accepted, NoSent, NoAnswer, Codes
  <1>2. CASE TcpDial
    BY <1>2 DEF TcpDial, Fail, Accepted, Negotiated, URLStable
  <1>3. CASE TlsDial
    BY <1>3 DEF TlsDial, Fail, Accepted, Negotiated, URLStable
  <1>4. CASE SendRequest
    BY <1>4 DEF SendRequest, Fail, Accepted, Negotiated, URLStable, NoSent, NoAnswer, Ws
  <1>5. CASE ReadResponse
    BY <1>5 DEF ReadResponse, Fail, Accepted, Negotiated, URLStable, Codes
  <1>6. CASE ReadFails
    BY <1>6 DEF ReadFails, Fail, Accepted, Negotiated, URLStable
  <1>7. CASE OpenCode
    BY <1>7 DEF OpenCode, Accepted, Negotiated, URLStable
  <1>13. CASE OpenFails
    <2>1. cli.at = "open" /\ Muxes(cli.code) /\ UNCHANGED <<url, sent, answer, sv, knows>>
          /\ cli' = [cli EXCEPT !.at = "err"] /\ raw' \in {"closed", "closing"}
          /\ (raw' = "closing" => ~url.websocket)
      BY <1>13 DEF OpenFails
    <2>2. sent # NoSent /\ answer.status = 101 /\ Accepted
      BY <2>1 DEF NoAnswer
    <2>3. ~url.websocket => answer.proto = cli.code
      BY <2>2 DEF Accepted, Ws
    <2>4. raw' = "closing" => Muxes(cli'.code)
                              /\ answer' = [status |-> 101, proto |-> cli'.code]
      BY <2>1, <2>2, <2>3
    <2>5. Accepted'
      BY <2>1, <2>2 DEF Accepted, Negotiated
    <2> QED
      BY <2>1, <2>2, <2>4, <2>5 DEF URLStable
  <1>14. CASE SessionCloses
    BY <1>14 DEF SessionCloses, Accepted, Negotiated, URLStable
  <1>8. CASE Upgrade
    <2>1. /\ answer' \in [status : {0, 101, 200, 406, 500}, proto : Codes \cup {"none", "?"}]
          /\ sv' \in [at : {"idle", "serving", "ended"}, code : Codes \cup {"none"}]
      BY <1>8 DEF Upgrade, Negotiated, Protocol, Codes
    <2>2. answer'.status = 101 => answer'.proto = "?" \/ Accepted'
      BY <1>8 DEF Upgrade, Accepted, Negotiated, Protocol, Ws
    <2>3. answer = NoAnswer /\ sent # NoSent /\ UNCHANGED <<url, cli, raw, sent, knows>>
      BY <1>8 DEF Upgrade
    <2>4. cli.at \notin {"open", "up"}
      BY <2>3 DEF NoAnswer
    <2>5. ~(cli.at = "err" /\ raw = "closing")
      BY <2>3 DEF NoAnswer
    <2> QED
      BY <2>1, <2>2, <2>3, <2>4, <2>5 DEF URLStable
  <1>9. CASE Stranger
    <2>4. cli.at \notin {"open", "up"}
      BY <1>9 DEF Stranger, NoAnswer
    <2>5. ~(cli.at = "err" /\ raw = "closing")
      BY <1>9 DEF Stranger, NoAnswer
    <2> QED
      BY <1>9, <2>4, <2>5 DEF Stranger, URLStable
  <1>10. CASE CloseClient
    BY <1>10 DEF CloseClient, Accepted, Negotiated, URLStable
  <1>11. CASE ServerEnds
    BY <1>11 DEF ServerEnds, Accepted, Negotiated, URLStable
  <1>12. CASE UNCHANGED dialVars
    BY <1>12 DEF dialVars, Accepted, Negotiated, URLStable
  <1> QED
    BY <1>1, <1>2, <1>3, <1>4, <1>5, <1>6, <1>7, <1>8, <1>9, <1>10, <1>11, <1>12,
       <1>13, <1>14 DEF DialNext, Dialing

(* It says that both ends speak one code.                                  *)
LEMMA SetUpSafe == SetUpInv => DialCorrect
  <1> SUFFICES ASSUME SetUpInv, cli.at = "up", sent.kind = Ws => cli.code \in knows
              PROVE  sv.at \in {"serving", "ended"} /\ sv.code = cli.code
    BY DEF SetUpInv, DialCorrect, CodesAgree
  <1>1. Accepted /\ sent # NoSent
    BY DEF SetUpInv, NoAnswer
  <1> QED
    BY <1>1 DEF SetUpInv, DialTypeOK, Accepted, Negotiated, Protocol, Codes

-----------------------------------------------------------------------------
(* The suite: its parts are at rest or take their own steps.               *)

(* Every part is in its initial state.                                     *)
LEMMA PartsStart ==
  Init => /\ DuplexInit /\ PoolInit /\ ServeInit /\ CertInit /\ LockInit
          /\ SubnetInit /\ CacheInit /\ DialInit
BY DEF Init

(* A step of the suite is a step of one part, and leaves the others alone. *)
LEMMA PartsStep ==
  [Next]_vars => /\ [DuplexNext]_duplexVars /\ [PoolNext]_poolVars
                 /\ [ServeNext]_serveVars /\ [CertNext]_certVars
                 /\ [LockNext]_lockVars /\ [SubnetNext]_subnetVars
                 /\ [CacheNext]_cacheVars /\ [DialNext]_dialVars
BY DEF Next, vars

(* The lock of the home directory has one holder, which its file names,    *)
(* for any number of processes and sessions, wherever processes end; an    *)
(* address has one holder, for any size of the subnet (tryLockLocked,      *)
(* unlockLocked, Allocate).                                                *)
THEOREM HomeHasOneOwner == Spec => []HomeIsOwned
  <1>1. Init => LockInv /\ SubnetInv
    BY PartsStart, LockInitInv, SubnetInitInv
  <1>2. LockInv /\ SubnetInv /\ [Next]_vars => LockInv' /\ SubnetInv'
    BY PartsStep, LockStep, SubnetStep
  <1>3. LockInv /\ SubnetInv => HomeIsOwned
    BY DEF LockInv, SubnetInv, HomeIsOwned
  <1> QED
    BY <1>1, <1>2, <1>3, PTL DEF Spec

(* A call returns with the reply to itself, and a call that waits when the *)
(* connection is shut was rejected, lost its reply or gets it, for any     *)
(* number of calls that is at most that of the sequence numbers            *)
(* (roundtrip, pop, Shutdown).                                             *)
THEOREM RepliesMatch == Spec => []CallsAnswered
  <1>1. Init => DuplexInv
    BY PartsStart, DuplexInitInv
  <1>2. DuplexInv /\ [Next]_vars => DuplexInv'
    BY PartsStep, DuplexStep
  <1> QED
    BY <1>1, <1>2, DuplexSafe, PTL DEF Spec, CallsAnswered

(* No connection of the pool leaks and none survives Close but those of    *)
(* dials that overlap it, for any number of users and slots (Acquire,      *)
(* Release, Close).                                                        *)
THEOREM PoolTracksAll == Spec => []PoolCorrect
  <1>1. Init => PoolInv
    BY PartsStart, PoolInitInv
  <1>2. PoolInv /\ [Next]_vars => PoolInv'
    BY PartsStep, PoolStep
  <1>3. PoolInv => PoolTypeOK /\ OpenIsTracked /\ ClosedPoolIsEmpty
    BY DEF PoolInv
  <1> QED
    BY <1>1, <1>2, <1>3, PTL DEF Spec, PoolCorrect

(* Responses are written one at a time and are lost only with the          *)
(* connection, and session, streams and requests end in order, for any     *)
(* number of them (Serve of the mux and of the standard codes).            *)
THEOREM ServesInOrder == Spec => []ServeCorrect
  <1>1. Init => ServeInv
    BY PartsStart, ServeInitInv
  <1>2. ServeInv /\ [Next]_vars => ServeInv'
    BY PartsStep, ServeStep
  <1> QED
    BY <1>1, <1>2, ServeSafe, PTL DEF Spec, ServeCorrect

(* What is given out for some hosts is always the same certificate and is  *)
(* in its files, for any number of askers and hosts and wherever the       *)
(* process ends (ObtainCertificate, Save).                                 *)
THEOREM CertificatesStay == Spec => CertsCorrect
  <1>1. Init => CertInv
    BY PartsStart, CertInitInv
  <1>2. CertInv /\ [Next]_vars => CertInv'
    BY PartsStep, CertStepInv
  <1>3. CertInv /\ [Next]_vars =>
          [\A i \in CertIds : given[i] # NoCert => given'[i] = given[i]]_certVars
    BY PartsStep, CertStepInv
  <1>4. CertInv => \A i \in CertIds : GivenIsSaved(i)
    BY DEF CertInv, SavedInv
  <1> QED
    BY <1>1, <1>2, <1>3, <1>4, PTL DEF Spec, CertsCorrect, SameCertificate

(* A client that is open can be found, a cache with items has a cleaner    *)
(* whose ticker runs, and items are counted right, for any number of       *)
(* users, addresses and cleaners that come and go (GetEntry, SetEntry,     *)
(* onInsert, Cleanup).                                                     *)
THEOREM CacheIsSwept == Spec => []CacheCorrect
  <1>1. Init => CacheInv
    BY PartsStart, CacheStart
  <1>2. CacheInv /\ [Next]_vars => CacheInv'
    BY PartsStep, CacheStep
  <1>3. CacheInv => CleanerAlive /\ ItemsExact /\ OpenIsCached
    BY DEF CacheInv, AliveInv, CleanerAlive, Swapping, Inserting
  <1> QED
    BY <1>1, <1>2, <1>3, ItemsBound, PTL DEF Spec, CacheCorrect

(* For every URL, whichever step of a dial fails and whoever answers: the  *)
(* endpoint is the one that was asked for, both ends of a connection speak *)
(* the same code and a dial that fails leaves no connection but that of a  *)
(* yamux session that has gone away (ConvertURL, DialContext, DialUpgrade, *)
(* Upgrade, yamuxCloseGraceful).                                           *)
THEOREM DialsAgree == Spec => []DialCorrect
  <1>1. Init => SetUpInv
    BY PartsStart, SetUpStart
  <1>2. SetUpInv /\ [Next]_vars => SetUpInv'
    BY PartsStep, SetUpStep
  <1> QED
    BY <1>1, <1>2, SetUpSafe, PTL DEF Spec
=============================================================================
