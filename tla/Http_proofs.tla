----------------------------- MODULE Http_proofs ----------------------------
(***************************************************************************)
(* Proofs about the parts around a request.  Each part has an invariant of *)
(* its own, which its initial state establishes and its steps keep; a step *)
(* of the suite is a step of each part or leaves it alone.                 *)
(***************************************************************************)
EXTENDS MCHttp, FiniteSetTheorems, FunctionTheorems, SequenceTheorems, TLAPS

-----------------------------------------------------------------------------
(* The hosts file.                                                         *)

(* The copy has the lines of the file whenever it will be written without  *)
(* another look at the file: while it is trusted, and once it was read.    *)
CopyIsGood ==
  Fresh \/ writer.at \in {"insert", "truncate", "write"}
    => added \subseteq copy.user \cup excused

(* So it is with the mappings, of which those that are being inserted take *)
(* the place of others of their hosts.                                     *)
CopyHasMappings ==
  /\ (Fresh /\ writer.at \in {"off", "refresh"}) \/ writer.at = "insert"
       => kept \subseteq copy.ours
  /\ writer.at \in {"truncate", "write"} => Merge(kept, writer.map) \subseteq copy.ours

HostsInv ==
  /\ FileTypeOK /\ LinesKept /\ MappingsKept /\ CopyIsGood /\ CopyHasMappings
  /\ Function(writer.map) /\ Function(writer.backup.ours)

(* The mappings after an insertion are still one for each host.            *)
LEMMA MergeIsFunction ==
  ASSUME NEW o \in SUBSET Pairs, NEW m \in SUBSET Pairs, Function(o), Function(m)
  PROVE  Merge(o, m) \in SUBSET Pairs /\ Function(Merge(o, m))
BY DEF Function, Merge

(* An empty file and no copy satisfy it.                                   *)
LEMMA HostsStart == FileInit => HostsInv
BY HostsAssumption
   DEF HostsAssumption, FileInit, HostsInv, FileTypeOK, LinesKept, MappingsKept,
       CopyIsGood, CopyHasMappings, Function, Contents, Empty, NoWriter, Fresh

(* Every step of the user, of an update or of the clock keeps it.          *)
LEMMA HostsStep == HostsInv /\ [FileNext]_fileVars => HostsInv'
  <1> SUFFICES ASSUME HostsInv, FileNext PROVE HostsInv'
    BY DEF fileVars, HostsInv, FileTypeOK, LinesKept, MappingsKept, CopyIsGood,
           CopyHasMappings, Fresh
  <1>a. MaxUpdates \in Nat /\ MaxSeconds \in Nat
    BY HostsAssumption DEF HostsAssumption
  <1>i. /\ FileTypeOK /\ LinesKept /\ MappingsKept /\ CopyIsGood
        /\ CopyHasMappings /\ Function(writer.map) /\ Function(writer.backup.ours)
    BY DEF HostsInv
  <1> USE <1>a, <1>i
  <1>1. CASE FileClock
    <2>1. FileTypeOK'
      BY <1>1 DEF FileClock, FileTypeOK
    <2>2. Fresh' => Fresh
      BY <1>1 DEF FileClock, FileTypeOK, Fresh
    <2> QED
      BY <1>1, <2>1, <2>2 DEF FileClock, HostsInv, LinesKept, MappingsKept,
         CopyIsGood, CopyHasMappings
  <1>2. ASSUME NEW l \in UserLines, UserEdits(l) PROVE HostsInv'
    <2>0. /\ file' = [user |-> file.user \cup {l}, ours |-> file.ours]
          /\ file' \in Contents
      BY <1>2 DEF UserEdits, FileTypeOK, Contents
    <2>1. FileTypeOK'
      BY <1>2, <2>0 DEF UserEdits, FileTypeOK
    <2>2. Fresh' => seconds - copied < 1 /\ copied >= 0 /\ Fresh
      BY <1>2 DEF UserEdits, FileTypeOK, Fresh
    <2>3. CopyIsGood'
      BY <1>2, <2>2 DEF UserEdits, CopyIsGood
    <2>4. LinesKept' /\ MappingsKept'
      BY <1>2, <2>0 DEF UserEdits, LinesKept, MappingsKept
    <2>5. CopyHasMappings'
      BY <1>2, <2>2 DEF UserEdits, CopyHasMappings
    <2> QED BY <1>2, <2>1, <2>3, <2>4, <2>5 DEF UserEdits, HostsInv
  <1>3. ASSUME NEW p \in Pairs, InsertBegins({p}) PROVE HostsInv'
    <2>1. FileTypeOK' /\ Function(writer'.map) /\ Function(writer'.backup.ours)
      BY <1>3 DEF InsertBegins, FileTypeOK, Function, Empty, Contents
    <2> QED
      BY <1>3, <2>1 DEF InsertBegins, HostsInv, LinesKept, MappingsKept,
         CopyIsGood, CopyHasMappings, Fresh
  <1>4. CASE Refresh
    <2>0. /\ writer'.at = "insert" /\ writer'.map = writer.map
          /\ writer'.backup = writer.backup /\ FileTypeOK'
      BY <1>4 DEF Refresh, FileTypeOK
    <2> QED
      BY <1>4, <2>0 DEF Refresh, HostsInv, LinesKept, MappingsKept, CopyIsGood,
         CopyHasMappings, FileTypeOK, Fresh
  <1>5. CASE ConfigInsert
    <2>1. CASE writer.map \subseteq copy.ours
      BY <1>5, <2>1 DEF ConfigInsert, HostsInv, LinesKept, MappingsKept,
         CopyIsGood, CopyHasMappings, FileTypeOK, NoWriter, Function, Empty, Contents
    <2>2. CASE ~(writer.map \subseteq copy.ours)
      <3>1. /\ writer' = [at |-> "truncate", map |-> writer.map, backup |-> copy]
            /\ copy' = [user |-> copy.user, ours |-> Merge(copy.ours, writer.map)]
            /\ writer.at = "insert"
            /\ UNCHANGED <<seconds, file, mtime, copied, updates, added, kept, excused>>
        BY <1>5, <2>2 DEF ConfigInsert, FileTypeOK, Contents
      <3>2. /\ Merge(copy.ours, writer.map) \in SUBSET Pairs
            /\ Function(Merge(copy.ours, writer.map))
        BY MergeIsFunction DEF FileTypeOK, Contents
      <3>3. FileTypeOK' /\ Function(writer'.map) /\ Function(writer'.backup.ours)
        BY <3>1, <3>2 DEF FileTypeOK, Contents
      <3>4. LinesKept' /\ MappingsKept' /\ CopyIsGood'
        BY <3>1 DEF LinesKept, MappingsKept, CopyIsGood
      <3>5. CopyHasMappings'
        BY <3>1 DEF CopyHasMappings, Merge
      <3> QED BY <3>3, <3>4, <3>5 DEF HostsInv
    <2> QED BY <2>1, <2>2
  <1>6. CASE Truncate
    <2>0. /\ writer'.at = "write" /\ writer'.map = writer.map
          /\ writer'.backup = writer.backup /\ FileTypeOK'
      BY <1>6 DEF Truncate, FileTypeOK, Empty, Contents, Function
    <2> QED
      BY <1>6, <2>0 DEF Truncate, HostsInv, LinesKept, MappingsKept, CopyIsGood,
         CopyHasMappings
  <1>7. CASE WriteLines
    <2>1. /\ file' = copy /\ copy' = copy /\ kept' = Merge(kept, writer.map)
          /\ writer' = NoWriter /\ writer.at = "write"
          /\ mtime' = seconds /\ copied' = seconds
          /\ UNCHANGED <<seconds, updates, added, excused>>
      BY <1>7 DEF WriteLines, Merge
    <2>0. kept' \subseteq Pairs
      BY <2>1 DEF FileTypeOK, Merge
    <2>2. FileTypeOK' /\ Function(writer'.map) /\ Function(writer'.backup.ours)
      BY <2>0, <2>1 DEF FileTypeOK, NoWriter, Empty, Contents, Function
    <2>3. writer'.at = "off"
      BY <2>1 DEF NoWriter
    <2> QED
      BY <2>1, <2>2, <2>3 DEF HostsInv, LinesKept, MappingsKept, CopyIsGood, CopyHasMappings
  <1>8. CASE WriteFails
    <2>1. FileTypeOK' /\ Function(writer'.map) /\ Function(writer'.backup.ours)
      BY <1>8 DEF WriteFails, Torn, FileTypeOK, NoWriter, Empty, Contents, Function
    <2>2. writer'.at = "off" /\ kept' = {} /\ excused' = added'
      BY <1>8 DEF WriteFails, Torn, NoWriter
    <2> QED
      BY <2>1, <2>2 DEF HostsInv, LinesKept, MappingsKept, CopyIsGood, CopyHasMappings
  <1>9. CASE PmeshCrashes
    <2>1. FileTypeOK' /\ Function(writer'.map) /\ Function(writer'.backup.ours)
      BY <1>9 DEF PmeshCrashes, Torn, FileTypeOK, NoWriter, Empty, Contents, Function
    <2>2. writer'.at = "off" /\ ~Fresh'
      BY <1>9 DEF PmeshCrashes, NoWriter, Fresh
    <2>3. LinesKept' /\ MappingsKept'
      BY <1>9 DEF PmeshCrashes, Torn, LinesKept, MappingsKept
    <2> QED
      BY <2>1, <2>2, <2>3 DEF HostsInv, CopyIsGood, CopyHasMappings
  <1> QED
    BY <1>1, <1>2, <1>3, <1>4, <1>5, <1>6, <1>7, <1>8, <1>9 DEF FileNext

-----------------------------------------------------------------------------
(* What is left of earlier runs.                                           *)

(* Processes: the living have a start, those with a parent have it alive,  *)
(* and the children of commands are commands.                              *)
FamilyInv ==
  \A p \in Pids : Alive(p) =>
    /\ ptable[p].tim \in 1..stamp
    /\ ptable[p].parent # Init1 => /\ Alive(ptable[p].parent)
                                   /\ ptable[ptable[p].parent].ours => ptable[p].ours

(* The node is alive, and so is the child that it is about to track.       *)
NodeInv ==
  /\ nodeAt = "off" <=> nodePid = Init1
  /\ nodeAt # "off" => Alive(nodePid) /\ via \in {"env", "file"}
  /\ nodeAt = "glue" => /\ child \in Pids /\ Alive(child) /\ ptable[child].ours
                        /\ ptable[child].parent = nodePid

(* A process that an entry names is a command, and has the parent of the   *)
(* entry or none.                                                          *)
TrackInv ==
  \A e \in tracker : Alive(e.pid) /\ ptable[e.pid].tim = e.tim =>
    ptable[e.pid].ours /\ ptable[e.pid].parent \in {e.ppid, Init1}

(* What must not survive and lives is still in the tree; what was aimed at *)
(* is of the mesh.                                                         *)
KillInv ==
  /\ nodeAt = "killing" => \A p \in Pids : Alive(p) /\ Ident(p) \in due => p \in tree
  /\ \A p \in Pids : Alive(p) /\ Ident(p) \in aimed => ptable[p].ours

OrphanInv ==
  /\ OrphanTypeOK /\ FamilyInv /\ NodeInv /\ TrackInv /\ KillInv
  /\ OrphansEnd /\ TrackerIsOwn

(* No process, no node and no entry satisfy it.                            *)
LEMMA OrphanStart == OrphanInit => OrphanInv
  <1> SUFFICES ASSUME OrphanInit PROVE OrphanInv
    OBVIOUS
  <1>1. \A p \in Pids : ptable[p] = Gone /\ ~Alive(p)
    BY DEF OrphanInit, Alive, Gone
  <1>a. MaxStarts \in Nat
    BY OrphansAssumption DEF OrphansAssumption
  <1>b. Gone \in [up : BOOLEAN, parent : Pids \cup {Init1}, tim : 0..MaxStarts, ours : BOOLEAN]
    BY <1>a DEF Gone
  <1>c. ptable \in [Pids -> [up : BOOLEAN, parent : Pids \cup {Init1},
                             tim : 0..MaxStarts, ours : BOOLEAN]]
    BY <1>b DEF OrphanInit
  <1>d. tracker = {} /\ due = {} /\ aimed = {} /\ tree = {}
    BY DEF OrphanInit
  <1>e. /\ stamp \in 0..MaxStarts /\ via \in {"unset", "env", "file"}
        /\ nodeAt \in {"off", "kill", "killing", "save", "up", "glue"}
        /\ nodePid \in Pids \cup {Init1} /\ child \in Pids \cup {Init1}
    BY <1>a DEF OrphanInit
  <1>2. OrphanTypeOK
    BY <1>1, <1>c, <1>d, <1>e DEF OrphanTypeOK
  <1>3. FamilyInv /\ KillInv /\ OrphansEnd
    BY <1>1 DEF OrphanInit, FamilyInv, KillInv, OrphansEnd
  <1>4. NodeInv /\ TrackInv /\ TrackerIsOwn
    BY DEF OrphanInit, NodeInv, TrackInv, TrackerIsOwn
  <1> QED BY <1>2, <1>3, <1>4 DEF OrphanInv

(* A process that begins has the next number of starts, the others stay.   *)
LEMMA BeginsDoes ==
  ASSUME OrphanTypeOK, NEW p \in Pids, NEW f \in Pids \cup {Init1},
         NEW o \in BOOLEAN, Begins(p, f, o)
  PROVE  /\ ptable' \in [Pids -> [up : BOOLEAN, parent : Pids \cup {Init1},
                                  tim : 0..MaxStarts, ours : BOOLEAN]]
         /\ stamp \in Nat /\ stamp' = stamp + 1 /\ stamp' \in 0..MaxStarts
         /\ ~Alive(p) /\ ptable'[p].up /\ ptable'[p].parent = f
         /\ ptable'[p].tim = stamp + 1 /\ ptable'[p].ours = o
         /\ \A q \in Pids \ {p} : ptable'[q] = ptable[q]
  <1> DEFINE rec == [up |-> TRUE, parent |-> f, tim |-> stamp + 1, ours |-> o]
  <1>1. /\ stamp \in Nat /\ stamp' = stamp + 1 /\ stamp' \in 0..MaxStarts
        /\ ~Alive(p)
    <2>1. stamp \in 0..MaxStarts /\ MaxStarts \in Nat
      BY OrphansAssumption DEF OrphansAssumption, OrphanTypeOK
    <2>2. stamp < MaxStarts /\ stamp' = stamp + 1 /\ ~Alive(p)
      BY Zenon DEF Begins
    <2> QED BY <2>1, <2>2
  <1>2. ptable' = [ptable EXCEPT ![p] = rec]
    BY DEF Begins
  <1>3. rec \in [up : BOOLEAN, parent : Pids \cup {Init1}, tim : 0..MaxStarts, ours : BOOLEAN]
    BY <1>1
  <1>4. rec.up /\ rec.parent = f /\ rec.tim = stamp + 1 /\ rec.ours = o
    BY Zenon
  <1> HIDE DEF rec
  <1>5. ptable'[p] = rec /\ \A q \in Pids \ {p} : ptable'[q] = ptable[q]
    BY <1>2 DEF OrphanTypeOK
  <1>6. ptable' \in [Pids -> [up : BOOLEAN, parent : Pids \cup {Init1},
                              tim : 0..MaxStarts, ours : BOOLEAN]]
    BY <1>2, <1>3 DEF OrphanTypeOK
  <1>7. /\ ptable'[p].up /\ ptable'[p].parent = f
        /\ ptable'[p].tim = stamp + 1 /\ ptable'[p].ours = o
    BY <1>4, <1>5, Zenon
  <1> QED BY <1>1, <1>5, <1>6, <1>7

(* Processes that end are gone, and their children have no parent.         *)
LEMMA WithoutDoes ==
  ASSUME OrphanTypeOK, NEW S, ptable' = Without(S)
  PROVE  /\ ptable' \in [Pids -> [up : BOOLEAN, parent : Pids \cup {Init1},
                                  tim : 0..MaxStarts, ours : BOOLEAN]]
         /\ \A q \in S \cap Pids : ~ptable'[q].up
         /\ \A q \in Pids \ S :
              /\ ptable'[q].up = ptable[q].up /\ ptable'[q].tim = ptable[q].tim
              /\ ptable'[q].ours = ptable[q].ours
              /\ ptable'[q].parent = IF ptable[q].parent \in S THEN Init1
                                     ELSE ptable[q].parent
  <1>a. MaxStarts \in Nat
    BY OrphansAssumption DEF OrphansAssumption
  <1>0. Gone \in [up : BOOLEAN, parent : Pids \cup {Init1}, tim : 0..MaxStarts, ours : BOOLEAN]
    BY <1>a DEF Gone
  <1>1. ASSUME NEW q \in Pids
        PROVE  /\ ptable'[q] = IF q \in S THEN Gone
                               ELSE IF ptable[q].parent \in S
                               THEN [ptable[q] EXCEPT !.parent = Init1] ELSE ptable[q]
               /\ ptable[q] \in [up : BOOLEAN, parent : Pids \cup {Init1},
                                 tim : 0..MaxStarts, ours : BOOLEAN]
    BY DEF Without, OrphanTypeOK
  <1>2. DOMAIN ptable' = Pids /\ ptable' = [q \in Pids |-> ptable'[q]]
    BY DEF Without
  <1>3. ASSUME NEW q \in Pids
        PROVE  ptable'[q] \in [up : BOOLEAN, parent : Pids \cup {Init1},
                               tim : 0..MaxStarts, ours : BOOLEAN]
    BY <1>0, <1>1, ZenonT(60)
  <1>g. ~Gone.up
    BY Zenon DEF Gone
  <1>4. \A q \in S \cap Pids : ~ptable'[q].up
    BY <1>1, <1>g
  <1>5. ASSUME NEW q \in Pids \ S
        PROVE  /\ ptable'[q].up = ptable[q].up /\ ptable'[q].tim = ptable[q].tim
               /\ ptable'[q].ours = ptable[q].ours
               /\ ptable'[q].parent = IF ptable[q].parent \in S THEN Init1
                                      ELSE ptable[q].parent
    BY <1>1, ZenonT(60)
  <1> QED BY <1>2, <1>3, <1>4, <1>5

(* What a step leaves of a process: it lives as it did, perhaps without    *)
(* its parent.                                                             *)
Remains(q) ==
  /\ Alive(q) /\ ptable'[q].tim = ptable[q].tim
  /\ ptable[q].ours => ptable'[q].ours
  /\ ptable'[q].ours => ptable[q].ours
  /\ ptable'[q].parent \in {ptable[q].parent, Init1}

(* What every step does to the processes: each that lives afterwards       *)
(* remains or is new, and new ones are in no history.                      *)
ProcsStep ==
  /\ stamp' \in {stamp, stamp + 1} /\ stamp' \in 0..MaxStarts
  /\ ptable' \in [Pids -> [up : BOOLEAN, parent : Pids \cup {Init1},
                           tim : 0..MaxStarts, ours : BOOLEAN]]
  /\ \A q \in Pids : ptable'[q].up => ptable'[q].parent # q
  /\ \A q \in Pids : ptable'[q].up => Remains(q) \/ ptable'[q].tim = stamp + 1

(* A process begins, with a living parent whose kind it has, or none.      *)
LEMMA BeginKeeps ==
  ASSUME OrphanInv, NEW p \in Pids, NEW f \in Pids \cup {Init1},
         NEW o \in BOOLEAN, Begins(p, f, o),
         f # Init1 => Alive(f) /\ (ptable[f].ours => o)
  PROVE  ProcsStep /\ FamilyInv'
  <1>i. OrphanTypeOK /\ FamilyInv /\ stamp \in 0..MaxStarts
    BY DEF OrphanInv, OrphanTypeOK
  <1>a. Init1 \notin Pids
    BY OrphansAssumption DEF OrphansAssumption
  <1>1. /\ ptable' \in [Pids -> [up : BOOLEAN, parent : Pids \cup {Init1},
                                 tim : 0..MaxStarts, ours : BOOLEAN]]
        /\ stamp \in Nat /\ stamp' = stamp + 1 /\ stamp' \in 0..MaxStarts
        /\ ~Alive(p) /\ ptable'[p].up /\ ptable'[p].parent = f
        /\ ptable'[p].tim = stamp + 1 /\ ptable'[p].ours = o
        /\ \A q \in Pids \ {p} : ptable'[q] = ptable[q]
    BY <1>i, BeginsDoes
  <1>2. p # f
    BY <1>1, <1>a
  <1>3. \A q \in Pids : ptable'[q].up => ptable'[q].parent # q
    BY <1>1, <1>2, <1>i DEF OrphanTypeOK, Alive
  <1>4. \A q \in Pids : ptable'[q].up /\ q # p => Remains(q)
    BY <1>1 DEF Remains, Alive
  <1>5. ProcsStep
    BY <1>1, <1>3, <1>4 DEF ProcsStep
  <1>6. ASSUME NEW q \in Pids, ptable'[q].up
        PROVE  /\ ptable'[q].tim \in 1..stamp'
               /\ ptable'[q].parent # Init1 =>
                    /\ ptable'[ptable'[q].parent].up
                    /\ ptable'[ptable'[q].parent].ours => ptable'[q].ours
    <2>1. CASE q = p
      <3>1. f # Init1 => ptable'[f] = ptable[f]
        BY <1>1, <1>2
      <3>2. f # Init1 => ptable'[f].up /\ (ptable'[f].ours => ptable'[p].ours)
        BY <1>1, <3>1, Zenon DEF Alive
      <3> QED BY <1>1, <2>1, <3>2
    <2>2. CASE q # p
      <3>1. ptable'[q] = ptable[q] /\ Alive(q)
        BY <1>1, <1>6, <2>2 DEF Alive
      <3>2. ptable[q].parent \in Pids \cup {Init1}
        BY <1>i DEF OrphanTypeOK
      <3>3. ptable[q].parent # Init1 => /\ Alive(ptable[q].parent)
                                        /\ ptable[ptable[q].parent].ours => ptable[q].ours
        BY <1>i, <3>1 DEF FamilyInv
      <3>4. ptable[q].parent # Init1 =>
              ptable[q].parent # p /\ ptable'[ptable[q].parent] = ptable[ptable[q].parent]
        BY <1>1, <3>2, <3>3
      <3>5. ptable'[q].tim \in 1..stamp'
        BY <1>1, <1>i, <3>1 DEF FamilyInv
      <3>6. ptable'[q].parent # Init1 =>
              /\ ptable'[ptable'[q].parent].up
              /\ ptable'[ptable'[q].parent].ours => ptable'[q].ours
        BY <3>1, <3>3, <3>4, Zenon DEF Alive
      <3> QED BY <3>5, <3>6
    <2> QED BY <2>1, <2>2
  <1>7. FamilyInv'
    BY <1>6, Zenon DEF FamilyInv, Alive
  <1> QED BY <1>5, <1>7

(* Some processes end.                                                     *)
LEMMA EndKeeps ==
  ASSUME OrphanInv, NEW S \in SUBSET Pids, ptable' = Without(S), stamp' = stamp
  PROVE  ProcsStep /\ FamilyInv'
  <1>i. OrphanTypeOK /\ FamilyInv /\ stamp \in 0..MaxStarts
    BY DEF OrphanInv, OrphanTypeOK
  <1>a. Init1 \notin Pids
    BY OrphansAssumption DEF OrphansAssumption
  <1>1. /\ ptable' \in [Pids -> [up : BOOLEAN, parent : Pids \cup {Init1},
                                 tim : 0..MaxStarts, ours : BOOLEAN]]
        /\ \A q \in S \cap Pids : ~ptable'[q].up
        /\ \A q \in Pids \ S :
             /\ ptable'[q].up = ptable[q].up /\ ptable'[q].tim = ptable[q].tim
             /\ ptable'[q].ours = ptable[q].ours
             /\ ptable'[q].parent = IF ptable[q].parent \in S THEN Init1
                                    ELSE ptable[q].parent
    BY <1>i, WithoutDoes
  <1>2. ASSUME NEW q \in Pids, ptable'[q].up
        PROVE  q \notin S /\ Remains(q)
    <2>1. q \notin S
      BY <1>1, <1>2
    <2>2. ptable'[q].up = ptable[q].up /\ ptable'[q].ours = ptable[q].ours
      BY <1>1, <2>1
    <2>3. ptable[q].up /\ (ptable[q].ours => ptable'[q].ours) /\ (ptable'[q].ours => ptable[q].ours)
      BY <1>2, <2>2, Zenon
    <2> QED BY <1>1, <2>1, <2>3 DEF Remains, Alive
  <1>3. \A q \in Pids : ptable'[q].up => ptable'[q].parent # q
    BY <1>2, <1>i, <1>a DEF OrphanTypeOK, Alive, Remains
  <1>4. ProcsStep
    BY <1>1, <1>2, <1>3, <1>i DEF ProcsStep
  <1>5. ASSUME NEW q \in Pids, ptable'[q].up
        PROVE  /\ ptable'[q].tim \in 1..stamp'
               /\ ptable'[q].parent # Init1 =>
                    /\ ptable'[ptable'[q].parent].up
                    /\ ptable'[ptable'[q].parent].ours => ptable'[q].ours
    <2>1. q \notin S /\ Remains(q)
      BY <1>2, <1>5
    <2>2. ptable'[q].tim \in 1..stamp'
      BY <2>1, <1>i DEF FamilyInv, Remains
    <2>3. ASSUME ptable'[q].parent # Init1
          PROVE  /\ ptable'[ptable'[q].parent].up
                 /\ ptable'[ptable'[q].parent].ours => ptable'[q].ours
      <3> DEFINE f == ptable[q].parent
      <3>1. f = ptable'[q].parent /\ f \notin S /\ f # Init1
        BY <1>1, <2>1, <2>3
      <3>2. f \in Pids
        BY <3>1, <1>i DEF OrphanTypeOK
      <3>3. Alive(f) /\ (ptable[f].ours => ptable[q].ours)
        BY <1>i, <2>1, <3>1 DEF FamilyInv, Remains
      <3>4. ptable'[f].up = ptable[f].up /\ ptable'[f].ours = ptable[f].ours
        BY <1>1, <3>1, <3>2
      <3>5. ptable[q].ours => ptable'[q].ours
        BY <2>1 DEF Remains
      <3> HIDE DEF f
      <3> QED BY <3>1, <3>3, <3>4, <3>5, Zenon DEF Alive
    <2> QED BY <2>2, <2>3
  <1>6. FamilyInv'
    BY <1>5, Zenon DEF FamilyInv, Alive
  <1> QED BY <1>4, <1>6

(* The node and the child it tracks live on while others come and go.      *)
LEMMA NodeStays ==
  ASSUME OrphanInv, UNCHANGED <<nodeAt, nodePid, child, via>>,
         \/ \E p \in Pids, f \in Pids \cup {Init1}, o \in BOOLEAN : Begins(p, f, o)
         \/ \E p \in Pids : ptable' = Without({p}) /\ p \notin {nodePid, child}
         \/ UNCHANGED ptable
  PROVE  NodeInv'
  <1>i. OrphanTypeOK /\ NodeInv
    BY DEF OrphanInv
  <1>a. Init1 \notin Pids
    BY OrphansAssumption DEF OrphansAssumption
  <1>n. nodeAt # "off" => nodePid \in Pids /\ Alive(nodePid)
    BY <1>i DEF NodeInv, OrphanTypeOK
  <1>c. nodeAt = "glue" => /\ child \in Pids /\ Alive(child) /\ ptable[child].ours
                           /\ ptable[child].parent = nodePid
    BY <1>i DEF NodeInv
  <1>1. CASE \E p \in Pids, f \in Pids \cup {Init1}, o \in BOOLEAN : Begins(p, f, o)
    <2> PICK p \in Pids, f \in Pids \cup {Init1}, o \in BOOLEAN : Begins(p, f, o)
      BY <1>1
    <2>1. ~Alive(p) /\ \A q \in Pids \ {p} : ptable'[q] = ptable[q]
      BY <1>i, BeginsDoes
    <2>2. nodeAt # "off" => ptable'[nodePid] = ptable[nodePid]
      BY <1>n, <2>1
    <2>3. nodeAt = "glue" => ptable'[child] = ptable[child]
      BY <1>c, <2>1
    <2> QED BY <1>i, <2>2, <2>3 DEF NodeInv, Alive
  <1>2. ASSUME NEW p \in Pids, ptable' = Without({p}), p \notin {nodePid, child}
        PROVE  NodeInv'
    <2>1. \A q \in Pids \ {p} :
             /\ ptable'[q].up = ptable[q].up
             /\ ptable'[q].ours = ptable[q].ours
             /\ ptable'[q].parent = IF ptable[q].parent \in {p} THEN Init1
                                    ELSE ptable[q].parent
      BY <1>i, <1>2, WithoutDoes, ZenonT(60)
    <2>2. nodeAt # "off" => ptable'[nodePid].up = ptable[nodePid].up
      BY <1>n, <1>2, <2>1
    <2>3. nodeAt = "glue" => /\ ptable'[child].up = ptable[child].up
                             /\ ptable'[child].ours = ptable[child].ours
                             /\ ptable'[child].parent = ptable[child].parent
      BY <1>c, <1>2, <2>1
    <2>4. nodeAt # "off" => ptable'[nodePid].up
      BY <1>n, <2>2, Zenon DEF Alive
    <2>5. nodeAt = "glue" => /\ ptable'[child].up /\ ptable'[child].ours
                             /\ ptable'[child].parent = nodePid
      BY <1>c, <2>3, Zenon DEF Alive
    <2> QED BY <1>i, <1>c, <2>4, <2>5 DEF NodeInv, Alive
  <1>3. CASE UNCHANGED ptable
    BY <1>i, <1>3 DEF NodeInv, Alive
  <1> QED BY <1>1, <1>2, <1>3

(* A step that forgets entries and aims, and takes from the tree only what *)
(* is dead, keeps the invariant.                                           *)
LEMMA OrphansGoOn ==
  ASSUME OrphanInv, ProcsStep, FamilyInv', NodeInv', TrackerIsOwn',
         tracker' \subseteq tracker, due' \subseteq due, aimed' \subseteq aimed,
         via' \in {"unset", "env", "file"},
         nodeAt' \in {"off", "kill", "killing", "save", "up", "glue"},
         nodePid' \in Pids \cup {Init1}, child' \in Pids \cup {Init1},
         tree' \subseteq Pids,
         nodeAt' = "killing" => /\ nodeAt = "killing"
                                /\ \A q \in tree \ tree' : ~ptable'[q].up,
         nodeAt' = "save" => nodeAt = "save" \/ (nodeAt = "killing" /\ tree = {})
  PROVE  OrphanInv'
  <1>i. /\ OrphanTypeOK /\ FamilyInv /\ TrackInv /\ KillInv /\ OrphansEnd
        /\ stamp \in 0..MaxStarts
    BY DEF OrphanInv, OrphanTypeOK
  <1>p. /\ stamp' \in {stamp, stamp + 1} /\ stamp' \in 0..MaxStarts
        /\ \A q \in Pids : ptable'[q].up => Remains(q) \/ ptable'[q].tim = stamp + 1
    BY DEF ProcsStep
  <1>1. OrphanTypeOK'
    <2>1. /\ tracker' \subseteq [pid : Pids, ppid : Pids \cup {Init1}, tim : 1..stamp']
          /\ due' \subseteq [pid : Pids, tim : 1..stamp']
          /\ aimed' \subseteq [pid : Pids, tim : 1..stamp']
      BY <1>i, <1>p DEF OrphanTypeOK
    <2> QED BY <2>1 DEF OrphanTypeOK, ProcsStep, Alive
  <1>2. TrackInv'
    <2> SUFFICES ASSUME NEW e \in tracker', ptable'[e.pid].up,
                        ptable'[e.pid].tim = e.tim
                 PROVE  /\ ptable'[e.pid].ours
                        /\ ptable'[e.pid].parent \in {e.ppid, Init1}
      BY DEF TrackInv, Alive
    <2>1. e \in tracker /\ e.pid \in Pids /\ e.tim \in 1..stamp
      BY <1>i DEF OrphanTypeOK
    <2>2. Remains(e.pid)
      BY <1>p, <1>i, <2>1
    <2>3. ptable[e.pid].ours /\ ptable[e.pid].parent \in {e.ppid, Init1}
      BY <1>i, <2>1, <2>2 DEF TrackInv, Remains
    <2> QED BY <2>2, <2>3 DEF Remains
  <1>3. ASSUME NEW q \in Pids, ptable'[q].up,
               \/ [pid |-> q, tim |-> ptable'[q].tim] \in due
               \/ [pid |-> q, tim |-> ptable'[q].tim] \in aimed
        PROVE  Remains(q) /\ Ident(q) = [pid |-> q, tim |-> ptable'[q].tim]
    <2>1. ptable'[q].tim \in 1..stamp
      BY <1>i, <1>3 DEF OrphanTypeOK
    <2>2. Remains(q)
      BY <1>p, <1>i, <1>3, <2>1
    <2> QED BY <2>2 DEF Remains, Ident
  <1>4. KillInv'
    <2>1. ASSUME NEW q \in Pids, ptable'[q].up, nodeAt' = "killing",
                 [pid |-> q, tim |-> ptable'[q].tim] \in due'
          PROVE  q \in tree'
      BY <1>3, <1>i, <2>1 DEF KillInv, Remains
    <2>2. ASSUME NEW q \in Pids, ptable'[q].up,
                 [pid |-> q, tim |-> ptable'[q].tim] \in aimed'
          PROVE  ptable'[q].ours
      BY <1>3, <1>i, <2>2 DEF KillInv, Remains
    <2> QED BY <2>1, <2>2, Zenon DEF KillInv, Alive, Ident
  <1>5. OrphansEnd'
    <2>1. ASSUME NEW q \in Pids, ptable'[q].up, nodeAt' = "save"
          PROVE  [pid |-> q, tim |-> ptable'[q].tim] \notin due'
      BY <1>3, <1>i, <2>1 DEF KillInv, OrphansEnd, Remains
    <2> QED BY <2>1, Zenon DEF OrphansEnd, Alive, Ident
  <1> QED BY <1>1, <1>2, <1>4, <1>5 DEF OrphanInv

(* While no process begins or ends, all remain.                            *)
LEMMA NobodyMoves ==
  ASSUME OrphanInv, UNCHANGED <<ptable, stamp>>
  PROVE  ProcsStep /\ FamilyInv'
  <1>1. FamilyInv'
    BY DEF OrphanInv, FamilyInv, Alive
  <1>2. ProcsStep
    BY DEF OrphanInv, OrphanTypeOK, ProcsStep, Remains, Alive
  <1> QED BY <1>1, <1>2

(* Everything in the tree of commands is a command.                        *)
LEMMA TreeIsOurs ==
  ASSUME OrphanInv, NEW roots \in SUBSET Pids,
         \A r \in roots : Alive(r) => ptable[r].ours
  PROVE  \A p \in AddProcess(roots) : p \in Pids /\ Alive(p) /\ ptable[p].ours
  <1>a. Init1 \notin Pids
    BY OrphansAssumption DEF OrphansAssumption
  <1>i. FamilyInv /\ \A p \in Pids : ptable[p].parent \in Pids \cup {Init1}
    BY DEF OrphanInv, OrphanTypeOK
  <1> SUFFICES ASSUME NEW p \in AddProcess(roots) PROVE p \in Pids /\ Alive(p) /\ ptable[p].ours
    OBVIOUS
  <1>1. p \in Pids /\ Alive(p)
    BY DEF AddProcess
  <1>2. PICK r \in roots : Alive(r) /\ Descends(p, r)
    BY DEF AddProcess
  <1> DEFINE S == {q \in Pids : Alive(q) /\ ptable[q].ours}
  <1>3. r \in S
    BY <1>2
  <1>4. ASSUME NEW q \in Pids, Alive(q), ptable[q].parent \in S PROVE q \in S
    BY <1>4, <1>a, <1>i DEF FamilyInv
  <1>5. S \in Families
    BY <1>4 DEF Families
  <1> QED BY <1>2, <1>3, <1>5 DEF Descends

(* The tree has all that must go, and only commands.                       *)
LEMMA FindStep == ASSUME OrphanInv, FindOrphans PROVE OrphanInv'
  <1>i. /\ OrphanTypeOK /\ FamilyInv /\ NodeInv /\ TrackInv /\ TrackerIsOwn
    BY DEF OrphanInv
  <1>u. UNCHANGED <<ptable, stamp, via, tracker, nodePid, child>> /\ nodeAt' = "killing" /\ nodeAt = "kill"
    BY DEF FindOrphans
  <1> DEFINE roots == IF via = "env" THEN {p \in Pids : Alive(p) /\ ptable[p].ours}
                      ELSE {e.pid : e \in {f \in tracker : f.ppid # nodePid /\ Find(f)}}
             must == {p \in Pids : /\ Alive(p) /\ ptable[p].ours
                                   /\ \/ via = "env"
                                      \/ \E e \in tracker : /\ e.pid = p
                                                            /\ e.tim = ptable[p].tim
                                                            /\ e.ppid # nodePid}
             all == AddProcess(roots)
  <1>1. tree' = all /\ aimed' = {Ident(p) : p \in all} /\ due' = {Ident(p) : p \in must}
    BY DEF FindOrphans
  <1>2. roots \in SUBSET Pids /\ \A r \in roots : Alive(r) => ptable[r].ours
    <2>1. CASE via = "env"
      BY <2>1
    <2>2. CASE via # "env"
      <3>1. \A e \in tracker : e.pid \in Pids
        BY <1>i DEF OrphanTypeOK
      <3>2. \A e \in tracker : Find(e) => ptable[e.pid].ours
        BY <1>i DEF TrackInv, Find
      <3> QED BY <2>2, <3>1, <3>2
    <2> QED BY <2>1, <2>2
  <1>3. must \subseteq roots
    <2>1. CASE via = "env"
      BY <2>1
    <2>2. CASE via # "env"
      <3>1. ASSUME NEW p \in must PROVE p \in roots
        <4>1. PICK e \in tracker : e.pid = p /\ e.tim = ptable[p].tim /\ e.ppid # nodePid
          BY <2>2
        <4>2. Alive(p)
          OBVIOUS
        <4>3. Find(e)
          BY <4>1, <4>2, <1>i DEF TrackInv, Find
        <4> QED BY <2>2, <4>1, <4>3
      <3> QED BY <3>1
    <2> QED BY <2>1, <2>2
  <1>4. must \subseteq Pids /\ \A p \in must : Alive(p)
    OBVIOUS
  <1> HIDE DEF roots, must
  <1>5. must \subseteq all
    BY <1>2, <1>3, <1>4 DEF AddProcess, Descends
  <1>6. \A p \in all : p \in Pids /\ Alive(p) /\ ptable[p].ours
    BY <1>2, TreeIsOurs
  <1> HIDE DEF all
  <1>7. \A p \in Pids : Alive(p) => Ident(p) \in [pid : Pids, tim : 1..stamp]
    BY <1>i DEF Ident, FamilyInv
  <1>8. OrphanTypeOK'
    <2>1. /\ tree' \subseteq Pids
          /\ due' \subseteq [pid : Pids, tim : 1..stamp]
          /\ aimed' \subseteq [pid : Pids, tim : 1..stamp]
      BY <1>1, <1>4, <1>6, <1>7
    <2> QED BY <1>i, <1>u, <2>1 DEF OrphanTypeOK, Alive
  <1>9. \A p, q : Ident(p) = Ident(q) => p = q
    BY DEF Ident
  <1>10. KillInv'
    <2>1. \A p \in Pids : Alive(p) /\ Ident(p) \in due' => p \in tree'
      BY <1>1, <1>5, <1>9
    <2>2. \A p \in Pids : Alive(p) /\ Ident(p) \in aimed' => ptable[p].ours
      BY <1>1, <1>6, <1>9
    <2> QED BY <1>u, <2>1, <2>2 DEF KillInv, Alive, Ident
  <1>11. FamilyInv' /\ TrackInv' /\ NodeInv'
    BY <1>i, <1>u DEF FamilyInv, TrackInv, NodeInv, Alive
  <1>12. OrphansEnd' /\ TrackerIsOwn'
    BY <1>u DEF OrphansEnd, TrackerIsOwn
  <1> QED BY <1>8, <1>10, <1>11, <1>12 DEF OrphanInv

(* Every step of the system and of the node keeps the invariant.           *)
LEMMA OrphanStep == OrphanInv /\ [OrphanNext]_orphanVars => OrphanInv'
  <1>a. Init1 \notin Pids
    BY OrphansAssumption DEF OrphansAssumption
  <1> SUFFICES ASSUME OrphanInv, [OrphanNext]_orphanVars PROVE OrphanInv'
    OBVIOUS
  <1>i. OrphanTypeOK /\ NodeInv /\ TrackerIsOwn /\ TrackInv
    BY DEF OrphanInv
  <1>t. /\ via \in {"unset", "env", "file"} /\ nodePid \in Pids \cup {Init1}
        /\ child \in Pids \cup {Init1} /\ tree \subseteq Pids
        /\ nodeAt \in {"off", "kill", "killing", "save", "up", "glue"}
    BY <1>i DEF OrphanTypeOK
  <1>b. TRUE \in BOOLEAN /\ FALSE \in BOOLEAN /\ Init1 \in Pids \cup {Init1}
    OBVIOUS
  <1>q. ASSUME ProcsStep, FamilyInv', NodeInv',
               UNCHANGED <<via, tracker, nodeAt, nodePid, child, tree, due, aimed>>
        PROVE  OrphanInv'
    <2>1. TrackerIsOwn'
      BY <1>i, <1>q DEF TrackerIsOwn
    <2> QED BY <1>q, <1>t, <2>1, OrphansGoOn
  <1>1. ASSUME NEW p \in Pids, Stranger(p) PROVE OrphanInv'
    <2>1. Begins(p, Init1, FALSE) /\ UNCHANGED <<via, tracker, nodeAt, nodePid, child, tree, due, aimed>>
      BY <1>1 DEF Stranger
    <2> QED BY <1>b, <1>q, <2>1, BeginKeeps, NodeStays
  <1>2. ASSUME NEW p \in Pids, NEW q \in Pids, Fork(p, q) PROVE OrphanInv'
    <2>1. /\ Begins(q, p, TRUE) /\ Alive(p)
          /\ UNCHANGED <<via, tracker, nodeAt, nodePid, child, tree, due, aimed>>
      BY <1>2 DEF Fork
    <2>2. ProcsStep /\ FamilyInv'
      BY <1>b, <2>1, BeginKeeps
    <2> QED BY <1>b, <1>q, <2>1, <2>2, NodeStays
  <1>3. ASSUME NEW p \in Pids, Exit(p) PROVE OrphanInv'
    <2>1. /\ ptable' = Without({p}) /\ p \notin {nodePid, child} /\ stamp' = stamp
          /\ UNCHANGED <<via, tracker, nodeAt, nodePid, child, tree, due, aimed>>
      BY <1>3 DEF Exit
    <2>2. ProcsStep /\ FamilyInv'
      BY <2>1, EndKeeps
    <2> QED BY <1>q, <2>1, <2>2, NodeStays
  <1>4. CASE NodeCrashes
    <2>1. /\ nodeAt # "off" /\ ptable' = Without({nodePid}) /\ stamp' = stamp
          /\ nodeAt' = "off" /\ nodePid' = Init1 /\ child' = Init1 /\ tree' = {}
          /\ due' = {} /\ aimed' = {} /\ UNCHANGED <<via, tracker>>
      BY <1>4 DEF NodeCrashes
    <2>2. nodePid \in Pids
      BY <1>i, <1>t, <2>1 DEF NodeInv
    <2>3. ProcsStep /\ FamilyInv'
      BY <2>1, <2>2, EndKeeps
    <2>4. NodeInv' /\ TrackerIsOwn'
      BY <2>1 DEF NodeInv, TrackerIsOwn
    <2> QED BY <1>t, <2>1, <2>3, <2>4, OrphansGoOn
  <1>5. ASSUME NEW p \in Pids, NEW how \in {"env", "file"}, NodeStarts(p, how)
        PROVE  OrphanInv'
    <2>1. /\ nodeAt = "off" /\ Begins(p, Init1, FALSE) /\ nodeAt' = "kill" /\ nodePid' = p
          /\ via' \in {"env", "file"} /\ UNCHANGED <<tracker, child, tree, due, aimed>>
      BY <1>5, <1>t DEF NodeStarts
    <2>2. ProcsStep /\ FamilyInv'
      BY <1>b, <2>1, BeginKeeps
    <2>3. ptable'[p].up
      BY <1>b, <1>i, <2>1, BeginsDoes
    <2>4. NodeInv' /\ TrackerIsOwn'
      BY <1>a, <2>1, <2>3 DEF NodeInv, TrackerIsOwn, Alive
    <2> QED BY <1>t, <2>1, <2>2, <2>4, OrphansGoOn
  <1>6. ASSUME NEW p \in Pids, StartCommand(p) PROVE OrphanInv'
    <2>1. /\ nodeAt = "up" /\ Begins(p, nodePid, TRUE)
          /\ child' = IF via = "env" THEN Init1 ELSE p
          /\ nodeAt' = IF via = "env" THEN "up" ELSE "glue"
          /\ UNCHANGED <<via, tracker, nodePid, tree, due, aimed>>
      BY <1>6 DEF StartCommand
    <2>2. Alive(nodePid) /\ nodePid # Init1 /\ nodePid \in Pids
      BY <1>i, <1>t, <2>1 DEF NodeInv
    <2>3. ProcsStep /\ FamilyInv'
      BY <1>b, <2>1, <2>2, BeginKeeps
    <2>4. /\ ~Alive(p) /\ ptable'[p].up /\ ptable'[p].parent = nodePid /\ ptable'[p].ours = TRUE
          /\ \A q \in Pids \ {p} : ptable'[q] = ptable[q]
      BY <1>b, <1>i, <2>1, <2>2, BeginsDoes
    <2>5. ptable'[nodePid].up /\ ptable'[p].ours
      BY <2>2, <2>4 DEF Alive
    <2>6. NodeInv'
      BY <1>i, <2>1, <2>2, <2>4, <2>5 DEF NodeInv, Alive
    <2>7. TrackerIsOwn'
      BY <1>i, <2>1 DEF TrackerIsOwn
    <2> QED BY <1>t, <2>1, <2>3, <2>6, <2>7, OrphansGoOn
  <1>7. CASE GlueChild
    <2> DEFINE e == [pid |-> child, ppid |-> ptable[child].parent, tim |-> ptable[child].tim]
    <2>0. /\ nodeAt = "glue" /\ nodeAt' = "up" /\ child' = Init1
          /\ UNCHANGED <<ptable, stamp, via, nodePid, tree, due, aimed>>
      BY <1>7 DEF GlueChild
    <2>1. tracker' \subseteq tracker \cup {e}
      BY <1>7 DEF GlueChild
    <2>2. /\ child \in Pids /\ Alive(child) /\ ptable[child].ours
          /\ ptable[child].parent = nodePid
      BY <1>i, <2>0 DEF NodeInv
    <2>3. e \in [pid : Pids, ppid : Pids \cup {Init1}, tim : 1..stamp]
      BY <1>t, <2>2 DEF OrphanInv, FamilyInv
    <2>4. OrphanTypeOK'
      BY <1>i, <2>0, <2>1, <2>3 DEF OrphanTypeOK, Alive
    <2>5. e.pid = child /\ e.ppid = nodePid
      BY <2>2
    <2> HIDE DEF e
    <2>6. TrackInv'
      BY <1>i, <2>0, <2>1, <2>2, <2>5 DEF TrackInv, Alive
    <2>7. TrackerIsOwn'
      BY <1>i, <2>0, <2>1, <2>5 DEF TrackerIsOwn
    <2>8. NodeInv'
      BY <1>i, <2>0 DEF NodeInv, Alive
    <2>9. FamilyInv' /\ KillInv' /\ OrphansEnd'
      BY <2>0 DEF OrphanInv, FamilyInv, KillInv, OrphansEnd, Alive, Ident
    <2> QED BY <2>4, <2>6, <2>7, <2>8, <2>9 DEF OrphanInv
  <1>8. CASE FindOrphans
    BY <1>8, FindStep
  <1>9. ASSUME NEW p \in Pids, KillOne(p) PROVE OrphanInv'
    <2>1. /\ nodeAt = "killing" /\ p # nodePid /\ tree' = tree \ {p}
          /\ ptable' = Without({p}) /\ stamp' = stamp
          /\ UNCHANGED <<via, tracker, nodeAt, nodePid, child, due, aimed>>
      BY <1>9 DEF KillOne
    <2>2. ProcsStep /\ FamilyInv'
      BY <2>1, EndKeeps
    <2>3. /\ ~ptable'[p].up
          /\ \A q \in Pids \ {p} : ptable'[q].up = ptable[q].up
      BY <1>i, <2>1, WithoutDoes, ZenonT(60)
    <2>4. nodePid \in Pids /\ Alive(nodePid)
      BY <1>i, <1>t, <2>1 DEF NodeInv
    <2>5. ptable'[nodePid].up = ptable[nodePid].up
      BY <2>1, <2>3, <2>4
    <2>6. ptable'[nodePid].up
      BY <2>4, <2>5, Zenon DEF Alive
    <2>7. NodeInv' /\ TrackerIsOwn'
      BY <1>i, <2>1, <2>6 DEF NodeInv, TrackerIsOwn, Alive
    <2> QED BY <1>t, <2>1, <2>2, <2>3, <2>7, OrphansGoOn
  <1>10. CASE SaveTracker
    <2>1. /\ nodeAt = "killing" /\ tree = {} /\ nodeAt' = "save"
          /\ UNCHANGED <<ptable, stamp, via, nodePid, child, tree, due, aimed>>
          /\ tracker' \subseteq tracker
          /\ via # "env" => \A e \in tracker' : e.ppid = nodePid
      BY <1>10 DEF SaveTracker
    <2>2. NodeInv' /\ TrackerIsOwn'
      BY <1>i, <2>1 DEF NodeInv, TrackerIsOwn, Alive
    <2> QED BY <1>t, <2>1, <2>2, NobodyMoves, OrphansGoOn
  <1>11. CASE Ready
    <2>1. /\ nodeAt = "save" /\ nodeAt' = "up" /\ due' = {} /\ aimed' = {}
          /\ UNCHANGED <<ptable, stamp, via, tracker, nodePid, child, tree>>
      BY <1>11 DEF Ready
    <2>2. NodeInv' /\ TrackerIsOwn'
      BY <1>i, <2>1 DEF NodeInv, TrackerIsOwn, Alive
    <2> QED BY <1>t, <2>1, <2>2, NobodyMoves, OrphansGoOn
  <1>12. CASE UNCHANGED orphanVars
    <2>1. /\ UNCHANGED <<ptable, stamp>>
          /\ UNCHANGED <<via, tracker, nodeAt, nodePid, child, tree, due, aimed>>
      BY <1>12 DEF orphanVars
    <2>2. NodeInv'
      BY <2>1, NodeStays
    <2> QED BY <1>q, <2>1, <2>2, NobodyMoves
  <1> QED
    BY <1>1, <1>2, <1>3, <1>4, <1>5, <1>6, <1>7, <1>8, <1>9, <1>10, <1>11, <1>12
    DEF OrphanNext
-----------------------------------------------------------------------------
(* The file service.                                                       *)

Kinds == {"dir", "text", "small", "image"}

(* What is in memory is what the pattern admits, all of it but what is     *)
(* still to be visited, and with its content but for what is being read.   *)
MemoryInv ==
  /\ DOMAIN memory \subseteq DOMAIN disk
  /\ memory \in [DOMAIN memory -> [kind : Kinds, data : DOMAIN disk \cup {<<"unread">>},
                                   br : BOOLEAN]]
  /\ \A n \in DOMAIN memory : /\ memory[n].kind = disk[n]
                              /\ disk[n] = "dir" \/ n \in reading \/ memory[n].data = n
  /\ \A n \in DOMAIN disk \ todo :
       disk[n] = "dir" \/ Matches(FALSE, n) => n \in DOMAIN memory

(* The tree and the options as FilesAssumption has them.                   *)
TreeInv ==
  /\ disk \in [DOMAIN disk -> Kinds]
  /\ DOMAIN disk \subseteq Seq(Parts)
  /\ \A n \in DOMAIN disk : disk[n] = "dir" => ~Suffixed(n)
  /\ opt.index \in Seq(Parts) /\ opt.notFound \in Seq(Parts)

(* Requests are served when everything was visited and read.               *)
FilesInv ==
  /\ phase \in {"off", "load", "serve"}
  /\ phase = "off" => memory = <<>> /\ todo = {} /\ reading = {} /\ answer = Nothing
  /\ phase # "off" => TreeInv
  /\ phase # "off" /\ ~opt.dynamic => MemoryInv /\ reading \subseteq DOMAIN memory
  /\ phase = "load" => ~opt.dynamic /\ answer = Nothing
  /\ phase = "serve" => todo = {} /\ reading = {}
  /\ FilesCorrect

(* Before the first request nothing is claimed.                            *)
LEMMA NothingClaimed == answer = Nothing => FilesCorrect
BY DEF Nothing, FilesCorrect, FilesAreServed, PatternKept, EncodedWhenAsked,
   PageIsMarked

(* No directory and no answer satisfy it.                                  *)
LEMMA FilesStart == FileServeInit => FilesInv
BY NothingClaimed DEF FileServeInit, FilesInv

(* The suffix goes on and off.                                             *)
LEMMA SuffixLaws ==
  ASSUME NEW n \in Seq(Parts)
  PROVE  /\ n \o Br \in Seq(Parts) /\ Suffixed(n \o Br) /\ Base(n \o Br) = n
         /\ Base(n) \in Seq(Parts)
         /\ Suffixed(n) => Base(n) \o Br = n
  <1>1. Br \in Seq(Parts) /\ Len(Br) = 1 /\ Br[1] = "@br"
    BY FilesAssumption DEF FilesAssumption, Br
  <1>2. /\ n \o Br \in Seq(Parts) /\ Len(n \o Br) = Len(n) + 1
        /\ (n \o Br)[Len(n) + 1] = "@br"
        /\ \A i \in 1..Len(n) : (n \o Br)[i] = n[i]
    <2>1. /\ n \o Br \in Seq(Parts) /\ Len(n \o Br) = Len(n) + Len(Br)
          /\ \A i \in 1..(Len(n) + Len(Br)) :
               (n \o Br)[i] = IF i <= Len(n) THEN n[i] ELSE Br[i - Len(n)]
      BY <1>1, ConcatProperties
    <2>2. Len(n) \in Nat /\ Len(n) + 1 - Len(n) = 1
      BY LenProperties
    <2> QED BY <1>1, <2>1, <2>2
  <1>3. Suffixed(n \o Br)
    BY <1>2 DEF Suffixed
  <1>4. SubSeq(n \o Br, 1, Len(n)) = n
    BY <1>2
  <1>5. Base(n \o Br) = n
    BY <1>2, <1>3, <1>4 DEF Base
  <1>6. Base(n) \in Seq(Parts)
    <2>1. Suffixed(n) => Len(n) \in Nat \ {0}
      BY EmptySeq DEF Suffixed
    <2>2. Suffixed(n) => SubSeq(n, 1, Len(n) - 1) \in Seq(Parts)
      BY <2>1, SubSeqProperties
    <2> QED BY <2>2 DEF Base
  <1>7. ASSUME Suffixed(n) PROVE Base(n) \o Br = n
    <2>1. Len(n) \in Nat \ {0} /\ n[Len(n)] = "@br"
      BY <1>7, EmptySeq, LenProperties DEF Suffixed
    <2> DEFINE b == SubSeq(n, 1, Len(n) - 1)
    <2>2. /\ b \in Seq(Parts) /\ Len(b) = Len(n) - 1
          /\ \A i \in 1..(Len(n) - 1) : b[i] = n[i]
      <3>1. \A i \in 1..(Len(n) - 1) : n[i] \in Parts
        BY <2>1, LenProperties
      <3>2. Len(n) - 1 \in Int /\ Len(n) - 1 >= 0
        BY <2>1
      <3>3. /\ b \in Seq(Parts)
            /\ Len(b) = IF 1 <= Len(n) - 1 THEN Len(n) - 1 - 1 + 1 ELSE 0
            /\ \A i \in 1..(Len(n) - 1 - 1 + 1) : b[i] = n[1 + i - 1]
        BY <3>1, <3>2, SubSeqProperties
      <3> HIDE DEF b
      <3> DEFINE k == Len(n) - 1
      <3>4. k \in Nat
        BY <2>1
      <3>5. /\ Len(b) = IF 1 <= k THEN k - 1 + 1 ELSE 0
            /\ \A i \in 1..(k - 1 + 1) : b[i] = n[1 + i - 1]
        BY <3>3
      <3> HIDE DEF k
      <3>6. Len(b) = k /\ \A i \in 1..k : b[i] = n[i]
        BY <3>4, <3>5
      <3> QED BY <3>3, <3>6 DEF k
    <2> HIDE DEF b
    <2>3. /\ b \o Br \in Seq(Parts) /\ Len(b \o Br) = Len(n)
          /\ \A i \in 1..Len(n) : (b \o Br)[i] = n[i]
      <3>1. /\ b \o Br \in Seq(Parts) /\ Len(b \o Br) = Len(b) + Len(Br)
            /\ \A i \in 1..(Len(b) + Len(Br)) :
                 (b \o Br)[i] = IF i <= Len(b) THEN b[i] ELSE Br[i - Len(b)]
        BY <1>1, <2>2, ConcatProperties
      <3> QED BY <1>1, <2>1, <2>2, <3>1
    <2>4. b \o Br = n
      BY <2>3, SeqEqual
    <2> QED BY <1>7, <2>4 DEF Base, b
  <1> QED BY <1>2, <1>3, <1>5, <1>6, <1>7

(* Once everything was read, Open finds the file of the name with its own  *)
(* content, or the compressed form of the file that the suffix is put to;  *)
(* and it finds each file without the suffix that the pattern admits.      *)
LEMMA OpensRight ==
  ASSUME FilesInv, phase = "serve", NEW n \in Seq(Parts)
  PROVE  /\ OpenFile(n) # Missing /\ OpenFile(n).kind # "dir" =>
              /\ OpenFile(n).data \in DOMAIN disk
              /\ disk[OpenFile(n).data] # "dir"
              /\ \/ OpenFile(n).form = "plain" /\ OpenFile(n).data = n
                 \/ /\ OpenFile(n).form = "br" /\ Suffixed(n)
                    /\ OpenFile(n).data = Base(n)
         /\ Suffixed(n) => OpenFile(n).kind # "dir"
         /\ n \in DOMAIN disk /\ disk[n] # "dir" /\ Matches(FALSE, n) /\ ~Suffixed(n)
              => OpenFile(n) # Missing /\ OpenFile(n).kind # "dir"
  <1>m. Missing.kind = "none"
    BY DEF Missing
  <1>1. CASE opt.dynamic
    <2>1. TreeInv /\ OpenFile(n) = OpenDisk(n)
      BY <1>1 DEF FilesInv, OpenFile
    <2>2. CASE n \in DOMAIN disk
      <3>1. OpenFile(n) = [kind |-> disk[n], data |-> n, form |-> "plain"]
        BY <2>1, <2>2 DEF OpenDisk
      <3>2. OpenFile(n).kind = disk[n] /\ OpenFile(n).data = n /\ OpenFile(n).form = "plain"
        BY <3>1
      <3>3. disk[n] # "none" /\ (disk[n] = "dir" => ~Suffixed(n))
        BY <2>1, <2>2 DEF TreeInv, Kinds
      <3> QED BY <1>m, <2>2, <3>2, <3>3
    <2>3. CASE n \notin DOMAIN disk
      BY <1>m, <2>1, <2>3 DEF OpenDisk
    <2> QED BY <2>2, <2>3
  <1>2. CASE ~opt.dynamic
    <2>1. /\ \A m \in DOMAIN memory : /\ m \in DOMAIN disk /\ memory[m].kind = disk[m]
                                      /\ disk[m] = "dir" \/ memory[m].data = m
          /\ n \in DOMAIN disk /\ Matches(FALSE, n) => n \in DOMAIN memory
          /\ \A m \in DOMAIN disk : disk[m] # "none"
      BY <1>2 DEF FilesInv, MemoryInv, TreeInv, Kinds
    <2>2. OpenFile(n) = OpenMemory(n)
      BY <1>2 DEF OpenFile
    <2> DEFINE b == Base(n)
    <2>3. CASE b \in DOMAIN memory /\ memory[b].kind # "dir" /\ (Suffixed(n) => memory[b].br)
      <3>1. OpenFile(n) = [kind |-> memory[b].kind, data |-> memory[b].data,
                           form |-> IF Suffixed(n) THEN "br" ELSE "plain"]
        BY <2>2, <2>3, Zenon DEF OpenMemory
      <3>2. /\ OpenFile(n).kind = disk[b] /\ OpenFile(n).data = b
            /\ OpenFile(n).form = IF Suffixed(n) THEN "br" ELSE "plain"
        BY <2>1, <2>3, <3>1
      <3>3. b \in DOMAIN disk /\ disk[b] # "dir" /\ disk[b] # "none"
        BY <2>1, <2>3
      <3>4. ~Suffixed(n) => b = n
        BY DEF Base
      <3>5. OpenFile(n) # Missing
        BY <1>m, <3>2, <3>3
      <3> HIDE DEF b
      <3> QED BY <3>2, <3>3, <3>4, <3>5 DEF b
    <2>4. CASE ~(b \in DOMAIN memory /\ memory[b].kind # "dir" /\ (Suffixed(n) => memory[b].br))
      <3>1. OpenFile(n) = Missing
        BY <2>2, <2>4, Zenon DEF OpenMemory
      <3>2. ~(n \in DOMAIN disk /\ disk[n] # "dir" /\ Matches(FALSE, n) /\ ~Suffixed(n))
        BY <2>1, <2>4 DEF Base
      <3> QED BY <1>m, <3>1, <3>2
    <2> QED BY <2>3, <2>4
  <1> QED BY <1>1, <1>2

(* What ServeHTTP resolves a name to can be opened, is no directory and    *)
(* matches; a file that is wanted is what it resolves to.                  *)
LEMMA ResolvesRight ==
  ASSUME FilesInv, phase = "serve", NEW name \in Seq(Parts)
  PROVE  /\ Resolve(name) \in Seq(Parts)
         /\ Suffixed(Resolve(name)) => Suffixed(name) \/ Suffixed(opt.index)
         /\ Resolve(name) # <<>> =>
              /\ Matches(TRUE, Resolve(name))
              /\ OpenFile(Resolve(name)) # Missing
              /\ OpenFile(Resolve(name)).kind # "dir"
         /\ (\A n \in DOMAIN disk : Plain(n)) /\ Wanted(name) # <<>>
              /\ ~Suffixed(Wanted(name))
              => Resolve(name) = Wanted(name)
  <1>0. opt.index \in Seq(Parts) /\ name \o opt.index \in Seq(Parts)
        /\ <<>> \in Seq(Parts) /\ opt.index \o opt.index \in Seq(Parts)
    BY DEF FilesInv, TreeInv
  <1>s. Resolve(name) \in {<<>>, opt.index, name, name \o opt.index, opt.index \o opt.index}
    BY DEF Resolve
  <1>l. ASSUME NEW n \in Seq(Parts), Suffixed(n \o opt.index), opt.index # <<>>
        PROVE  Suffixed(opt.index)
    <2>1. Len(opt.index) \in Nat \ {0}
      BY <1>0, <1>l, EmptySeq, LenProperties
    <2>2. /\ Len(n \o opt.index) = Len(n) + Len(opt.index)
          /\ (n \o opt.index)[Len(n) + Len(opt.index)] = opt.index[Len(opt.index)]
      BY <1>0, <2>1, ConcatProperties
    <2> QED BY <1>l, <2>2 DEF Suffixed
  <1>e. \A n \in Seq(Parts) : opt.index = <<>> => n \o opt.index = n
    BY ConcatEmptySeq
  <1>f. Suffixed(Resolve(name)) => Suffixed(name) \/ Suffixed(opt.index)
    <2>1. ~Suffixed(<<>>)
      BY DEF Suffixed
    <2> QED BY <1>0, <1>s, <1>l, <1>e, <2>1
  <1>1. Resolve(name) # <<>> =>
          /\ Matches(TRUE, Resolve(name))
          /\ OpenFile(Resolve(name)) # Missing
          /\ OpenFile(Resolve(name)).kind # "dir"
    BY DEF Resolve, Found, IsDir
  <1>2. ASSUME \A n \in DOMAIN disk : Plain(n), Wanted(name) # <<>>, ~Suffixed(Wanted(name))
        PROVE  Resolve(name) = Wanted(name)
    <2>1. /\ Wanted(name) \in DOMAIN disk /\ disk[Wanted(name)] # "dir"
          /\ Matches(TRUE, Wanted(name))
          /\ Wanted(name) = IF name = <<>> THEN opt.index ELSE name
      BY <1>2 DEF Wanted
    <2>2. Matches(FALSE, Wanted(name))
      BY <1>2, <2>1 DEF Plain
    <2>3. OpenFile(Wanted(name)) # Missing /\ OpenFile(Wanted(name)).kind # "dir"
      BY <1>0, <1>2, <2>1, <2>2, OpensRight
    <2>4. Wanted(name) # <<>> /\ Found(Wanted(name)) /\ ~IsDir(Wanted(name))
      BY <1>2, <2>1, <2>3 DEF Found, IsDir
    <2> QED BY <2>1, <2>4 DEF Resolve
  <1> QED BY <1>0, <1>s, <1>f, <1>1, <1>2

(* The page for what is missing: never 200, never said to be compressed or *)
(* to be kept.                                                             *)
LEMMA PagesRight ==
  ASSUME NEW q, NEW a \in MissingPage(q), FilesInv, phase = "serve"
  PROVE  /\ a.status # 200 /\ a.br = FALSE /\ a.cache = FALSE
         /\ a.form = "br" => Suffixed(opt.notFound)
         /\ a.page /\ ~q.range /\ q.cond # "unmodified" => a.status \in {404, 500}
  <1> DEFINE f == OpenFile(opt.notFound)
  <1>f. f.form = "br" => Suffixed(opt.notFound)
    BY DEF OpenFile, OpenDisk, OpenMemory, Missing
  <1>1. CASE opt.notFound = <<>>
    BY <1>1 DEF MissingPage, Nothing
  <1>2. CASE opt.notFound = <<"default">>
    BY <1>2 DEF MissingPage, Page, Missing
  <1>3. CASE opt.notFound \notin {<<>>, <<"default">>} /\ f = Missing
    BY <1>3 DEF MissingPage, Page, Missing
  <1>4. CASE opt.notFound \notin {<<>>, <<"default">>} /\ f # Missing
    <2>1. PICK s \in {404} \cup RangeStatus(q) \cup UnmodifiedStatus(q) :
            a = Page(Carried(f, s), s)
      BY <1>4, Zenon DEF MissingPage
    <2>2. s \in {404, 206, 416, 412} /\ (~q.range /\ q.cond # "unmodified" => s = 404)
      BY <2>1 DEF RangeStatus, UnmodifiedStatus
    <2> HIDE DEF f
    <2>3. /\ a.status = s /\ a.br = FALSE /\ a.cache = FALSE
          /\ a.form \in {"none", f.form}
      BY <2>1, <2>2 DEF Carried, Page, Missing
    <2> QED BY <1>f, <2>2, <2>3
  <1> QED BY <1>1, <1>2, <1>3, <1>4

(* What is found: the file, the file beside it with the suffix, or the     *)
(* compressed form of the file that the name puts the suffix to.           *)
ContentOf(a, q, r) ==
  /\ a.result = "Done" /\ a.page = FALSE
  /\ a.status \in {200, 206, 416, 304, 412}
  /\ a.status \in {206, 416} => q.range
  /\ a.status \in {304, 412} => q.cond # "none"
  /\ a.br \in BOOLEAN
  /\ a.br => q.br /\ ~q.range
  /\ a.form = "br" \/ a.status \in {200, 206} =>
       /\ a.body \in DOMAIN disk /\ disk[a.body] # "dir"
       /\ \/ a.body = r /\ (a.form = "br" => a.br) /\ (a.br => a.form = "br")
          \/ a.body = r \o Br /\ a.br /\ a.form = "plain"
          \/ a.body = Base(r) /\ Suffixed(r) /\ ~a.br

LEMMA ContentRight ==
  ASSUME FilesInv, phase = "serve", NEW q, q.br \in BOOLEAN, q.range \in BOOLEAN,
         NEW r \in Seq(Parts), OpenFile(r) # Missing, OpenFile(r).kind # "dir",
         NEW a \in Content(q, r)
  PROVE  ContentOf(a, q, r)
  <1> DEFINE e == Encode(q, r)
             f == IF e THEN OpenFile(r \o Br) ELSE OpenFile(r)
             statuses == IF Immutable(r) /\ ~q.range THEN {200}
                         ELSE {200} \cup RangeStatus(q) \cup CopyStatus(q)
                                    \cup UnmodifiedStatus(q)
  <1>1. PICK s \in statuses :
          a = [result |-> "Done", status |-> s, body |-> Carried(f, s).data,
               form |-> Carried(f, s).form, br |-> e /\ s # 304,
               cache |-> Immutable(r), page |-> FALSE]
    BY Zenon DEF Content
  <1>2. /\ s \in {200, 206, 416, 304, 412}
        /\ s \in {206, 416} => q.range
        /\ s \in {304, 412} => q.cond # "none"
    BY <1>1 DEF RangeStatus, CopyStatus, UnmodifiedStatus
  <1>3. e \in BOOLEAN /\ (e => q.br /\ ~q.range /\ OpenFile(r \o Br) # Missing)
    BY DEF Encode
  <1>4. r \o Br \in Seq(Parts) /\ Suffixed(r \o Br) /\ Base(r \o Br) = r
    BY SuffixLaws
  <1>5. ~e => /\ f.data \in DOMAIN disk /\ disk[f.data] # "dir"
              /\ \/ f.form = "plain" /\ f.data = r
                 \/ f.form = "br" /\ Suffixed(r) /\ f.data = Base(r)
    BY OpensRight
  <1>6. e => /\ f.data \in DOMAIN disk /\ disk[f.data] # "dir"
             /\ \/ f.form = "plain" /\ f.data = r \o Br
                \/ f.form = "br" /\ f.data = r
    BY <1>3, <1>4, OpensRight
  <1> HIDE DEF e, f
  <1>8. /\ a.result = "Done" /\ a.page = FALSE /\ a.status = s
        /\ a.br = (e /\ s # 304)
        /\ s \in WithBody => a.body = f.data /\ a.form = f.form
        /\ s \notin WithBody => a.form = "none"
    BY <1>1 DEF Carried, Missing
  <1>9. (a.br => e) /\ a.br \in BOOLEAN /\ (s # 304 /\ e => a.br)
    BY <1>3, <1>8, Zenon
  <1>10. ASSUME s \in WithBody
         PROVE  /\ a.body \in DOMAIN disk /\ disk[a.body] # "dir"
                /\ \/ a.body = r /\ (a.form = "br" => a.br) /\ (a.br => a.form = "br")
                   \/ a.body = r \o Br /\ a.br /\ a.form = "plain"
                   \/ a.body = Base(r) /\ Suffixed(r) /\ ~a.br
    <2>1. s # 304 /\ a.body = f.data /\ a.form = f.form
      BY <1>8, <1>10 DEF WithBody
    <2>2. CASE e
      BY <1>6, <1>9, <2>1, <2>2
    <2>3. CASE ~e
      BY <1>5, <1>9, <2>1, <2>3
    <2> QED BY <2>2, <2>3
  <1>11. a.form = "br" \/ a.status \in {200, 206} => s \in WithBody
    BY <1>8 DEF WithBody
  <1> QED BY <1>2, <1>3, <1>8, <1>9, <1>10, <1>11 DEF ContentOf

(* Every step of the loading and every answer keep it.                     *)
LEMMA FilesStep == FilesInv /\ [FileServeNext]_fileServeVars => FilesInv'
  <1> SUFFICES ASSUME FilesInv, [FileServeNext]_fileServeVars PROVE FilesInv'
    OBVIOUS
  <1>1. ASSUME NEW t \in Trees, NEW o \in Options, StartFiles(t, o) PROVE FilesInv'
    <2>1. TreeInv'
      BY <1>1, FilesAssumption DEF FilesAssumption, Kinds, TreeInv, StartFiles
    <2>2. memory' = <<>> /\ reading' = {} /\ answer' = Nothing /\ disk' = t
      BY <1>1 DEF StartFiles, FilesInv
    <2>3. ~opt'.dynamic => MemoryInv' /\ reading' \subseteq DOMAIN memory'
      <3>1. DOMAIN memory' = {} /\ \A S : memory' \in [{} -> S]
        BY <2>2
      <3>2. ~opt'.dynamic => todo' = DOMAIN disk'
        BY <1>1 DEF StartFiles
      <3> QED BY <2>2, <3>1, <3>2 DEF MemoryInv
    <2>4. phase' \in {"load", "serve"} /\ (phase' = "load" => ~opt'.dynamic)
      BY <1>1 DEF StartFiles
    <2>5. phase' = "serve" => todo' = {} /\ reading' = {}
      BY <1>1, <2>2 DEF StartFiles, FilesInv
    <2>6. FilesCorrect'
      BY <2>2 DEF Nothing, FilesCorrect, FilesAreServed, PatternKept, EncodedWhenAsked,
         PageIsMarked
    <2> QED BY <2>1, <2>2, <2>3, <2>4, <2>5, <2>6 DEF FilesInv
  <1>2. ASSUME NEW n \in DOMAIN disk, RecursiveAdd(n) PROVE FilesInv'
    <2>1. /\ phase = "load" /\ n \in todo /\ todo' = todo \ {n}
          /\ UNCHANGED <<phase, disk, opt, asked, answer>>
          /\ ~opt.dynamic /\ answer = Nothing /\ MemoryInv
          /\ reading \subseteq DOMAIN memory /\ TreeInv /\ TreeInv'
      BY <1>2 DEF RecursiveAdd, FilesInv, TreeInv
    <2>2. FilesCorrect'
      BY <2>1 DEF Nothing, FilesCorrect, FilesAreServed, PatternKept, EncodedWhenAsked,
         PageIsMarked
    <2>3. CASE disk[n] # "dir" /\ ~Matches(FALSE, n)
      <3>1. UNCHANGED <<memory, reading>>
        BY <1>2, <2>3 DEF RecursiveAdd
      <3>2. MemoryInv'
        BY <2>1, <2>3, <3>1 DEF MemoryInv, Matches
      <3> QED BY <2>1, <2>2, <3>1, <3>2 DEF FilesInv
    <2>4. CASE ~(disk[n] # "dir" /\ ~Matches(FALSE, n))
      <3>1. /\ memory' = [m \in DOMAIN memory \cup {n} |->
                            IF m = n THEN NoContent(n) ELSE memory[m]]
            /\ reading' = IF disk[n] = "dir" THEN reading ELSE reading \cup {n}
        BY <1>2, <2>4 DEF RecursiveAdd
      <3>2. /\ NoContent(n) \in [kind : Kinds, data : DOMAIN disk \cup {<<"unread">>},
                                 br : BOOLEAN]
            /\ NoContent(n).kind = disk[n]
        BY <2>1 DEF NoContent, TreeInv
      <3>3. DOMAIN memory' = DOMAIN memory \cup {n}
        BY <3>1
      <3>4. memory' \in [DOMAIN memory' -> [kind : Kinds, data : DOMAIN disk' \cup {<<"unread">>},
                                            br : BOOLEAN]]
        BY <2>1, <3>1, <3>2, <3>3 DEF MemoryInv
      <3>5. \A m \in DOMAIN memory' :
              /\ memory'[m].kind = disk[m]
              /\ disk[m] = "dir" \/ m \in reading' \/ memory'[m].data = m
        BY <2>1, <3>1, <3>2, <3>3 DEF MemoryInv
      <3>6. \A m \in DOMAIN disk \ todo' :
              disk[m] = "dir" \/ Matches(FALSE, m) => m \in DOMAIN memory'
        BY <2>1, <3>3 DEF MemoryInv
      <3>7. MemoryInv'
        BY <2>1, <3>3, <3>4, <3>5, <3>6 DEF MemoryInv, Matches
      <3>8. reading' \subseteq DOMAIN memory'
        BY <2>1, <3>1, <3>3
      <3> QED BY <2>1, <2>2, <3>7, <3>8 DEF FilesInv
    <2> QED BY <2>3, <2>4
  <1>3. ASSUME NEW n \in DOMAIN disk, ReadFile(n) PROVE FilesInv'
    <2>1. /\ phase = "load" /\ n \in reading /\ reading' = reading \ {n}
          /\ UNCHANGED <<phase, disk, opt, todo, asked, answer>>
          /\ memory' = [memory EXCEPT ![n] =
                         [@ EXCEPT !.data = n, !.br = disk[n] = "text"]]
          /\ ~opt.dynamic /\ answer = Nothing /\ MemoryInv
          /\ reading \subseteq DOMAIN memory /\ TreeInv /\ TreeInv'
      BY <1>3 DEF ReadFile, FilesInv, TreeInv
    <2>2. FilesCorrect'
      BY <2>1 DEF Nothing, FilesCorrect, FilesAreServed, PatternKept, EncodedWhenAsked,
         PageIsMarked
    <2>3. /\ DOMAIN memory' = DOMAIN memory
          /\ memory' \in [DOMAIN memory -> [kind : Kinds, data : DOMAIN disk \cup {<<"unread">>},
                                            br : BOOLEAN]]
          /\ \A m \in DOMAIN memory : /\ memory'[m].kind = memory[m].kind
                                      /\ memory'[m].data = IF m = n THEN n ELSE memory[m].data
      BY <2>1, ZenonT(60) DEF MemoryInv
    <2>4. MemoryInv'
      <3>1. \A m \in DOMAIN memory' :
              /\ memory'[m].kind = disk'[m]
              /\ disk'[m] = "dir" \/ m \in reading' \/ memory'[m].data = m
        BY <2>1, <2>3 DEF MemoryInv
      <3>2. \A m \in DOMAIN disk' \ todo' :
              disk'[m] = "dir" \/ Matches(FALSE, m)' => m \in DOMAIN memory'
        BY <2>1, <2>3 DEF MemoryInv, Matches
      <3> QED BY <2>1, <2>3, <3>1, <3>2 DEF MemoryInv
    <2> QED BY <2>1, <2>2, <2>3, <2>4 DEF FilesInv
  <1>4. CASE Loaded
    <2>1. /\ phase = "load" /\ todo = {} /\ reading = {} /\ phase' = "serve"
          /\ UNCHANGED <<disk, opt, memory, todo, reading, asked, answer>>
          /\ ~opt.dynamic /\ answer = Nothing /\ MemoryInv /\ TreeInv /\ TreeInv'
      BY <1>4 DEF Loaded, FilesInv, TreeInv
    <2>2. FilesCorrect'
      BY <2>1 DEF Nothing, FilesCorrect, FilesAreServed, PatternKept, EncodedWhenAsked,
         PageIsMarked
    <2>3. MemoryInv'
      BY <2>1 DEF MemoryInv, Matches
    <2> QED BY <2>1, <2>2, <2>3 DEF FilesInv
  <1>5. ASSUME NEW q \in Requests, ServeFile(q) PROVE FilesInv'
    <2>1. /\ phase = "serve" /\ asked' = q
          /\ UNCHANGED <<phase, disk, opt, memory, todo, reading>>
          /\ answer' \in IF Resolve(q.name) = <<>> THEN MissingPage(q)
                         ELSE Content(q, Resolve(q.name))
      BY <1>5 DEF ServeFile
    <2>2. (~opt.dynamic => MemoryInv') /\ TreeInv' /\ TreeInv
      BY <2>1 DEF FilesInv, MemoryInv, Matches, TreeInv
    <2>3. q.name \in Seq(Parts) /\ q.br \in BOOLEAN /\ q.range \in BOOLEAN
      <3>1. q.name \in DOMAIN disk \cup {n \o Br : n \in DOMAIN disk} \cup {<<>>, <<"absent">>}
        BY DEF Requests
      <3>2. \A n \in DOMAIN disk : n \in Seq(Parts) /\ n \o Br \in Seq(Parts)
        BY <2>2, SuffixLaws DEF TreeInv
      <3>3. q.name \in Seq(Parts)
        <4>1. <<"absent">> \in Seq(Parts) /\ <<>> \in Seq(Parts)
          BY EmptySeq, FilesAssumption DEF FilesAssumption
        <4> QED BY <3>1, <3>2, <4>1, Zenon
      <3> QED BY <3>3 DEF Requests
    <2>w. /\ Wanted(asked.name)' = Wanted(q.name)
          /\ (\A n \in DOMAIN disk' : Plain(n)') = (\A n \in DOMAIN disk : Plain(n))
          /\ \A n : Matches(TRUE, n)' = Matches(TRUE, n)
      BY <2>1, Zenon DEF Plain, Matches, Wanted
    <2>4. CASE Resolve(q.name) = <<>>
      <3>1. answer' \in MissingPage(q)
        BY <2>1, <2>4
      <3>2. PageIsMarked' /\ answer'.status # 200 /\ answer'.br = FALSE
              /\ (answer'.form = "br" => Suffixed(opt.notFound))
        <4>1. /\ answer'.status # 200 /\ answer'.br = FALSE /\ answer'.cache = FALSE
              /\ answer'.form = "br" => Suffixed(opt.notFound)
              /\ answer'.page /\ ~q.range /\ q.cond # "unmodified"
                   => answer'.status \in {404, 500}
          BY <2>1, <3>1, PagesRight
        <4> QED BY <2>1, <4>1, Zenon DEF PageIsMarked
      <3>3. ~((\A n \in DOMAIN disk : Plain(n)) /\ Wanted(q.name) # <<>>
              /\ ~Suffixed(Wanted(q.name)))
        BY <2>1, <2>3, <2>4, ResolvesRight
      <3>4. FilesAreServed'
        BY <2>w, <3>3, Zenon DEF FilesAreServed
      <3>5. PatternKept' /\ EncodedWhenAsked'
        BY <2>1, <3>2 DEF PatternKept, EncodedWhenAsked
      <3>6. FilesCorrect'
        BY <3>2, <3>4, <3>5 DEF FilesCorrect
      <3> QED BY <2>1, <2>2, <3>6 DEF FilesInv
    <2>5. CASE Resolve(q.name) # <<>>
      <3> DEFINE r == Resolve(q.name)
      <3>1. /\ Matches(TRUE, r) /\ r \in Seq(Parts)
            /\ OpenFile(r) # Missing /\ OpenFile(r).kind # "dir"
            /\ Suffixed(r) => Suffixed(q.name) \/ Suffixed(opt.index)
            /\ (\A n \in DOMAIN disk : Plain(n)) /\ Wanted(q.name) # <<>>
                 /\ ~Suffixed(Wanted(q.name)) => r = Wanted(q.name)
        BY <2>1, <2>3, <2>5, ResolvesRight
      <3>2. answer' \in Content(q, r)
        BY <2>1, <2>5
      <3> HIDE DEF r
      <3>c. ContentOf(answer', q, r)
        BY <2>1, <2>3, <3>1, <3>2, ContentRight
      <3>3. /\ answer'.result = "Done" /\ answer'.page = FALSE
            /\ answer'.status \in {200, 206, 416, 304, 412}
            /\ answer'.status \in {206, 416} => q.range
            /\ answer'.status \in {304, 412} => q.cond # "none"
            /\ answer'.br \in BOOLEAN
            /\ answer'.br => q.br /\ ~q.range
            /\ answer'.form = "br" \/ answer'.status \in {200, 206} =>
                 /\ answer'.body \in DOMAIN disk /\ disk[answer'.body] # "dir"
                 /\ \/ answer'.body = r /\ (answer'.form = "br" => answer'.br)
                                      /\ (answer'.br => answer'.form = "br")
                    \/ answer'.body = r \o Br /\ answer'.br /\ answer'.form = "plain"
                    \/ answer'.body = Base(r) /\ Suffixed(r) /\ ~answer'.br
        BY <3>c, ZenonT(60) DEF ContentOf
      <3>4. FilesAreServed'
        <4>1. SUFFICES ASSUME \A n \in DOMAIN disk : Plain(n), Wanted(q.name) # <<>>,
                              ~Suffixed(Wanted(q.name)),
                              NEW w, w = Wanted(q.name)
                       PROVE  ServedAs(w)'
          BY <2>w, Zenon DEF FilesAreServed
        <4>2. r = w /\ ~Suffixed(r)
          BY <3>1, <4>1
        <4>3. asked' = q
          BY <2>1
        <4> QED BY <3>3, <4>2, <4>3 DEF ServedAs
      <3>5. PatternKept'
        <4>1. answer'.status = 200 =>
                r \in {answer'.body, Base(answer'.body), answer'.body \o Br}
          <5>1. Base(r \o Br) = r /\ (Suffixed(r) => Base(r) \o Br = r)
            BY <3>1, SuffixLaws
          <5>2. answer'.status = 200 =>
                  answer'.body = r \/ answer'.body = r \o Br
                    \/ (answer'.body = Base(r) /\ Suffixed(r))
            BY <3>3
          <5> QED BY <5>1, <5>2, Zenon
        <4>2. answer'.status = 200 => answer'.body \in DOMAIN disk' /\ disk'[answer'.body] # "dir"
          BY <2>1, <3>3
        <4> QED BY <2>w, <3>1, <4>1, <4>2, ZenonT(60) DEF PatternKept, Base, Suffixed
      <3>6. EncodedWhenAsked'
        <4>1. answer'.form = "br" =>
                \/ q.br /\ ~q.range /\ answer'.br
                \/ Suffixed(q.name)
                \/ Suffixed(opt.index)
          BY <3>1, <3>3
        <4>2. answer'.br /\ answer'.status = 200 => answer'.form = "br" \/ Suffixed(answer'.body)
          <5>1. Suffixed(r \o Br)
            BY <3>1, SuffixLaws
          <5> QED BY <3>3, <5>1
        <4> QED BY <2>1, <3>3, <4>1, <4>2, ZenonT(60) DEF EncodedWhenAsked, Suffixed
      <3>7. PageIsMarked'
        BY <3>3, Zenon DEF PageIsMarked
      <3>8. FilesCorrect'
        BY <3>4, <3>5, <3>6, <3>7 DEF FilesCorrect
      <3> QED BY <2>1, <2>2, <3>8 DEF FilesInv
    <2> QED BY <2>4, <2>5
  <1>6. CASE UNCHANGED fileServeVars
    <2>1. UNCHANGED <<phase, disk, opt, memory, todo, reading, asked, answer>>
      BY <1>6 DEF fileServeVars
    <2>2. MemoryInv => MemoryInv'
      BY <2>1 DEF MemoryInv, Matches
    <2>3. FilesAreServed' /\ PatternKept' /\ EncodedWhenAsked' /\ PageIsMarked'
      <3>1. FilesAreServed'
        <4>1. /\ Wanted(asked.name)' = Wanted(asked.name)
              /\ (\A n \in DOMAIN disk' : Plain(n)') = (\A n \in DOMAIN disk : Plain(n))
          BY <2>1, Zenon DEF Matches, Plain, Wanted
        <4>2. FilesAreServed
          BY DEF FilesInv, FilesCorrect
        <4>3. \A w : ServedAs(w)' = ServedAs(w)
          BY <2>1 DEF ServedAs
        <4> QED BY <2>1, <4>1, <4>2, <4>3, Zenon DEF FilesAreServed
      <3>2. PatternKept' /\ PageIsMarked'
        BY <2>1, ZenonT(60) DEF FilesInv, FilesCorrect, PatternKept, PageIsMarked, Matches
      <3>3. EncodedWhenAsked'
        BY <2>1, ZenonT(60) DEF FilesInv, FilesCorrect, EncodedWhenAsked
      <3> QED BY <3>1, <3>2, <3>3
    <2>4. TreeInv => TreeInv'
      BY <2>1 DEF TreeInv
    <2> QED BY <2>1, <2>2, <2>3, <2>4 DEF FilesInv, FilesCorrect
  <1> QED BY <1>1, <1>2, <1>3, <1>4, <1>5, <1>6 DEF FileServeNext

-----------------------------------------------------------------------------
(* Known frameworks.                                                       *)

(* What was advised is still what the directory is.                        *)
AdviceInv ==
  advised => /\ kindAt \in {"written", "prepared", "built", "failed"}
             /\ Advise(manifest.tag) /\ manifest.conf = Defaults

(* As EscapedIsThere has it.                                               *)
CommandIsThere(cmd, mgr) ==
  \/ cmd[1] = mgr
  \/ cmd[2] = "rest" /\ cmd[1] \in onPath \cup {"node", "bun"}
  \/ /\ cmd[1] \in onPath
     /\ \E p \in modules : p.dep = cmd[2] /\ p.export = cmd[3]
RunIsThere == app.run # NoCmd => CommandIsThere(app.run, app.mgr)

(* What was prepared is there, or the build will make it.                  *)
PreparedInv ==
  kindAt \in {"prepared", "built"} =>
    /\ manifest.tag = "Js" => Has("index.js")
    /\ manifest.tag = "Go" => /\ app.noControl = TRUE
                              /\ app.build = << Cmd("go", "exe") >>
    /\ manifest.tag \in NpmTags => Has("package.json") /\ RunIsThere

KindsInv ==
  /\ kindAt \in {"off", "dir", "written", "prepared", "built", "failed"}
  /\ kindAt \notin {"off", "dir"} => manifest.tag \in Tags
  /\ AdviceInv /\ PreparedInv /\ KindsCorrect

(* No directory satisfies it.                                              *)
LEMMA KindsStart == KindInit => KindsInv
BY DEF KindInit, KindsInv, AdviceInv, PreparedInv, KindsCorrect, AdvisedIsPrepared,
       EntryExists, EscapedIsThere

(* A script that is run without its manager finds its program.             *)
LEMMA ScriptIsThere ==
  ASSUME NEW mgr, NEW name
  PROVE  CommandIsThere(TryEscapeScript(mgr, name), mgr)
  <1> DEFINE script == scripts[name]
             engine == IF mgr = "bun" THEN "bun" ELSE "node"
             fallback == Cmd(mgr, name)
             direct(cmd) == IF cmd \in onPath THEN Cmd(cmd, "rest") ELSE fallback
             found(dep) == {p \in ResolveDependency(mgr, dep) : p.export # "none"}
             execute(cmd, dep) ==
               IF engine \notin onPath THEN fallback
               ELSE IF found(dep) = {} THEN direct(cmd)
               ELSE <<engine, dep, (CHOOSE p \in found(dep) : TRUE).export>>
  <1>1. \A cmd : CommandIsThere(direct(cmd), mgr)
    BY DEF CommandIsThere, Cmd
  <1>2. ASSUME NEW cmd, NEW dep PROVE CommandIsThere(execute(cmd, dep), mgr)
    <2>1. CASE engine \notin onPath \/ found(dep) = {}
      BY <1>1, <2>1 DEF CommandIsThere, Cmd
    <2>2. CASE engine \in onPath /\ found(dep) # {}
      <3> DEFINE p == CHOOSE p \in found(dep) : TRUE
      <3>1. p \in found(dep)
        BY <2>2
      <3>2. \A q \in ResolveDependency(mgr, dep) : q \in modules /\ q.dep = dep
        BY DEF ResolveDependency, ResolveGlobalPackage, Packages
      <3>3. p \in modules /\ p.dep = dep
        BY <3>1, <3>2
      <3>4. execute(cmd, dep) = <<engine, dep, p.export>>
        BY <2>2
      <3> HIDE DEF p, execute
      <3> QED BY <2>2, <3>3, <3>4 DEF CommandIsThere
    <2> QED BY <2>1, <2>2
  <1>3. CommandIsThere(fallback, mgr) /\ CommandIsThere(Cmd(engine, "rest"), mgr)
    BY DEF CommandIsThere, Cmd
  <1>4. TryEscapeScript(mgr, name)
          = CASE script \in {"unset", "shell"} -> fallback
              [] script \in {"node", "nodejs", "deno", "bun"} -> Cmd(engine, "rest")
              [] script \in {"tsx", "ts-node", "ts-node-esm"} -> fallback
              [] script = "tsc" -> execute("tsc", "typescript")
              [] script = "vite" -> execute("vite", "vite")
              [] OTHER -> direct(script)
    BY Zenon DEF TryEscapeScript
  <1> HIDE DEF script, engine, fallback, direct, found, execute
  <1>5. TryEscapeScript(mgr, name) \in
          {fallback, Cmd(engine, "rest"), execute("tsc", "typescript"),
           execute("vite", "vite"), direct(script)}
    BY <1>4
  <1> QED BY <1>1, <1>2, <1>3, <1>5

(* What Prepare makes of a tag.                                            *)
LEMMA PreparesRight ==
  ASSUME KindsInv, NEW tag \in Tags, NEW c
  PROVE  LET a == Prepared(tag, c) IN
         /\ a.ok \in BOOLEAN
         /\ a.ok = FALSE /\ Advise(tag) /\ c = Defaults
              => tag \in NpmTags /\ (scripts.start = "unset" \/ ~scripts.parses)
         /\ a.ok = TRUE /\ tag = "Js" => Has("index.js")
         /\ a.ok = TRUE /\ tag = "Go" => /\ a.noControl = TRUE
                                         /\ a.build = << Cmd("go", "exe") >>
         /\ a.ok = TRUE /\ tag \in NpmTags =>
              /\ Has("package.json")
              /\ a.run # NoCmd => CommandIsThere(a.run, a.mgr)
  <1> DEFINE a == Prepared(tag, c)
  <1>1. CASE tag = "Js"
    <2>1. a = PrepareJs
      BY <1>1 DEF Prepared, NpmTags
    <2>2. \/ /\ a.ok = TRUE /\ Has("index.js")
          \/ a.ok = FALSE /\ ~Has("index.js")
      BY <2>1 DEF PrepareJs, NoApp, Plainly
    <2>3. tag \notin NpmTags /\ (Advise(tag) => Has("index.js"))
      BY <1>1 DEF Advise, NpmTags
    <2> QED BY <1>1, <2>2, <2>3
  <1>2. CASE tag \in {"Py", "Flask"}
    <2>1. a = PreparePy(tag)
      BY <1>2 DEF Prepared, NpmTags
    <2>2. \/ /\ a.ok = TRUE /\ Has("requirements.txt")
          \/ a.ok = FALSE /\ ~Has("requirements.txt")
      BY <2>1 DEF PreparePy, NoApp, Plainly
    <2>3. tag \notin NpmTags /\ (Advise(tag) => Has("requirements.txt"))
      BY <1>2 DEF Advise, NpmTags
    <2> QED BY <1>2, <2>2, <2>3
  <1>3. CASE tag = "Go"
    <2>1. a = PrepareGo
      BY <1>3 DEF Prepared, NpmTags
    <2>2. \/ /\ a.ok = TRUE /\ Has("main.go") /\ a.noControl = TRUE
             /\ a.build = << Cmd("go", "exe") >>
          \/ a.ok = FALSE /\ ~Has("main.go")
      BY <2>1 DEF PrepareGo, NoApp, Plainly
    <2>3. tag \notin NpmTags /\ (Advise(tag) => Has("main.go"))
      BY <1>3 DEF Advise, NpmTags
    <2> QED BY <1>3, <2>2, <2>3
  <1>4. CASE tag \in NpmTags
    <2>1. a = PrepareNpm(tag, c) /\ tag \notin {"Js", "Go"}
      BY <1>4 DEF Prepared, NpmTags
    <2>2. CASE a = NoApp
      <3>1. a.ok = FALSE
        BY <2>2 DEF NoApp
      <3>2. Advise(tag) => Has("package.json")
        BY <1>4 DEF Advise, NpmTags
      <3>3. a # NoApp \/ ~Has("package.json") \/ c # Defaults \/ scripts.start = "unset"
              \/ ~scripts.parses
        BY <2>1 DEF PrepareNpm, Defaults, NoApp
      <3> QED BY <1>4, <2>1, <2>2, <3>1, <3>2, <3>3
    <2>3. CASE a # NoApp
      <3> DEFINE mgr == Manager(tag)
                 start == IF c.start = "unset" THEN "start" ELSE c.start
      <3>1. /\ a.ok = TRUE /\ Has("package.json") /\ a.mgr = mgr
            /\ a.run = IF start = "none" THEN NoCmd ELSE TryEscapeScript(mgr, start)
        BY <2>1, <2>3 DEF PrepareNpm
      <3>2. a.run = NoCmd \/ a.run = TryEscapeScript(mgr, start)
        BY <3>1
      <3> HIDE DEF mgr, start
      <3> QED BY <1>4, <2>1, <3>1, <3>2, ScriptIsThere, ZenonT(60)
    <2> QED BY <2>2, <2>3
  <1> QED BY <1>1, <1>2, <1>3, <1>4 DEF Tags

(* Every step of the owner, of Prepare and of the build keeps it.          *)
LEMMA KindsStep == KindsInv /\ [KindNext]_kindVars => KindsInv'
  <1> SUFFICES ASSUME KindsInv, [KindNext]_kindVars PROVE KindsInv'
    OBVIOUS
  <1> USE DEF KindsCorrect
  <1>1. ASSUME NEW fs, NEW ts, NEW ss, NEW ms, Directory(fs, ts, ss, ms) PROVE KindsInv'
    BY <1>1 DEF Directory, KindsInv, AdviceInv, PreparedInv, AdvisedIsPrepared,
       EntryExists, EscapedIsThere
  <1>2. ASSUME NEW tag \in Tags, Generate(tag) PROVE KindsInv'
    <2>1. manifest'.tag = tag /\ manifest'.conf = Defaults /\ kindAt' = "written"
      BY <1>2 DEF Generate
    <2>2. Advise(tag)'
      BY <1>2 DEF Generate, Advise, Has
    <2> QED BY <2>1, <2>2 DEF KindsInv, AdviceInv, PreparedInv, AdvisedIsPrepared,
               EntryExists, EscapedIsThere
  <1>3. ASSUME NEW tag \in Tags, NEW c \in Confs, Write(tag, c) PROVE KindsInv'
    BY <1>3 DEF Write, KindsInv, AdviceInv, PreparedInv, AdvisedIsPrepared,
       EntryExists, EscapedIsThere
  <1>4. ASSUME NEW f \in Sources, Edit(f) PROVE KindsInv'
    BY <1>4 DEF Edit, KindsInv, AdviceInv, PreparedInv, AdvisedIsPrepared,
       EntryExists, EscapedIsThere
  <1>5. CASE Prepare
    <2> DEFINE tag == manifest.tag
               a == Prepared(tag, manifest.conf)
    <2>1. /\ app' = a /\ kindAt \in {"written", "built"} /\ tag \in Tags
          /\ UNCHANGED <<onPath, scripts, modules, manifest, buildId, version, advised>>
          /\ kindAt' = IF a.ok THEN "prepared" ELSE "failed"
          /\ folder' = folder \/ folder' = folder \ {"exe"}
      BY <1>5 DEF Prepare, KindsInv
    <2>2. /\ Has("index.js") => Has("index.js")'
          /\ Has("package.json") => Has("package.json")'
          /\ Advise(tag) <=> Advise(tag)'
      BY <2>1 DEF Has, Advise, Tags, NpmTags
    <2>3. /\ a.ok \in BOOLEAN
          /\ a.ok = FALSE /\ Advise(tag) /\ manifest.conf = Defaults
               => tag \in NpmTags /\ (scripts.start = "unset" \/ ~scripts.parses)
          /\ a.ok = TRUE /\ tag = "Js" => Has("index.js")
          /\ a.ok = TRUE /\ tag = "Go" => /\ a.noControl = TRUE
                                          /\ a.build = << Cmd("go", "exe") >>
          /\ a.ok = TRUE /\ tag \in NpmTags =>
               /\ Has("package.json")
               /\ a.run # NoCmd => CommandIsThere(a.run, a.mgr)
      BY <2>1, PreparesRight
    <2> HIDE DEF a
    <2>4. (kindAt' = "prepared" /\ a.ok = TRUE) \/ (kindAt' = "failed" /\ a.ok = FALSE)
      BY <2>1, <2>3
    <2>5. PreparedInv'
      BY <2>1, <2>2, <2>3, <2>4 DEF PreparedInv, RunIsThere, CommandIsThere
    <2>6. AdviceInv'
      BY <2>1, <2>2, <2>4 DEF KindsInv, AdviceInv
    <2>7. AdvisedIsPrepared'
      BY <2>1, <2>3, <2>4 DEF KindsInv, AdviceInv, AdvisedIsPrepared
    <2>8. EntryExists' /\ EscapedIsThere'
      BY <2>4 DEF EntryExists, EscapedIsThere
    <2> QED BY <2>1, <2>4, <2>5, <2>6, <2>7, <2>8 DEF KindsInv
  <1>6. CASE Build
    <2>1. /\ kindAt = "prepared" /\ kindAt' = "built" /\ manifest.tag \in Tags
          /\ UNCHANGED <<onPath, scripts, manifest, app, version, advised>>
          /\ folder \subseteq folder' /\ folder' \subseteq folder \cup {"exe", "venv"}
          /\ modules \subseteq modules'
      BY <1>6 DEF Build, KindsInv
    <2>2. Advise(manifest.tag) => Advise(manifest.tag)'
      BY <2>1 DEF Has, Advise, Tags, NpmTags
    <2>3. ASSUME manifest.tag = "Go" PROVE "exe" \in folder'
      <3>1. app.noControl = TRUE /\ app.build = << Cmd("go", "exe") >>
        BY <2>1, <2>3 DEF KindsInv, PreparedInv
      <3>2. app.build # <<>> /\ 1 \in DOMAIN app.build /\ app.build[1] = Cmd("go", "exe")
        BY <3>1
      <3>3. ~(app.build = <<>> \/ (~app.noControl /\ buildId = version))
        BY <3>1, <3>2
      <3> QED BY <1>6, <3>2, <3>3 DEF Build
    <2>4. PreparedInv'
      BY <2>1 DEF KindsInv, PreparedInv, RunIsThere, CommandIsThere, Has
    <2>5. AdviceInv'
      BY <2>1, <2>2 DEF KindsInv, AdviceInv
    <2>6. EntryExists' /\ EscapedIsThere'
      BY <2>1, <2>3, <2>4 DEF PreparedInv, RunIsThere, CommandIsThere, EntryExists, EscapedIsThere, Has
    <2>7. AdvisedIsPrepared'
      BY <2>1 DEF AdvisedIsPrepared
    <2> QED BY <2>1, <2>4, <2>5, <2>6, <2>7 DEF KindsInv
  <1>7. CASE UNCHANGED kindVars
    <2>1. UNCHANGED <<folder, onPath, scripts, modules, manifest, app, kindAt,
                      buildId, version, advised>>
      BY <1>7 DEF kindVars
    <2>2. AdviceInv' /\ PreparedInv'
      BY <2>1 DEF KindsInv, AdviceInv, PreparedInv, RunIsThere, CommandIsThere, Advise, Has
    <2>3. AdvisedIsPrepared' /\ EntryExists' /\ EscapedIsThere'
      BY <2>1 DEF KindsInv, AdvisedIsPrepared, EntryExists, EscapedIsThere, Has
    <2> QED BY <2>1, <2>2, <2>3 DEF KindsInv
  <1> QED BY <1>1, <1>2, <1>3, <1>4, <1>5, <1>6, <1>7 DEF KindNext

-----------------------------------------------------------------------------
(* A request on its way through hosts, muxes and handlers.                 *)

(* The response is written once at most, with a status of HTTP unless      *)
(* others chose it, and knows that it was.                                 *)
Outs == [status : 0..999, writes : 0..2, touched : BOOLEAN, cut : BOOLEAN,
         by : {"none", "pmesh", "other"}]
OutInv ==
  /\ out \in Outs
  /\ \/ out.writes = 0
     \/ /\ out.writes = 1 /\ out.touched = TRUE
        /\ out.status \in {101} \cup 200..999
        /\ out.by = "pmesh" => out.status \in 200..599

Answered == out.writes = 1 \/ out.cut = TRUE

(* Nothing is written before a handler is done with the request, and then  *)
(* it has its answer.                                                      *)
StageInv ==
  /\ at \in {"idle", "sign", "serve", "call", "return", "panic", "abort", "over"}
  /\ ret \in {"none", "Done", "Continue", "Drop"}
  /\ at \in {"idle", "sign", "serve", "call"} => out.writes = 0
  /\ at = "return" => \/ ret \in {"Continue", "Drop"} /\ out.writes = 0
                      \/ ret = "Done" /\ Answered
  /\ at = "over" => Answered

IsRequest(q) ==
  \E S : q \in [host : S, path : S, urlhost : S, scheme : S,
                internal : BOOLEAN, portal : BOOLEAN, upgrade : BOOLEAN]

(* What InternalIsEarned asks for.                                         *)
Granted ==
  \/ origin.local \/ origin.trusted \/ origin.signed
  \/ origin.secret /\ origin.scheme = "https"
  \/ \E h \in ran : LetsIn(h)
ReqInv == IsRequest(req) /\ (req.internal = TRUE => Granted)

(* Calls in progress: the server calls groups, a group calls muxes, a mux  *)
(* muxes, and a handler in them the server again.                          *)
Shape(s) ==
  /\ \E S : s \in Seq(S)
  /\ \A i \in 1..Len(s) :
       /\ s[i].kind \in {"server", "group", "mux"}
       /\ s[i].kind = "server" /\ i > 1 => s[i - 1].kind \in {"group", "mux"}
       /\ s[i].kind = "group" => i > 1 /\ s[i - 1].kind = "server"
       /\ s[i].kind = "mux" => i > 1 /\ s[i - 1].kind \in {"group", "mux"}

ServersAt(s, S) == \A i \in 1..Len(s) : s[i].kind = "server" => i \in S
ServersTwice ==
  /\ \E m \in Nat : ServersAt(stack, {1, m})
  /\ req.portal = FALSE \/ at = "serve" => ServersAt(stack, {1})
ServersInv == Unportaled \/ ServersTwice

(* Handlers are called by a group or a mux, and the server is entered with *)
(* the url under the host of the request.                                  *)
PlaceInv ==
  /\ at = "sign" => origin.signed
  /\ at \in {"idle", "sign"} \/ (at = "serve" /\ req.portal = FALSE) => stack = <<>>
  /\ at \in {"idle", "sign", "serve"} => req.urlhost = req.host
  /\ (at = "serve" /\ Len(stack) > 0) \/ at = "call" =>
       Len(stack) > 0 /\ Top.kind \in {"group", "mux"}
  /\ HostRestored

HttpInv ==
  /\ reloads \in 0..MaxReloads /\ OutInv /\ StageInv /\ ReqInv
  /\ Shape(stack) /\ ServersInv /\ PlaceInv

(* Handlers that ran stay in the history.                                  *)
LEMMA RanStays ==
  ASSUME origin' = origin, ran \subseteq ran'
  PROVE  (Granted => Granted') /\ (Unportaled => Unportaled')
BY DEF Granted, Unportaled, LetsIn

(* What was sent is a status of HTTP, or nothing was sent.                 *)
LEMMA StatusIsHttp ==
  /\ \A code \in Int : StatusSent(code) \in {0} \cup (200..599)
  /\ StatusSent(1021) = 403 /\ StatusSent(1025) = 400 /\ StatusSent(1024) = 502
  /\ StatusSent(522) = 502
BY DEF StatusSent, Internal5xx

(* One write to a response without any.                                    *)
LEMMA Writes ==
  ASSUME OutInv, out.writes = 0, NEW code \in {101} \cup 200..999,
         NEW by \in {"pmesh", "other"}, by = "pmesh" => code \in 200..599,
         WriteHeader(code, by)
  PROVE  OutInv' /\ out'.writes = 1
  <1>0. out.cut \in BOOLEAN
    BY DEF OutInv, Outs
  <1>1. /\ out' \in Outs
        /\ out'.writes = 1 /\ out'.touched = TRUE /\ out'.status = code /\ out'.by = by
    BY <1>0 DEF WriteHeader, Outs
  <1> QED BY <1>1 DEF OutInv
LEMMA Sends ==
  ASSUME OutInv, out.writes = 0, NEW code \in 200..599, Send(code)
  PROVE  OutInv' /\ out'.writes = 1
  <1>1. code \in {101} \cup 200..999 /\ WriteHeader(code, "pmesh")
    BY DEF Send
  <1> QED BY <1>1, Writes

(* A cut connection is an answer as well.                                  *)
LEMMA Cuts ==
  ASSUME OutInv, Cut
  PROVE  OutInv' /\ out'.cut = TRUE /\ out'.writes = out.writes
  <1>1. /\ out' \in Outs
        /\ out'.writes = out.writes /\ out'.touched = out.touched
        /\ out'.status = out.status /\ out'.cut = TRUE /\ out'.by = out.by
    BY ZenonT(60) DEF OutInv, Cut, Outs
  <1> QED BY <1>1 DEF OutInv

(* An answer of another is sent, or net/http panics with nothing written.  *)
LEMMA Answers ==
  ASSUME OutInv, out.writes = 0, NEW code \in Int, Answer(code)
  PROVE  /\ OutInv'
         /\ \/ at' = "panic" /\ ret' = ret
            \/ at' = "return" /\ ret' = "Done" /\ out'.writes = 1
  <1>1. CASE code \in 100..999
    <2> DEFINE c == IF code \in 100..199 \ {101} THEN 200 ELSE code
    <2>1. WriteHeader(c, "other") /\ at' = "return" /\ ret' = "Done"
      BY <1>1 DEF Answer, Result
    <2>2. c \in {101} \cup 200..999
      BY <1>1
    <2> HIDE DEF c
    <2> QED BY <2>1, <2>2, Writes
  <1>2. CASE code \notin 100..999
    <2>1. out' = [out EXCEPT !.touched = TRUE] /\ at' = "panic" /\ ret' = ret
      BY <1>2 DEF Answer
    <2>2. out' \in Outs /\ out'.writes = out.writes
      <3>1. /\ out.status \in 0..999 /\ out.writes \in 0..2 /\ out.cut \in BOOLEAN
            /\ out.by \in {"none", "pmesh", "other"}
            /\ out = [status |-> out.status, writes |-> out.writes, touched |-> out.touched,
                      cut |-> out.cut, by |-> out.by]
        BY DEF OutInv, Outs
      <3>2. out' = [status |-> out.status, writes |-> out.writes, touched |-> TRUE,
                    cut |-> out.cut, by |-> out.by]
        <4>1. DOMAIN out = {"status", "writes", "touched", "cut", "by"}
          BY DEF OutInv, Outs
        <4>2. /\ out'.status = out.status /\ out'.writes = out.writes /\ out'.touched = TRUE
              /\ out'.cut = out.cut /\ out'.by = out.by
              /\ DOMAIN out' = DOMAIN out /\ out' = [x \in DOMAIN out' |-> out'[x]]
          BY <2>1, <4>1
        <4> QED BY <3>1, <4>1, <4>2, ZenonT(60)
      <3> QED BY <3>1, <3>2 DEF Outs
    <2> QED BY <2>1, <2>2 DEF OutInv
  <1> QED BY <1>1, <1>2

(* Error answers, or panics with nothing sent.                             *)
LEMMA Errors ==
  ASSUME OutInv, out.writes = 0, NEW code \in Int, Error(code)
  PROVE  /\ OutInv'
         /\ \/ at' = "panic" /\ out' = out /\ ret' = ret
            \/ at' = "return" /\ ret' = "Done" /\ out'.writes = 1
  <1>1. CASE StatusSent(code) = 0
    BY <1>1 DEF Error, OutInv
  <1>2. CASE StatusSent(code) # 0
    <2>1. StatusSent(code) \in 200..599
      BY <1>2, StatusIsHttp
    <2>2. Send(StatusSent(code)) /\ at' = "return" /\ ret' = "Done"
      BY <1>2 DEF Error, Result
    <2> QED BY <2>1, <2>2, Sends
  <1> QED BY <1>1, <1>2

-----------------------------------------------------------------------------
(* The stack: one more call, one less, or the same calls with less to do.  *)

Pushed(s, t, k) ==
  /\ \E S : t \in Seq(S)
  /\ Len(t) = Len(s) + 1 /\ t[Len(t)].kind = k
  /\ \A i \in 1..Len(s) : t[i].kind = s[i].kind
Popped(s, t) ==
  /\ \E S : t \in Seq(S)
  /\ Len(s) > 0 /\ Len(t) = Len(s) - 1
  /\ \A i \in 1..Len(t) : t[i].kind = s[i].kind
SameCalls(s, t) ==
  /\ \E S : t \in Seq(S)
  /\ Len(t) = Len(s) /\ \A i \in 1..Len(s) : t[i].kind = s[i].kind

(* Append, as the code calls a handler.                                    *)
LEMMA PushIs ==
  ASSUME NEW s, \E S : s \in Seq(S), NEW k, NEW r
  PROVE  Pushed(s, Append(s, [kind |-> k, rest |-> r]), k)
  <1> DEFINE x == [kind |-> k, rest |-> r]
             t == Append(s, x)
  <1>1. PICK S : s \in Seq(S)
    OBVIOUS
  <1>2. x.kind = k
    OBVIOUS
  <1> HIDE DEF x
  <1>3. s \in Seq(S \cup {x})
    BY <1>1
  <1>4. /\ t \in Seq(S \cup {x}) /\ Len(t) = Len(s) + 1 /\ t[Len(s) + 1] = x
        /\ \A i \in 1..Len(s) : t[i] = s[i]
    BY <1>3
  <1> HIDE DEF t
  <1>5. Pushed(s, t, k)
    BY <1>2, <1>4 DEF Pushed
  <1> QED BY <1>5 DEF t, x

(* Pop, as it returns.                                                     *)
LEMMA PopIs ==
  ASSUME NEW S, NEW s \in Seq(S), Len(s) > 0
  PROVE  Popped(s, SubSeq(s, 1, Len(s) - 1))
  <1> DEFINE n == Len(s) - 1
             t == SubSeq(s, 1, n)
  <1>1. n \in Nat /\ Len(s) = n + 1 /\ \A i \in 1..n : s[i] \in S
    OBVIOUS
  <1> HIDE DEF n
  <1>2. /\ t \in Seq(S) /\ Len(t) = (IF 1 <= n THEN n - 1 + 1 ELSE 0)
        /\ \A i \in 1..(n - 1 + 1) : t[i] = s[1 + i - 1]
    <2>1. 1 \in Int /\ n \in Int /\ \A i \in 1..n : s[i] \in S
      BY <1>1
    <2> QED BY <2>1, SubSeqProperties
  <1> HIDE DEF t
  <1>3. Len(t) = n /\ \A i \in 1..n : t[i] = s[i]
    BY <1>1, <1>2
  <1>4. Popped(s, t)
    BY <1>1, <1>2, <1>3 DEF Popped
  <1> QED BY <1>4 DEF t, n

(* Replace, as it goes on to the next route.                               *)
LEMMA ReplaceIs ==
  ASSUME \E S : stack \in Seq(S), Len(stack) > 0, NEW r
  PROVE  SameCalls(stack, Replace(r))
  <1> DEFINE x == [kind |-> Top.kind, rest |-> r]
             t == [stack EXCEPT ![Len(stack)] = x]
  <1>1. PICK S : stack \in Seq(S)
    OBVIOUS
  <1>2. x.kind = Top.kind
    OBVIOUS
  <1> HIDE DEF x
  <1>3. stack \in Seq(S \cup {x})
    BY <1>1
  <1>4. /\ t \in Seq(S \cup {x}) /\ Len(t) = Len(stack) /\ t[Len(stack)] = x
        /\ \A i \in 1..Len(stack) : i # Len(stack) => t[i] = stack[i]
    BY <1>3
  <1> HIDE DEF t
  <1>5. SameCalls(stack, t)
    BY <1>2, <1>4 DEF SameCalls, Top
  <1> QED BY <1>5 DEF t, x, Replace

(* A call is made only where calls of its kind are made.                   *)
LEMMA PushShape ==
  ASSUME NEW s, NEW t, NEW k, Shape(s), Pushed(s, t, k),
         \/ k = "server" /\ (Len(s) > 0 => s[Len(s)].kind \in {"group", "mux"})
         \/ k = "group" /\ Len(s) > 0 /\ s[Len(s)].kind = "server"
         \/ k = "mux" /\ Len(s) > 0 /\ s[Len(s)].kind \in {"group", "mux"}
  PROVE  Shape(t)
  <1>1. Len(s) \in Nat
    <2>1. PICK S : s \in Seq(S)
      BY DEF Shape
    <2> QED BY <2>1
  <1>2. /\ Len(t) = Len(s) + 1 /\ t[Len(s) + 1].kind = k
        /\ \A i \in 1..Len(s) : t[i].kind = s[i].kind
        /\ \E S : t \in Seq(S)
    BY DEF Pushed
  <1>3. ASSUME NEW i \in 1..Len(t)
        PROVE  /\ t[i].kind \in {"server", "group", "mux"}
               /\ t[i].kind = "server" /\ i > 1 => t[i - 1].kind \in {"group", "mux"}
               /\ t[i].kind = "group" => i > 1 /\ t[i - 1].kind = "server"
               /\ t[i].kind = "mux" => i > 1 /\ t[i - 1].kind \in {"group", "mux"}
    <2>1. CASE i = Len(s) + 1
      <3>1. Len(s) > 0 => i > 1 /\ t[i - 1].kind = s[Len(s)].kind
        BY <1>1, <1>2, <2>1
      <3>2. Len(s) = 0 => i = 1
        BY <1>1, <2>1
      <3>3. t[i].kind = k
        BY <1>2, <2>1
      <3> QED BY <1>1, <3>1, <3>2, <3>3
    <2>2. CASE i # Len(s) + 1
      <3>1. i \in 1..Len(s) /\ t[i].kind = s[i].kind
        BY <1>1, <1>2, <2>2
      <3>2. i > 1 => i - 1 \in 1..Len(s) /\ t[i - 1].kind = s[i - 1].kind
        BY <1>1, <1>2, <3>1
      <3> QED BY <3>1, <3>2 DEF Shape
    <2> QED BY <2>1, <2>2
  <1> QED BY <1>2, <1>3 DEF Shape

(* A group returns to the server, a mux to a group or a mux, and the       *)
(* server to those as well, or to nobody.                                  *)
LEMMA PopShape ==
  ASSUME NEW s, NEW t, Shape(s), Popped(s, t)
  PROVE  /\ Shape(t)
         /\ s[Len(s)].kind \in {"server", "group", "mux"}
         /\ s[Len(s)].kind = "group" => Len(t) > 0 /\ t[Len(t)].kind = "server"
         /\ s[Len(s)].kind = "mux" => Len(t) > 0 /\ t[Len(t)].kind \in {"group", "mux"}
         /\ s[Len(s)].kind = "server" /\ Len(t) > 0 => t[Len(t)].kind \in {"group", "mux"}
  <1>1. Len(s) \in Nat
    <2>1. PICK S : s \in Seq(S)
      BY DEF Shape
    <2> QED BY <2>1
  <1>2. /\ Len(s) > 0 /\ Len(t) = Len(s) - 1
        /\ \A i \in 1..Len(t) : t[i].kind = s[i].kind
        /\ \E S : t \in Seq(S)
    BY DEF Popped
  <1>3. Len(s) \in 1..Len(s) /\ (Len(s) > 1 => Len(t) > 0 /\ Len(t) = Len(s) - 1
                                                 /\ t[Len(t)].kind = s[Len(s) - 1].kind)
    BY <1>1, <1>2
  <1>4. ASSUME NEW i \in 1..Len(t)
        PROVE  /\ t[i].kind \in {"server", "group", "mux"}
               /\ t[i].kind = "server" /\ i > 1 => t[i - 1].kind \in {"group", "mux"}
               /\ t[i].kind = "group" => i > 1 /\ t[i - 1].kind = "server"
               /\ t[i].kind = "mux" => i > 1 /\ t[i - 1].kind \in {"group", "mux"}
    <2>1. i \in 1..Len(s) /\ t[i].kind = s[i].kind
      BY <1>1, <1>2
    <2>2. i > 1 => t[i - 1].kind = s[i - 1].kind
      BY <1>1, <1>2
    <2> QED BY <2>1, <2>2 DEF Shape
  <1>5. Shape(t)
    BY <1>2, <1>4 DEF Shape
  <1>6. Len(t) > 0 => Len(s) > 1
    BY <1>1, <1>2
  <1>7. /\ s[Len(s)].kind \in {"server", "group", "mux"}
        /\ s[Len(s)].kind = "server" /\ Len(s) > 1 => s[Len(s) - 1].kind \in {"group", "mux"}
        /\ s[Len(s)].kind = "group" => Len(s) > 1 /\ s[Len(s) - 1].kind = "server"
        /\ s[Len(s)].kind = "mux" => Len(s) > 1 /\ s[Len(s) - 1].kind \in {"group", "mux"}
    BY <1>3 DEF Shape
  <1> QED BY <1>3, <1>5, <1>6, <1>7

(* The same calls have the same shape.                                     *)
LEMMA SameShape ==
  ASSUME NEW s, NEW t, Shape(s), SameCalls(s, t)
  PROVE  Shape(t) /\ (Len(s) > 0 => t[Len(t)].kind = s[Len(s)].kind)
  <1>1. Len(s) \in Nat
    <2>1. PICK S : s \in Seq(S)
      BY DEF Shape
    <2> QED BY <2>1
  <1>2. Len(t) = Len(s) /\ \A i \in 1..Len(s) : t[i].kind = s[i].kind
    BY DEF SameCalls
  <1>3. \A i \in 1..Len(s) : i > 1 => i - 1 \in 1..Len(s) /\ t[i - 1].kind = s[i - 1].kind
    BY <1>1, <1>2
  <1>4. ASSUME NEW i \in 1..Len(t)
        PROVE  /\ t[i].kind \in {"server", "group", "mux"}
               /\ t[i].kind = "server" /\ i > 1 => t[i - 1].kind \in {"group", "mux"}
               /\ t[i].kind = "group" => i > 1 /\ t[i - 1].kind = "server"
               /\ t[i].kind = "mux" => i > 1 /\ t[i - 1].kind \in {"group", "mux"}
    <2>1. i \in 1..Len(s) /\ t[i].kind = s[i].kind
      BY <1>2
    <2> QED BY <1>3, <2>1 DEF Shape
  <1>5. Shape(t)
    BY <1>4 DEF Shape, SameCalls
  <1> QED BY <1>1, <1>2, <1>5

(* Where the calls of the server are.                                      *)
LEMMA ServersMove ==
  ASSUME NEW s, NEW t, NEW S, Len(s) \in Nat, ServersAt(s, S)
  PROVE  /\ Popped(s, t) \/ SameCalls(s, t) => ServersAt(t, S)
         /\ \A k : Pushed(s, t, k) => /\ k # "server" => ServersAt(t, S)
                                      /\ ServersAt(t, S \cup {Len(s) + 1})
BY DEF ServersAt, Popped, SameCalls, Pushed

(* Twice at most.                                                          *)
LEMMA TwoServers ==
  ASSUME NEW m \in Nat, ServersAt(stack, {1, m}) PROVE PortalOnce
  <1> DEFINE C == {i \in 1..Len(stack) : stack[i].kind = "server"}
  <1>1. C \subseteq {1, m}
    BY DEF ServersAt
  <1>2. IsFiniteSet({1}) /\ Cardinality({1}) = 1
    BY FS_Singleton
  <1>3. IsFiniteSet({1} \cup {m}) /\ Cardinality({1} \cup {m}) <= 2
    BY <1>2, FS_AddElement
  <1>4. {1, m} = {1} \cup {m}
    OBVIOUS
  <1>5. IsFiniteSet({1, m}) /\ Cardinality({1, m}) <= 2
    BY <1>3, <1>4
  <1> HIDE DEF C
  <1>6. IsFiniteSet(C) /\ Cardinality(C) <= Cardinality({1, m})
    BY <1>1, <1>5, FS_Subset
  <1>7. Cardinality(C) \in Nat /\ Cardinality({1, m}) \in Nat
    BY <1>5, <1>6, FS_CardinalityType
  <1>8. Cardinality(C) <= 2
    BY <1>5, <1>6, <1>7
  <1> QED BY <1>8 DEF C, PortalOnce

-----------------------------------------------------------------------------
(* The steps.                                                              *)

(* No request satisfies it.                                                *)
LEMMA HttpStart == HttpInit => HttpInv
  <1> SUFFICES ASSUME HttpInit PROVE HttpInv
    OBVIOUS
  <1>1. reloads \in 0..MaxReloads
    BY HttpAssumption DEF HttpAssumption, HttpInit
  <1>2. OutInv /\ StageInv
    BY DEF HttpInit, Untouched, OutInv, Outs, StageInv
  <1>3. ReqInv
    <2>1. NoRequest \in [host : {<<>>}, path : {"none"}, urlhost : {<<>>}, scheme : {"none"},
                         internal : BOOLEAN, portal : BOOLEAN, upgrade : BOOLEAN]
      BY DEF NoRequest
    <2> DEFINE S == {<<>>} \cup {"none"}
    <2>2. NoRequest \in [host : S, path : S, urlhost : S, scheme : S,
                         internal : BOOLEAN, portal : BOOLEAN, upgrade : BOOLEAN]
      BY <2>1
    <2>3. IsRequest(NoRequest) /\ NoRequest.internal = FALSE
      BY <2>2 DEF IsRequest, NoRequest
    <2> QED BY <2>3 DEF HttpInit, ReqInv
  <1>4. Shape(stack) /\ ServersAt(stack, {1}) /\ ServersAt(stack, {1, 1})
    <2>1. stack \in Seq({}) /\ Len(stack) = 0
      BY DEF HttpInit
    <2> QED BY <2>1 DEF Shape, ServersAt
  <1>5. ServersInv
    BY <1>4 DEF ServersInv, ServersTwice
  <1>6. PlaceInv
    BY DEF HttpInit, NoRequest, PlaceInv, HostRestored
  <1> QED BY <1>1, <1>2, <1>3, <1>4, <1>5, <1>6 DEF HttpInv

(* A field of the request is set, and the others stay.                     *)
LEMMA ReqSet ==
  ASSUME IsRequest(req), NEW x, NEW y \in BOOLEAN
  PROVE  /\ IsRequest([req EXCEPT !.urlhost = x]) /\ [req EXCEPT !.urlhost = x].urlhost = x
         /\ IsRequest([req EXCEPT !.host = x])
         /\ IsRequest([req EXCEPT !.path = x])
         /\ IsRequest([req EXCEPT !.internal = y]) /\ [req EXCEPT !.internal = y].internal = y
         /\ IsRequest([req EXCEPT !.portal = y]) /\ [req EXCEPT !.portal = y].portal = y
         /\ IsRequest([req EXCEPT !.upgrade = y])
         /\ \A q \in {[req EXCEPT !.urlhost = x], [req EXCEPT !.host = x],
                      [req EXCEPT !.path = x], [req EXCEPT !.internal = y],
                      [req EXCEPT !.upgrade = y]} :
              q.portal = req.portal
         /\ \A q \in {[req EXCEPT !.urlhost = x], [req EXCEPT !.host = x],
                      [req EXCEPT !.path = x], [req EXCEPT !.portal = y],
                      [req EXCEPT !.upgrade = y]} : q.internal = req.internal
         /\ [req EXCEPT !.urlhost = x].host = req.host
  <1>1. PICK S : req \in [host : S, path : S, urlhost : S, scheme : S,
                          internal : BOOLEAN, portal : BOOLEAN, upgrade : BOOLEAN]
    BY DEF IsRequest
  <1> DEFINE T == S \cup {x}
  <1>2. req \in [host : T, path : T, urlhost : T, scheme : T,
                 internal : BOOLEAN, portal : BOOLEAN, upgrade : BOOLEAN]
    BY <1>1
  <1>3. x \in T
    OBVIOUS
  <1> HIDE DEF T
  <1> DEFINE R == [host : T, path : T, urlhost : T, scheme : T,
                   internal : BOOLEAN, portal : BOOLEAN, upgrade : BOOLEAN]
  <1>4. /\ [req EXCEPT !.urlhost = x] \in R /\ [req EXCEPT !.urlhost = x].urlhost = x
        /\ [req EXCEPT !.urlhost = x].portal = req.portal
        /\ [req EXCEPT !.urlhost = x].internal = req.internal
        /\ [req EXCEPT !.urlhost = x].host = req.host
    BY <1>2, <1>3
  <1>5. /\ [req EXCEPT !.host = x] \in R
        /\ [req EXCEPT !.host = x].portal = req.portal
        /\ [req EXCEPT !.host = x].internal = req.internal
    BY <1>2, <1>3
  <1>6. /\ [req EXCEPT !.path = x] \in R
        /\ [req EXCEPT !.path = x].portal = req.portal
        /\ [req EXCEPT !.path = x].internal = req.internal
    BY <1>2, <1>3
  <1>7. /\ [req EXCEPT !.internal = y] \in R /\ [req EXCEPT !.internal = y].internal = y
        /\ [req EXCEPT !.internal = y].portal = req.portal
    BY <1>2, ZenonT(60)
  <1>8. /\ [req EXCEPT !.portal = y] \in R /\ [req EXCEPT !.portal = y].portal = y
        /\ [req EXCEPT !.portal = y].internal = req.internal
    BY <1>2, ZenonT(60)
  <1>9. /\ [req EXCEPT !.upgrade = y] \in R
        /\ [req EXCEPT !.upgrade = y].portal = req.portal
        /\ [req EXCEPT !.upgrade = y].internal = req.internal
    BY <1>2, ZenonT(60)
  <1>10. \A q \in R : IsRequest(q)
    BY DEF IsRequest
  <1> HIDE DEF R
  <1> QED BY <1>4, <1>5, <1>6, <1>7, <1>8, <1>9, <1>10, ZenonT(60)

(* A request that is moved is at its new host.                             *)
LEMMA MovedIs ==
  ASSUME IsRequest(req), NEW h, NEW p, NEW b \in BOOLEAN
  PROVE  /\ IsRequest(Moved(h, p, b)) /\ Moved(h, p, b).urlhost = Moved(h, p, b).host
         /\ Moved(h, p, b).portal = b
  <1>1. PICK S : req \in [host : S, path : S, urlhost : S, scheme : S,
                          internal : BOOLEAN, portal : BOOLEAN, upgrade : BOOLEAN]
    BY DEF IsRequest
  <1> DEFINE T == S \cup {h, p}
  <1>2. req.scheme \in T /\ req.upgrade \in BOOLEAN /\ h \in T /\ p \in T
    BY <1>1
  <1> HIDE DEF T
  <1>3. Moved(h, p, b) \in [host : T, path : T, urlhost : T, scheme : T,
                            internal : BOOLEAN, portal : BOOLEAN, upgrade : BOOLEAN]
    BY <1>2 DEF Moved
  <1> QED BY <1>3 DEF IsRequest, Moved

(* A handler returns to the group or mux that called it.                   *)
LEMMA HandlerReturns ==
  ASSUME HttpInv, at = "call", reloads' = reloads, stack' = stack,
         OutInv', ReqInv', origin' = origin, ran \subseteq ran',
         req'.portal = req.portal \/ req'.portal = TRUE \/ Unportaled',
         \/ at' = "call" /\ ret' = ret /\ out' = out
         \/ at' \in {"panic", "abort"} /\ ret' = ret
         \/ at' = "return" /\ ret' = "Done" /\ (out'.writes = 1 \/ out'.cut = TRUE)
         \/ at' = "return" /\ ret' \in {"Continue", "Drop"} /\ out' = out
  PROVE  HttpInv'
  <1>1. StageInv'
    BY DEF HttpInv, StageInv, Answered
  <1>2. ServersInv'
    <2>1. SUFFICES ASSUME ~Unportaled' PROVE ServersTwice'
      BY DEF ServersInv
    <2>2. ServersTwice /\ (req'.portal = req.portal \/ req'.portal = TRUE)
      BY <2>1, RanStays DEF HttpInv, ServersInv
    <2>3. at' # "serve"
      OBVIOUS
    <2> QED BY <2>2, <2>3 DEF ServersTwice, ServersAt
  <1>3. PlaceInv'
    BY DEF HttpInv, PlaceInv, HostRestored, Top
  <1> QED BY <1>1, <1>2, <1>3 DEF HttpInv, Shape

(* The first answers.                                                      *)
LEMMA HttpAccepts == ASSUME HttpInv, NEW q \in Inbound, Accept(q) PROVE HttpInv'
  <1>0. /\ at = "idle" /\ origin' = q /\ out.writes = 0 /\ stack = <<>>
        /\ UNCHANGED <<table, reloads, stack, call, ret, ran>> /\ OutInv
        /\ {q.upgrade, q.local, q.trusted, q.secret, q.signed} \subseteq BOOLEAN
    BY HttpAssumption DEF HttpAssumption, HttpInv, StageInv, PlaceInv, Accept
  <1>1. /\ IsRequest(req') /\ req'.internal = Mark(q) /\ req'.portal = FALSE
        /\ req'.urlhost = req'.host
    <2> DEFINE S == {q.host, q.path, q.scheme}
               r == [host |-> q.host, path |-> q.path, urlhost |-> q.host,
                     scheme |-> q.scheme, internal |-> Mark(q), portal |-> FALSE,
                     upgrade |-> q.upgrade]
    <2>1. Mark(q) \in BOOLEAN /\ q.upgrade \in BOOLEAN
      BY <1>0 DEF Mark
    <2>2. r \in [host : S, path : S, urlhost : S, scheme : S,
                 internal : BOOLEAN, portal : BOOLEAN, upgrade : BOOLEAN]
      BY <2>1
    <2>3. req' = r
      BY DEF Accept
    <2>4. r.internal = Mark(q) /\ r.portal = FALSE /\ r.urlhost = r.host
      OBVIOUS
    <2> HIDE DEF r, S
    <2> QED BY <2>2, <2>3, <2>4 DEF IsRequest
  <1>2. Mark(q) => Granted'
    BY <1>0 DEF Mark, Granted
  <1>3. ReqInv'
    BY <1>0, <1>1, <1>2 DEF ReqInv
  <1>4. Shape(stack') /\ ServersAt(stack', {1}) /\ ServersAt(stack', {1, 1})
    BY <1>0 DEF HttpInv, Shape, ServersAt
  <1>5. /\ OutInv'
        /\ \/ at' = "over" /\ (out'.writes = 1 \/ out'.cut = TRUE)
           \/ at' \in {"sign", "serve"} /\ out' = out /\ (at' = "sign" => q.signed)
    <2>1. CASE Cut /\ at' = "over"
      BY <1>0, <2>1, Cuts
    <2>2. CASE (Send(StatusSent(1021)) \/ Send(204)) /\ at' = "over"
      <3>1. PICK code \in {403, 204} : Send(code)
        BY <2>2, StatusIsHttp
      <3>2. code \in 200..599
        OBVIOUS
      <3>3. OutInv' /\ out'.writes = 1
        BY <1>0, <3>1, <3>2, Sends, ZenonT(60)
      <3> QED BY <2>2, <3>3
    <2>3. CASE UNCHANGED out /\ at' = IF q.signed THEN "sign" ELSE "serve"
      BY <1>0, <2>3 DEF OutInv
    <2> QED BY <2>1, <2>2, <2>3, ZenonT(60) DEF Accept
  <1>6. StageInv'
    BY <1>0, <1>5 DEF HttpInv, StageInv, Answered
  <1>7. ServersInv'
    <2>1. 1 \in Nat
      OBVIOUS
    <2> QED BY <1>4, <2>1 DEF ServersInv, ServersTwice
  <1>8. PlaceInv'
    BY <1>0, <1>1, <1>5 DEF PlaceInv, HostRestored
  <1> QED BY <1>0, <1>3, <1>4, <1>5, <1>6, <1>7, <1>8 DEF HttpInv

(* The signature, and the entry of the server.                             *)
LEMMA HttpEnters == ASSUME HttpInv, Authenticate \/ ServeSession PROVE HttpInv'
  <1>1. CASE Authenticate
    <2>0. /\ at = "sign" /\ out.writes = 0 /\ stack = <<>> /\ OutInv /\ ReqInv
          /\ UNCHANGED <<table, reloads, stack, call, ret, origin, ran>>
          /\ req.portal \in BOOLEAN /\ origin.signed
      <3>1. req.portal \in BOOLEAN
        BY DEF HttpInv, ReqInv, IsRequest
      <3> QED BY <1>1, <3>1 DEF HttpInv, StageInv, PlaceInv, Authenticate
    <2>1. Shape(stack') /\ ServersAt(stack', {1}) /\ ServersAt(stack', {1, 1})
      BY <2>0 DEF HttpInv, Shape, ServersAt
    <2>2. ServersInv'
      <3>1. 1 \in Nat
        OBVIOUS
      <3> QED BY <2>1, <3>1 DEF ServersInv, ServersTwice
    <2>3. CASE Send(StatusSent(1025)) /\ at' = "over" /\ UNCHANGED req
      <3>1. Send(400) /\ 400 \in 200..599
        BY <2>3, StatusIsHttp
      <3>2. OutInv' /\ out'.writes = 1
        BY <2>0, <3>1, Sends
      <3>3. StageInv' /\ ReqInv' /\ PlaceInv'
        BY <2>0, <2>3, <3>2, RanStays
           DEF HttpInv, StageInv, Answered, ReqInv, PlaceInv, HostRestored
      <3> QED BY <2>0, <2>1, <2>2, <3>2, <3>3 DEF HttpInv
    <2>4. CASE /\ at' = "serve" /\ UNCHANGED out
               /\ \E host \in Unique(table) \cup {req.host}, portal \in {req.portal, TRUE},
                    path \in {req.path} \cup {q.path : q \in Inbound} :
                    req' = Moved(host, path, portal)
      <3>1. PICK h \in Unique(table) \cup {req.host}, b \in BOOLEAN,
                 p \in {req.path} \cup {q.path : q \in Inbound} :
               req' = Moved(h, p, b)
        <4>1. {req.portal, TRUE} \subseteq BOOLEAN
          BY <2>0
        <4>2. \E host \in Unique(table) \cup {req.host}, portal \in {req.portal, TRUE},
                path \in {req.path} \cup {q.path : q \in Inbound} :
                req' = Moved(host, path, portal)
          BY <2>4
        <4> QED BY <4>1, <4>2, Zenon
      <3>2. IsRequest(req') /\ req'.urlhost = req'.host
        BY <2>0, <3>1, MovedIs DEF ReqInv
      <3>3. StageInv' /\ OutInv' /\ ReqInv'
        BY <2>0, <2>4, <3>2 DEF HttpInv, StageInv, OutInv, Outs, ReqInv, Granted
      <3>4. PlaceInv'
        BY <2>0, <2>4, <3>2 DEF PlaceInv, HostRestored
      <3> QED BY <2>0, <2>1, <2>2, <3>3, <3>4 DEF HttpInv
    <2> QED BY <1>1, <2>3, <2>4 DEF Authenticate
  <1>2. CASE ServeSession
    <2>0. /\ at = "serve" /\ at' = "return" /\ ret' = "Continue" /\ out.writes = 0
          /\ stack' = Append(stack, [kind |-> "server", rest |-> table])
          /\ UNCHANGED <<table, reloads, req, out, call, origin, ran>>
          /\ req.urlhost = req.host /\ Shape(stack)
          /\ Unportaled \/ ServersAt(stack, {1})
          /\ (req.portal = FALSE => stack = <<>>)
          /\ (Len(stack) > 0 => stack[Len(stack)].kind \in {"group", "mux"})
      BY <1>2 DEF ServeSession, HttpInv, StageInv, ServersInv, ServersTwice, PlaceInv, Top
    <2>1. Len(stack) \in Nat /\ \E S : stack \in Seq(S)
      <3>1. PICK S : stack \in Seq(S)
        BY <2>0 DEF Shape
      <3> QED BY <3>1
    <2>2. Pushed(stack, stack', "server")
      BY <2>0, <2>1, PushIs
    <2>3. Shape(stack')
      BY <2>0, <2>2, PushShape
    <2>7. ServersInv'
      <3>1. CASE Unportaled
        BY <2>0, <3>1 DEF ServersInv, Unportaled
      <3>2. CASE ServersAt(stack, {1})
        <4>4. ServersAt(stack', {1} \cup {Len(stack) + 1})
          BY <2>1, <2>2, <3>2, ServersMove
        <4>5. ServersAt(stack', {1, Len(stack) + 1}) /\ Len(stack) + 1 \in Nat
          BY <2>1, <4>4 DEF ServersAt
        <4>6. req.portal = FALSE => ServersAt(stack', {1})
          BY <2>0, <4>4 DEF ServersAt
        <4> QED BY <2>0, <4>5, <4>6 DEF ServersInv, ServersTwice
      <3> QED BY <2>0, <3>1, <3>2
    <2>8. StageInv' /\ OutInv' /\ ReqInv' /\ PlaceInv'
      BY <2>0, RanStays DEF HttpInv, StageInv, OutInv, ReqInv, PlaceInv, HostRestored
    <2> QED BY <2>0, <2>3, <2>7, <2>8 DEF HttpInv
  <1> QED BY <1>1, <1>2

(* The call on top returns, and the one below it goes on.                  *)
LEMMA HttpReturns ==
  ASSUME HttpInv, at = "return", Len(stack) > 0, stack' = Pop, reloads' = reloads,
         OutInv', StageInv', ReqInv', req'.portal = req.portal, ran' = ran,
         at' \in {"return", "over", "abort"},
         at' = "return" /\ ret' = "Continue" /\ Top.kind = "group"
           => req'.urlhost = req'.host,
         at' = "return" /\ ret' = "Continue" => Top.kind \in {"group", "mux"}
  PROVE  HttpInv'
  <1>1. PICK S : stack \in Seq(S)
    BY DEF HttpInv, Shape
  <1>2. Popped(stack, stack')
    BY <1>1, PopIs DEF Pop
  <1>3. /\ Shape(stack')
        /\ stack[Len(stack)].kind = "mux" => stack'[Len(stack')].kind \in {"group", "mux"}
    BY <1>2, PopShape DEF HttpInv
  <1>4. Len(stack) \in Nat
    BY <1>1
  <1>5. ServersInv'
    <2>a. Unportaled' = Unportaled
      BY DEF Unportaled
    <2>b. SUFFICES ASSUME ServersTwice PROVE ServersTwice'
      BY <2>a DEF HttpInv, ServersInv
    <2>1. PICK m \in Nat : ServersAt(stack, {1, m})
      BY <2>b DEF ServersTwice
    <2>2. ServersAt(stack', {1, m})
      BY <1>2, <1>4, <2>1, ServersMove
    <2>3. req.portal = FALSE => ServersAt(stack', {1})
      BY <1>2, <1>4, <2>b, ServersMove DEF ServersTwice
    <2> QED BY <2>2, <2>3 DEF ServersTwice
  <1>6. PlaceInv'
    BY <1>3 DEF PlaceInv, HostRestored, Top
  <1> QED BY <1>3, <1>5, <1>6 DEF HttpInv

(* The call on top goes on with what is left to it.                        *)
LEMMA HttpGoesOn ==
  ASSUME HttpInv, at = "return", ret = "Continue", SameCalls(stack, stack'), Len(stack) > 0,
         reloads' = reloads, out' = out, ret' = ret, ReqInv',
         req'.portal = req.portal, ran' = ran,
         \/ at' = "return" /\ req' = req
         \/ at' = "call" /\ Top.kind \in {"group", "mux"}
  PROVE  HttpInv'
  <1>1. PICK S : stack \in Seq(S)
    BY DEF HttpInv, Shape
  <1>2. Shape(stack') /\ Len(stack') = Len(stack) /\ stack'[Len(stack')].kind = Top.kind
    BY SameShape DEF HttpInv, SameCalls, Top
  <1>3. Len(stack) \in Nat
    BY <1>1
  <1>4. ServersInv'
    <2>a. Unportaled' = Unportaled
      BY DEF Unportaled
    <2>b. SUFFICES ASSUME ServersTwice PROVE ServersTwice'
      BY <2>a DEF HttpInv, ServersInv
    <2>1. PICK m \in Nat : ServersAt(stack, {1, m})
      BY <2>b DEF ServersTwice
    <2>2. ServersAt(stack', {1, m})
      BY <1>3, <2>1, ServersMove
    <2>3. req.portal = FALSE => ServersAt(stack', {1})
      BY <1>3, <2>b, ServersMove DEF ServersTwice
    <2> QED BY <2>2, <2>3 DEF ServersTwice
  <1>5. OutInv' /\ StageInv'
    BY DEF HttpInv, OutInv, StageInv, Answered
  <1>6. Top' = stack'[Len(stack')]
    BY DEF Top
  <1>7. PlaceInv'
    BY <1>2, <1>6 DEF HttpInv, PlaceInv, HostRestored
  <1> QED BY <1>2, <1>4, <1>5, <1>7 DEF HttpInv

(* The call on top calls another one.                                      *)
LEMMA HttpCalls ==
  ASSUME HttpInv, NEW k \in {"group", "mux"}, Pushed(stack, stack', k), Len(stack) > 0,
         k = "group" => Top.kind = "server", k = "mux" => Top.kind \in {"group", "mux"},
         reloads' = reloads, out' = out, out.writes = 0, req' = req, origin' = origin,
         at' = "return", ret' = "Continue", ran \subseteq ran'
  PROVE  HttpInv'
  <1>1. PICK S : stack \in Seq(S)
    BY DEF HttpInv, Shape
  <1>2. Shape(stack')
    BY PushShape DEF HttpInv, Top
  <1>3. Len(stack) \in Nat
    BY <1>1
  <1>4. ServersInv'
    <2>b. SUFFICES ASSUME ServersTwice PROVE ServersTwice'
      BY RanStays DEF HttpInv, ServersInv
    <2>1. PICK m \in Nat : ServersAt(stack, {1, m})
      BY <2>b DEF ServersTwice
    <2>2. ServersAt(stack', {1, m})
      BY <1>3, <2>1, ServersMove
    <2>3. req.portal = FALSE => ServersAt(stack', {1})
      BY <1>3, <2>b, ServersMove DEF ServersTwice
    <2> QED BY <2>2, <2>3 DEF ServersTwice
  <1>5. OutInv' /\ StageInv' /\ ReqInv'
    BY RanStays DEF HttpInv, OutInv, StageInv, ReqInv
  <1>6. Top'.kind = k
    BY DEF Top, Pushed
  <1>7. PlaceInv'
    BY <1>6 DEF PlaceInv, HostRestored
  <1> QED BY <1>2, <1>4, <1>5, <1>7 DEF HttpInv

(* It is about the request alone.                                          *)
LEMMA HttpStays ==
  ASSUME HttpInv, UNCHANGED <<req, out, stack, at, ret, origin, ran>>, reloads' \in 0..MaxReloads
  PROVE  HttpInv'
  <1>1. OutInv' /\ StageInv' /\ ReqInv'
    BY RanStays DEF HttpInv, OutInv, StageInv, Answered, ReqInv
  <1>2. Shape(stack)' /\ ServersInv'
    BY RanStays DEF HttpInv, Shape, ServersInv, ServersTwice, ServersAt
  <1>3. PlaceInv'
    BY DEF HttpInv, PlaceInv, HostRestored, Top
  <1> QED BY <1>1, <1>2, <1>3 DEF HttpInv

(* Every step of the machine keeps the invariant.                          *)
LEMMA HttpStep == HttpInv /\ [HttpNext]_httpVars => HttpInv'
  <1> SUFFICES ASSUME HttpInv, [HttpNext]_httpVars PROVE HttpInv'
    OBVIOUS
  <1>i. OutInv /\ StageInv /\ ReqInv /\ IsRequest(req) /\ Shape(stack) /\ PlaceInv
    BY DEF HttpInv, ReqInv
  <1>s. \E S : stack \in Seq(S)
    BY <1>i DEF Shape
  <1>c. at = "call" => out.writes = 0
    BY <1>i DEF StageInv
  <1>g. origin' = origin /\ ran \subseteq ran' => (Granted => Granted')
    BY RanStays
  <1>h. ASSUME NEW kinds, Calls(kinds)
        PROVE  at = "call" /\ ran \subseteq ran' /\ ran' = ran \cup {call}
    BY <1>h DEF Calls
  <1>r. at = "return" /\ ret = "Continue" => out.writes = 0
    BY <1>i DEF StageInv
  <1>1. ASSUME NEW v \in Tables, SetHosts(v) PROVE HttpInv'
    <2>1. /\ reloads' \in 0..MaxReloads
          /\ UNCHANGED <<req, out, stack, at, ret, origin, ran>>
      BY <1>1, HttpAssumption DEF HttpAssumption, SetHosts, HttpInv
    <2> QED BY <2>1, HttpStays
  <1>2. ASSUME NEW q \in Inbound, Accept(q) PROVE HttpInv'
    BY <1>2, HttpAccepts
  <1>3. CASE Authenticate \/ ServeSession
    BY <1>3, HttpEnters
  <1>4. ASSUME NEW r \in {"Done", "Drop"}, Returns(r) PROVE HttpInv'
    <2>1. /\ at = "return" /\ Len(stack) > 0 /\ Top.kind \in {"mux", "group"}
          /\ ret = r /\ stack' = Pop /\ at' = at
          /\ ret' = IF r = "Done" THEN "Done" ELSE "Continue"
          /\ req' = IF Top.kind = "group" THEN Leaves ELSE req
          /\ UNCHANGED <<table, reloads, out, at, call, origin, ran>>
      BY <1>4 DEF Returns
    <2>2. OutInv' /\ StageInv'
      BY <1>i, <2>1 DEF OutInv, StageInv, Answered
    <2>3. /\ IsRequest(req') /\ req'.portal = req.portal /\ req'.internal = req.internal
          /\ Top.kind = "group" => req'.urlhost = req'.host
      BY <1>i, <2>1, ReqSet DEF Leaves
    <2>4. ReqInv'
      BY <1>g, <1>i, <2>1, <2>3 DEF ReqInv
    <2> QED BY <2>1, <2>2, <2>3, <2>4, HttpReturns
  <1>5. CASE SessionEnds
    <2>1. /\ at = "return" /\ Len(stack) > 0 /\ Top.kind = "server" /\ ret # "Continue"
          /\ stack' = Pop /\ ret' = "Done" /\ at' \in {"return", "over", "abort"}
          /\ ret = "Drop" => at' = "abort"
          /\ UNCHANGED <<table, reloads, req, out, call, origin, ran>>
      BY <1>5 DEF SessionEnds
    <2>2. OutInv' /\ (at' # "abort" => Answered')
      BY <1>i, <2>1 DEF OutInv, StageInv, Answered
    <2>3. StageInv' /\ ReqInv'
      BY <1>g, <1>i, <2>1, <2>2 DEF StageInv, Answered, ReqInv
    <2> QED BY <2>1, <2>2, <2>3, HttpReturns
  <1>6. CASE NotFound
    <2>1. /\ at = "return" /\ Len(stack) > 0 /\ Top.kind = "server" /\ ret = "Continue"
          /\ Send(404) /\ 404 \in 200..599
          /\ stack' = Pop /\ ret' = "Done" /\ at' \in {"return", "over"}
          /\ UNCHANGED <<table, reloads, req, call, origin, ran>>
      BY <1>6 DEF NotFound
    <2>2. OutInv' /\ out'.writes = 1
      BY <1>i, <1>r, <2>1, Sends
    <2>3. StageInv' /\ ReqInv'
      BY <1>g, <1>i, <2>1, <2>2 DEF StageInv, Answered, ReqInv
    <2> QED BY <2>1, <2>2, <2>3, HttpReturns
  <1>7. CASE NextGroup
    <2>1. /\ at = "return" /\ Len(stack) > 0 /\ Top.kind = "server" /\ ret = "Continue"
          /\ UNCHANGED <<table, reloads, req, out, at, call, ret, origin, ran>>
      BY <1>7 DEF NextGroup
    <2> DEFINE t == Replace(Tail(Top.rest))
               hs == HostsOf(Head(Top.rest))
               g == [kind |-> "group", rest |-> hs]
    <2>2. stack' = t \/ stack' = Append(t, g)
      BY <1>7 DEF NextGroup
    <2>3. SameCalls(stack, t)
      BY <1>s, <2>1, ReplaceIs
    <2>4. ReqInv'
      BY <1>g, <1>i, <2>1 DEF ReqInv
    <2>5. CASE stack' = t
      <3> HIDE DEF t
      <3> QED BY <2>1, <2>3, <2>4, <2>5, HttpGoesOn
    <2>6. CASE stack' = Append(t, g)
      <3>1. Pushed(t, Append(t, g), "group")
        <4> HIDE DEF t
        <4>1. \E S : t \in Seq(S)
          BY <2>3 DEF SameCalls
        <4> HIDE DEF hs
        <4> QED BY <4>1, PushIs
      <3> HIDE DEF t, g, hs
      <3>2. Pushed(stack, stack', "group")
        BY <2>3, <2>6, <3>1 DEF SameCalls, Pushed
      <3> QED BY <1>r, <2>1, <3>2, HttpCalls
    <2> QED BY <2>2, <2>5, <2>6
  <1>8. CASE NextHost
    <2> DEFINE t == Replace(Tail(Top.rest))
               vh == Head(Top.rest)
    <2>1. /\ at = "return" /\ Len(stack) > 0 /\ Top.kind = "group" /\ ret = "Continue"
          /\ UNCHANGED <<table, reloads, origin, ran>>
          /\ \/ Send(301) /\ ret' = "Done" /\ UNCHANGED <<stack, req, at, call>>
             \/ /\ stack' = t /\ req' = [req EXCEPT !.urlhost = vh.url]
                /\ at' = "call" /\ UNCHANGED <<out, ret>>
      BY <1>8 DEF NextHost
    <2>2. CASE Send(301) /\ ret' = "Done" /\ UNCHANGED <<stack, req, at, call>>
      <3>1. OutInv' /\ out'.writes = 1
        <4>1. 301 \in 200..599
          OBVIOUS
        <4> QED BY <1>i, <1>r, <2>1, <2>2, <4>1, Sends
      <3>2. StageInv' /\ ReqInv' /\ PlaceInv'
        BY <1>g, <1>i, <2>1, <2>2, <3>1 DEF StageInv, Answered, ReqInv, PlaceInv, HostRestored, Top
      <3>3. Shape(stack') /\ ServersInv'
        BY <1>i, <2>1, <2>2, RanStays DEF HttpInv, Shape, ServersInv, ServersTwice, ServersAt
      <3> QED BY <2>1, <3>1, <3>2, <3>3 DEF HttpInv
    <2>3. CASE /\ stack' = t /\ req' = [req EXCEPT !.urlhost = vh.url]
               /\ at' = "call" /\ UNCHANGED <<out, ret>>
      <3>1. SameCalls(stack, t)
        BY <1>s, <2>1, ReplaceIs
      <3>2. IsRequest(req') /\ req'.portal = req.portal /\ req'.internal = req.internal
        <4> DEFINE x == vh.url
        <4>1. req' = [req EXCEPT !.urlhost = x]
          BY <2>3
        <4> HIDE DEF x
        <4> QED BY <1>i, <4>1, ReqSet
      <3>3. ReqInv'
        BY <1>g, <1>i, <2>1, <3>2 DEF ReqInv
      <3> HIDE DEF t
      <3> QED BY <2>1, <2>3, <3>1, <3>2, <3>3, HttpGoesOn
    <2> QED BY <2>1, <2>2, <2>3
  <1>9. CASE NextRoute
    <2>1. /\ at = "return" /\ Len(stack) > 0 /\ Top.kind \in {"mux", "group"}
          /\ ret = "Continue" /\ UNCHANGED <<table, reloads, out, ret, origin, ran>>
      BY <1>9 DEF NextRoute
    <2>2. CASE /\ stack' = Pop /\ UNCHANGED <<at, call>>
               /\ req' = IF Top.kind = "group" THEN Leaves ELSE req
      <3>1. /\ IsRequest(req') /\ req'.portal = req.portal /\ req'.internal = req.internal
            /\ Top.kind = "group" => req'.urlhost = req'.host
        BY <1>i, <2>2, ReqSet DEF Leaves
      <3>2. OutInv' /\ StageInv' /\ ReqInv'
        BY <1>g, <1>i, <2>1, <2>2, <3>1 DEF OutInv, StageInv, Answered, ReqInv
      <3> QED BY <2>1, <2>2, <3>1, <3>2, HttpReturns
    <2>3. CASE /\ Top.kind = "mux" /\ UNCHANGED req
               /\ stack' = Replace(Tail(Top.rest)) /\ at' \in {"call", "return"}
      <3> DEFINE t == Replace(Tail(Top.rest))
      <3>1. SameCalls(stack, t) /\ stack' = t
        BY <1>s, <2>1, <2>3, ReplaceIs
      <3>2. ReqInv'
        BY <1>g, <1>i, <2>1, <2>3 DEF ReqInv
      <3> HIDE DEF t
      <3> QED BY <2>1, <2>3, <3>1, <3>2, HttpGoesOn
    <2> QED BY <1>9, <2>1, <2>2, <2>3 DEF NextRoute
  <1>10. CASE EnterMux
    <2> DEFINE r == Handlers[call].routes
    <2>1. /\ at = "call" /\ at' = "return" /\ ret' = "Continue"
          /\ stack' = Append(stack, [kind |-> "mux", rest |-> r])
          /\ UNCHANGED <<table, reloads, req, out, call, origin>>
          /\ ran \subseteq ran'
      BY <1>10 DEF EnterMux, Calls, Result
    <2> HIDE DEF r
    <2>2. Pushed(stack, stack', "mux")
      BY <1>s, <2>1, PushIs
    <2>3. Len(stack) > 0 /\ Top.kind \in {"group", "mux"}
      BY <1>i, <2>1 DEF PlaceInv
    <2> QED BY <1>c, <2>1, <2>2, <2>3, HttpCalls
  <1>11. CASE InternalOnly
    <2>1. at = "call" /\ UNCHANGED <<table, reloads, req, stack, origin>> /\ ran \subseteq ran'
      BY <1>11 DEF InternalOnly, Calls
    <2>2. ReqInv'
      BY <1>g, <1>i, <2>1 DEF ReqInv
    <2>3. CASE Error(403)
      <3>1. 403 \in Int
        OBVIOUS
      <3>2. /\ OutInv'
            /\ \/ at' = "panic" /\ out' = out /\ ret' = ret
               \/ at' = "return" /\ ret' = "Done" /\ out'.writes = 1
        BY <1>i, <1>c, <2>1, <2>3, <3>1, Errors
      <3> QED BY <2>1, <2>2, <3>2, HandlerReturns
    <2>4. CASE UNCHANGED out /\ (UNCHANGED <<at, ret>> \/ Result("Continue"))
      <3>1. OutInv'
        BY <1>i, <2>4 DEF OutInv
      <3> QED BY <2>1, <2>2, <2>4, <3>1, HandlerReturns DEF Result
    <2> QED BY <1>11, <2>3, <2>4 DEF InternalOnly
  <1>12. CASE Directive
    <2> DEFINE p == Handlers[call].arg
               h == Handlers[call].host
               b == Handlers[call].kind = "set"
    <2>1. /\ at = "call" /\ at' = "return" /\ ret' = "Continue"
          /\ UNCHANGED <<table, reloads, out, stack, call, origin>>
          /\ ran' = ran \cup {call}
      BY <1>12 DEF Directive, Calls, Result
    <2>2. \/ req' = [req EXCEPT !.path = p]
          \/ req' = [req EXCEPT !.host = h]
          \/ req' = [req EXCEPT !.internal = TRUE] /\ LetsIn(call)
          \/ req' = [req EXCEPT !.internal = b] /\ (b => LetsIn(call))
          \/ req' = [req EXCEPT !.portal = b] /\ (~b => Unportaled')
          \/ req' = [req EXCEPT !.upgrade = b]
          \/ req' = req
      <3>1. Handlers[call].kind \in {"path", "host", "allow", "set", "delete", "pass"}
        BY <1>12 DEF Directive, Calls
      <3>2. Handlers[call].kind = "allow" => LetsIn(call)
        BY DEF LetsIn
      <3>3. b /\ p = "P-Internal" => LetsIn(call)
        BY DEF LetsIn
      <3>4. Handlers[call].kind = "delete" /\ p = "P-Portal" => Unportaled'
        BY <2>1 DEF Unportaled
      <3>5. CASE Handlers[call].kind \in {"set", "delete"}
        <4>1. req' = CASE p = "P-Internal" -> [req EXCEPT !.internal = b]
                       [] p = "P-Portal"   -> [req EXCEPT !.portal = b]
                       [] OTHER            -> [req EXCEPT !.upgrade = b]
          BY <1>12, <3>5 DEF Directive
        <4> HIDE DEF p, b
        <4>2. CASE p = "P-Internal"
          BY <3>3, <4>1, <4>2
        <4>3. CASE p = "P-Portal"
          <5>1. req' = [req EXCEPT !.portal = b]
            BY <4>1, <4>3
          <5>2. ~b => Unportaled'
            BY <3>4, <3>5, <4>3 DEF b
          <5> QED BY <5>1, <5>2
        <4>4. CASE p # "P-Internal" /\ p # "P-Portal"
          BY <4>1, <4>4
        <4> QED BY <4>2, <4>3, <4>4
      <3>6. CASE Handlers[call].kind \in {"path", "host", "allow", "pass"}
        BY <1>12, <3>2, <3>6 DEF Directive
      <3> QED BY <3>1, <3>5, <3>6
    <2>3. b \in BOOLEAN /\ TRUE \in BOOLEAN /\ (LetsIn(call) => Granted')
      BY <2>1 DEF Granted, LetsIn
    <2> HIDE DEF p, h, b
    <2>4. /\ IsRequest(req')
          /\ req'.portal = req.portal \/ req'.portal = TRUE \/ Unportaled'
          /\ req'.internal = req.internal \/ req'.internal = FALSE \/ Granted'
      <3>1. CASE req' = [req EXCEPT !.path = p]
        BY <1>i, <2>3, <3>1, ReqSet
      <3>2. CASE req' = [req EXCEPT !.host = h]
        BY <1>i, <2>3, <3>2, ReqSet
      <3>3. CASE req' = [req EXCEPT !.internal = TRUE] /\ LetsIn(call)
        BY <1>i, <2>3, <3>3, ReqSet
      <3>4. CASE req' = [req EXCEPT !.internal = b] /\ (b => LetsIn(call))
        BY <1>i, <2>3, <3>4, ReqSet, ZenonT(60)
      <3>5. CASE req' = [req EXCEPT !.portal = b] /\ (~b => Unportaled')
        BY <1>i, <2>3, <3>5, ReqSet, ZenonT(60)
      <3>6. CASE req' = [req EXCEPT !.upgrade = b]
        BY <1>i, <2>3, <3>6, ReqSet
      <3>7. CASE req' = req
        BY <1>i, <3>7
      <3> QED BY <2>2, <3>1, <3>2, <3>3, <3>4, <3>5, <3>6, <3>7
    <2>5. ReqInv' /\ OutInv'
      BY <1>g, <1>i, <2>1, <2>4 DEF ReqInv, OutInv
    <2> QED BY <2>1, <2>4, <2>5, HandlerReturns
  <1>13. CASE Portal
    <2>1. at = "call" /\ UNCHANGED <<table, reloads, stack, call, origin>> /\ ran' = ran \cup {call}
      BY <1>13 DEF Portal, Calls
    <2>2. CASE Error(1023) /\ UNCHANGED req
      <3>1. ReqInv'
        BY <1>g, <1>i, <2>1, <2>2 DEF ReqInv
      <3>2. 1023 \in Int
        OBVIOUS
      <3>3. /\ OutInv'
            /\ \/ at' = "panic" /\ out' = out /\ ret' = ret
               \/ at' = "return" /\ ret' = "Done" /\ out'.writes = 1
        BY <1>i, <1>c, <2>1, <2>2, <3>2, Errors
      <3> QED BY <2>1, <2>2, <3>1, <3>3, HandlerReturns, ZenonT(60)
    <2>3. CASE Send(StatusSent(522)) /\ at' = "panic" /\ UNCHANGED <<ret, req>>
      <3>1. ReqInv'
        BY <1>g, <1>i, <2>1, <2>3 DEF ReqInv
      <3>2. Send(502) /\ 502 \in 200..599
        BY <2>3, StatusIsHttp
      <3>3. OutInv'
        BY <1>i, <1>c, <2>1, <3>2, Sends
      <3> QED BY <2>1, <2>3, <3>1, <3>3, HandlerReturns
    <2>4. CASE /\ \E h : req' = Moved(h, Handlers[call].arg, TRUE)
               /\ at' = "serve" /\ UNCHANGED <<out, ret>> /\ ~req.portal
               /\ Handlers[call].kind = "portal"
      <3>1. req.portal = FALSE
        BY <1>i, <2>4 DEF IsRequest
      <3>2. IsRequest(req') /\ req'.urlhost = req'.host /\ req'.portal = TRUE
        <4> DEFINE p == Handlers[call].arg
        <4>1. PICK h : req' = Moved(h, p, TRUE)
          BY <2>4
        <4> HIDE DEF p
        <4>2. TRUE \in BOOLEAN
          OBVIOUS
        <4> QED BY <1>i, <4>1, <4>2, MovedIs
      <3>g. Granted'
        BY <2>1, <2>4 DEF Granted, LetsIn
      <3>3. ReqInv' /\ OutInv' /\ StageInv'
        BY <1>i, <1>c, <2>1, <2>4, <3>2, <3>g, ZenonT(60) DEF ReqInv, OutInv, StageInv
      <3>4. Unportaled \/ (ServersAt(stack, {1}) /\ \E m \in Nat : ServersAt(stack, {1, m}))
        BY <3>1 DEF HttpInv, ServersInv, ServersTwice
      <3>5. ServersInv' /\ Shape(stack')
        BY <1>i, <2>1, <3>4, RanStays DEF ServersInv, ServersTwice, ServersAt, Shape
      <3>6. PlaceInv'
        BY <1>i, <2>1, <2>4, <3>2 DEF PlaceInv, HostRestored, Top
      <3> QED BY <2>1, <3>3, <3>5, <3>6 DEF HttpInv
    <2> QED BY <1>13, <2>2, <2>3, <2>4, ZenonT(60) DEF Portal, Calls
  <1>14. CASE Status \/ Finish \/ Guard \/ Publish \/ Service
    <2>1. /\ at = "call" /\ UNCHANGED <<table, reloads, req, stack, call, origin>>
          /\ ran \subseteq ran'
      BY <1>h, <1>14 DEF Status, Finish, Guard, Publish, Service
    <2>2. ReqInv'
      BY <1>g, <1>i, <2>1 DEF ReqInv
    <2>3. ASSUME NEW code \in Int, Error(code) PROVE HttpInv'
      BY <1>i, <1>c, <2>1, <2>2, <2>3, Errors, HandlerReturns
    <2>a. ASSUME NEW code \in Int, Answer(code) PROVE HttpInv'
      BY <1>i, <1>c, <2>1, <2>2, <2>a, Answers, HandlerReturns
    <2>4. ASSUME NEW code \in 200..599, Send(code), Result("Done") PROVE HttpInv'
      BY <1>i, <1>c, <2>1, <2>2, <2>4, Sends, HandlerReturns, ZenonT(60) DEF Result
    <2>b. ASSUME WriteHeader(200, "other"), at' \in {"panic", "abort"}, ret' = ret
          PROVE  HttpInv'
      <3>1. OutInv'
        BY <1>i, <1>c, <2>1, <2>b, Writes
      <3> QED BY <2>1, <2>2, <2>b, <3>1, HandlerReturns
    <2>5. ASSUME Cut, Result("Done") PROVE HttpInv'
      BY <1>i, <2>1, <2>2, <2>5, Cuts, HandlerReturns DEF Result
    <2>6. ASSUME UNCHANGED out,
                 \/ Result("Continue") \/ Result("Drop")
                 \/ (at' \in {"panic", "abort"} /\ UNCHANGED ret)
          PROVE  HttpInv'
      <3>1. OutInv'
        BY <1>i, <2>6 DEF OutInv
      <3> QED BY <2>1, <2>2, <2>6, <3>1, HandlerReturns DEF Result
    <2>7. CASE Status
      BY <2>3, <2>7, HttpAssumption DEF Status, HttpAssumption
    <2>8. CASE Finish
      <3>1. \/ \E code \in Int : Answer(code)
            \/ \E code \in 200..599 : Send(code) /\ Result("Done")
            \/ Abort
            \/ UNCHANGED out /\ Result("Drop")
        BY <2>8, HttpAssumption DEF Finish, HttpAssumption
      <3> QED BY <2>a, <2>4, <2>6, <3>1 DEF Abort
    <2>9. CASE Guard
      <3>1. \/ Abort
            \/ UNCHANGED out /\ Result("Continue")
            \/ \E code \in {401, 429, 1021} : Error(code)
        BY <2>9 DEF Guard
      <3> QED BY <2>3, <2>6, <3>1 DEF Abort
    <2>10. CASE Publish
      <3>1. \/ \E code \in {503, 500, 1026, 200} : Error(code)
            \/ \E code \in Int : Answer(code)
            \/ Cut /\ Result("Done")
            \/ Send(200) /\ Result("Done")
        BY <2>10, HttpAssumption DEF Publish, HttpAssumption
      <3> QED BY <2>3, <2>a, <2>4, <2>5, <3>1
    <2>11. CASE Service
      <3>1. \/ \E code \in {503} : Error(code)
            \/ \E code \in Int : Answer(code)
            \/ UNCHANGED out /\ Result("Continue")
            \/ UNCHANGED out /\ at' \in {"panic", "abort"} /\ UNCHANGED ret
            \/ WriteHeader(200, "other") /\ at' \in {"panic", "abort"} /\ ret' = ret
        BY <2>11, HttpAssumption DEF Service, HttpAssumption
      <3> QED BY <2>3, <2>a, <2>b, <2>6, <3>1
    <2> QED BY <1>14, <2>7, <2>8, <2>9, <2>10, <2>11
  <1>15. CASE Recover
    <2>1. /\ at \in {"panic", "abort"} /\ at' = "over" /\ stack' = <<>>
          /\ UNCHANGED <<table, reloads, req, call, ret, origin, ran>>
          /\ Cut \/ (out.touched = FALSE /\ Send(StatusSent(1024)))
      <3>1. out.touched \in BOOLEAN
        BY <1>i DEF OutInv, Outs
      <3> QED BY <1>15, <3>1 DEF Recover
    <2>2. OutInv' /\ (out'.writes = 1 \/ out'.cut = TRUE)
      <3>1. CASE Cut
        BY <1>i, <3>1, Cuts
      <3>2. CASE out.touched = FALSE /\ Send(StatusSent(1024))
        <4>1. Send(502) /\ 502 \in 200..599
          BY <3>2, StatusIsHttp
        <4>2. out.writes = 0
          BY <1>i, <3>2 DEF OutInv
        <4> QED BY <1>i, <4>1, <4>2, Sends
      <3> QED BY <2>1, <3>1, <3>2
    <2>3. StageInv' /\ ReqInv' /\ PlaceInv'
      BY <1>g, <1>i, <2>1, <2>2 DEF StageInv, Answered, ReqInv, PlaceInv, HostRestored
    <2>4. Shape(stack') /\ ServersAt(stack', {1}) /\ ServersAt(stack', {1, 1})
      <3>1. stack' \in Seq({}) /\ Len(stack') = 0
        BY <2>1
      <3> QED BY <3>1 DEF Shape, ServersAt
    <2>5. ServersInv'
      <3>1. 1 \in Nat
        OBVIOUS
      <3> QED BY <2>4, <3>1 DEF ServersInv, ServersTwice
    <2> QED BY <2>1, <2>2, <2>3, <2>4, <2>5 DEF HttpInv
  <1>16. CASE UNCHANGED httpVars
    <2>1. UNCHANGED <<req, out, stack, at, ret, origin, ran>> /\ reloads' = reloads
      BY <1>16 DEF httpVars
    <2>2. reloads' \in 0..MaxReloads
      BY <2>1 DEF HttpInv
    <2> QED BY <2>1, <2>2, HttpStays
  <1> QED
    BY <1>1, <1>2, <1>3, <1>4, <1>5, <1>6, <1>7, <1>8, <1>9, <1>10, <1>11, <1>12, <1>13,
       <1>14, <1>15, <1>16
    DEF HttpNext

(* It is stronger than what the runs check.                                *)
LEMMA HttpImplies == HttpInv => AnswersCorrect
  <1> SUFFICES ASSUME HttpInv PROVE AnswersCorrect
    OBVIOUS
  <1>1. HttpTypeOK
    <2>1. req.internal \in BOOLEAN /\ req.portal \in BOOLEAN /\ req.upgrade \in BOOLEAN
      BY DEF HttpInv, ReqInv, IsRequest
    <2> QED BY <2>1 DEF HttpInv, OutInv, Outs, StageInv, HttpTypeOK
  <1>2. OneAnswer /\ SentIsHttp
    BY DEF HttpInv, OutInv, StageInv, Answered, OneAnswer, SentIsHttp
  <1>3. InternalIsEarned /\ HostRestored
    BY DEF HttpInv, ReqInv, Granted, InternalIsEarned, PlaceInv
  <1>4. PortalOnce
    BY TwoServers DEF HttpInv, ServersInv, ServersTwice, PortalOnce
  <1> QED BY <1>1, <1>2, <1>3, <1>4 DEF AnswersCorrect

-----------------------------------------------------------------------------
(* Client sessions and their blocks.                                       *)

HasSession(v) ==
  visit[v].at \in {"count", "start", "check", "serve", "ban", "swap"}
Early == {"off", "load", "new", "store"}
Stored(s) == s \in Visits /\ visit[s].at \notin Early

(* A request has a session that was stored, and its own has no block yet.  *)
VisitOk(v) ==
  /\ HasSession(v) <=> visit[v].ses # NoSession
  /\ HasSession(v) => Stored(visit[v].ses)
  /\ visit[v].at \in Early => client[v].until = 0

(* A block that is not over is on the session of its address, unless it    *)
(* was forgotten.                                                          *)
KnownOk(ip) ==
  /\ known[ip] # NoSession => Stored(known[ip])
  /\ \/ banned[ip] <= clock
     \/ ip \in lost
     \/ known[ip] # NoSession /\ banned[ip] <= client[known[ip]].until

(* The cleaner is about to delete a session that it found too old.         *)
SweepInv ==
  /\ sweep.at = "sleep" => sweep.gone = 0
  /\ sweep.at # "sleep" => sweep.before <= clock - Idle
  /\ sweep.at = "delete" =>
       known[sweep.ip] # NoSession /\ sweep.last < sweep.before

VisitInv ==
  /\ VisitTypeOK /\ ClientsExact /\ SweepInv
  /\ \A v \in Visits : VisitOk(v)
  /\ \A ip \in Addresses : KnownOk(ip)

(* What a step must not do.                                                *)
KeepsBlocks ==
  /\ \A v \in Visits :
       visit[v].at = "check" /\ visit'[v].at = "serve"
         => \/ banned[visit[v].ip] <= clock
            \/ visit[v].ip \in lost
            \/ visit[v].ses # known[visit[v].ip]
  /\ \A s \in Visits : client'[s].until >= client[s].until

Places == {"off", "load", "new", "store", "count", "start", "check", "serve", "ban",
           "swap", "end"}
VisitType == [at : Places, ip : Addresses, t : Times, ses : Visits \cup {NoSession},
              seen : Nat, block : Nat]

(* The constants.                                                          *)
LEMMA SessionConstants ==
  /\ MaxVisits \in Nat /\ Idle \in Nat /\ BlockTimes \subseteq Nat
  /\ MaxClock \in Nat
  /\ Addresses # {} /\ IsFiniteSet(Addresses)
BY SessionsAssumption DEF SessionsAssumption

(* The sets that are counted are finite.                                   *)
LEMMA CountsFinite ==
  /\ IsFiniteSet({v \in Visits : visit[v].at = "count"})
  /\ IsFiniteSet({ip \in Addresses : known[ip] # NoSession})
  <1>1. IsFiniteSet(Visits)
    BY SessionConstants, FS_Interval DEF Visits
  <1>2. {v \in Visits : visit[v].at = "count"} \subseteq Visits
    OBVIOUS
  <1>3. {ip \in Addresses : known[ip] # NoSession} \subseteq Addresses
    OBVIOUS
  <1> QED BY <1>1, <1>2, <1>3, SessionConstants, FS_Subset

(* Nothing happened yet.                                                   *)
LEMMA VisitStart == VisitInit => VisitInv
  <1> SUFFICES ASSUME VisitInit PROVE VisitInv
    OBVIOUS
  <1>1. NoSweep.ip \in Addresses /\ NoSweep.at = "sleep" /\ NoSweep.gone = 0
    BY SessionConstants DEF NoSweep, Sweep
  <1>2. NoSweep \in [at : {"sleep", "range", "delete"},
                     todo : SUBSET Addresses, ip : Addresses,
                     before : -Idle..MaxClock, last : Times, gone : Nat]
    BY SessionConstants DEF NoSweep, Sweep, Times
  <1>3. \A v \in Visits : /\ visit[v] \in VisitType /\ visit[v].at = "off"
                          /\ visit[v].ses = NoSession
                          /\ client[v] = NewClient(0)
    BY <1>1, SessionConstants DEF VisitInit, Visit, VisitType, Places, Times
  <1>4. NewClient(0) \in [last : Times, until : Nat] /\ NewClient(0).until = 0
    BY SessionConstants DEF NewClient, Times
  <1>5. VisitTypeOK
    <2>1. visit \in [Visits -> VisitType]
      BY <1>3 DEF VisitInit
    <2>2. client \in [Visits -> [last : Times, until : Nat]]
      BY <1>4 DEF VisitInit
    <2> QED BY <1>2, <2>1, <2>2, SessionConstants
            DEF VisitInit, VisitTypeOK, VisitType, Places, Times
  <1>6. \A v \in Visits : VisitOk(v)
    BY <1>3, <1>4 DEF VisitOk, HasSession, Early, NoSession, Visits
  <1>7. \A ip \in Addresses : KnownOk(ip)
    BY SessionConstants DEF VisitInit, KnownOk
  <1>8. SweepInv
    BY <1>1 DEF VisitInit, SweepInv
  <1>9. ClientsExact
    <2>1. {v \in Visits : visit[v].at = "count"} = {}
      BY <1>3
    <2>2. {ip \in Addresses : known[ip] # NoSession} = {}
      BY DEF VisitInit
    <2>3. Cardinality({}) = 0
      BY FS_EmptySet
    <2>4. clients = 0 /\ sweep.gone = 0
      BY <1>1 DEF VisitInit
    <2>5. clients + 0 - sweep.gone = 0
      BY <2>4
    <2> QED BY <2>1, <2>2, <2>3, <2>5 DEF ClientsExact
  <1> QED BY <1>5, <1>6, <1>7, <1>8, <1>9 DEF VisitInv

(* The counter is right as long as nobody is counted or forgotten.         *)
LEMMA CountStays ==
  ASSUME ClientsExact, known' = known, clients' = clients, sweep'.gone = sweep.gone,
         \A w \in Visits : visit'[w].at = "count" <=> visit[w].at = "count"
  PROVE  ClientsExact'
  <1>1. {w \in Visits : visit'[w].at = "count"} = {w \in Visits : visit[w].at = "count"}
    OBVIOUS
  <1> QED BY <1>1 DEF ClientsExact

(* Requests that do not move are as good as before.                        *)
LEMMA OthersStay ==
  ASSUME VisitInv, NEW w \in Visits, visit'[w] = visit[w],
         \A s \in Visits : Stored(s) => Stored(s)',
         visit[w].at \in Early => client'[w].until = client[w].until
  PROVE  VisitOk(w)'
  <1>1. VisitOk(w)
    BY DEF VisitInv
  <1>2. HasSession(w)' = HasSession(w)
    BY DEF HasSession
  <1>3. HasSession(w) => Stored(visit[w].ses)'
    BY <1>1 DEF VisitOk, Stored
  <1> QED BY <1>1, <1>2, <1>3 DEF VisitOk

(* Addresses whose session and block stay are as good as before.           *)
LEMMA AddressesStay ==
  ASSUME VisitInv, VisitTypeOK', NEW ip \in Addresses, clock' = clock,
         known'[ip] = known[ip], banned'[ip] = banned[ip],
         ip \in lost => ip \in lost',
         \A s \in Visits : Stored(s) => Stored(s)',
         \A s \in Visits : client'[s].until >= client[s].until
  PROVE  KnownOk(ip)'
  <1>1. KnownOk(ip)
    BY DEF VisitInv
  <1>2. /\ clock \in Int /\ banned[ip] \in Int
        /\ \A s \in Visits : client[s].until \in Int /\ client'[s].until \in Int
    BY SessionConstants DEF VisitInv, VisitTypeOK, Times
  <1>3. known[ip] # NoSession => known[ip] \in Visits /\ Stored(known[ip])'
    BY <1>1 DEF KnownOk, Stored
  <1>4. known[ip] # NoSession /\ banned[ip] <= client[known[ip]].until
          => banned[ip] <= client'[known[ip]].until
    BY <1>2, <1>3
  <1> QED BY <1>1, <1>3, <1>4 DEF KnownOk

(* A request takes a step.                                                 *)
LEMMA VisitorMoves ==
  ASSUME VisitInv, VisitTypeOK', NEW v \in Visits, clock' = clock, sweep' = sweep,
         ClientsExact', VisitOk(v)',
         \A w \in Visits : w # v => visit'[w] = visit[w],
         Stored(v) => Stored(v)',
         \A s \in Visits : client'[s].until >= client[s].until,
         \A w \in Visits : w # v /\ visit[w].at \in Early
                           => client'[w].until = client[w].until,
         \A ip \in Addresses : \/ /\ known'[ip] = known[ip] /\ banned'[ip] = banned[ip]
                                  /\ ip \in lost => ip \in lost'
                               \/ KnownOk(ip)',
         \A ip \in Addresses : known[ip] # NoSession => known'[ip] # NoSession,
         visit[v].at = "check" /\ visit'[v].at = "serve"
           => \/ banned[visit[v].ip] <= clock
              \/ visit[v].ip \in lost
              \/ visit[v].ses # known[visit[v].ip]
  PROVE  VisitInv' /\ KeepsBlocks
  <1>1. \A s \in Visits : Stored(s) => Stored(s)'
    BY DEF Stored
  <1>2. ASSUME NEW w \in Visits PROVE VisitOk(w)'
    <2>1. CASE w = v
      BY <2>1
    <2>2. CASE w # v
      BY <1>1, <2>2, OthersStay
    <2> QED BY <2>1, <2>2
  <1>3. ASSUME NEW ip \in Addresses PROVE KnownOk(ip)'
    BY <1>1, AddressesStay
  <1>4. SweepInv'
    <2>1. sweep.at = "delete" => sweep.ip \in Addresses /\ known'[sweep.ip] # NoSession
      BY DEF VisitInv, SweepInv, VisitTypeOK
    <2> QED BY <2>1 DEF VisitInv, SweepInv
  <1>5. KeepsBlocks
    BY DEF KeepsBlocks
  <1> QED BY <1>2, <1>3, <1>4, <1>5 DEF VisitInv

(* Goto moves one request, and one that is over has no session.            *)
LEMMA GotoDoes ==
  ASSUME VisitInv, NEW v \in Visits, NEW place \in Places, Goto(v, place)
  PROVE  /\ visit' \in [Visits -> VisitType]
         /\ \A w \in Visits : w # v => visit'[w] = visit[w]
         /\ visit'[v].at = place /\ visit'[v].ip = visit[v].ip
         /\ place \in Ended => visit'[v].ses = NoSession
         /\ place \notin Ended =>
              /\ visit'[v].t = visit[v].t /\ visit'[v].ses = visit[v].ses
              /\ visit'[v].seen = visit[v].seen /\ visit'[v].block = visit[v].block
  <1>1. visit \in [Visits -> VisitType]
    BY DEF VisitInv, VisitTypeOK, VisitType, Places
  <1>2. CASE place \in Ended
    <2>1. visit' = [visit EXCEPT ![v] = Visit(place, visit[v].ip, 0)]
      BY <1>2 DEF Goto
    <2>2. visit[v].ip \in Addresses
      BY <1>1 DEF VisitType
    <2>3. Visit(place, visit[v].ip, 0) \in VisitType
      BY <2>2, SessionConstants DEF Visit, VisitType, Times
    <2>4. /\ Visit(place, visit[v].ip, 0).at = place
          /\ Visit(place, visit[v].ip, 0).ip = visit[v].ip
          /\ Visit(place, visit[v].ip, 0).ses = NoSession
      BY DEF Visit
    <2> QED BY <1>1, <1>2, <2>1, <2>3, <2>4
  <1>3. CASE place \notin Ended
    <2>1. visit' = [visit EXCEPT ![v].at = place]
      BY <1>3 DEF Goto
    <2> QED BY <1>1, <1>3, <2>1 DEF VisitType
  <1> QED BY <1>2, <1>3

(* The lookup: the request has the session of its address, if any.         *)
LEMMA LoadDoes ==
  ASSUME VisitInv, NEW v \in Visits, LoadSession(v)
  PROVE  /\ visit' \in [Visits -> VisitType]
         /\ \A w \in Visits : w # v => visit'[w] = visit[w]
         /\ visit'[v].at = IF known[visit[v].ip] = NoSession THEN "new" ELSE "start"
         /\ visit'[v].ip = visit[v].ip /\ visit'[v].t = visit[v].t
         /\ visit'[v].ses = known[visit[v].ip]
  <1>1. visit \in [Visits -> VisitType]
    BY DEF VisitInv, VisitTypeOK, VisitType, Places
  <1>2. known[visit[v].ip] \in Visits \cup {NoSession}
    BY <1>1 DEF VisitInv, VisitTypeOK, VisitType
  <1> QED BY <1>1, <1>2, ZenonT(60) DEF LoadSession, VisitType, Places

(* What the types say of a request, its session and its address.           *)
LEMMA VisitFacts ==
  ASSUME VisitInv, NEW v \in Visits
  PROVE  /\ visit \in [Visits -> VisitType] /\ visit[v] \in VisitType
         /\ visit[v].ip \in Addresses /\ visit[v].at \in Places
         /\ visit[v].ses \in Visits \cup {NoSession}
         /\ clock \in Int /\ visit[v].t \in Int /\ visit[v].block \in Int
         /\ visit[v].seen \in Int
         /\ \A s \in Visits : client[s].last \in Int /\ client[s].until \in Int
         /\ VisitOk(v) /\ KnownOk(visit[v].ip)
         /\ known[visit[v].ip] \in Visits \cup {NoSession}
         /\ NoSession \notin Visits
  <1>1. visit \in [Visits -> VisitType]
    BY DEF VisitInv, VisitTypeOK, VisitType, Places
  <1>2. visit[v] \in VisitType /\ visit[v].ip \in Addresses
    BY <1>1 DEF VisitType
  <1>3. /\ clock \in Int /\ visit[v].t \in Int /\ visit[v].block \in Int
        /\ visit[v].seen \in Int
        /\ \A s \in Visits : client[s].last \in Int /\ client[s].until \in Int
    BY <1>2, SessionConstants DEF VisitType, VisitInv, VisitTypeOK, Times
  <1> QED BY <1>1, <1>2, <1>3 DEF VisitInv, VisitTypeOK, VisitType, NoSession, Visits

(* Arrive                                                                  *)
LEMMA Arrives ==
  ASSUME VisitInv, NEW v \in Visits, NEW ip \in Addresses, Arrive(v, ip)
  PROVE  VisitInv' /\ KeepsBlocks
  <1> DEFINE x == Visit("load", ip, clock)
  <1>1. x \in VisitType /\ x.at = "load" /\ x.t = clock /\ x.ses = NoSession
    BY SessionConstants DEF Visit, VisitType, Places, VisitInv, VisitTypeOK, Times
  <1>2. visit' = [visit EXCEPT ![v] = x] /\ visit[v].at = "off"
    BY DEF Arrive
  <1> HIDE DEF x
  <1>3. /\ visit' \in [Visits -> VisitType] /\ visit'[v] = x
        /\ \A w \in Visits : w # v => visit'[w] = visit[w]
    BY <1>1, <1>2, VisitFacts
  <1>4. VisitTypeOK'
    BY <1>3 DEF VisitInv, VisitTypeOK, VisitType, Places, Arrive
  <1>5. ClientsExact'
    <2>1. \A w \in Visits : visit'[w].at = "count" <=> visit[w].at = "count"
      BY <1>1, <1>2, <1>3
    <2> QED BY <2>1, CountStays DEF Arrive, VisitInv
  <1>6. client[v].until = 0 /\ ~Stored(v)
    BY <1>2, VisitFacts DEF VisitOk, Early, Stored
  <1>7. VisitOk(v)'
    <2>1. /\ visit'[v].at = "load" /\ visit'[v].t = clock /\ visit'[v].ses = NoSession
      BY <1>1, <1>3
    <2>2. clock' = clock /\ client' = client
      BY DEF Arrive
    <2> QED BY <1>6, <2>1, <2>2, VisitFacts, SessionConstants
            DEF VisitOk, HasSession, Early
  <1>8. /\ clock' = clock /\ sweep' = sweep /\ lost' = lost /\ client' = client
        /\ known' = known /\ banned' = banned
    BY DEF Arrive
  <1> QED BY <1>1, <1>2, <1>3, <1>4, <1>5, <1>6, <1>7, <1>8, VisitorMoves, VisitFacts

(* LoadSession: the session found was stored, so another request made it.  *)
LEMMA Loads ==
  ASSUME VisitInv, NEW v \in Visits, LoadSession(v)
  PROVE  VisitInv' /\ KeepsBlocks
  <1>1. /\ clock' = clock /\ sweep' = sweep /\ lost' = lost /\ client' = client
        /\ known' = known /\ banned' = banned /\ clients' = clients
        /\ visit[v].at = "load"
    BY DEF LoadSession
  <1>2. VisitTypeOK'
    BY <1>1, LoadDoes DEF VisitInv, VisitTypeOK, VisitType, Places
  <1>3. visit'[v].at # "count"
    BY LoadDoes
  <1>4. ClientsExact'
    <2>1. \A w \in Visits : visit'[w].at = "count" <=> visit[w].at = "count"
      BY <1>1, <1>3, LoadDoes
    <2> QED BY <1>1, <2>1, CountStays DEF VisitInv
  <1>5. client[v].until = 0 /\ ~Stored(v)
    BY <1>1, VisitFacts DEF VisitOk, Early, Stored
  <1>6. \A s \in Visits : Stored(s) => Stored(s)'
    BY <1>5, LoadDoes DEF Stored
  <1>7. VisitOk(v)'
    <2>1. CASE known[visit[v].ip] = NoSession
      <3>1. visit'[v].at = "new" /\ visit'[v].ses = NoSession
        BY <2>1, LoadDoes
      <3> QED BY <1>1, <1>5, <3>1, LoadDoes, VisitFacts
              DEF VisitOk, HasSession, Early
    <2>2. CASE known[visit[v].ip] # NoSession
      <3>1. visit'[v].at = "start" /\ visit'[v].ses = known[visit[v].ip]
        BY <2>2, LoadDoes
      <3>2. Stored(known[visit[v].ip]) /\ known[visit[v].ip] \in Visits
        BY <2>2, VisitFacts DEF KnownOk, Stored
      <3>3. visit'[v].ses # v /\ Stored(visit[v].ses)'
        BY <1>5, <1>6, <3>1, <3>2, LoadDoes DEF Stored
      <3> QED BY <1>1, <1>5, <2>2, <3>1, <3>3, LoadDoes, VisitFacts
              DEF VisitOk, HasSession, Early
    <2> QED BY <2>1, <2>2
  <1> QED BY <1>1, <1>2, <1>3, <1>4, <1>5, <1>7, LoadDoes, VisitorMoves, VisitFacts

(* A request is over.                                                      *)
LEMMA VisitEnds ==
  ASSUME VisitInv, NEW v \in Visits, visit[v].at # "count", Goto(v, "end"),
         UNCHANGED <<clock, known, client, clients, sweep, banned, lost>>
  PROVE  VisitInv' /\ KeepsBlocks
  <1>1. /\ visit' \in [Visits -> VisitType] /\ visit'[v].at = "end"
        /\ visit'[v].ses = NoSession
        /\ \A w \in Visits : w # v => visit'[w] = visit[w]
    BY GotoDoes DEF Places, Ended
  <1>2. VisitTypeOK'
    BY <1>1 DEF VisitInv, VisitTypeOK, VisitType, Places
  <1>3. ClientsExact'
    <2>1. \A w \in Visits : visit'[w].at = "count" <=> visit[w].at = "count"
      BY <1>1
    <2> QED BY <2>1, CountStays DEF VisitInv
  <1>4. VisitOk(v)'
    BY <1>1, VisitFacts DEF VisitOk, HasSession, Early
  <1>5. Stored(v) => Stored(v)'
    BY <1>1 DEF Stored, Early
  <1>6. visit'[v].at # "serve"
    BY <1>1
  <1> QED BY <1>1, <1>2, <1>3, <1>4, <1>5, <1>6, VisitorMoves, VisitFacts

(* NewSession: nobody has this session yet.                                *)
LEMMA NewSessions ==
  ASSUME VisitInv, NEW v \in Visits, NewSession(v)
  PROVE  VisitInv' /\ KeepsBlocks
  <1>1. /\ clock' = clock /\ sweep' = sweep /\ lost' = lost
        /\ known' = known /\ banned' = banned /\ clients' = clients
        /\ visit[v].at = "new" /\ Goto(v, "store")
        /\ client' = [client EXCEPT ![v] = NewClient(visit[v].t)]
    BY DEF NewSession
  <1>2. /\ visit' \in [Visits -> VisitType] /\ visit'[v].at = "store"
        /\ visit'[v].ses = visit[v].ses /\ visit'[v].t = visit[v].t
        /\ \A w \in Visits : w # v => visit'[w] = visit[w]
    BY <1>1, GotoDoes DEF Places, Ended
  <1>3. /\ NewClient(visit[v].t) \in [last : Times, until : Nat]
        /\ NewClient(visit[v].t).last = visit[v].t /\ NewClient(visit[v].t).until = 0
    BY VisitFacts, SessionConstants DEF NewClient, VisitType
  <1>4. /\ client' \in [Visits -> [last : Times, until : Nat]]
        /\ client'[v].last = visit[v].t /\ client'[v].until = 0
        /\ \A s \in Visits : s # v => client'[s] = client[s]
    BY <1>1, <1>3 DEF VisitInv, VisitTypeOK
  <1>5. VisitTypeOK'
    BY <1>1, <1>2, <1>4 DEF VisitInv, VisitTypeOK, VisitType, Places
  <1>6. ClientsExact'
    <2>1. \A w \in Visits : visit'[w].at = "count" <=> visit[w].at = "count"
      BY <1>1, <1>2
    <2> QED BY <1>1, <2>1, CountStays DEF VisitInv
  <1>7. client[v].until = 0 /\ ~Stored(v) /\ visit[v].ses = NoSession
    BY <1>1, VisitFacts DEF VisitOk, Early, Stored, HasSession
  <1>8. VisitOk(v)'
    BY <1>1, <1>2, <1>4, <1>7, VisitFacts
    DEF VisitOk, HasSession, Early
  <1>9. \A s \in Visits : client'[s].until >= client[s].until
    BY <1>4, <1>7, VisitFacts
  <1> QED BY <1>1, <1>2, <1>4, <1>5, <1>6, <1>7, <1>8, <1>9, VisitorMoves

(* LoadOrStore: the session of the address, or the one just made.          *)
LEMMA StoreDoes ==
  ASSUME VisitInv, NEW v \in Visits, LoadOrStore(v)
  PROVE  /\ visit' \in [Visits -> VisitType]
         /\ \A w \in Visits : w # v => visit'[w] = visit[w]
         /\ visit'[v].at = IF known[visit[v].ip] = NoSession THEN "count" ELSE "start"
         /\ visit'[v].ip = visit[v].ip /\ visit'[v].t = visit[v].t
         /\ visit'[v].ses = IF known[visit[v].ip] = NoSession THEN v
                            ELSE known[visit[v].ip]
  <1>1. PICK s, p : /\ s = IF known[visit[v].ip] = NoSession THEN v
                            ELSE known[visit[v].ip]
                    /\ p = IF known[visit[v].ip] = NoSession THEN "count" ELSE "start"
    OBVIOUS
  <1>2. PICK r : r = [visit[v] EXCEPT !.ses = s, !.at = p]
    OBVIOUS
  <1>3. visit' = [visit EXCEPT ![v] = r]
    BY <1>1, <1>2 DEF LoadOrStore
  <1>4. s \in Visits \cup {NoSession} /\ p \in Places
    BY <1>1, VisitFacts DEF Places
  <1>5. visit \in [Visits -> VisitType] /\ visit[v] \in VisitType
    BY VisitFacts
  <1>6. /\ r \in VisitType /\ r.at = p /\ r.ses = s
        /\ r.ip = visit[v].ip /\ r.t = visit[v].t
    BY <1>2, <1>4, <1>5 DEF VisitType
  <1> QED BY <1>1, <1>3, <1>5, <1>6

(* LoadOrStore, when another request was first.                            *)
LEMMA StoresOther ==
  ASSUME VisitInv, NEW v \in Visits, LoadOrStore(v), known[visit[v].ip] # NoSession
  PROVE  VisitInv' /\ KeepsBlocks
  <1>1. /\ clock' = clock /\ sweep' = sweep /\ lost' = lost /\ client' = client
        /\ known' = known /\ banned' = banned /\ clients' = clients
        /\ visit[v].at = "store"
    BY DEF LoadOrStore
  <1>2. VisitTypeOK'
    BY <1>1, StoreDoes DEF VisitInv, VisitTypeOK, VisitType, Places
  <1>3. visit'[v].at = "start" /\ visit'[v].ses = known[visit[v].ip]
    BY StoreDoes
  <1>4. ClientsExact'
    <2>1. \A w \in Visits : visit'[w].at = "count" <=> visit[w].at = "count"
      BY <1>1, <1>3, StoreDoes
    <2> QED BY <1>1, <2>1, CountStays DEF VisitInv
  <1>5. client[v].until = 0 /\ ~Stored(v)
    BY <1>1, VisitFacts DEF VisitOk, Early, Stored
  <1>6. \A s \in Visits : Stored(s) => Stored(s)'
    BY <1>5, StoreDoes DEF Stored
  <1>7. Stored(known[visit[v].ip]) /\ known[visit[v].ip] \in Visits
    BY VisitFacts DEF KnownOk, Stored
  <1>8. visit'[v].ses # v /\ Stored(visit[v].ses)'
    BY <1>3, <1>5, <1>6, <1>7 DEF Stored
  <1>9. VisitOk(v)'
    BY <1>1, <1>3, <1>5, <1>8, StoreDoes, VisitFacts
    DEF VisitOk, HasSession, Early
  <1> QED BY <1>1, <1>2, <1>3, <1>4, <1>5, <1>9, StoreDoes, VisitorMoves, VisitFacts

(* LoadOrStore, when it was first: a block of the address is over or       *)
(* forgotten.                                                              *)
LEMMA StoresNew ==
  ASSUME VisitInv, NEW v \in Visits, LoadOrStore(v), known[visit[v].ip] = NoSession
  PROVE  VisitInv' /\ KeepsBlocks
  <1>1. /\ clock' = clock /\ sweep' = sweep /\ lost' = lost /\ client' = client
        /\ known' = [known EXCEPT ![visit[v].ip] = v] /\ banned' = banned
        /\ clients' = clients /\ visit[v].at = "store"
    BY DEF LoadOrStore
  <1>2. /\ visit'[v].at = "count" /\ visit'[v].ses = v /\ visit'[v].ip = visit[v].ip
        /\ visit'[v].t = visit[v].t
    BY StoreDoes
  <1>3. /\ known' \in [Addresses -> Visits \cup {NoSession}] /\ known'[visit[v].ip] = v
        /\ \A ip \in Addresses : ip # visit[v].ip => known'[ip] = known[ip]
    BY <1>1, VisitFacts DEF VisitInv, VisitTypeOK
  <1>4. VisitTypeOK'
    BY <1>1, <1>3, StoreDoes DEF VisitInv, VisitTypeOK, VisitType, Places
  <1>5. ClientsExact'
    <2> DEFINE C == {w \in Visits : visit[w].at = "count"}
               K == {ip \in Addresses : known[ip] # NoSession}
               C1 == {w \in Visits : visit'[w].at = "count"}
               K1 == {ip \in Addresses : known'[ip] # NoSession}
    <2>1. C1 = C \cup {v} /\ v \notin C
      BY <1>1, <1>2, StoreDoes
    <2>2. K1 = K \cup {visit[v].ip} /\ visit[v].ip \notin K
      BY <1>3, VisitFacts
    <2>3. IsFiniteSet(C) /\ IsFiniteSet(K)
      BY CountsFinite
    <2>4. clients + Cardinality(C) - sweep.gone = Cardinality(K)
      BY DEF VisitInv, ClientsExact
    <2>5. clients' + Cardinality(C1) - sweep'.gone = Cardinality(K1) => ClientsExact'
      BY DEF ClientsExact
    <2>6. clients \in Int /\ sweep.gone \in Int
      BY DEF VisitInv, VisitTypeOK
    <2> HIDE DEF C, K, C1, K1
    <2>7. Cardinality(C1) = Cardinality(C) + 1 /\ Cardinality(K1) = Cardinality(K) + 1
      BY <2>1, <2>2, <2>3, FS_AddElement
    <2>8. Cardinality(C) \in Int /\ Cardinality(K) \in Int
      BY <2>3, FS_CardinalityType
    <2>9. clients' + Cardinality(C1) - sweep'.gone = Cardinality(K1)
      BY <1>1, <2>4, <2>6, <2>7, <2>8
    <2> QED BY <2>5, <2>9
  <1>6. client[v].until = 0 /\ ~Stored(v)
    BY <1>1, VisitFacts DEF VisitOk, Early, Stored
  <1>7. Stored(v)'
    BY <1>2 DEF Stored, Early
  <1>8. VisitOk(v)'
    BY <1>1, <1>2, <1>3, <1>6, <1>7, VisitFacts, SessionConstants
    DEF VisitOk, HasSession, Early
  <1>9. KnownOk(visit[v].ip)'
    <2>1. banned[visit[v].ip] <= clock \/ visit[v].ip \in lost
      BY VisitFacts DEF KnownOk
    <2> QED BY <1>1, <1>2, <1>3, <1>7, <2>1 DEF KnownOk
  <1>10. ASSUME NEW ip \in Addresses
         PROVE \/ /\ known'[ip] = known[ip] /\ banned'[ip] = banned[ip]
                  /\ ip \in lost => ip \in lost'
               \/ KnownOk(ip)'
    <2>1. CASE ip = visit[v].ip
      BY <1>2, <1>9, <2>1 DEF KnownOk
    <2>2. CASE ip # visit[v].ip
      BY <1>1, <1>3, <2>2
    <2> QED BY <2>1, <2>2
  <1>11. \A ip \in Addresses : known[ip] # NoSession => known'[ip] # NoSession
    BY <1>3, VisitFacts
  <1> QED BY <1>1, <1>2, <1>4, <1>5, <1>6, <1>8, <1>10, <1>11, StoreDoes, VisitorMoves,
             VisitFacts

(* CountSession: one session in the map less is uncounted.                 *)
LEMMA Counts ==
  ASSUME VisitInv, NEW v \in Visits, CountSession(v)
  PROVE  VisitInv' /\ KeepsBlocks
  <1>1. /\ clock' = clock /\ sweep' = sweep /\ lost' = lost /\ client' = client
        /\ known' = known /\ banned' = banned /\ clients' = clients + 1
        /\ visit[v].at = "count" /\ Goto(v, "start")
    BY DEF CountSession
  <1>2. /\ visit' \in [Visits -> VisitType] /\ visit'[v].at = "start"
        /\ visit'[v].ses = visit[v].ses /\ visit'[v].t = visit[v].t
        /\ visit'[v].ip = visit[v].ip
        /\ \A w \in Visits : w # v => visit'[w] = visit[w]
    BY <1>1, GotoDoes DEF Places, Ended
  <1>3. VisitTypeOK'
    BY <1>1, <1>2 DEF VisitInv, VisitTypeOK, VisitType, Places
  <1>4. ClientsExact'
    <2> DEFINE C == {w \in Visits : visit[w].at = "count"}
               K == {ip \in Addresses : known[ip] # NoSession}
               C1 == {w \in Visits : visit'[w].at = "count"}
               K1 == {ip \in Addresses : known'[ip] # NoSession}
    <2>1. C1 = C \ {v} /\ v \in C
      BY <1>1, <1>2
    <2>2. K1 = K
      BY <1>1
    <2>3. IsFiniteSet(C) /\ IsFiniteSet(K)
      BY CountsFinite
    <2>4. clients + Cardinality(C) - sweep.gone = Cardinality(K)
      BY DEF VisitInv, ClientsExact
    <2>5. clients' + Cardinality(C1) - sweep'.gone = Cardinality(K1) => ClientsExact'
      BY DEF ClientsExact
    <2>6. clients \in Int /\ sweep.gone \in Int
      BY DEF VisitInv, VisitTypeOK
    <2> HIDE DEF C, K, C1, K1
    <2>7. Cardinality(C1) = Cardinality(C) - 1
      BY <2>1, <2>3, FS_RemoveElement
    <2>8. Cardinality(C) \in Int /\ Cardinality(K) \in Int
      BY <2>3, FS_CardinalityType
    <2>9. clients' + Cardinality(C1) - sweep'.gone = Cardinality(K1)
      BY <1>1, <2>2, <2>4, <2>6, <2>7, <2>8
    <2> QED BY <2>5, <2>9
  <1>5. Stored(visit[v].ses)' /\ Stored(v)' /\ visit[v].ses # NoSession
    BY <1>1, <1>2, VisitFacts DEF Stored, Early, VisitOk, HasSession
  <1>6. VisitOk(v)'
    BY <1>1, <1>2, <1>5, VisitFacts
    DEF VisitOk, HasSession, Early
  <1> QED BY <1>1, <1>2, <1>3, <1>4, <1>5, <1>6, VisitorMoves, VisitFacts

(* StartRequest: the stamp may go back.                                    *)
LEMMA Starts ==
  ASSUME VisitInv, NEW v \in Visits, StartRequest(v)
  PROVE  VisitInv' /\ KeepsBlocks
  <1>1. /\ clock' = clock /\ sweep' = sweep /\ lost' = lost
        /\ known' = known /\ banned' = banned /\ clients' = clients
        /\ visit[v].at = "start" /\ Goto(v, "check")
        /\ client' = [client EXCEPT ![visit[v].ses].last = visit[v].t]
    BY DEF StartRequest
  <1>2. /\ visit' \in [Visits -> VisitType] /\ visit'[v].at = "check"
        /\ visit'[v].ses = visit[v].ses /\ visit'[v].t = visit[v].t
        /\ visit'[v].ip = visit[v].ip
        /\ \A w \in Visits : w # v => visit'[w] = visit[w]
    BY <1>1, GotoDoes DEF Places, Ended
  <1>3. visit[v].ses \in Visits /\ Stored(visit[v].ses)
    BY <1>1, VisitFacts DEF VisitOk, HasSession, Stored
  <1>4. /\ client' \in [Visits -> [last : Times, until : Nat]]
        /\ client'[visit[v].ses].last = visit[v].t
        /\ \A s \in Visits : client'[s].until = client[s].until
        /\ \A s \in Visits : s # visit[v].ses => client'[s] = client[s]
    BY <1>1, <1>3, VisitFacts DEF VisitInv, VisitTypeOK, VisitType
  <1>5. VisitTypeOK'
    BY <1>1, <1>2, <1>4 DEF VisitInv, VisitTypeOK, VisitType, Places
  <1>6. ClientsExact'
    <2>1. \A w \in Visits : visit'[w].at = "count" <=> visit[w].at = "count"
      BY <1>1, <1>2
    <2> QED BY <1>1, <2>1, CountStays DEF VisitInv
  <1>7. Stored(v)' /\ Stored(visit[v].ses)'
    BY <1>2, <1>3 DEF Stored, Early
  <1>8. VisitOk(v)'
    BY <1>1, <1>2, <1>3, <1>4, <1>7, VisitFacts, SessionConstants
    DEF VisitOk, HasSession, Early
  <1>9. \A s \in Visits : client'[s].until >= client[s].until
    BY <1>4, VisitFacts
  <1>10. \A w \in Visits : w # v /\ visit[w].at \in Early
                           => client'[w].until = client[w].until
    BY <1>4
  <1> QED BY <1>1, <1>2, <1>5, <1>6, <1>7, <1>8, <1>9, <1>10, VisitorMoves

(* CheckBlocked, when the session is not blocked: if it is the one of the  *)
(* address, a block of the address is over or forgotten.                   *)
LEMMA Passes ==
  ASSUME VisitInv, NEW v \in Visits, visit[v].at = "check", Goto(v, "serve"),
         client[visit[v].ses].until <= clock,
         UNCHANGED <<clock, known, client, clients, sweep, banned, lost>>
  PROVE  VisitInv' /\ KeepsBlocks
  <1>1. /\ visit' \in [Visits -> VisitType] /\ visit'[v].at = "serve"
        /\ visit'[v].ses = visit[v].ses /\ visit'[v].t = visit[v].t
        /\ visit'[v].ip = visit[v].ip
        /\ \A w \in Visits : w # v => visit'[w] = visit[w]
    BY GotoDoes DEF Places, Ended
  <1>2. VisitTypeOK'
    BY <1>1 DEF VisitInv, VisitTypeOK, VisitType, Places
  <1>3. ClientsExact'
    <2>1. \A w \in Visits : visit'[w].at = "count" <=> visit[w].at = "count"
      BY <1>1
    <2> QED BY <2>1, CountStays DEF VisitInv
  <1>4. Stored(visit[v].ses)' /\ Stored(v)'
    BY <1>1, VisitFacts DEF Stored, Early, VisitOk, HasSession
  <1>5. VisitOk(v)'
    BY <1>1, <1>4, VisitFacts DEF VisitOk, HasSession, Early
  <1>6. \/ banned[visit[v].ip] <= clock
        \/ visit[v].ip \in lost
        \/ visit[v].ses # known[visit[v].ip]
    <2>1. banned[visit[v].ip] \in Int
      BY VisitFacts DEF VisitInv, VisitTypeOK
    <2>2. visit[v].ses \in Visits
      BY VisitFacts DEF VisitOk, HasSession
    <2> QED BY <2>1, <2>2, VisitFacts DEF KnownOk
  <1> QED BY <1>1, <1>2, <1>3, <1>4, <1>5, <1>6, VisitorMoves, VisitFacts

(* BlockUntil                                                              *)
LEMMA Blocks ==
  ASSUME VisitInv, NEW v \in Visits, NEW time \in BlockTimes, BlockUntil(v, time)
  PROVE  VisitInv' /\ KeepsBlocks
  <1>1. /\ clock' = clock /\ sweep' = sweep /\ lost' = lost /\ client' = client
        /\ known' = known /\ banned' = banned /\ clients' = clients
        /\ visit[v].at \in {"serve", "ban"}
    BY DEF BlockUntil
  <1>2. visit[v].ses \in Visits /\ Stored(visit[v].ses)
    BY <1>1, VisitFacts DEF VisitOk, HasSession, Stored
  <1>3. clock + time \in Nat /\ client[visit[v].ses].until \in Nat
    BY <1>2, SessionConstants DEF VisitInv, VisitTypeOK, Times
  <1>4. /\ visit' \in [Visits -> VisitType] /\ visit'[v].at = "swap"
        /\ visit'[v].ses = visit[v].ses /\ visit'[v].t = visit[v].t
        /\ visit'[v].ip = visit[v].ip
        /\ visit'[v].block = IF visit[v].at = "ban" THEN visit[v].block ELSE clock + time
        /\ \A w \in Visits : w # v => visit'[w] = visit[w]
    <2>1. PICK u, b : /\ u = client[visit[v].ses].until
                      /\ b = IF visit[v].at = "ban" THEN visit[v].block
                            ELSE clock + time
      OBVIOUS
    <2>2. PICK r : r = [visit[v] EXCEPT !.at = "swap", !.seen = u, !.block = b]
      OBVIOUS
    <2>3. visit' = [visit EXCEPT ![v] = r]
      BY <2>1, <2>2 DEF BlockUntil
    <2>4. visit \in [Visits -> VisitType] /\ visit[v] \in VisitType
      BY VisitFacts
    <2>5. u \in Nat /\ b \in Nat
      BY <1>3, <2>1, <2>4 DEF VisitType
    <2>6. /\ r \in VisitType /\ r.at = "swap" /\ r.block = b
          /\ r.ip = visit[v].ip /\ r.t = visit[v].t /\ r.ses = visit[v].ses
      BY <2>2, <2>4, <2>5 DEF VisitType, Places
    <2> QED BY <2>1, <2>3, <2>4, <2>6
  <1>5. VisitTypeOK'
    BY <1>1, <1>4 DEF VisitInv, VisitTypeOK, VisitType, Places
  <1>6. ClientsExact'
    <2>1. \A w \in Visits : visit'[w].at = "count" <=> visit[w].at = "count"
      BY <1>1, <1>4
    <2> QED BY <1>1, <2>1, CountStays DEF VisitInv
  <1>7. Stored(v)' /\ Stored(visit[v].ses)'
    BY <1>2, <1>4 DEF Stored, Early
  <1>8. VisitOk(v)'
    BY <1>1, <1>2, <1>4, <1>7, VisitFacts
    DEF VisitOk, HasSession, Early
  <1> QED BY <1>1, <1>4, <1>5, <1>6, <1>7, <1>8, VisitorMoves, VisitFacts

(* SwapBlock: a block of the address is on its session.                    *)
LEMMA Swaps ==
  ASSUME VisitInv, NEW v \in Visits, SwapBlock(v)
  PROVE  VisitInv' /\ KeepsBlocks
  <1> DEFINE s == visit[v].ses
             a == visit[v].ip
             enough == visit[v].seen >= visit[v].block
             won == ~enough /\ client[s].until = visit[v].seen
             own == won /\ known[a] = s
  <1>1. /\ clock' = clock /\ sweep' = sweep
        /\ known' = known /\ clients' = clients /\ visit[v].at = "swap"
        /\ Goto(v, IF enough \/ won THEN "end" ELSE "ban")
        /\ client' = IF won THEN [client EXCEPT ![s].until = visit[v].block] ELSE client
        /\ banned' = IF own THEN [banned EXCEPT ![a] = visit[v].block] ELSE banned
        /\ lost' = IF own THEN lost \ {a} ELSE lost
    BY DEF SwapBlock
  <1>2. s \in Visits /\ Stored(s)
    BY <1>1, VisitFacts DEF VisitOk, HasSession, Stored
  <1>3. CASE enough
    <2>1. /\ Goto(v, "end") /\ client' = client /\ banned' = banned /\ lost' = lost
          /\ visit[v].at # "count"
      BY <1>1, <1>3
    <2> QED BY <1>1, <2>1, VisitEnds
  <1>4. CASE won
    <2>1. Goto(v, "end") /\ client' = [client EXCEPT ![s].until = visit[v].block]
      BY <1>1, <1>4
    <2>2. /\ visit' \in [Visits -> VisitType] /\ visit'[v].at = "end"
          /\ visit'[v].ses = NoSession /\ visit'[v].ip = visit[v].ip
          /\ \A w \in Visits : w # v => visit'[w] = visit[w]
      BY <2>1, GotoDoes DEF Places, Ended
    <2>3. visit[v].block \in Nat /\ a \in Addresses
      BY VisitFacts DEF VisitType
    <2>4. /\ client' \in [Visits -> [last : Times, until : Nat]]
          /\ client'[s].until = visit[v].block
          /\ \A x \in Visits : x # s => client'[x] = client[x]
      BY <1>2, <2>1, <2>3 DEF VisitInv, VisitTypeOK
    <2>5. /\ banned' \in [Addresses -> Nat] /\ lost' \subseteq Addresses
          /\ \A ip \in Addresses : ip # a => /\ banned'[ip] = banned[ip]
                                             /\ (ip \in lost => ip \in lost')
          /\ own => banned'[a] = visit[v].block
          /\ ~own => banned' = banned /\ lost' = lost
      <3> HIDE DEF own, a
      <3> QED BY <1>1, <2>3 DEF VisitInv, VisitTypeOK
    <2>6. VisitTypeOK'
      BY <1>1, <2>2, <2>4, <2>5 DEF VisitInv, VisitTypeOK, VisitType, Places
    <2>7. ClientsExact'
      <3>1. \A w \in Visits : visit'[w].at = "count" <=> visit[w].at = "count"
        BY <1>1, <2>2
      <3> QED BY <1>1, <3>1, CountStays DEF VisitInv
    <2>8. VisitOk(v)'
      BY <2>2, VisitFacts DEF VisitOk, HasSession, Early
    <2>9. \A x \in Visits : client'[x].until >= client[x].until
      BY <1>2, <1>4, <2>4, VisitFacts
    <2>10. \A w \in Visits : w # v /\ visit[w].at \in Early
                             => client'[w].until = client[w].until
      BY <1>2, <2>4 DEF Stored
    <2>11. Stored(v)' /\ (\A x \in Visits : Stored(x) => Stored(x)')
      BY <2>2 DEF Stored, Early
    <2>12. ASSUME own PROVE KnownOk(a)'
      <3>1. PICK x, b : x = s /\ b = a
        OBVIOUS
      <3>2. x \in Visits /\ x # NoSession /\ known'[b] = x
        BY <1>1, <1>2, <2>12, <3>1, VisitFacts
      <3>3. Stored(x)'
        BY <1>2, <2>11, <3>1, <3>2
      <3>4. banned'[b] <= client'[x].until
        BY <2>3, <2>4, <2>5, <2>12, <3>1
      <3>5. KnownOk(b)'
        BY <3>2, <3>3, <3>4 DEF KnownOk, Stored
      <3> QED BY <2>2, <3>1, <3>5
    <2>13. ASSUME NEW ip \in Addresses
           PROVE \/ /\ known'[ip] = known[ip] /\ banned'[ip] = banned[ip]
                    /\ ip \in lost => ip \in lost'
                 \/ KnownOk(ip)'
      <3>1. CASE ip = a /\ own
        BY <2>2, <2>12, <3>1 DEF KnownOk
      <3>2. CASE ip # a \/ ~own
        BY <1>1, <2>5, <3>2
      <3> QED BY <3>1, <3>2
    <2> QED BY <1>1, <2>2, <2>4, <2>6, <2>7, <2>8, <2>9, <2>10, <2>11, <2>13, VisitorMoves
  <1>5. CASE ~enough /\ ~won
    <2>1. Goto(v, "ban") /\ client' = client /\ banned' = banned /\ lost' = lost
      BY <1>1, <1>5
    <2>2. /\ visit' \in [Visits -> VisitType] /\ visit'[v].at = "ban"
          /\ visit'[v].ses = visit[v].ses /\ visit'[v].t = visit[v].t
          /\ visit'[v].ip = visit[v].ip /\ visit'[v].block = visit[v].block
          /\ \A w \in Visits : w # v => visit'[w] = visit[w]
      BY <2>1, GotoDoes DEF Places, Ended
    <2>3. VisitTypeOK'
      BY <1>1, <2>1, <2>2 DEF VisitInv, VisitTypeOK, VisitType, Places
    <2>4. ClientsExact'
      <3>1. \A w \in Visits : visit'[w].at = "count" <=> visit[w].at = "count"
        BY <1>1, <2>2
      <3> QED BY <1>1, <3>1, CountStays DEF VisitInv
    <2>5. Stored(v)' /\ Stored(visit[v].ses)'
      BY <1>2, <2>2 DEF Stored, Early
    <2>6. VisitOk(v)'
      BY <1>1, <1>2, <2>1, <2>2, <2>5, VisitFacts
      DEF VisitOk, HasSession, Early
    <2>7. \A x \in Visits : client'[x].until >= client[x].until
      BY <2>1, VisitFacts
    <2>8. visit'[v].at # "serve"
      BY <2>2
    <2> HIDE DEF s, a, enough, won, own
    <2> QED BY <1>1, <2>1, <2>2, <2>3, <2>4, <2>5, <2>6, <2>7, <2>8, VisitorMoves
  <1> QED BY <1>3, <1>4, <1>5

(* The rest of the server does not move.                                   *)
LEMMA SweeperMoves ==
  ASSUME VisitInv, VisitTypeOK', ClientsExact', SweepInv',
         UNCHANGED <<clock, known, client, visit, banned, lost>>
  PROVE  VisitInv' /\ KeepsBlocks
  <1>1. \A s : Stored(s)' = Stored(s)
    BY DEF Stored
  <1>2. \A v \in Visits : HasSession(v)' = HasSession(v)
    BY DEF HasSession
  <1>3. \A v \in Visits : VisitOk(v)'
    BY <1>1, <1>2 DEF VisitInv, VisitOk, Stored
  <1>4. \A ip \in Addresses : KnownOk(ip)'
    BY <1>1 DEF VisitInv, KnownOk, Stored
  <1>5. \A s \in Visits : client[s].until \in Int
    BY SessionConstants DEF VisitInv, VisitTypeOK
  <1> QED BY <1>3, <1>4, <1>5 DEF VisitInv, KeepsBlocks

(* VisitClock: what is over stays over.                                    *)
LEMMA ClockTicks == ASSUME VisitInv, VisitClock PROVE VisitInv' /\ KeepsBlocks
  <1>1. /\ clock' = clock + 1 /\ clock < MaxClock
        /\ known' = known /\ client' = client /\ clients' = clients
        /\ visit' = visit /\ sweep' = sweep /\ banned' = banned /\ lost' = lost
    BY DEF VisitClock
  <1>2. VisitTypeOK'
    BY <1>1, SessionConstants DEF VisitInv, VisitTypeOK, Times
  <1>3. ClientsExact'
    BY <1>1 DEF VisitInv, ClientsExact
  <1>4. SweepInv'
    <2>1. sweep.before \in Int /\ clock \in Int
      BY SessionConstants DEF VisitInv, VisitTypeOK, Times
    <2>2. sweep.before <= clock - Idle => sweep.before <= clock' - Idle
      BY <1>1, <2>1, SessionConstants
    <2> QED BY <1>1, <2>2 DEF VisitInv, SweepInv
  <1>5. ASSUME NEW v \in Visits PROVE VisitOk(v)'
    <2>1. \A s \in Visits : Stored(s) => Stored(s)'
      BY <1>1 DEF Stored
    <2> QED BY <1>1, <2>1, OthersStay
  <1>6. ASSUME NEW ip \in Addresses PROVE KnownOk(ip)'
    <2>1. clock \in Int /\ banned[ip] \in Int /\ KnownOk(ip)
      BY SessionConstants DEF VisitInv, VisitTypeOK, Times
    <2>2. Stored(known[ip])' = Stored(known[ip])
      BY <1>1 DEF Stored
    <2>3. banned[ip] <= clock => banned[ip] <= clock'
      BY <1>1, <2>1
    <2> QED BY <1>1, <2>1, <2>2, <2>3 DEF KnownOk
  <1>7. \A s \in Visits : client[s].until \in Int
    BY SessionConstants DEF VisitInv, VisitTypeOK
  <1>8. KeepsBlocks
    BY <1>1, <1>7 DEF KeepsBlocks
  <1> QED BY <1>2, <1>3, <1>4, <1>5, <1>6, <1>8 DEF VisitInv

(* SweepBegins                                                             *)
LEMMA CleanerBegins == ASSUME VisitInv, SweepBegins PROVE VisitInv' /\ KeepsBlocks
  <1> DEFINE b == clock - Idle
  <1>1. /\ sweep.at = "sleep" /\ sweep' = Sweep("range", Addresses, NoSweep.ip, b, 0, 0)
        /\ clock > Idle
        /\ UNCHANGED <<clock, known, client, clients, visit, banned, lost>>
    BY DEF SweepBegins
  <1>2. b \in -Idle..MaxClock /\ 0 \in Times /\ NoSweep.ip \in Addresses
    BY <1>1, SessionConstants DEF VisitInv, VisitTypeOK, Times, NoSweep, Sweep
  <1>3. /\ sweep'.at = "range" /\ sweep'.gone = 0 /\ sweep'.before = b
        /\ sweep' \in [at : {"sleep", "range", "delete"},
                       todo : SUBSET Addresses, ip : Addresses,
                       before : -Idle..MaxClock, last : Times, gone : Nat]
    <2> HIDE DEF b
    <2> QED BY <1>1, <1>2 DEF Sweep
  <1>4. VisitTypeOK'
    BY <1>1, <1>3 DEF VisitInv, VisitTypeOK
  <1>5. ClientsExact'
    BY <1>1, <1>3, CountStays DEF VisitInv, SweepInv
  <1>6. SweepInv'
    <2>1. b <= clock - Idle
      BY SessionConstants DEF VisitInv, VisitTypeOK, Times
    <2> HIDE DEF b
    <2> QED BY <1>1, <1>3, <2>1 DEF SweepInv
  <1> QED BY <1>1, <1>4, <1>5, <1>6, SweeperMoves

(* SweepLooks                                                              *)
LEMMA CleanerLooks ==
  ASSUME VisitInv, NEW ip \in Addresses, SweepLooks(ip) PROVE VisitInv' /\ KeepsBlocks
  <1> DEFINE s == known[ip]
  <1>1. /\ sweep.at = "range" /\ ip \in sweep.todo
        /\ UNCHANGED <<clock, known, client, clients, visit, banned, lost>>
        /\ sweep' = IF s = NoSession \/ client[s].last >= sweep.before
                    THEN [sweep EXCEPT !.todo = @ \ {ip}]
                    ELSE Sweep("delete", sweep.todo \ {ip}, ip, sweep.before,
                               client[s].last, sweep.gone)
    BY DEF SweepLooks
  <1>2. /\ sweep \in [at : {"sleep", "range", "delete"},
                      todo : SUBSET Addresses, ip : Addresses,
                      before : -Idle..MaxClock, last : Times, gone : Nat]
        /\ sweep.before <= clock - Idle
    BY <1>1 DEF VisitInv, VisitTypeOK, SweepInv
  <1>3. CASE s = NoSession \/ client[s].last >= sweep.before
    <2>1. sweep' = [sweep EXCEPT !.todo = @ \ {ip}]
      BY <1>1, <1>3
    <2>2. /\ sweep'.at = "range" /\ sweep'.gone = sweep.gone /\ sweep'.before = sweep.before
          /\ sweep' \in [at : {"sleep", "range", "delete"},
                         todo : SUBSET Addresses, ip : Addresses,
                         before : -Idle..MaxClock, last : Times, gone : Nat]
      BY <1>1, <1>2, <2>1
    <2>3. VisitTypeOK'
      BY <1>1, <2>2 DEF VisitInv, VisitTypeOK
    <2>4. ClientsExact'
      BY <1>1, <2>2, CountStays DEF VisitInv
    <2>5. SweepInv'
      BY <1>1, <1>2, <2>2 DEF SweepInv
    <2> QED BY <1>1, <2>3, <2>4, <2>5, SweeperMoves
  <1>4. CASE s # NoSession /\ ~(client[s].last >= sweep.before)
    <2>1. sweep' = Sweep("delete", sweep.todo \ {ip}, ip, sweep.before, client[s].last,
                         sweep.gone)
      BY <1>1, <1>4
    <2>2. s \in Visits /\ client[s].last \in Times
      BY <1>4 DEF VisitInv, VisitTypeOK
    <2>3. /\ sweep'.at = "delete" /\ sweep'.gone = sweep.gone /\ sweep'.before = sweep.before
          /\ sweep'.ip = ip /\ sweep'.last = client[s].last
          /\ sweep' \in [at : {"sleep", "range", "delete"},
                         todo : SUBSET Addresses, ip : Addresses,
                         before : -Idle..MaxClock, last : Times, gone : Nat]
      BY <1>2, <2>1, <2>2 DEF Sweep
    <2>4. VisitTypeOK'
      BY <1>1, <2>3 DEF VisitInv, VisitTypeOK
    <2>5. ClientsExact'
      BY <1>1, <2>3, CountStays DEF VisitInv
    <2>6. client[s].last \in Int /\ sweep.before \in Int /\ clock \in Int
      BY <1>2, <2>2, SessionConstants DEF Times, VisitInv, VisitTypeOK
    <2>7. client[s].last < sweep.before
      BY <1>4, <2>6
    <2>8. SweepInv'
      BY <1>1, <1>2, <1>4, <2>3, <2>7 DEF SweepInv
    <2> QED BY <1>1, <2>4, <2>5, <2>8, SweeperMoves
  <1> QED BY <1>3, <1>4

(* SweepDeletes: a block that ends in time, of a session that got no       *)
(* request meanwhile, is over.                                             *)
LEMMA CleanerDeletes == ASSUME VisitInv, SweepDeletes PROVE VisitInv' /\ KeepsBlocks
  <1> DEFINE a == sweep.ip
             c == client[known[a]]
             forgot == c.last # sweep.last \/ c.until > c.last + Idle
  <1>1. /\ sweep.at = "delete" /\ lost' = IF forgot THEN lost \cup {a} ELSE lost
        /\ known' = [known EXCEPT ![a] = NoSession]
        /\ sweep' = Sweep("range", sweep.todo, a, sweep.before, sweep.last, sweep.gone + 1)
        /\ UNCHANGED <<clock, client, clients, visit, banned>>
    BY DEF SweepDeletes
  <1>2. /\ sweep \in [at : {"sleep", "range", "delete"},
                      todo : SUBSET Addresses, ip : Addresses,
                      before : -Idle..MaxClock, last : Times, gone : Nat]
        /\ sweep.before <= clock - Idle
        /\ known[a] # NoSession /\ sweep.last < sweep.before
    BY <1>1 DEF VisitInv, VisitTypeOK, SweepInv
  <1>3. a \in Addresses /\ known[a] \in Visits
    BY <1>2 DEF VisitInv, VisitTypeOK
  <1>4. /\ known' \in [Addresses -> Visits \cup {NoSession}] /\ known'[a] = NoSession
        /\ \A ip \in Addresses : ip # a => known'[ip] = known[ip]
    BY <1>1, <1>3 DEF VisitInv, VisitTypeOK
  <1>5. /\ sweep'.at = "range" /\ sweep'.gone = sweep.gone + 1
        /\ sweep'.before = sweep.before
        /\ sweep' \in [at : {"sleep", "range", "delete"},
                       todo : SUBSET Addresses, ip : Addresses,
                       before : -Idle..MaxClock, last : Times, gone : Nat]
    BY <1>1, <1>2 DEF Sweep
  <1>6. VisitTypeOK'
    BY <1>1, <1>3, <1>4, <1>5 DEF VisitInv, VisitTypeOK
  <1>7. SweepInv'
    BY <1>1, <1>2, <1>5 DEF SweepInv
  <1>8. ClientsExact'
    <2> DEFINE C == {w \in Visits : visit[w].at = "count"}
               K == {ip \in Addresses : known[ip] # NoSession}
               C1 == {w \in Visits : visit'[w].at = "count"}
               K1 == {ip \in Addresses : known'[ip] # NoSession}
    <2>1. C1 = C
      BY <1>1
    <2>2. K1 = K \ {a} /\ a \in K
      BY <1>2, <1>3, <1>4
    <2>3. IsFiniteSet(C) /\ IsFiniteSet(K)
      BY CountsFinite
    <2>4. clients + Cardinality(C) - sweep.gone = Cardinality(K)
      BY DEF VisitInv, ClientsExact
    <2>5. clients' + Cardinality(C1) - sweep'.gone = Cardinality(K1) => ClientsExact'
      BY DEF ClientsExact
    <2>6. clients \in Int /\ sweep.gone \in Int
      BY DEF VisitInv, VisitTypeOK
    <2> HIDE DEF C, K, C1, K1, a
    <2>7. Cardinality(K1) = Cardinality(K) - 1
      BY <2>2, <2>3, FS_RemoveElement
    <2>8. Cardinality(C) \in Int /\ Cardinality(K) \in Int
      BY <2>3, FS_CardinalityType
    <2>9. clients' + Cardinality(C1) - sweep'.gone = Cardinality(K1)
      BY <1>1, <1>5, <2>1, <2>4, <2>6, <2>7, <2>8
    <2> QED BY <2>5, <2>9
  <1>9. \A x \in Visits : Stored(x) => Stored(x)'
    BY <1>1 DEF Stored
  <1>10. lost \subseteq lost' /\ (a \notin lost' => ~forgot /\ a \notin lost)
    BY <1>1
  <1>11. ASSUME NEW w \in Visits PROVE VisitOk(w)'
    <2>1. visit'[w] = visit[w] /\ client' = client
      BY <1>1
    <2> QED BY <1>9, <2>1, OthersStay
  <1>12. ASSUME NEW ip \in Addresses PROVE KnownOk(ip)'
    <2>1. \A x \in Visits : client[x].until \in Int /\ client[x].last \in Int
      BY SessionConstants DEF VisitInv, VisitTypeOK, Times
    <2>2. CASE ip # a
      <3>1. /\ known'[ip] = known[ip] /\ banned'[ip] = banned[ip]
            /\ ip \in lost => ip \in lost'
        BY <1>1, <1>4, <1>10, <2>2
      <3>2. \A x \in Visits : client'[x].until >= client[x].until
        BY <1>1, <2>1
      <3> HIDE DEF a, forgot
      <3> QED BY <1>1, <1>6, <1>9, <3>1, <3>2, AddressesStay
    <2>3. CASE ip = a
      <3>1. KnownOk(a) /\ banned[a] \in Int /\ clock \in Int
        BY <1>3, SessionConstants DEF VisitInv, VisitTypeOK, Times
      <3>2. ASSUME a \notin lost' PROVE banned[a] <= clock
        <4>1. /\ client[known[a]].last = sweep.last /\ a \notin lost
              /\ ~(client[known[a]].until > client[known[a]].last + Idle)
          BY <1>10, <3>2
        <4>2. sweep.last \in Int /\ sweep.before \in Int
          BY <1>2, SessionConstants DEF Times
        <4>3. client[known[a]].until <= clock
          BY <1>2, <1>3, <2>1, <3>1, <4>1, <4>2, SessionConstants
        <4> QED BY <1>2, <1>3, <2>1, <3>1, <4>1, <4>3 DEF KnownOk
      <3> QED BY <1>1, <1>4, <2>3, <3>1, <3>2 DEF KnownOk
    <2> QED BY <2>2, <2>3
  <1>13. KeepsBlocks
    <2>1. \A x \in Visits : client[x].until \in Int
      BY SessionConstants DEF VisitInv, VisitTypeOK
    <2> QED BY <1>1, <2>1 DEF KeepsBlocks
  <1> QED BY <1>6, <1>7, <1>8, <1>11, <1>12, <1>13 DEF VisitInv

(* SweepEnds: what was deleted is taken off the counter.                   *)
LEMMA CleanerEnds == ASSUME VisitInv, SweepEnds PROVE VisitInv' /\ KeepsBlocks
  <1> DEFINE C == {w \in Visits : visit[w].at = "count"}
             K == {ip \in Addresses : known[ip] # NoSession}
  <1>1. /\ sweep' = NoSweep /\ clients' = clients - sweep.gone
        /\ UNCHANGED <<clock, known, client, visit, banned, lost>>
    BY DEF SweepEnds
  <1>2. IsFiniteSet(C) /\ IsFiniteSet(K)
    BY CountsFinite
  <1>3. clients + Cardinality(C) - sweep.gone = Cardinality(K)
    BY DEF VisitInv, ClientsExact
  <1>4. clients \in Int /\ sweep.gone \in Int
    BY DEF VisitInv, VisitTypeOK
  <1>5. clients' + Cardinality(C) - sweep'.gone = Cardinality(K) => ClientsExact'
    BY <1>1 DEF ClientsExact
  <1> HIDE DEF C, K
  <1>6. Cardinality(C) \in Int /\ Cardinality(K) \in Int
    BY <1>2, FS_CardinalityType
  <1>7. clients' \in Int
    BY <1>1, <1>4
  <1>8. NoSweep \in [at : {"sleep", "range", "delete"},
                     todo : SUBSET Addresses, ip : Addresses,
                     before : -Idle..MaxClock, last : Times, gone : Nat]
    BY SessionConstants DEF NoSweep, Sweep, Times
  <1>9. NoSweep.at = "sleep" /\ NoSweep.gone = 0
    BY DEF NoSweep, Sweep
  <1>10. VisitTypeOK'
    BY <1>1, <1>7, <1>8 DEF VisitInv, VisitTypeOK
  <1>11. clients' + Cardinality(C) - sweep'.gone = Cardinality(K)
    BY <1>1, <1>3, <1>4, <1>6, <1>9
  <1>12. SweepInv'
    BY <1>1, <1>9 DEF SweepInv
  <1> QED BY <1>1, <1>5, <1>10, <1>11, <1>12, SweeperMoves

(* Every step of requests, clock and cleaner keeps the invariant, lets no  *)
(* blocked address in and cuts no block short.                             *)
LEMMA VisitStep == VisitInv /\ [VisitNext]_visitVars => VisitInv' /\ [KeepsBlocks]_visitVars
  <1> SUFFICES ASSUME VisitInv, [VisitNext]_visitVars
               PROVE  VisitInv' /\ [KeepsBlocks]_visitVars
    OBVIOUS
  <1>1. CASE VisitClock
    BY <1>1, ClockTicks
  <1>2. CASE Sweeping
    BY <1>2, CleanerBegins, CleanerLooks, CleanerDeletes, CleanerEnds DEF Sweeping
  <1>3. CASE \E v \in Visits, ip \in Addresses : Arrive(v, ip)
    BY <1>3, Arrives
  <1>4. ASSUME NEW v \in Visits, Visiting(v) PROVE VisitInv' /\ KeepsBlocks
    <2>1. CASE NewAborted(v)
      BY <2>1, VisitEnds DEF NewAborted
    <2>2. CASE ServeVisit(v)
      BY <2>2, VisitEnds DEF ServeVisit
    <2>3. CASE LoadOrStore(v)
      BY <2>3, StoresOther, StoresNew
    <2>4. CASE CheckBlocked(v)
      <3>1. /\ visit[v].at = "check"
            /\ UNCHANGED <<clock, known, client, clients, sweep, banned, lost>>
        BY <2>4 DEF CheckBlocked
      <3>2. CASE client[visit[v].ses].until > clock
        <4>1. Goto(v, "end") /\ visit[v].at # "count"
          BY <2>4, <3>2 DEF CheckBlocked
        <4> QED BY <3>1, <4>1, VisitEnds
      <3>3. CASE ~(client[visit[v].ses].until > clock)
        <4>1. Goto(v, "serve")
          BY <2>4, <3>3 DEF CheckBlocked
        <4>2. visit[v].ses \in Visits
          BY <3>1, VisitFacts DEF VisitOk, HasSession
        <4>3. client[visit[v].ses].until <= clock
          BY <3>3, <4>2, VisitFacts
        <4> QED BY <3>1, <4>1, <4>3, Passes
      <3> QED BY <3>2, <3>3
    <2> QED BY <1>4, <2>1, <2>2, <2>3, <2>4, Loads, NewSessions, Counts, Starts, Blocks, Swaps
            DEF Visiting
  <1>5. CASE UNCHANGED visitVars
    <2>1. UNCHANGED <<clock, known, client, visit, banned, lost>>
          /\ clients' = clients /\ sweep' = sweep
      BY <1>5 DEF visitVars
    <2>2. VisitTypeOK' /\ ClientsExact' /\ SweepInv'
      BY <2>1 DEF VisitInv, VisitTypeOK, ClientsExact, SweepInv
    <2> QED BY <2>1, <2>2, SweeperMoves
  <1> QED BY <1>1, <1>2, <1>3, <1>4, <1>5 DEF VisitNext

-----------------------------------------------------------------------------
(* The remote file.                                                        *)

CallerType ==
  [at : {"off", "fast", "enter", "recheck", "wait", "lazy", "done", "left"},
   ptr : 0..MaxVersion, err : BOOLEAN]
LoadType ==
  [at : {"off", "fetch", "parse", "finish"}, by : Loaders \cup {"none"},
   lazy : BOOLEAN, attempt : 0..1, data : 0..MaxVersion, err : BOOLEAN]

RemoteTyped ==
  /\ RemoteTypeOK
  /\ webFile \in [v : 0..MaxVersion, mod : 0..MaxWebTime]
  /\ caller \in [Loaders -> CallerType] /\ load \in LoadType

(* Nothing is loaded before the file was opened.  Nothing is newer than    *)
(* the web; unless a write failed, what was read is what is on the disk,   *)
(* and that is no older than the value.                                    *)
VersionInv ==
  /\ webClock = 0 => /\ value = 0 /\ load.at = "off"
                     /\ \A c \in Loaders : caller[c].at = "off"
  /\ webFile.v >= 2 /\ value <= webFile.v
  /\ diskFile <= webFile.v /\ load.data <= webFile.v
  /\ ~torn /\ diskFile # 0 => value <= diskFile
  /\ ~torn /\ load.at = "parse" /\ load.data # 0 => load.data = diskFile

(* A lazy load is for a caller with a value; one that ends without an      *)
(* error has made sure that there is a value.                              *)
LoadInv ==
  /\ load.at # "off" => load.by \in Loaders
  /\ load.at # "off" /\ load.lazy => value # 0
  /\ load.at = "finish" => value # 0 \/ load.err

(* So a caller that does not wait has one.                                 *)
CallerInv ==
  \A c \in Loaders : caller[c].at = "lazy" => caller[c].ptr # 0

RemoteInv ==
  /\ RemoteTyped /\ VersionInv /\ LoadInv /\ CallerInv
  /\ OneLoads /\ AnsweredWithOne

(* The type is that of the records.                                        *)
LEMMA RemoteTypes ==
  RemoteTyped <=>
    /\ webFile \in [v : 0..MaxVersion, mod : 0..MaxWebTime]
    /\ caller \in [Loaders -> CallerType] /\ load \in LoadType
    /\ diskFile \in 0..MaxVersion /\ lastRead \in 0..MaxWebTime
    /\ value \in 0..MaxVersion /\ Parses(value)
    /\ nextAt \in 0..(MaxWebTime + Recheck) /\ semaphore \in BOOLEAN
    /\ webClock \in 0..MaxWebTime /\ torn \in BOOLEAN
BY DEF RemoteTyped, RemoteTypeOK, CallerType, LoadType

(* Nobody has called and nothing was read at first.                        *)
LEMMA RemoteStart == RemoteInit => RemoteInv
  <1> SUFFICES ASSUME RemoteInit PROVE RemoteInv
    OBVIOUS
  <1>1. /\ MaxVersion \in Nat /\ MaxWebTime \in Nat /\ Recheck \in Nat
        /\ MaxVersion >= 2
    BY RemoteAssumption DEF RemoteAssumption
  <1>2. Resting \in CallerType /\ Resting.at = "off"
    BY <1>1 DEF Resting, CallerType
  <1>3. /\ caller \in [Loaders -> CallerType]
        /\ \A c \in Loaders : caller[c].at = "off"
    BY <1>2 DEF RemoteInit
  <1>4. /\ load \in LoadType /\ load.at = "off" /\ load.data = 0
    BY <1>1 DEF RemoteInit, NoLoad, LoadType
  <1>5. /\ webFile \in [v : 0..MaxVersion, mod : 0..MaxWebTime]
        /\ webFile.v = 2 /\ webClock = 0 /\ diskFile = 0 /\ lastRead = 0
        /\ value = 0 /\ nextAt = 0 /\ semaphore = FALSE /\ torn = FALSE
    BY <1>1 DEF RemoteInit
  <1>6. RemoteTyped
    <2>1. Parses(value)
      BY <1>5 DEF Parses
    <2>2. /\ diskFile \in 0..MaxVersion /\ lastRead \in 0..MaxWebTime
          /\ value \in 0..MaxVersion /\ nextAt \in 0..(MaxWebTime + Recheck)
          /\ webClock \in 0..MaxWebTime
      BY <1>1, <1>5
    <2>3. semaphore \in BOOLEAN /\ torn \in BOOLEAN
      BY <1>5
    <2> QED BY <1>3, <1>4, <1>5, <2>1, <2>2, <2>3, RemoteTypes
  <1> QED
    BY <1>3, <1>4, <1>5, <1>6
    DEF RemoteInv, VersionInv, LoadInv, CallerInv, OneLoads, AnsweredWithOne

(* A caller moves outside of the semaphore.                                *)
LEMMA CallerMoves ==
  ASSUME RemoteInv, NEW c \in Loaders, NEW r \in CallerType, webClock # 0,
         caller' = [caller EXCEPT ![c] = r],
         caller[c].at # "recheck", r.at # "recheck",
         r.at = "lazy" => r.ptr # 0, r.at = "done" => r.ptr # 0 \/ r.err,
         UNCHANGED <<webFile, diskFile, lastRead, value, nextAt, semaphore, load,
                     webClock, torn>>
  PROVE  RemoteInv'
  <1>1. /\ caller' \in [Loaders -> CallerType] /\ caller'[c] = r
        /\ \A d \in Loaders : d # c => caller'[d] = caller[d]
    BY DEF RemoteInv, RemoteTyped
  <1>2. RemoteTyped'
    BY <1>1, RemoteTypes DEF RemoteInv, RemoteTyped, RemoteTypeOK, CallerType, Parses
  <1>3. VersionInv' /\ LoadInv'
    BY DEF RemoteInv, VersionInv, LoadInv
  <1>4. CallerInv' /\ AnsweredWithOne'
    BY <1>1 DEF RemoteInv, CallerInv, AnsweredWithOne
  <1>5. OneLoads'
    <2>1. \A d \in Loaders : caller'[d].at = "recheck" <=> caller[d].at = "recheck"
      BY <1>1
    <2> QED BY <2>1 DEF RemoteInv, OneLoads
  <1> QED BY <1>2, <1>3, <1>4, <1>5 DEF RemoteInv

(* A step of a caller by itself.                                           *)
LEMMA CallerSteps ==
  ASSUME RemoteInv, NEW c \in Loaders,
         CallLoad(c) \/ FastPath(c) \/ ReturnLazy(c) \/ LeaveLoad(c)
  PROVE  RemoteInv'
  <1>1. /\ caller \in [Loaders -> CallerType] /\ caller[c] \in CallerType
        /\ value \in 0..MaxVersion /\ MaxVersion \in Nat
        /\ caller[c].at = "lazy" => caller[c].ptr # 0
        /\ caller[c].at # "off" => webClock # 0
    BY RemoteAssumption
    DEF RemoteAssumption, RemoteInv, RemoteTyped, RemoteTypeOK, CallerInv, VersionInv
  <1>2. CASE CallLoad(c)
    <2>1. PICK r : r = [Resting EXCEPT !.at = "fast"]
      OBVIOUS
    <2>2. r \in CallerType /\ r.at = "fast"
      <3>1. Resting \in CallerType
        BY <1>1 DEF Resting, CallerType
      <3> QED BY <2>1, <3>1 DEF CallerType
    <2>3. /\ caller' = [caller EXCEPT ![c] = r] /\ webClock # 0
          /\ caller[c].at # "recheck"
          /\ UNCHANGED <<webFile, diskFile, lastRead, value, nextAt, semaphore, load,
                         webClock, torn>>
      BY <1>2, <2>1 DEF CallLoad
    <2> QED BY <2>2, <2>3, CallerMoves
  <1>3. CASE FastPath(c)
    <2>1. PICK p : p = IF value # 0 /\ StillFresh THEN "done" ELSE "enter"
      OBVIOUS
    <2>2. p \in {"done", "enter"} /\ (p = "done" => value # 0)
      BY <2>1
    <2>3. PICK r : r = [caller[c] EXCEPT !.ptr = value, !.at = p]
      OBVIOUS
    <2>4. r \in CallerType /\ r.at = p /\ r.ptr = value
      BY <1>1, <2>2, <2>3 DEF CallerType
    <2>5. /\ caller' = [caller EXCEPT ![c] = r] /\ caller[c].at = "fast"
          /\ UNCHANGED <<webFile, diskFile, lastRead, value, nextAt, semaphore, load,
                         webClock, torn>>
      BY <1>3, <2>1, <2>3 DEF FastPath
    <2> QED BY <1>1, <2>2, <2>4, <2>5, CallerMoves
  <1>4. CASE ReturnLazy(c)
    <2>1. PICK r : r = [caller[c] EXCEPT !.at = "done"]
      OBVIOUS
    <2>2. r \in CallerType /\ r.at = "done" /\ r.ptr = caller[c].ptr
      BY <1>1, <2>1 DEF CallerType
    <2>3. /\ caller' = [caller EXCEPT ![c] = r] /\ caller[c].at = "lazy"
          /\ UNCHANGED <<webFile, diskFile, lastRead, value, nextAt, semaphore, load,
                         webClock, torn>>
      BY <1>1, <1>4, <2>1 DEF ReturnLazy
    <2> QED BY <1>1, <2>2, <2>3, CallerMoves
  <1>5. CASE LeaveLoad(c)
    <2>1. PICK e \in BOOLEAN : e = (caller[c].at = "enter")
      OBVIOUS
    <2>2. PICK r : r = [caller[c] EXCEPT !.err = e, !.at = "left"]
      OBVIOUS
    <2>3. r \in CallerType /\ r.at = "left"
      BY <1>1, <2>2 DEF CallerType
    <2>4. /\ caller' = [caller EXCEPT ![c] = r] /\ caller[c].at \in {"enter", "wait"}
          /\ UNCHANGED <<webFile, diskFile, lastRead, value, nextAt, semaphore, load,
                         webClock, torn>>
      BY <1>5, <2>1, <2>2 DEF LeaveLoad
    <2> QED BY <1>1, <2>3, <2>4, CallerMoves
  <1> QED BY <1>2, <1>3, <1>4, <1>5

(* The semaphore is taken, or the old value is enough.                     *)
LEMMA Enters == ASSUME RemoteInv, NEW c \in Loaders, Enter(c) PROVE RemoteInv'
  <1>1. /\ caller \in [Loaders -> CallerType] /\ caller[c] \in CallerType
        /\ caller[c].at = "enter" /\ webClock # 0
        /\ UNCHANGED <<webFile, diskFile, lastRead, value, nextAt, load, webClock,
                       torn>>
    BY DEF RemoteInv, RemoteTyped, VersionInv, Enter
  <1>2. CASE semaphore' = semaphore /\ caller[c].ptr # 0
             /\ caller' = [caller EXCEPT ![c].at = "done"]
    <2>1. PICK r : r = [caller[c] EXCEPT !.at = "done"]
      OBVIOUS
    <2>2. r \in CallerType /\ r.at = "done" /\ r.ptr = caller[c].ptr
      BY <1>1, <2>1 DEF CallerType
    <2>3. caller' = [caller EXCEPT ![c] = r]
      BY <1>1, <1>2, <2>1
    <2> QED BY <1>1, <1>2, <2>2, <2>3, CallerMoves
  <1>3. CASE ~semaphore /\ semaphore' = TRUE
             /\ caller' = [caller EXCEPT ![c].at = "recheck"]
    <2>1. /\ caller' \in [Loaders -> CallerType] /\ caller'[c].at = "recheck"
          /\ \A d \in Loaders : d # c => caller'[d] = caller[d]
      BY <1>1, <1>3 DEF CallerType
    <2>2. RemoteTyped'
      BY <1>1, <1>3, <2>1, RemoteTypes
      DEF RemoteInv, RemoteTyped, RemoteTypeOK, CallerType, Parses
    <2>3. VersionInv' /\ LoadInv'
      BY <1>1 DEF RemoteInv, VersionInv, LoadInv
    <2>4. CallerInv' /\ AnsweredWithOne'
      BY <2>1 DEF RemoteInv, CallerInv, AnsweredWithOne
    <2>5. OneLoads'
      <3>1. load.at = "off" /\ \A d \in Loaders : caller[d].at # "recheck"
        BY <1>3 DEF RemoteInv, OneLoads
      <3>2. \A d \in Loaders : caller'[d].at = "recheck" <=> d = c
        BY <2>1, <3>1
      <3> QED BY <1>1, <1>3, <3>1, <3>2 DEF OneLoads
    <2> QED BY <2>2, <2>3, <2>4, <2>5 DEF RemoteInv
  <1> QED BY <1>2, <1>3 DEF Enter

(* The goroutine is started, or the semaphore given back.                  *)
LEMMA Rechecks == ASSUME RemoteInv, NEW c \in Loaders, RecheckPath(c) PROVE RemoteInv'
  <1>1. /\ caller \in [Loaders -> CallerType] /\ caller[c] \in CallerType
        /\ caller[c].at = "recheck" /\ webClock # 0 /\ value \in 0..MaxVersion
        /\ semaphore /\ load.at = "off" /\ MaxVersion \in Nat
        /\ \A d \in Loaders : d # c => caller[d].at # "recheck"
        /\ UNCHANGED <<webFile, diskFile, lastRead, value, nextAt, webClock, torn>>
    BY RemoteAssumption
    DEF RemoteAssumption, RemoteInv, RemoteTyped, RemoteTypeOK, VersionInv, OneLoads,
        RecheckPath
  <1>2. PICK p : p = IF value # 0 /\ StillFresh THEN "done"
                     ELSE IF value # 0 THEN "lazy" ELSE "wait"
    OBVIOUS
  <1>3. p \in {"done", "lazy", "wait"} /\ (p \in {"done", "lazy"} => value # 0)
    BY <1>2
  <1>4. PICK r : r = [caller[c] EXCEPT !.ptr = value, !.at = p]
    OBVIOUS
  <1>5. r \in CallerType /\ r.at = p /\ r.ptr = value
    BY <1>1, <1>3, <1>4 DEF CallerType
  <1>6. caller' = [caller EXCEPT ![c] = r]
    BY <1>2, <1>4 DEF RecheckPath
  <1>7. /\ caller' \in [Loaders -> CallerType] /\ caller'[c] = r
        /\ \A d \in Loaders : d # c => caller'[d] = caller[d]
    BY <1>1, <1>5, <1>6
  <1>8. \A d \in Loaders : caller'[d].at # "recheck"
    BY <1>1, <1>3, <1>5, <1>7
  <1>9. /\ load' \in LoadType /\ semaphore' \in BOOLEAN
        /\ \/ load' = load /\ semaphore' = FALSE
           \/ /\ load'.at = "fetch" /\ load'.by = c /\ load'.lazy = (value # 0)
              /\ load'.data = 0 /\ semaphore' = TRUE
    <2>1. CASE load' = load /\ semaphore' = FALSE
      BY <2>1 DEF RemoteInv, RemoteTyped
    <2>2. CASE load' = [NoLoad EXCEPT !.at = "fetch", !.by = c, !.lazy = value # 0]
               /\ semaphore' = semaphore
      <3>1. PICK z \in BOOLEAN : z = (value # 0)
        OBVIOUS
      <3>2. NoLoad \in LoadType /\ NoLoad.data = 0
        BY <1>1 DEF NoLoad, LoadType
      <3>3. load' = [NoLoad EXCEPT !.at = "fetch", !.by = c, !.lazy = z]
        BY <2>2, <3>1
      <3>4. /\ load' \in LoadType /\ load'.at = "fetch" /\ load'.by = c
            /\ load'.lazy = z /\ load'.data = 0
        BY <3>2, <3>3 DEF LoadType
      <3>5. semaphore' = TRUE
        BY <1>1, <2>2 DEF RemoteInv, RemoteTyped, RemoteTypeOK
      <3> QED BY <3>1, <3>4, <3>5
    <2> QED BY <2>1, <2>2 DEF RecheckPath
  <1>10. RemoteTyped'
    <2>1. /\ load'.at \in {"off", "fetch", "parse", "finish"}
          /\ load'.attempt \in 0..1
      BY <1>9 DEF LoadType
    <2>2. \A d \in Loaders : /\ caller'[d].at \in
                                    {"off", "fast", "enter", "recheck", "wait",
                                     "lazy", "done", "left"}
                             /\ caller'[d].ptr \in 0..MaxVersion
                             /\ caller'[d].err \in BOOLEAN
      BY <1>7 DEF CallerType
    <2> QED
      BY <1>1, <1>7, <1>9, <2>1, <2>2 DEF RemoteInv, RemoteTyped, RemoteTypeOK, Parses
  <1>11. VersionInv' /\ LoadInv'
    <2>1. VersionInv'
      <3>1. load'.data = 0 \/ load'.data = load.data
        BY <1>9
      <3>2. load'.at # "parse" /\ load'.at # "finish"
        BY <1>1, <1>9
      <3> QED
        BY <1>1, <3>1, <3>2 DEF RemoteInv, RemoteTyped, RemoteTypeOK, VersionInv
    <2>2. LoadInv'
      BY <1>1, <1>9 DEF LoadInv
    <2> QED BY <2>1, <2>2
  <1>12. CallerInv' /\ AnsweredWithOne'
    BY <1>3, <1>5, <1>7 DEF RemoteInv, CallerInv, AnsweredWithOne
  <1>13. OneLoads'
    BY <1>1, <1>8, <1>9 DEF OneLoads
  <1> QED BY <1>10, <1>11, <1>12, <1>13 DEF RemoteInv

(* What the goroutine tells is an error or none, and moves nobody.         *)
LEMMA TellDoes ==
  ASSUME RemoteInv, NEW e \in BOOLEAN, Tell(e)
  PROVE  /\ caller' \in [Loaders -> CallerType]
         /\ \A c \in Loaders : /\ caller'[c].at = caller[c].at
                               /\ caller'[c].ptr = caller[c].ptr
                               /\ caller[c].at = "done" => caller'[c] = caller[c]
BY DEF RemoteInv, RemoteTyped, CallerType, Tell

(* While the goroutine works, the callers stay where they are.             *)
LEMMA LoadMoves ==
  ASSUME RemoteInv, load.at \in {"fetch", "parse"}, load' \in LoadType,
         load'.by = load.by, load'.lazy = load.lazy, load'.at # "off",
         caller' \in [Loaders -> CallerType],
         \A c \in Loaders : /\ caller'[c].at = caller[c].at
                            /\ caller'[c].ptr = caller[c].ptr
                            /\ caller[c].at = "done" => caller'[c] = caller[c],
         diskFile' \in 0..MaxVersion, lastRead' \in 0..MaxWebTime,
         value' \in 0..MaxVersion, Parses(value)', torn' \in BOOLEAN,
         value # 0 => value' # 0, load'.at = "finish" => value' # 0 \/ load'.err,
         VersionInv', UNCHANGED <<webFile, nextAt, semaphore, webClock>>
  PROVE  RemoteInv'
  <1>1. RemoteTyped'
    <2>1. /\ load'.at \in {"off", "fetch", "parse", "finish"}
          /\ load'.attempt \in 0..1
      BY DEF LoadType
    <2>2. \A d \in Loaders : /\ caller'[d].at \in
                                    {"off", "fast", "enter", "recheck", "wait",
                                     "lazy", "done", "left"}
                             /\ caller'[d].ptr \in 0..MaxVersion
                             /\ caller'[d].err \in BOOLEAN
      BY DEF CallerType
    <2> QED BY <2>1, <2>2 DEF RemoteInv, RemoteTyped, RemoteTypeOK
  <1>2. LoadInv' /\ CallerInv' /\ AnsweredWithOne'
    BY DEF RemoteInv, LoadInv, CallerInv, AnsweredWithOne
  <1>3. OneLoads'
    BY DEF RemoteInv, OneLoads
  <1> QED BY <1>1, <1>2, <1>3 DEF RemoteInv

(* Fetch                                                                   *)
LEMMA Fetches == ASSUME RemoteInv, Fetch PROVE RemoteInv'
  <1>1. /\ load \in LoadType /\ load.at = "fetch" /\ webClock # 0
        /\ webFile \in [v : 0..MaxVersion, mod : 0..MaxWebTime]
        /\ diskFile \in 0..MaxVersion /\ lastRead \in 0..MaxWebTime
        /\ value \in 0..MaxVersion /\ torn \in BOOLEAN /\ webClock \in 0..MaxWebTime
        /\ MaxVersion \in Nat /\ webFile.v >= 2 /\ value <= webFile.v
        /\ diskFile <= webFile.v /\ (~torn /\ diskFile # 0 => value <= diskFile)
        /\ UNCHANGED <<webFile, value, nextAt, semaphore, webClock>>
    BY RemoteAssumption
    DEF RemoteAssumption, RemoteInv, RemoteTyped, RemoteTypeOK, VersionInv, Fetch
  <1>2. PICK d \in 0..MaxVersion, e \in BOOLEAN :
          /\ load' = [load EXCEPT !.at = "parse", !.data = d, !.err = e]
          /\ Tell(e)
          /\ \/ /\ d \in {0, diskFile} /\ diskFile' = diskFile /\ torn' = torn
                /\ lastRead' \in {lastRead, webClock}
             \/ /\ d = webFile.v /\ lastRead' = webClock
                /\ \/ diskFile' = webFile.v /\ torn' = torn
                   \/ torn' = TRUE /\ diskFile' = diskFile
    <2> DEFINE quiet == [data |-> IF load.lazy THEN 0 ELSE diskFile, err |-> FALSE]
               gives(r) == load' = [load EXCEPT !.at = "parse", !.data = r.data,
                                                 !.err = r.err]
                            /\ Tell(r.err)
    <2>1. quiet.data \in 0..MaxVersion /\ quiet.data \in {0, diskFile}
          /\ quiet.err \in BOOLEAN
      BY <1>1
    <2>2. PICK lazyError : lazyError = [data |-> 0, err |-> TRUE]
      OBVIOUS
    <2>3. PICK saved : saved = FileOr(TRUE)
      OBVIOUS
    <2>4. PICK new : new = [data |-> webFile.v, err |-> FALSE]
      OBVIOUS
    <2>5. /\ lazyError.data = 0 /\ lazyError.err \in BOOLEAN
          /\ saved.data = diskFile /\ saved.err \in BOOLEAN
          /\ new.data = webFile.v /\ new.err \in BOOLEAN
          /\ webFile.v \in 0..MaxVersion /\ 0 \in 0..MaxVersion
      BY <1>1, <2>2, <2>3, <2>4 DEF FileOr
    <2>6. \/ /\ gives(quiet) \/ gives(lazyError) \/ gives(saved)
             /\ diskFile' = diskFile /\ torn' = torn
             /\ lastRead' \in {lastRead, webClock}
          \/ /\ gives(new) /\ lastRead' = webClock
             /\ \/ diskFile' = webFile.v /\ torn' = torn
                \/ torn' = TRUE /\ diskFile' = diskFile
      BY <2>2, <2>3, <2>4 DEF Fetch
    <2> HIDE DEF quiet
    <2> QED BY <1>1, <2>1, <2>5, <2>6
  <1>3. /\ load' \in LoadType /\ load'.at = "parse" /\ load'.data = d
        /\ load'.by = load.by /\ load'.lazy = load.lazy
    BY <1>1, <1>2 DEF LoadType
  <1>4. /\ caller' \in [Loaders -> CallerType]
        /\ \A c \in Loaders : /\ caller'[c].at = caller[c].at
                              /\ caller'[c].ptr = caller[c].ptr
                              /\ caller[c].at = "done" => caller'[c] = caller[c]
    BY <1>2, TellDoes
  <1>5. /\ diskFile' \in 0..MaxVersion /\ lastRead' \in 0..MaxWebTime
        /\ torn' \in BOOLEAN /\ Parses(value)'
    BY <1>1, <1>2 DEF RemoteInv, RemoteTyped, RemoteTypeOK, Parses
  <1>6. VersionInv'
    BY <1>1, <1>2, <1>3 DEF VersionInv
  <1> QED BY <1>1, <1>3, <1>4, <1>5, <1>6, LoadMoves

(* Parse: what is parsed and not torn is on the disk.                      *)
LEMMA ParseDoes ==
  ASSUME RemoteInv, Parse
  PROVE  /\ RemoteInv'
         /\ value' # value => value' # 0 /\ (value' > value \/ torn)
  <1>1. /\ load \in LoadType /\ load.at = "parse" /\ webClock # 0
        /\ diskFile \in 0..MaxVersion /\ lastRead \in 0..MaxWebTime
        /\ value \in 0..MaxVersion /\ Parses(value) /\ torn \in BOOLEAN
        /\ MaxVersion \in Nat /\ MaxWebTime \in Nat
        /\ webFile.v >= 2 /\ value <= webFile.v /\ webFile.v \in 0..MaxVersion
        /\ diskFile <= webFile.v /\ load.data <= webFile.v
        /\ (~torn /\ diskFile # 0 => value <= diskFile)
        /\ (~torn /\ load.data # 0 => load.data = diskFile)
        /\ (load.lazy => value # 0)
        /\ UNCHANGED <<webFile, nextAt, semaphore, webClock, torn>>
    BY RemoteAssumption
    DEF RemoteAssumption, RemoteInv, RemoteTyped, RemoteTypeOK, VersionInv, LoadInv,
        Parse
  <1>2. load.data \in 0..MaxVersion /\ load.err \in BOOLEAN
    BY <1>1 DEF LoadType
  <1>3. CASE load' = [load EXCEPT !.at = "finish"]
             /\ (load.err \/ (load.data = 0 /\ load.lazy))
             /\ UNCHANGED <<diskFile, lastRead, value, caller>>
    <2>1. /\ load' \in LoadType /\ load'.at = "finish" /\ load'.data = load.data
          /\ load'.by = load.by /\ load'.lazy = load.lazy /\ load'.err = load.err
      BY <1>1, <1>3 DEF LoadType
    <2>2. VersionInv'
      BY <1>1, <1>3, <2>1 DEF VersionInv
    <2>3. Parses(value)' /\ caller' \in [Loaders -> CallerType]
      BY <1>1, <1>3 DEF Parses, RemoteInv, RemoteTyped
    <2>4. RemoteInv'
      BY <1>1, <1>3, <2>1, <2>2, <2>3, LoadMoves
    <2> QED BY <1>3, <2>4
  <1>4. CASE load' = [load EXCEPT !.at = "finish"]
             /\ load.data # 0 /\ Parses(load.data) /\ value' = load.data
             /\ Tell(FALSE) /\ UNCHANGED <<diskFile, lastRead>>
    <2>1. /\ load' \in LoadType /\ load'.at = "finish" /\ load'.data = load.data
          /\ load'.by = load.by /\ load'.lazy = load.lazy
      BY <1>1, <1>4 DEF LoadType
    <2>2. VersionInv'
      BY <1>1, <1>2, <1>4, <2>1 DEF VersionInv
    <2>3. Parses(value)'
      BY <1>4 DEF Parses
    <2>4. /\ caller' \in [Loaders -> CallerType]
          /\ \A c \in Loaders : /\ caller'[c].at = caller[c].at
                                /\ caller'[c].ptr = caller[c].ptr
                                /\ caller[c].at = "done" => caller'[c] = caller[c]
      BY <1>4, TellDoes
    <2>5. RemoteInv'
      BY <1>1, <1>2, <1>4, <2>1, <2>2, <2>3, <2>4, LoadMoves
    <2> QED BY <1>1, <1>2, <1>4, <2>5
  <1>5. CASE diskFile' = 0 /\ lastRead' = 0 /\ Tell(TRUE) /\ value' = value
             /\ load' = IF load.attempt = 0
                        THEN [load EXCEPT !.at = "fetch", !.attempt = 1]
                        ELSE [load EXCEPT !.at = "finish", !.err = TRUE]
    <2>1. /\ load' \in LoadType /\ load'.at \in {"fetch", "finish"}
          /\ load'.by = load.by /\ load'.lazy = load.lazy /\ load'.data = load.data
          /\ load'.at = "finish" => load'.err = TRUE
      <3>1. CASE load' = [load EXCEPT !.at = "fetch", !.attempt = 1]
        <4>1. load' \in LoadType
          <5>1. PICK a \in 0..1 : a = 1
            OBVIOUS
          <5>2. load' = [load EXCEPT !.at = "fetch", !.attempt = a]
            BY <3>1, <5>1
          <5> QED BY <1>1, <5>2 DEF LoadType
        <4>2. /\ load'.at = "fetch" /\ load'.by = load.by
              /\ load'.lazy = load.lazy /\ load'.data = load.data
          BY <1>1, <3>1 DEF LoadType
        <4> QED BY <4>1, <4>2
      <3>2. CASE load' = [load EXCEPT !.at = "finish", !.err = TRUE]
        <4>1. PICK e \in BOOLEAN : e = TRUE
          OBVIOUS
        <4>2. load' = [load EXCEPT !.at = "finish", !.err = e]
          BY <3>2, <4>1
        <4>3. /\ load' \in LoadType /\ load'.at = "finish" /\ load'.err = e
              /\ load'.by = load.by /\ load'.lazy = load.lazy
              /\ load'.data = load.data
          BY <1>1, <4>2 DEF LoadType
        <4> QED BY <4>1, <4>3
      <3> QED BY <1>5, <3>1, <3>2
    <2>2. VersionInv'
      BY <1>1, <1>2, <1>5, <2>1 DEF VersionInv
    <2>3. Parses(value)'
      BY <1>1, <1>5 DEF Parses
    <2>4. /\ caller' \in [Loaders -> CallerType]
          /\ \A c \in Loaders : /\ caller'[c].at = caller[c].at
                                /\ caller'[c].ptr = caller[c].ptr
                                /\ caller[c].at = "done" => caller'[c] = caller[c]
      BY <1>5, TellDoes
    <2>5. RemoteInv'
      BY <1>1, <1>2, <1>5, <2>1, <2>2, <2>3, <2>4, LoadMoves
    <2> QED BY <1>5, <2>5
  <1> QED BY <1>3, <1>4, <1>5 DEF Parse

(* FinishLoad                                                              *)
LEMMA Finishes == ASSUME RemoteInv, FinishLoad PROVE RemoteInv'
  <1>1. /\ load \in LoadType /\ load.by \in Loaders /\ webClock # 0
        /\ webClock \in 0..MaxWebTime /\ nextAt \in 0..(MaxWebTime + Recheck)
        /\ value \in 0..MaxVersion /\ MaxVersion \in Nat /\ Recheck \in Nat
        /\ MaxWebTime \in Nat /\ (value # 0 \/ load.err)
        /\ caller \in [Loaders -> CallerType]
        /\ \A c \in Loaders : caller[c].at # "recheck"
        /\ load' = NoLoad /\ semaphore' = FALSE
        /\ UNCHANGED <<webFile, diskFile, lastRead, value, webClock, torn>>
    BY RemoteAssumption
    DEF RemoteAssumption, RemoteInv, RemoteTyped, RemoteTypeOK, VersionInv, LoadInv,
        OneLoads, FinishLoad
  <1>2. load' \in LoadType /\ load'.at = "off" /\ load'.data = 0
    BY <1>1 DEF NoLoad, LoadType
  <1>3. nextAt' \in 0..(MaxWebTime + Recheck)
    BY <1>1 DEF FinishLoad
  <1>4. PICK r : r = [caller[load.by] EXCEPT !.ptr = value, !.err = load.err,
                                             !.at = "done"]
    OBVIOUS
  <1>5. r \in CallerType /\ r.at = "done" /\ r.ptr = value /\ r.err = load.err
    BY <1>1, <1>4, ZenonT(60) DEF CallerType, LoadType
  <1>6. caller' = [caller EXCEPT ![load.by] = r] \/ caller' = caller
    BY <1>4 DEF FinishLoad
  <1>7. /\ caller' \in [Loaders -> CallerType]
        /\ \A c \in Loaders : caller'[c] = caller[c] \/ caller'[c] = r
    BY <1>1, <1>5, <1>6
  <1>8. RemoteTyped'
    <2>1. load'.at \in {"off", "fetch", "parse", "finish"} /\ load'.attempt \in 0..1
      BY <1>2 DEF LoadType
    <2>2. \A d \in Loaders : /\ caller'[d].at \in
                                    {"off", "fast", "enter", "recheck", "wait",
                                     "lazy", "done", "left"}
                             /\ caller'[d].ptr \in 0..MaxVersion
                             /\ caller'[d].err \in BOOLEAN
      BY <1>7 DEF CallerType
    <2> QED
      BY <1>1, <1>2, <1>3, <1>7, <2>1, <2>2
      DEF RemoteInv, RemoteTyped, RemoteTypeOK, Parses
  <1>9. VersionInv' /\ LoadInv'
    BY <1>1, <1>2 DEF RemoteInv, RemoteTyped, RemoteTypeOK, VersionInv, LoadInv
  <1>10. CallerInv' /\ AnsweredWithOne'
    BY <1>1, <1>5, <1>7 DEF RemoteInv, CallerInv, AnsweredWithOne
  <1>11. OneLoads'
    <2>1. \A c \in Loaders : caller'[c].at # "recheck"
      BY <1>1, <1>5, <1>7
    <2> QED BY <1>1, <1>2, <2>1 DEF OneLoads
  <1> QED BY <1>8, <1>9, <1>10, <1>11 DEF RemoteInv

(* A step of the world.                                                    *)
LEMMA WorldSteps ==
  ASSUME RemoteInv,
         (\E v \in 0..2 : NewRemoteFile(v)) \/ WebTick \/ NewVersion
  PROVE  RemoteInv'
  <1>1. /\ UNCHANGED <<value, nextAt, semaphore, caller, load, torn>>
        /\ {MaxVersion, MaxWebTime, Recheck} \subseteq Nat
        /\ MaxVersion >= 2 /\ MaxWebTime >= 1
    BY RemoteAssumption DEF RemoteAssumption, NewRemoteFile, WebTick, NewVersion
  <1>2. RemoteTyped' /\ VersionInv'
    <2>1. ASSUME NEW v \in 0..2, NewRemoteFile(v)
          PROVE  RemoteTyped' /\ VersionInv'
      <3>1. /\ webClock = 0 /\ webClock' = 1 /\ diskFile' = v /\ v \in 0..MaxVersion
            /\ lastRead' \in 0..MaxWebTime /\ webClock' \in 0..MaxWebTime
            /\ webFile' = webFile
        BY <1>1, <2>1 DEF NewRemoteFile
      <3>2. value = 0 /\ load.at = "off" /\ webFile.v >= 2 /\ webFile.v \in Nat
        BY <3>1 DEF RemoteInv, VersionInv, RemoteTyped, RemoteTypeOK
      <3>3. RemoteTyped'
        BY <1>1, <3>1 DEF RemoteInv, RemoteTyped, RemoteTypeOK, Parses
      <3>4. VersionInv'
        BY <1>1, <3>1, <3>2 DEF RemoteInv, VersionInv
      <3> QED BY <3>3, <3>4
    <2>2. CASE WebTick
      BY <1>1, <2>2
      DEF WebTick, RemoteInv, RemoteTyped, RemoteTypeOK, VersionInv, Parses
    <2>3. CASE NewVersion
      <3>1. /\ webFile' \in [v : 0..MaxVersion, mod : 0..MaxWebTime]
            /\ webFile'.v = webFile.v + 1 /\ webClock > 0 /\ webFile.v \in Nat
            /\ UNCHANGED <<diskFile, lastRead, webClock>>
        BY <1>1, <2>3 DEF NewVersion, RemoteInv, RemoteTyped, RemoteTypeOK
      <3>2. RemoteTyped'
        BY <1>1, <3>1 DEF RemoteInv, RemoteTyped, RemoteTypeOK, Parses
      <3>3. load.data \in Nat /\ value \in Nat /\ diskFile \in Nat /\ webClock \in Nat
        BY <1>1 DEF RemoteInv, RemoteTyped, RemoteTypeOK, LoadType
      <3>4. VersionInv'
        BY <1>1, <3>1, <3>3 DEF RemoteInv, VersionInv
      <3> QED BY <3>2, <3>4
    <2> QED BY <2>1, <2>2, <2>3
  <1>3. LoadInv' /\ CallerInv' /\ AnsweredWithOne' /\ OneLoads'
    BY <1>1 DEF RemoteInv, LoadInv, CallerInv, AnsweredWithOne, OneLoads
  <1> QED BY <1>2, <1>3 DEF RemoteInv

(* Every step keeps it.                                                    *)
LEMMA RemoteStep == RemoteInv /\ [RemoteNext]_remoteVars => RemoteInv'
  <1> SUFFICES ASSUME RemoteInv, [RemoteNext]_remoteVars PROVE RemoteInv'
    OBVIOUS
  <1>1. CASE RemoteNext
    BY <1>1, WorldSteps, Fetches, ParseDoes, Finishes, CallerSteps, Enters, Rechecks
    DEF RemoteNext, Loading, Calling
  <1>2. CASE UNCHANGED remoteVars
    BY <1>2
    DEF remoteVars, RemoteInv, RemoteTyped, RemoteTypeOK, VersionInv, LoadInv, CallerInv,
        OneLoads, AnsweredWithOne, Parses
  <1> QED BY <1>1, <1>2

(* Only Parse changes the value, and what it parsed is on the disk.        *)
LEMMA GrowStep ==
  RemoteInv /\ [RemoteNext]_remoteVars
    => [value' # value => value' # 0 /\ (value' > value \/ torn)]_remoteVars
  <1> SUFFICES ASSUME RemoteInv, RemoteNext, value' # value
               PROVE  value' # 0 /\ (value' > value \/ torn)
    BY DEF remoteVars
  <1>1. Parse
    BY DEF RemoteNext, NewRemoteFile, WebTick, NewVersion, Loading, Fetch, FinishLoad,
           CallLoad, Calling, FastPath, Enter, RecheckPath, ReturnLazy, LeaveLoad
  <1> QED
    BY <1>1, ParseDoes

-----------------------------------------------------------------------------
(* The suite.                                                              *)

(* It starts with every part in its initial state.                         *)
LEMMA PartsStart ==
  Init => /\ HttpInit /\ VisitInit /\ FileInit /\ OrphanInit
          /\ FileServeInit /\ KindInit /\ RemoteInit
BY DEF Init

(* A step of it is one of each part, or leaves that part alone.            *)
LEMMA PartsStep ==
  [Next]_vars => /\ [HttpNext]_httpVars /\ [VisitNext]_visitVars
                 /\ [FileNext]_fileVars /\ [OrphanNext]_orphanVars
                 /\ [FileServeNext]_fileServeVars /\ [KindNext]_kindVars
                 /\ [RemoteNext]_remoteVars
BY DEF Next, vars

(* Every request gets one answer, of HTTP unless others chose its status,  *)
(* with no more rights than it earned, for any hosts, handlers, statuses   *)
(* and depth of muxes, with the table replaced at any time (ServeHTTP,     *)
(* ServeHTTPSession, Mux.ServeHTTP).                                       *)
THEOREM AnswersAreRight == Spec => []AnswersCorrect
  <1>1. Init => HttpInv
    BY PartsStart, HttpStart
  <1>2. HttpInv /\ [Next]_vars => HttpInv'
    BY PartsStep, HttpStep
  <1> QED BY <1>1, <1>2, HttpImplies, PTL DEF Spec

(* What the user and earlier updates wrote stays in the hosts file, but    *)
(* for the windows of the code, for any hosts and any number of updates    *)
(* (UpdateSystemConfig, refreshSystemConfigLocked, Insert).                *)
THEOREM HostsFileKept == Spec => []FileKept
  <1>1. Init => HostsInv
    BY PartsStart, HostsStart
  <1>2. HostsInv /\ [Next]_vars => HostsInv'
    BY PartsStep, HostsStep
  <1>3. HostsInv => FileKept
    BY DEF HostsInv, FileKept
  <1> QED BY <1>1, <1>2, <1>3, PTL DEF Spec

(* A node that starts ends what its earlier runs left, and nothing that is *)
(* not of the mesh, for any number of processes with numbers used again    *)
(* (KillOrphans, find, AddProcess).                                        *)
THEOREM CleansUp == Spec => CleanupCorrect
  <1>1. Init => OrphanInv
    BY PartsStart, OrphanStart
  <1>2. OrphanInv /\ [Next]_vars => OrphanInv'
    BY PartsStep, OrphanStep
  <1>3. OrphanInv => OrphanTypeOK /\ OrphansEnd /\ TrackerIsOwn
    BY DEF OrphanInv
  <1>4. OrphanInv /\ [Next]_vars
          => [\A p \in Pids : KillOne(p) /\ Alive(p) /\ Ident(p) \in aimed
                                => ptable[p].ours]_orphanVars
    BY DEF OrphanInv, KillInv, KillOne, Ident, Alive
  <1> QED BY <1>1, <1>2, <1>3, <1>4, PTL DEF Spec, CleanupCorrect, SparesStrangers

(* Every answer of the file service carries the file that was asked for,   *)
(* if the pattern admits it, for any tree, options and order in which the  *)
(* goroutines read the files (NewMemoryFileSystem, Open, ServeHTTP).       *)
THEOREM FilesAreRight == Spec => []FilesCorrect
  <1>1. Init => FilesInv
    BY PartsStart, FilesStart
  <1>2. FilesInv /\ [Next]_vars => FilesInv'
    BY PartsStep, FilesStep
  <1>3. FilesInv => FilesCorrect
    BY DEF FilesInv
  <1> QED BY <1>1, <1>2, <1>3, PTL DEF Spec

(* A kind that was advised can be prepared, and what is run is there once  *)
(* it was built, for any directory, scripts and manifest, edited at any    *)
(* time (Advise, Prepare, TryEscapeScript, BuildApp).                      *)
THEOREM KindsAreRight == Spec => []KindsCorrect
  <1>1. Init => KindsInv
    BY PartsStart, KindsStart
  <1>2. KindsInv /\ [Next]_vars => KindsInv'
    BY PartsStep, KindsStep
  <1>3. KindsInv => KindsCorrect
    BY DEF KindsInv
  <1> QED BY <1>1, <1>2, <1>3, PTL DEF Spec

(* A blocked address gets no request through until the block is over, but  *)
(* for the blocks that outlast the session's last stamp by more than it is *)
(* kept, or whose session gets a request between the cleaner's look and    *)
(* the deletion, and for requests with a session that was deleted; no      *)
(* block is cut short and sessions are counted right, for any number of    *)
(* requests, addresses and limits, with any times to block                 *)
(* (StartClientRequest, IsBlocked, BlockUntil, cleanupClientSessions).     *)
THEOREM BlocksHold == Spec => BlocksCorrect
  <1>1. Init => VisitInv
    BY PartsStart, VisitStart
  <1>2. VisitInv /\ [Next]_vars => VisitInv'
    BY PartsStep, VisitStep
  <1>3. VisitInv => VisitTypeOK /\ ClientsExact
    BY DEF VisitInv
  <1>4. VisitInv /\ [Next]_vars
          => [\A v \in Visits :
                visit[v].at = "check" /\ visit'[v].at = "serve"
                  => \/ banned[visit[v].ip] <= clock
                     \/ visit[v].ip \in lost
                     \/ visit[v].ses # known[visit[v].ip]]_visitVars
    BY PartsStep, VisitStep DEF KeepsBlocks
  <1>5. VisitInv /\ [Next]_vars
          => [\A s \in Visits : client'[s].until >= client[s].until]_visitVars
    BY PartsStep, VisitStep DEF KeepsBlocks
  <1> QED BY <1>1, <1>2, <1>3, <1>4, <1>5, PTL
          DEF Spec, BlocksCorrect, BlockIsKept, BlockGrows

(* One goroutine loads at a time, whoever was not given up by its context  *)
(* has a value or an error, and the value does not go back unless a write  *)
(* failed, for any number of callers and versions and any times            *)
(* (LoadContext, loadIfChanged).                                           *)
THEOREM LoadsSoundly == Spec => LoadCorrect
  <1>1. Init => RemoteInv
    BY PartsStart, RemoteStart
  <1>2. RemoteInv /\ [Next]_vars => RemoteInv'
    BY PartsStep, RemoteStep
  <1>3. RemoteInv => RemoteTypeOK /\ OneLoads /\ AnsweredWithOne
    BY DEF RemoteInv, RemoteTyped
  <1>4. RemoteInv /\ [Next]_vars
          => [value' # value => value' # 0 /\ (value' > value \/ torn)]_remoteVars
    BY PartsStep, GrowStep
  <1> QED BY <1>1, <1>2, <1>3, <1>4, PTL DEF Spec, LoadCorrect, ValuesGrow
=============================================================================
