------------------------------ MODULE GlobWalk ------------------------------
(***************************************************************************)
(* The walk of a source tree (glob/gocodewalker/file.go), its consumers    *)
(* (glob/glob.go) and the checksum of a tree (glob/hash.go), from which    *)
(* the app builder tells whether it has built these sources before.  A     *)
(* node of the tree is its location, a sequence of names, and a name is    *)
(* the sequence of its parts between dots; a rule file says of some nodes  *)
(* whether they are ignored; a regular expression is the set of the names  *)
(* it matches.                                                             *)
(***************************************************************************)
EXTENDS Integers, Sequences, FiniteSets, SequencesExt

CONSTANTS
  Walks,      (* [root, tree, broken, opt]: tree = [node -> [dir, rules]];   *)
              (* broken nodes cannot be read                                *)
  Fold,       (* lower case of the parts of names that are not              *)
  QueueCap    (* capacity of the channel                                    *)

(* A tree has the directories on the way to its nodes.                     *)
ASSUME WalkAssumption ==
  /\ QueueCap \in Nat
  /\ \A w \in Walks :
       /\ w.root \in DOMAIN w.tree /\ Len(w.root) = 1 /\ w.tree[w.root].dir
       /\ \A n \in DOMAIN w.tree :
            /\ n \in Seq(Seq(STRING)) /\ n # <<>> /\ SubSeq(n, 1, 1) = w.root
            /\ \A k \in 1..Len(n) : n[k] # <<>>
            /\ \A k \in 1..(Len(n) - 1) :
                 SubSeq(n, 1, k) \in DOMAIN w.tree /\ w.tree[SubSeq(n, 1, k)].dir
       /\ w.opt.outer \in Seq(ToSet(w.opt.outer))
  /\ \A s \in DOMAIN Fold : Fold[s] \in STRING \ DOMAIN Fold

VARIABLES
  walk,       (* the tree and the options, or NoWalk                        *)
  stack,      (* frames of walkDirectoryRecursive, innermost last           *)
  queue,      (* fileListQueue                                              *)
  closed,     (* it is closed                                               *)
  terminate,  (* terminateWalking                                           *)
  cancelled,  (* the context is cancelled                                   *)
  emitted,    (* history: all that was sent                                 *)
  cut,        (* history: the walk was terminated                           *)
  reader,     (* the consumer: [mode, at]                                   *)
  hashing,    (* files with a goroutine of ReduceToHash                     *)
  hashMap,    (* HashList.HashMap: [location -> node]                       *)
  stableList, (* HashList.StableList                                        *)
  sum         (* what All hashes: [location -> <<times, node>>]             *)

globVars == <<walk, stack, queue, closed, terminate, cancelled, emitted, cut,
              reader, hashing, hashMap, stableList, sum>>

NoWalk == [root |-> <<>>, tree |-> <<>>, broken |-> {}, opt |-> <<>>]
NoReader == [mode |-> "none", at |-> "off"]

GlobInit ==
  /\ walk = NoWalk /\ stack = <<>> /\ queue = <<>> /\ closed = FALSE
  /\ terminate = FALSE /\ cancelled = FALSE /\ emitted = <<>> /\ cut = FALSE
  /\ reader = NoReader /\ hashing = {} /\ hashMap = <<>> /\ stableList = <<>>
  /\ sum = <<>>

-----------------------------------------------------------------------------
(* The tree.                                                               *)

Nodes(w) == DOMAIN w.tree
NameOf(n) == Last(n)
Children(w, d) == {n \in Nodes(w) \ {w.root} : Front(n) = d}
(* The nodes on the way to n.                                              *)
Path(n) == {SubSeq(n, 1, k) : k \in DOMAIN n}
Above(n) == Path(n) \ {n}

Lower(s) == IF s \in DOMAIN Fold THEN Fold[s] ELSE s
LowerName(name) == [i \in DOMAIN name |-> Lower(name[i])]

(* IsHidden *)
Hidden(name) == Head(name) = ""

(* GetExtension: all of a name without a dot, or with its only dot first.  *)
GetExtension(name) ==
  LET low == LowerName(name) IN
  IF Len(low) = 1 \/ (Len(low) = 2 /\ Hidden(low)) THEN low ELSE <<Last(low)>>

(* The last rule file that has a rule for the node decides.                *)
LastWins(rules, n) ==
  LET hit == {i \in DOMAIN rules : n \in DOMAIN rules[i]}
  IN  hit # {} /\ rules[CHOOSE i \in hit : \A j \in hit : j <= i][n]

(* Names and expressions that include, and those that exclude.             *)
NameIgnored(flt, name) ==
  \/ flt.incl # {} /\ name \notin flt.incl
  \/ name \in flt.excl
  \/ flt.inclRx # {} /\ name \notin UNION flt.inclRx
  \/ name \in UNION flt.exclRx

ExtIgnored(w, name) ==
  LET ext == GetExtension(name)
      both == {ext, GetExtension(ext)}
  IN  \/ w.opt.allowExt # {} /\ both \cap w.opt.allowExt = {}
      \/ both \cap w.opt.denyExt # {}

(* The pattern is looked for in all of the location.                       *)
LocIgnored(w, n) == \E p \in Path(n) : NameOf(p) \in w.opt.exclLoc

FileIgnored(w, n, gitignores, ignores) ==
  \/ LastWins(gitignores \o ignores, n)
  \/ NameIgnored(w.opt.file, NameOf(n))
  \/ ~w.opt.hidden /\ Hidden(NameOf(n))
  \/ ExtIgnored(w, NameOf(n))
  \/ LocIgnored(w, n)

(* For a directory the pattern of locations is evaluated and not used.     *)
DirIgnored(w, n, gitignores, ignores) ==
  \/ LastWins(gitignores \o ignores, n)
  \/ NameIgnored(w.opt.dir, NameOf(n))
  \/ ~w.opt.hidden /\ Hidden(NameOf(n))

GitIgnore == <<"", "gitignore">>
Ignore == <<"", "ignore">>
NoRules == <<>>

(* The rules that the file of this name adds, none if there is no such     *)
(* file or it cannot be read.                                              *)
Added(w, d, name) ==
  LET n == Append(d, name)
  IN  IF n \in Nodes(w) /\ ~w.tree[n].dir /\ n \notin w.broken
      THEN w.tree[n].rules ELSE NoRules

(* AddGitIgnores: the rules of the directory and of those above it (outer, *)
(* the nearest first), each put in front.                                  *)
AddGitIgnores(w) ==
  IF w.opt.addGit
  THEN Reverse(w.opt.outer) \o <<Added(w, w.root, GitIgnore)>> ELSE <<>>

-----------------------------------------------------------------------------
(* The walker.                                                             *)

(* WalkContext *)
StartWalk(w, mode) ==
  /\ reader = NoReader /\ walk' = w
  /\ stack' = <<[dir |-> w.root, at |-> "enter", files |-> {}, dirs |-> {},
                 gi |-> AddGitIgnores(w), ig |-> <<>>]>>
  /\ reader' = [mode |-> mode, at |-> "range"]
  /\ UNCHANGED <<queue, closed, terminate, cancelled, emitted, cut, hashing,
                 hashMap, stableList, sum>>

(* One directory: told to end, all levels return the error; unreadable, it *)
(* is left; else its rule files come first.                                *)
EnterDirectory ==
  /\ stack # <<>> /\ Last(stack).at = "enter"
  /\ LET f == Last(stack)
         here == Children(walk, f.dir)
     IN  IF terminate THEN stack' = <<>> /\ cut' = TRUE
         ELSE /\ UNCHANGED cut
              /\ stack' =
                   IF f.dir \in walk.broken THEN Front(stack)
                   ELSE Append(Front(stack), [f EXCEPT
                     !.at = "files",
                     !.files = {n \in here : ~walk.tree[n].dir},
                     !.dirs = {n \in here : walk.tree[n].dir},
                     !.gi = @ \o (IF walk.opt.noGitIgnore THEN <<>>
                                  ELSE <<Added(walk, f.dir, GitIgnore)>>),
                     !.ig = @ \o (IF walk.opt.noIgnore THEN <<>>
                                  ELSE <<Added(walk, f.dir, Ignore)>>)])
  /\ UNCHANGED <<walk, queue, closed, terminate, cancelled, emitted, reader,
                 hashing, hashMap, stableList, sum>>

(* A file, in the order in which the directory has them: any.  Sending     *)
(* waits for room.                                                         *)
VisitFile(n) ==
  /\ stack # <<>> /\ Last(stack).at = "files" /\ n \in Last(stack).files
  /\ LET f == Last(stack) IN
     /\ IF FileIgnored(walk, n, f.gi, f.ig) THEN UNCHANGED <<queue, emitted>>
        ELSE /\ Len(queue) < QueueCap
             /\ queue' = Append(queue, n) /\ emitted' = Append(emitted, n)
     /\ stack' = Append(Front(stack), [f EXCEPT !.files = @ \ {n}])
  /\ UNCHANGED <<walk, closed, terminate, cancelled, cut, reader, hashing,
                 hashMap, stableList, sum>>

(* MUTANT: the rules of the directories above are not handed down.         *)
VisitDirectoryFresh(n) ==
  /\ stack # <<>> /\ Last(stack).at = "files" /\ Last(stack).files = {}
  /\ n \in Last(stack).dirs
  /\ LET f == Last(stack)
         rest == Append(Front(stack), [f EXCEPT !.dirs = @ \ {n}])
     IN  stack' = IF DirIgnored(walk, n, f.gi, f.ig) THEN rest
                  ELSE Append(rest, [dir |-> n, at |-> "enter", files |-> {},
                                     dirs |-> {}, gi |-> <<>>, ig |-> <<>>])
  /\ UNCHANGED <<walk, queue, closed, terminate, cancelled, emitted, cut,
                 reader, hashing, hashMap, stableList, sum>>

(* A directory, when the files are done.                                   *)
VisitDirectory(n) ==
  /\ stack # <<>> /\ Last(stack).at = "files" /\ Last(stack).files = {}
  /\ n \in Last(stack).dirs
  /\ LET f == Last(stack)
         rest == Append(Front(stack), [f EXCEPT !.dirs = @ \ {n}])
     IN  stack' = IF DirIgnored(walk, n, f.gi, f.ig) THEN rest
                  ELSE Append(rest, [dir |-> n, at |-> "enter", files |-> {},
                                     dirs |-> {}, gi |-> f.gi, ig |-> f.ig])
  /\ UNCHANGED <<walk, queue, closed, terminate, cancelled, emitted, cut,
                 reader, hashing, hashMap, stableList, sum>>

LeaveDirectory ==
  /\ stack # <<>> /\ Last(stack).at = "files"
  /\ Last(stack).files = {} /\ Last(stack).dirs = {}
  /\ stack' = Front(stack)
  /\ UNCHANGED <<walk, queue, closed, terminate, cancelled, emitted, cut,
                 reader, hashing, hashMap, stableList, sum>>

(* Start closes the channel, whatever the walk returned.                   *)
EndWalk ==
  /\ reader # NoReader /\ stack = <<>> /\ ~closed /\ closed' = TRUE
  /\ UNCHANGED <<walk, stack, queue, terminate, cancelled, emitted, cut,
                 reader, hashing, hashMap, stableList, sum>>

-----------------------------------------------------------------------------
(* The context and the consumers.                                          *)

CancelWalk ==
  /\ reader.at = "range" /\ ~cancelled /\ cancelled' = TRUE
  /\ UNCHANGED <<walk, stack, queue, closed, terminate, emitted, cut, reader,
                 hashing, hashMap, stableList, sum>>

(* context.AfterFunc: Terminate, in a goroutine of its own.                *)
Terminate ==
  /\ cancelled /\ ~terminate /\ terminate' = TRUE
  /\ UNCHANGED <<walk, stack, queue, closed, cancelled, emitted, cut, reader,
                 hashing, hashMap, stableList, sum>>

(* ForEachContext and CollectContext: the callback may want no more, and   *)
(* then nobody reads the channel.                                          *)
ForEach(more) ==
  /\ reader.mode = "each" /\ reader.at = "range" /\ queue # <<>>
  /\ queue' = Tail(queue)
  /\ IF more THEN UNCHANGED <<reader, cancelled>>
     ELSE reader' = [reader EXCEPT !.at = "done"] /\ cancelled' = TRUE
  /\ UNCHANGED <<walk, stack, closed, terminate, emitted, cut, hashing,
                 hashMap, stableList, sum>>
ForEachEnds ==
  /\ reader.mode = "each" /\ reader.at = "range" /\ queue = <<>> /\ closed
  /\ reader' = [reader EXCEPT !.at = "done"] /\ cancelled' = TRUE
  /\ UNCHANGED <<walk, stack, queue, closed, terminate, emitted, cut, hashing,
                 hashMap, stableList, sum>>

(* normalLoc: the location in lower case.                                  *)
NormalLoc(n) == [k \in DOMAIN n |-> LowerName(n[k])]

(* ReduceToHash: a goroutine for every file.                               *)
HashNext ==
  /\ reader.mode = "hash" /\ reader.at = "range" /\ queue # <<>>
  /\ queue' = Tail(queue) /\ hashing' = hashing \cup {Head(queue)}
  /\ UNCHANGED <<walk, stack, closed, terminate, cancelled, emitted, cut,
                 reader, hashMap, stableList, sum>>

(* Location and content into the digest; under the lock, both lists.       *)
HashFile(n) ==
  /\ n \in hashing /\ hashing' = hashing \ {n}
  /\ hashMap' = [l \in DOMAIN hashMap \cup {NormalLoc(n)} |->
                   IF l = NormalLoc(n) THEN n ELSE hashMap[l]]
  /\ stableList' = Append(stableList, NormalLoc(n))
  /\ UNCHANGED <<walk, stack, queue, closed, terminate, cancelled, emitted,
                 cut, reader, sum>>

(* The list sorted is the number of times of every location in it; All     *)
(* hashes it with the digests.                                             *)
SumOf(list, map) ==
  [l \in ToSet(list) |->
     <<Cardinality({i \in DOMAIN list : list[i] = l}), map[l]>>]

(* wg.Wait, the sort, and the sum.                                         *)
HashDone ==
  /\ reader.mode = "hash" /\ reader.at = "range" /\ queue = <<>> /\ closed
  /\ hashing = {}
  /\ reader' = [reader EXCEPT !.at = "done"]
  /\ sum' = SumOf(stableList, hashMap)
  /\ UNCHANGED <<walk, stack, queue, closed, terminate, cancelled, emitted,
                 cut, hashing, hashMap, stableList>>

Walker ==
  \/ EnterDirectory \/ LeaveDirectory \/ EndWalk
  \/ \E n \in Nodes(walk) : VisitFile(n) \/ VisitDirectory(n)
Reader ==
  \/ ForEach(TRUE) \/ ForEachEnds \/ HashNext \/ HashDone
  \/ \E n \in hashing : HashFile(n)

GlobNext ==
  \/ \E w \in Walks, mode \in {"each", "hash"} : StartWalk(w, mode)
  \/ Walker \/ Reader \/ ForEach(FALSE) \/ CancelWalk \/ Terminate

(* The walker, AfterFunc and the reader are goroutines.                    *)
GlobFairness ==
  WF_globVars(Walker) /\ WF_globVars(Reader) /\ WF_globVars(Terminate)

GlobSpec == GlobInit /\ [][GlobNext]_globVars /\ GlobFairness

-----------------------------------------------------------------------------
(* The rules of the first k directories on the way to d, outermost first:  *)
(* those of the options, those of .gitignore files, and after all of them  *)
(* those of .ignore files.                                                 *)
RulesOf(w, d, k, name) == [i \in 1..k |-> Added(w, SubSeq(d, 1, i), name)]
GitRules(w, d, k) ==
  AddGitIgnores(w)
    \o (IF w.opt.noGitIgnore THEN <<>> ELSE RulesOf(w, d, k, GitIgnore))
IgnoreRules(w, d, k) ==
  IF w.opt.noIgnore THEN <<>> ELSE RulesOf(w, d, k, Ignore)
Ruled(w, n) ==
  LET d == Front(n)
  IN  LastWins(GitRules(w, d, Len(d)) \o IgnoreRules(w, d, Len(d)), n)

(* What the options ask for, node by node and without a walk.              *)
Wanted1(w, n) ==
  LET name == NameOf(n)
  IN  /\ ~w.tree[n].dir
      /\ Above(n) \cap w.broken = {}
      /\ \A m \in Path(n) \ {w.root} : ~Ruled(w, m)
      /\ \A m \in Path(n) : NameOf(m) \notin w.opt.exclLoc
      /\ w.opt.hidden \/ \A m \in Path(n) \ {w.root} : ~Hidden(NameOf(m))
      /\ \A m \in Above(n) \ {w.root} : ~NameIgnored(w.opt.dir, NameOf(m))
      /\ ~NameIgnored(w.opt.file, name)
      /\ w.opt.allowExt = {} \/ GetExtension(name) \in w.opt.allowExt
      /\ GetExtension(name) \notin w.opt.denyExt
WantedFiles(w) == {n \in Nodes(w) : Wanted1(w, n)}

(* A walk that was not ended early has sent every wanted file once and no  *)
(* other: the rules of a directory hold below it and not beside it, a      *)
(* deeper rule file overrules, and a location that is excluded stays out   *)
(* although directories are not checked for it.                            *)
WalkExact ==
  /\ \A n \in ToSet(emitted) : Wanted1(walk, n)
  /\ Len(emitted) = Cardinality(ToSet(emitted))
  /\ closed /\ ~cut => ToSet(emitted) = WantedFiles(walk)

(* The checksum of a tree that was walked to its end depends on the tree   *)
(* only, not on the order of the goroutines: unless two locations differ   *)
(* only in case, when the digest of either stands for both (normalLoc).    *)
HashDetermined ==
  reader.mode = "hash" /\ reader.at = "done" /\ ~cut
    /\ (\A m, n \in WantedFiles(walk) : NormalLoc(m) = NormalLoc(n) => m = n)
    => /\ DOMAIN sum = {NormalLoc(n) : n \in WantedFiles(walk)}
       /\ \A n \in WantedFiles(walk) : sum[NormalLoc(n)] = <<1, n>>

(* Whoever reads the channel comes to its end, cancelled or not.           *)
ReadersEnd == (reader.at = "range") ~> (reader.at = "done")

(* The walker ends, unless a reader has left it before a full channel:     *)
(* Terminate is looked at between directories only.                        *)
WalkersEnd ==
  (reader.at = "range") ~> (closed \/ (reader.at = "done"
                                         /\ Len(queue) = QueueCap))

(* A walk sends what the rules of the tree want, and the checksum depends  *)
(* on the tree and not on the order of goroutines (walkDirectoryRecursive, *)
(* ReduceToHash).                                                          *)
WalkCorrect == WalkExact /\ HashDetermined
=============================================================================
