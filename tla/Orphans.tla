------------------------------ MODULE Orphans -------------------------------
(***************************************************************************)
(* How a node that starts ends what an earlier run left (service/glue.go,  *)
(* process.go).  Commands are marked by a variable of their environment,   *)
(* which their children inherit, or, where environments cannot be read, by *)
(* an entry of the tracker file.  Numbers of processes are used again.     *)
(***************************************************************************)
EXTENDS Integers, FiniteSets

CONSTANTS
  Pids,        (* process numbers *)
  MaxStarts    (* BOUND: processes ever started *)

Init1 == 0     (* the process that orphans fall to, and no process *)

ASSUME OrphansAssumption == Init1 \notin Pids /\ MaxStarts \in Nat

VARIABLES
  ptable,    (* live processes: [pid -> [up, parent, tim, ours]]            *)
  stamp,     (* number of processes started so far                          *)
  via,       (* "env" or "file": glueViaEnv                                 *)
  tracker,   (* the file: set of [pid, ppid, tim]                           *)
  nodeAt,    (* the node: "off", "kill", "killing", "save", "up", "glue"    *)
  nodePid,   (* its number                                                  *)
  child,     (* the command that is being started                           *)
  tree,      (* the processes to be killed                                  *)
  due,       (* history: [pid, tim] of what must not survive                *)
  aimed      (* history: [pid, tim] of what is in the tree                  *)

orphanVars ==
  <<ptable, stamp, via, tracker, nodeAt, nodePid, child, tree, due, aimed>>

Gone == [up |-> FALSE, parent |-> Init1, tim |-> 0, ours |-> FALSE]
Alive(p) == ptable[p].up
Ident(p) == [pid |-> p, tim |-> ptable[p].tim]

(* Every variable has its type; entries are those of started processes.    *)
OrphanTypeOK ==
  /\ ptable \in [Pids -> [up : BOOLEAN, parent : Pids \cup {Init1},
                         tim : 0..MaxStarts, ours : BOOLEAN]]
  /\ \A p \in Pids : Alive(p) => ptable[p].parent # p
  /\ stamp \in 0..MaxStarts /\ via \in {"unset", "env", "file"}
  /\ tracker \subseteq [pid : Pids, ppid : Pids \cup {Init1}, tim : 1..stamp]
  /\ nodeAt \in {"off", "kill", "killing", "save", "up", "glue"}
  /\ nodePid \in Pids \cup {Init1} /\ child \in Pids \cup {Init1}
  /\ tree \subseteq Pids
  /\ due \subseteq [pid : Pids, tim : 1..stamp]
  /\ aimed \subseteq [pid : Pids, tim : 1..stamp]

OrphanInit ==
  /\ ptable = [p \in Pids |-> Gone] /\ stamp = 0 /\ via = "unset" /\ tracker = {}
  /\ nodeAt = "off" /\ nodePid = Init1 /\ child = Init1 /\ tree = {}
  /\ due = {} /\ aimed = {}

-----------------------------------------------------------------------------
(* The operating system.                                                   *)

Begins(p, parent, ours) ==
  /\ ~Alive(p) /\ stamp < MaxStarts /\ stamp' = stamp + 1
  /\ ptable' = [ptable EXCEPT ![p] = [up |-> TRUE, parent |-> parent,
                                    tim |-> stamp + 1, ours |-> ours]]

(* The children of a process that ends fall to init.                       *)
Without(S) ==
  [p \in Pids |-> IF p \in S THEN Gone
                  ELSE IF ptable[p].parent \in S
                  THEN [ptable[p] EXCEPT !.parent = Init1] ELSE ptable[p]]

(* A process that is not of the mesh; a command starts a process.          *)
Stranger(p) ==
  /\ Begins(p, Init1, FALSE)
  /\ UNCHANGED <<via, tracker, nodeAt, nodePid, child, tree, due, aimed>>
Fork(p, q) ==
  /\ Alive(p) /\ ptable[p].ours /\ p # nodePid /\ Begins(q, p, TRUE)
  /\ UNCHANGED <<via, tracker, nodeAt, nodePid, child, tree, due, aimed>>
(* The number of a child that the node has not waited for is not free.     *)
Exit(p) ==
  /\ Alive(p) /\ p \notin {nodePid, child} /\ ptable' = Without({p})
  /\ UNCHANGED <<stamp, via, tracker, nodeAt, nodePid, child, tree, due, aimed>>

NodeCrashes ==
  /\ nodeAt # "off" /\ ptable' = Without({nodePid})
  /\ nodeAt' = "off" /\ nodePid' = Init1 /\ child' = Init1 /\ tree' = {}
  /\ due' = {} /\ aimed' = {}
  /\ UNCHANGED <<stamp, via, tracker>>

-----------------------------------------------------------------------------
(* The node.  Its environment is not marked.                               *)

NodeStarts(p, how) ==
  /\ nodeAt = "off" /\ Begins(p, Init1, FALSE)
  /\ via' = IF via = "unset" THEN how ELSE via
  /\ nodeAt' = "kill" /\ nodePid' = p
  /\ UNCHANGED <<tracker, child, tree, due, aimed>>

(* GluedCommand.Start, and then glueChild.                                 *)
StartCommand(p) ==
  /\ nodeAt = "up" /\ Begins(p, nodePid, TRUE)
  /\ child' = IF via = "env" THEN Init1 ELSE p
  /\ nodeAt' = IF via = "env" THEN "up" ELSE "glue"
  /\ UNCHANGED <<via, tracker, nodePid, tree, due, aimed>>

GlueChild ==
  /\ nodeAt = "glue" /\ nodeAt' = "up" /\ child' = Init1
  /\ tracker' = IF Alive(child)
                THEN tracker \cup {[pid |-> child, ppid |-> ptable[child].parent,
                                    tim |-> ptable[child].tim]}
                ELSE tracker
  /\ UNCHANGED <<ptable, stamp, via, nodePid, tree, due, aimed>>

(* AddProcess: a process with all that descends from it.                   *)
Families ==
  {S \in SUBSET Pids :
     \A q \in Pids : Alive(q) /\ ptable[q].parent \in S => q \in S}
Descends(p, root) == \A S \in Families : root \in S => p \in S
AddProcess(roots) ==
  {p \in Pids : Alive(p) /\ \E r \in roots : Alive(r) /\ Descends(p, r)}

(* MUTANT: the parent must be the recorded one.                            *)
FindExact(e) ==
  Alive(e.pid) /\ ptable[e.pid].tim = e.tim /\ ptable[e.pid].parent = e.ppid

(* find: the same number, time and parent, or none by now.                 *)
Find(e) ==
  /\ Alive(e.pid) /\ ptable[e.pid].tim = e.tim
  /\ ptable[e.pid].parent \in {e.ppid, Init1}

(* killOrphansViaEnv, killOrhpansViaTracker: what is to be killed.         *)
FindOrphans ==
  /\ nodeAt = "kill" /\ nodeAt' = "killing"
  /\ LET roots == IF via = "env" THEN {p \in Pids : Alive(p) /\ ptable[p].ours}
                  ELSE {e.pid : e \in {f \in tracker :
                                         f.ppid # nodePid /\ Find(f)}}
         must == {p \in Pids : /\ Alive(p) /\ ptable[p].ours
                               /\ \/ via = "env"
                                  \/ \E e \in tracker : /\ e.pid = p
                                                        /\ e.tim = ptable[p].tim
                                                        /\ e.ppid # nodePid}
     IN  /\ tree' = AddProcess(roots)
         /\ aimed' = {Ident(p) : p \in AddProcess(roots)}
         /\ due' = {Ident(p) : p \in must}
  /\ UNCHANGED <<ptable, stamp, via, tracker, nodePid, child>>

(* Kill, by number.                                                        *)
KillOne(p) ==
  /\ nodeAt = "killing" /\ p \in tree /\ p # nodePid
  /\ tree' = tree \ {p} /\ ptable' = Without({p})
  /\ UNCHANGED <<stamp, via, tracker, nodeAt, nodePid, child, due, aimed>>

(* The entries of this process stay, for what they are worth.              *)
SaveTracker ==
  /\ nodeAt = "killing" /\ tree = {} /\ nodeAt' = "save"
  /\ tracker' = IF via = "env" THEN tracker
                ELSE {e \in tracker : e.ppid = nodePid}
  /\ UNCHANGED <<ptable, stamp, via, nodePid, child, tree, due, aimed>>

Ready ==
  /\ nodeAt = "save" /\ nodeAt' = "up" /\ due' = {} /\ aimed' = {}
  /\ UNCHANGED <<ptable, stamp, via, tracker, nodePid, child, tree>>

OrphanNext ==
  \/ \E p \in Pids : Stranger(p) \/ Exit(p) \/ StartCommand(p) \/ KillOne(p)
  \/ \E p, q \in Pids : Fork(p, q)
  \/ \E p \in Pids, how \in {"env", "file"} : NodeStarts(p, how)
  \/ NodeCrashes \/ GlueChild \/ FindOrphans \/ SaveTracker \/ Ready

-----------------------------------------------------------------------------
(* When KillOrphans returns nothing that was marked survives: a tracked    *)
(* command is known again although its parent is another one since the     *)
(* node ended (find).  With the tracker, one that the node started just    *)
(* before its end, and the children of a command that ended, are not       *)
(* marked.                                                                 *)
OrphansEnd ==
  nodeAt = "save" => \A p \in Pids : Alive(p) => Ident(p) \notin due

(* A process of somebody else is killed only when it got the number of one *)
(* in the tree between the listing and its turn (Kill).                    *)
SparesStrangers ==
  [][\A p \in Pids : KillOne(p) /\ Alive(p) /\ Ident(p) \in aimed
                       => ptable[p].ours]_orphanVars

(* The tracker has no entries of runs before the last one but those of a   *)
(* process with the number of this one: it does not grow with every run.   *)
TrackerIsOwn ==
  nodeAt \in {"save", "up", "glue"} /\ via = "file"
    => \A e \in tracker : e.ppid \in {nodePid, Init1}

(* A node that starts ends all of its earlier runs and nothing else, with  *)
(* process numbers used again, and forgets them (KillOrphans).             *)
CleanupCorrect ==
  [](OrphanTypeOK /\ OrphansEnd /\ TrackerIsOwn) /\ SparesStrangers
=============================================================================
