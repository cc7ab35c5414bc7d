----------------------------- MODULE HostsFile ------------------------------
(***************************************************************************)
(* hosts: the system's hosts file and the copy of it that pmesh keeps.     *)
(* Somebody else edits the file meanwhile.  A line of the file is a line   *)
(* of the user or a mapping of pmesh; a mapping is <<host, address>>.      *)
(***************************************************************************)
EXTENDS Integers, FiniteSets

CONSTANTS
  UserLines,   (* lines the user may add                                    *)
  Names,       (* hosts                                                     *)
  Adrs,        (* addresses                                                 *)
  MaxUpdates,  (* BOUND: calls of Insert                                    *)
  MaxSeconds   (* BOUND: length of a behaviour                              *)

ASSUME HostsAssumption == MaxUpdates \in Nat /\ MaxSeconds \in Nat

Pairs == Names \X Adrs
Empty == [user |-> {}, ours |-> {}]

VARIABLES
  seconds,    (* the clock                                                  *)
  file,       (* the file: [user, ours], with no more structure than that   *)
  mtime,      (* its modification time                                      *)
  copy,       (* systemConfig                                               *)
  copied,     (* systemConfigUpdatedAt, -1 before the first                 *)
  writer,     (* UpdateSystemConfig under configLock: [at, map, backup]     *)
  updates,    (* number of Inserts so far                                   *)
  added,      (* history: lines the user added                              *)
  kept,       (* history: mappings that were written, each host its last    *)
  excused     (* history: lines that pmesh could not know of, or lost       *)

fileVars == <<seconds, file, mtime, copy, copied, writer, updates, added,
              kept, excused>>

NoWriter == [at |-> "off", map |-> {}, backup |-> Empty]

(* A mapping of each host at most, in the file as in the copy.             *)
Function(m) == \A a, b \in m : a[1] = b[1] => a = b
Contents == [user : SUBSET UserLines, ours : SUBSET Pairs]

(* Every variable has its type.                                            *)
FileTypeOK ==
  /\ seconds \in 0..MaxSeconds /\ updates \in 0..MaxUpdates
  /\ file \in Contents /\ copy \in Contents
  /\ Function(file.ours) /\ Function(copy.ours)
  /\ mtime \in 0..MaxSeconds /\ copied \in -1..MaxSeconds
  /\ writer \in [at : {"off", "refresh", "insert", "truncate", "write"},
                 map : SUBSET Pairs, backup : Contents]
  /\ kept \subseteq Pairs /\ excused \subseteq UserLines /\ added \subseteq UserLines

FileInit ==
  /\ seconds = 0 /\ file = Empty /\ mtime = 0 /\ copy = Empty /\ copied = -1
  /\ writer = NoWriter /\ updates = 0 /\ added = {} /\ kept = {} /\ excused = {}

FileClock ==
  /\ seconds < MaxSeconds /\ seconds' = seconds + 1
  /\ UNCHANGED <<file, mtime, copy, copied, writer, updates, added, kept, excused>>

(* The user adds a line with an editor.  pmesh cannot know of it if its    *)
(* copy is of this second, or if it has read the file already.             *)
UserEdits(l) ==
  /\ l \notin file.user
  /\ file' = [file EXCEPT !.user = @ \cup {l}] /\ mtime' = seconds
  /\ excused' = IF \/ writer.at \in {"insert", "truncate", "write"}
                   \/ copied >= 0 /\ seconds - copied < 1
                THEN excused \cup {l} ELSE excused \ {l}
  /\ added' = added \cup {l}
  /\ UNCHANGED <<seconds, copy, copied, writer, updates, kept>>

-----------------------------------------------------------------------------
(* Insert locks and opens the file.                                        *)
InsertBegins(m) ==
  /\ writer.at = "off" /\ updates < MaxUpdates /\ updates' = updates + 1
  /\ writer' = [at |-> "refresh", map |-> m, backup |-> Empty]
  /\ UNCHANGED <<seconds, file, mtime, copy, copied, added, kept, excused>>

(* The copy is good for a second, or until the file is modified.           *)
Fresh == copied >= 0 /\ (seconds - copied < 1 \/ mtime < copied)

(* MUTANT: a copy is good for a second more.                               *)
RefreshLate ==
  /\ writer.at = "refresh"
  /\ IF copied >= 0 /\ (seconds - copied < 2 \/ mtime < copied)
     THEN UNCHANGED <<copy, copied>> ELSE copy' = file /\ copied' = seconds
  /\ writer' = [writer EXCEPT !.at = "insert"]
  /\ UNCHANGED <<seconds, file, mtime, updates, added, kept, excused>>

(* refreshSystemConfigLocked                                               *)
Refresh ==
  /\ writer.at = "refresh"
  /\ IF Fresh THEN UNCHANGED <<copy, copied>>
     ELSE copy' = file /\ copied' = seconds
  /\ writer' = [writer EXCEPT !.at = "insert"]
  /\ UNCHANGED <<seconds, file, mtime, updates, added, kept, excused>>

(* Config.Insert: new mappings replace those of the same host.             *)
Merge(ours, m) == {p \in ours : \A q \in m : q[1] # p[1]} \cup m

(* Nothing changes, and the callback aborts; or the copy is changed.       *)
ConfigInsert ==
  LET m == writer.map IN
  /\ writer.at = "insert"
  /\ IF m \subseteq copy.ours
     THEN /\ writer' = NoWriter /\ copied' = seconds /\ UNCHANGED copy
     ELSE /\ writer' = [writer EXCEPT !.at = "truncate", !.backup = copy]
          /\ copy' = [copy EXCEPT !.ours = Merge(copy.ours, m)]
          /\ UNCHANGED copied
  /\ UNCHANGED <<seconds, file, mtime, updates, added, kept, excused>>

(* From here to the end of the write the file is empty: a crash, or a      *)
(* write that fails, loses every line.                                     *)
Truncate ==
  /\ writer.at = "truncate"
  /\ file' = Empty /\ mtime' = seconds
  /\ writer' = [writer EXCEPT !.at = "write"]
  /\ UNCHANGED <<seconds, copy, copied, updates, added, kept, excused>>

WriteLines ==
  /\ writer.at = "write"
  /\ file' = copy /\ mtime' = seconds /\ copied' = seconds
  /\ kept' = {p \in kept : \A q \in writer.map : q[1] # p[1]} \cup writer.map
  /\ writer' = NoWriter
  /\ UNCHANGED <<seconds, copy, updates, added, excused>>

(* What an update that dies in the middle leaves behind.                   *)
Torn ==
  IF writer.at = "write"
  THEN kept' = {} /\ excused' = added ELSE UNCHANGED <<kept, excused>>

WriteFails ==
  /\ writer.at = "write" /\ writer' = NoWriter
  /\ copy' = writer.backup /\ Torn
  /\ UNCHANGED <<seconds, file, mtime, copied, updates, added>>

(* pmesh stops anywhere, and starts without a copy.                        *)
PmeshCrashes ==
  /\ writer.at # "off" /\ writer' = NoWriter
  /\ copy' = Empty /\ copied' = -1 /\ Torn
  /\ UNCHANGED <<seconds, file, mtime, updates, added>>

FileNext ==
  \/ FileClock
  \/ \E l \in UserLines : UserEdits(l)
  \/ \E p \in Pairs : InsertBegins({p})
  \/ Refresh \/ ConfigInsert \/ Truncate \/ WriteLines \/ WriteFails
  \/ PmeshCrashes

-----------------------------------------------------------------------------
(* A line of the user is lost only in one of the windows of the code: it   *)
(* was added in the second the copy is trusted for, or while an update was *)
(* between its read and its write, or an update died in the middle.        *)
LinesKept == writer.at # "write" => added \subseteq file.user \cup excused

(* The mappings of earlier updates are still there, however they came to   *)
(* be read: inserting some hosts keeps the others (Config.Insert).         *)
MappingsKept == writer.at # "write" => kept \subseteq file.ours

(* An update keeps what others wrote into the hosts file and what earlier  *)
(* updates did, but for the windows in which it cannot know                *)
(* (UpdateSystemConfig, Insert).                                           *)
FileKept == FileTypeOK /\ LinesKept /\ MappingsKept
=============================================================================
