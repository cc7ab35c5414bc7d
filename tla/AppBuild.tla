------------------------------ MODULE AppBuild ------------------------------
(***************************************************************************)
(* Start of an application service up to its instances: BuildApp and the   *)
(* directories of service/build_files.go under one app root.               *)
(*                                                                         *)
(* A build is made in .build, moved to an archive directory, marked there  *)
(* with the checksum of its sources, and reached through the link .run.    *)
(* The files outlive the program: a crash forgets every start under way    *)
(* and leaves the directories as they are.                                 *)
(*                                                                         *)
(* A checksum stands for the sources it was computed from.  The sources do *)
(* not change between their hashing and the end of the build commands.     *)
(***************************************************************************)
EXTENDS FiniteSets

CONSTANTS
  Starts,    (* concurrent calls of Start for this app root                 *)
  Archives,  (* names of archive directories                                *)
  Sums       (* checksums of the sources                                    *)

Nothing == "none"

ASSUME BuildAssumption ==
  Nothing \notin Archives \cup Sums /\ ".build" \notin Archives

VARIABLES
  src,    (* checksum of the sources as they are                            *)
  run,    (* target of the link .run, None if there is no link              *)
  build,  (* .build: None, "part" or the checksum of a complete build       *)
  arch,   (* archive -> [has: None, "part" or checksum; id: build id file]  *)
  step,   (* per start: where it is                                         *)
  chk,    (* per start: checksum of the sources when it hashed them         *)
  force,  (* per start: this attempt rebuilds whatever the build id says    *)
  last,   (* per start: this is the second attempt                          *)
  doomed, (* per start: directories Clean has still to remove               *)
  dir,    (* per start: the archive its build was moved to                  *)
  stuck   (* history: directories whose last removal failed                 *)

fileVars == <<run, build, arch, stuck>>
buildVars == <<src, run, build, arch, step, chk, force, last, doomed, dir,
          stuck>>

Contents == Sums \cup {Nothing, "part"}
Absent == [has |-> Nothing, id |-> Nothing]
Present == {a \in Archives : arch[a].has # Nothing}

(* The values of the build directories and of the starts. *)
BuildTypeOK ==
  /\ src \in Sums
  /\ run \in Archives \cup {Nothing}
  /\ build \in Contents
  /\ arch \in [Archives -> [has : Contents, id : Sums \cup {Nothing}]]
  /\ step \in [Starts -> {"idle", "check", "list", "clean", "command", "unlink",
                        "rename", "id", "link", "abort", "init", "up"}]
  /\ chk \in [Starts -> Sums]
  /\ force \in [Starts -> BOOLEAN] /\ last \in [Starts -> BOOLEAN]
  /\ doomed \in [Starts -> SUBSET (Archives \cup {".build"})]
  /\ dir \in [Starts -> Archives \cup {Nothing}]
  /\ stuck \subseteq Archives \cup {".build"}

BuildInit ==
  /\ src \in Sums
  /\ run = Nothing /\ build = Nothing
  /\ arch = [a \in Archives |-> Absent]
  /\ step = [s \in Starts |-> "idle"]
  /\ chk = [s \in Starts |-> src]
  /\ force = [s \in Starts |-> FALSE] /\ last = [s \in Starts |-> FALSE]
  /\ doomed = [s \in Starts |-> {}] /\ dir = [s \in Starts |-> Nothing]
  /\ stuck = {}

Goto(s, l) == step' = [step EXCEPT ![s] = l]

-----------------------------------------------------------------------------
(* Start and BuildApp.                                                     *)

(* Start(c, invalidate): the first attempt hashes the sources.             *)
Start(s, invalidate) ==
  /\ step[s] \in {"idle", "up"}
  /\ Goto(s, "check")
  /\ chk' = [chk EXCEPT ![s] = src]
  /\ force' = [force EXCEPT ![s] = invalidate]
  /\ last' = [last EXCEPT ![s] = FALSE]
  /\ UNCHANGED <<src, doomed, dir>> /\ UNCHANGED fileVars

(* ReadBuildId: through the link, None when any part of the path is gone.  *)
ReadBuildId == IF run = Nothing THEN Nothing ELSE arch[run].id

(* The build is skipped when the one in place has this checksum.           *)
CheckCache(s) ==
  /\ step[s] = "check"
  /\ Goto(s, IF ~force[s] /\ ReadBuildId = chk[s] THEN "init" ELSE "list")
  /\ UNCHANGED <<src, chk, force, last, doomed, dir>> /\ UNCHANGED fileVars

(* runner.init: the first instance becomes ready.                          *)
InitReady(s) ==
  /\ step[s] = "init"
  /\ Goto(s, "up")
  /\ UNCHANGED <<src, chk, force, last, doomed, dir>> /\ UNCHANGED fileVars

(* It does not: the second attempt hashes and builds again, then it is     *)
(* given up.                                                               *)
InitFails(s) ==
  /\ step[s] = "init"
  /\ IF last[s] THEN Goto(s, "idle") /\ UNCHANGED <<chk, force, last>>
     ELSE /\ Goto(s, "check")
          /\ chk' = [chk EXCEPT ![s] = src]
          /\ force' = [force EXCEPT ![s] = TRUE]
          /\ last' = [last EXCEPT ![s] = TRUE]
  /\ UNCHANGED <<src, doomed, dir>> /\ UNCHANGED fileVars

-----------------------------------------------------------------------------
(* PreBuild.                                                               *)

Dirs == Present \cup (IF build = Nothing THEN {} ELSE {".build"})

(* MUTANT: the target of the link is removed with the rest.                *)
FoldersAll == Dirs

(* Clean reads the directory and leaves out the link and its target.       *)
FoldersToClean == Dirs \ {run}

Folders(s) ==
  /\ step[s] = "list"
  /\ doomed' = [doomed EXCEPT ![s] = FoldersToClean]
  /\ Goto(s, "clean")
  /\ UNCHANGED <<src, chk, force, last, dir>> /\ UNCHANGED fileVars

(* Clean removes one of the directories it read.                           *)
CleanOne(s, d) ==
  /\ step[s] = "clean" /\ d \in doomed[s]
  /\ doomed' = [doomed EXCEPT ![s] = @ \ {d}]
  /\ IF d = ".build" THEN build' = Nothing /\ UNCHANGED arch
     ELSE arch' = [arch EXCEPT ![d] = Absent] /\ UNCHANGED build
  /\ stuck' = stuck \ {d}
  /\ UNCHANGED <<src, run, step, chk, force, last, dir>>

(* rm fails and Clean goes on.                                             *)
CleanFails(s, d) ==
  /\ step[s] = "clean" /\ d \in doomed[s]
  /\ doomed' = [doomed EXCEPT ![s] = @ \ {d}]
  /\ stuck' = stuck \cup {d}
  /\ UNCHANGED <<src, run, build, arch, step, chk, force, last, dir>>

(* Mkdir(.build), refused when it is there again.                          *)
Mkdir(s) ==
  /\ step[s] = "clean" /\ doomed[s] = {} /\ build = Nothing
  /\ build' = "part"
  /\ Goto(s, "command")
  /\ UNCHANGED <<src, run, arch, chk, force, last, doomed, dir, stuck>>

MkdirFails(s) ==
  /\ step[s] = "clean" /\ doomed[s] = {}
  /\ Goto(s, "idle")
  /\ UNCHANGED <<src, chk, force, last, doomed, dir>> /\ UNCHANGED fileVars

-----------------------------------------------------------------------------
(* runBuilder and PostBuild.                                               *)

(* The build commands succeed.                                             *)
Build(s) ==
  /\ step[s] = "command" /\ build # Nothing
  /\ build' = chk[s]
  /\ Goto(s, "unlink")
  /\ UNCHANGED <<src, run, arch, chk, force, last, doomed, dir, stuck>>

(* MUTANT: the error of a build command is dropped.                        *)
BuildFailsOn(s) ==
  /\ step[s] = "command"
  /\ Goto(s, "unlink")
  /\ UNCHANGED <<src, chk, force, last, doomed, dir>> /\ UNCHANGED fileVars

(* A build command fails, .build is what it left.                          *)
BuildFails(s) ==
  /\ step[s] = "command"
  /\ Goto(s, "abort")
  /\ UNCHANGED <<src, chk, force, last, doomed, dir>> /\ UNCHANGED fileVars

(* UnlinkRun: PostBuild goes on whether the link could be removed or not.  *)
UnlinkRun(s) ==
  /\ step[s] = "unlink"
  /\ run' \in {Nothing, run}
  /\ Goto(s, "rename")
  /\ UNCHANGED <<src, build, arch, chk, force, last, doomed, dir, stuck>>

(* Rename(.build) to a name with a fresh timestamp.                        *)
Rename(s, a) ==
  /\ step[s] = "rename" /\ build # Nothing
  /\ arch[a] = Absent /\ run # a /\ \A t \in Starts : a # dir[t]
  /\ arch' = [arch EXCEPT ![a] = [has |-> build, id |-> Nothing]]
  /\ build' = Nothing
  /\ dir' = [dir EXCEPT ![s] = a]
  /\ Goto(s, "id")
  /\ UNCHANGED <<src, run, chk, force, last, doomed, stuck>>

WriteBuildId(s) ==
  /\ step[s] = "id" /\ arch[dir[s]].has # Nothing
  /\ arch' = [arch EXCEPT ![dir[s]] = [has |-> @.has, id |-> chk[s]]]
  /\ Goto(s, "link")
  /\ UNCHANGED <<src, run, build, chk, force, last, doomed, dir, stuck>>

(* LinkRun: with a second try after removing what is in the way.           *)
LinkRun(s) ==
  /\ step[s] = "link"
  /\ run' = dir[s] /\ dir' = [dir EXCEPT ![s] = Nothing]
  /\ Goto(s, "init")
  /\ UNCHANGED <<src, build, arch, chk, force, last, doomed, stuck>>

(* Any of the three fails: what was done before stays done.                *)
PostBuildFails(s) ==
  /\ step[s] \in {"rename", "id", "link"}
  /\ dir' = [dir EXCEPT ![s] = Nothing]
  /\ Goto(s, "abort")
  /\ run' \in {run} \cup (IF step[s] = "link" THEN {Nothing} ELSE {})
  /\ UNCHANGED <<src, build, arch, chk, force, last, doomed, stuck>>

(* AbortBuild, whose rm may fail, and Start returns the error.             *)
AbortBuild(s) ==
  /\ step[s] = "abort"
  /\ build' \in {Nothing, build}
  /\ Goto(s, "idle")
  /\ UNCHANGED <<src, run, arch, chk, force, last, doomed, dir, stuck>>

-----------------------------------------------------------------------------
(* The program ends at any point and is started again.                     *)
Crash ==
  /\ step' = [s \in Starts |-> "idle"]
  /\ doomed' = [s \in Starts |-> {}] /\ dir' = [s \in Starts |-> Nothing]
  /\ UNCHANGED <<src, chk, force, last>> /\ UNCHANGED fileVars

(* The sources are edited, not while they are being built.                 *)
Edit ==
  /\ \A s \in Starts : step[s] \in {"idle", "up"}
  /\ src' \in Sums \ {src}
  /\ UNCHANGED <<step, chk, force, last, doomed, dir>> /\ UNCHANGED fileVars

Builder(s) ==
  \/ CheckCache(s) \/ InitReady(s) \/ InitFails(s)
  \/ Folders(s) \/ (\E d \in doomed[s] : CleanOne(s, d) \/ CleanFails(s, d))
  \/ Mkdir(s) \/ MkdirFails(s)
  \/ Build(s) \/ BuildFails(s) \/ UnlinkRun(s)
  \/ (\E a \in Archives : Rename(s, a))
  \/ WriteBuildId(s) \/ LinkRun(s) \/ PostBuildFails(s) \/ AbortBuild(s)

BuildNext ==
  \/ \E s \in Starts : Builder(s)
  \/ \E s \in Starts, invalidate \in BOOLEAN : Start(s, invalidate)
  \/ Crash \/ Edit

BuildSpec == BuildInit /\ [][BuildNext]_buildVars
BuildFairness == \A s \in Starts : WF_buildVars(Builder(s))

-----------------------------------------------------------------------------
(* What Start runs is a complete build of the sources it hashed, whether   *)
(* it was just built or the build id let it skip building, and whatever    *)
(* failures and crashes came before (BuildApp, RunBuild).                  *)
StartIsSound ==
  \A s \in Starts : step[s] = "init" =>
    run # Nothing /\ arch[run] = [has |-> chk[s], id |-> chk[s]]

(* Clean: "Do not delete the current run directory".  The link .run never  *)
(* loses its target.                                                       *)
RunDirKept == run # Nothing => arch[run].has # Nothing

(* What crashes and failures leave behind does not pile up: a build starts *)
(* with no archive but the one that runs and those the system refused to   *)
(* remove (Clean).                                                         *)
NoLeftovers ==
  \A s \in Starts : step[s] = "command" => Present \subseteq {run} \cup stuck

(* A start comes to an end: an instance is ready or the error is returned. *)
StartEnds ==
  \A s \in Starts : (step[s] = "check") ~> (step[s] \in {"idle", "up"})

(* Wherever a step fails or the program ends, what is run is what was      *)
(* hashed, and a build leaves nothing of the failed ones (RunBuild,        *)
(* Clean).                                                                 *)
BuildSound == BuildTypeOK /\ StartIsSound /\ NoLeftovers
=============================================================================
