------------------------------ MODULE AppKinds ------------------------------
(***************************************************************************)
(* Services for known frameworks (service/svc_wrappers.go): the advice     *)
(* that "pmesh init" gives for a directory (cmd/create.go), what Prepare   *)
(* makes of it, with the scripts of package.json resolved to commands      *)
(* (npm/resolve.go), and whether what is run is there once it was built.   *)
(***************************************************************************)
EXTENDS Integers, Sequences, FiniteSets

CONSTANTS
  Dirs,       (* sets of files that a service's directory starts with       *)
  Tools,      (* sets of programs on the path                               *)
  ScriptSets, (* package.json: [start, build, dev, parses], scripts by      *)
              (* their first word, and whether it is JSON at all            *)
  ModuleSets, (* packages that are around: sets of [place, dep, export]     *)
  Confs,      (* manifests written by hand: [start, build, noInstall]       *)
  MaxEdits    (* BOUND: changes of the directory by its owner               *)

VARIABLES
  folder,     (* files of the directory                                     *)
  onPath,     (* programs that exec.LookPath finds                          *)
  scripts,    (* of package.json                                            *)
  modules,    (* packages in node_modules, or known to the manager, or      *)
              (* global: what ResolveExport gives for each is a file of the *)
              (* package, "main", a path that is not, or "none"             *)
  manifest,   (* [tag, conf], tag "none" when not in the manifest           *)
  app,        (* the prepared service: [ok, mgr, run, build, noControl]     *)
  kindAt,     (* "off", "dir", "written", "prepared", "built", "failed"     *)
  buildId,    (* the sources of the last build under control, or 0          *)
  version,    (* the sources: number of changes so far, from 1              *)
  advised     (* history: the directory is as it was for the advice         *)

kindVars == <<folder, onPath, scripts, modules, manifest, app, kindAt,
              buildId, version, advised>>

Cmd(program, arg) == <<program, arg, "unset">>
NoCmd == Cmd("unset", "unset")
NoApp == [ok |-> FALSE, mgr |-> "unset", run |-> NoCmd, build |-> <<>>,
          noControl |-> FALSE]
Plainly(run, build, noControl) ==
  [ok |-> TRUE, mgr |-> "unset", run |-> run, build |-> build,
   noControl |-> noControl]
Defaults == [start |-> "unset", build |-> "unset", noInstall |-> FALSE]
NoManifest == [tag |-> "none", conf |-> Defaults]
NoScripts ==
  [start |-> "unset", build |-> "unset", dev |-> "unset", parses |-> TRUE]
Sources == {"package.json", "index.js", "requirements.txt", "app.py",
            "main.go", "package-lock.json", "yarn.lock", "pnpm-lock.yaml"}
NpmTags == {"Npm", "Pnpm", "Yarn", "Bun"}

Has(f) == f \in folder

KindInit ==
  /\ folder = {} /\ onPath = {} /\ scripts = NoScripts /\ modules = {}
  /\ manifest = NoManifest /\ app = NoApp /\ kindAt = "off"
  /\ buildId = 0 /\ version = 1 /\ advised = FALSE

-----------------------------------------------------------------------------
(* Advise, one line for each kind.                                         *)

Advise(tag) ==
  CASE tag = "Js" -> Has("index.js") /\ ~Has("package.json")
    [] tag \in NpmTags -> Has("package.json")
    [] tag = "Py" -> Has("requirements.txt") /\ ~Has("app.py")
    [] tag = "Flask" -> Has("requirements.txt") /\ Has("app.py")
    [] tag = "Go" -> Has("main.go")

Tags == {"Js", "Py", "Flask", "Go"} \cup NpmTags

(* A service's directory, with its package.json and the programs around.   *)
Directory(fs, ts, ss, ms) ==
  /\ kindAt = "off" /\ kindAt' = "dir"
  /\ "package.json" \in fs \/ (ss = NoScripts /\ ms = {})
  /\ folder' = fs /\ onPath' = ts /\ scripts' = ss /\ modules' = ms
  /\ UNCHANGED <<manifest, app, buildId, version, advised>>

(* autoGenerateManifest: one of the kinds that were advised is selected.   *)
Generate(tag) ==
  /\ kindAt = "dir" /\ Advise(tag)
  /\ manifest' = [tag |-> tag, conf |-> Defaults]
  /\ kindAt' = "written" /\ advised' = TRUE
  /\ UNCHANGED <<folder, onPath, scripts, modules, app, buildId, version>>

(* A manifest that somebody wrote.                                         *)
Write(tag, conf) ==
  /\ kindAt = "dir" /\ manifest' = [tag |-> tag, conf |-> conf]
  /\ kindAt' = "written"
  /\ UNCHANGED <<folder, onPath, scripts, modules, app, buildId, version,
                 advised>>

(* The owner of the directory changes a file: not while it is prepared.    *)
Edit(f) ==
  /\ kindAt \in {"written", "built"} /\ version < MaxEdits + 1
  /\ version' = version + 1 /\ advised' = FALSE /\ kindAt' = "written"
  /\ folder' = IF Has(f) THEN folder \ {f} ELSE folder \cup {f}
  /\ UNCHANGED <<onPath, scripts, modules, manifest, app, buildId>>

-----------------------------------------------------------------------------
(* npm *)

(* A package is in the folder, or the manager tells, which bun cannot and  *)
(* which has to be on the path, or npm tells what is global.               *)
Packages(place, dep) == {p \in modules : p.place = place /\ p.dep = dep}
Tells(mgr) == mgr # "bun" /\ mgr \in onPath
ResolveGlobalPackage(mgr, dep) ==
  IF Tells(mgr) \/ Tells("npm") THEN Packages("global", dep) ELSE {}
ResolveDependency(mgr, dep) ==
  IF Packages("local", dep) # {} THEN Packages("local", dep)
  ELSE IF Tells(mgr) /\ Packages("managed", dep) # {} THEN Packages("managed", dep)
  ELSE ResolveGlobalPackage(mgr, dep)

(* TryEscapeScript: a script as a command of its own, so that signals need *)
(* not pass the manager; else the manager runs it.  Imports are given up,  *)
(* and a package without the export is looked for on the path.             *)
TryEscapeScript(mgr, name) ==
  LET script == scripts[name]
      engine == IF mgr = "bun" THEN "bun" ELSE "node"
      fallback == Cmd(mgr, name)
      direct(cmd) == IF cmd \in onPath THEN Cmd(cmd, "rest") ELSE fallback
      execute(cmd, dep) ==
        LET found == {p \in ResolveDependency(mgr, dep) : p.export # "none"}
        IN  IF engine \notin onPath THEN fallback
            ELSE IF found = {} THEN direct(cmd)
            ELSE <<engine, dep, (CHOOSE p \in found : TRUE).export>>
  IN  CASE script \in {"unset", "shell"} -> fallback
        [] script \in {"node", "nodejs", "deno", "bun"} -> Cmd(engine, "rest")
        [] script \in {"tsx", "ts-node", "ts-node-esm"} -> fallback
        [] script = "tsc" -> execute("tsc", "typescript")
        [] script = "vite" -> execute("vite", "vite")
        [] OTHER -> direct(script)

(* The manager of the tag, of a lock file, or the best that is installed.  *)
Manager(tag) ==
  CASE tag = "Pnpm" -> "pnpm"
    [] tag = "Yarn" -> "yarn"
    [] tag = "Bun" -> "bun"
    [] OTHER ->
         IF Has("package-lock.json") THEN "npm"
         ELSE IF Has("yarn.lock") THEN "yarn"
         ELSE IF Has("pnpm-lock.yaml") THEN "pnpm"
         ELSE IF "pnpm" \in onPath THEN "pnpm"
         ELSE IF "yarn" \in onPath THEN "yarn"
         ELSE IF "bun" \in onPath THEN "bun"
         ELSE "npm"

(* NpmApp.Prepare; a start script given together with a build script is    *)
(* not looked up.                                                          *)
PrepareNpm(tag, c) ==
  LET mgr == Manager(tag)
      start == IF c.start = "unset" THEN "start" ELSE c.start
      build == IF c.build # "unset" THEN c.build
               ELSE IF scripts.build # "unset" THEN "build" ELSE "none"
      unknown == /\ c.start = "unset" \/ c.build = "unset"
                 /\ start # "none" /\ scripts[start] = "unset"
  IN  IF ~Has("package.json") \/ ~scripts.parses \/ unknown THEN NoApp
      ELSE [ok |-> TRUE, mgr |-> mgr, noControl |-> FALSE,
            run |-> IF start = "none" THEN NoCmd
                    ELSE TryEscapeScript(mgr, start),
            build |-> (IF c.noInstall THEN <<>> ELSE << Cmd(mgr, "install") >>)
                      \o (IF build = "none" THEN <<>>
                          ELSE << TryEscapeScript(mgr, build) >>)]

PrepareJs ==
  IF ~Has("index.js") THEN NoApp
  ELSE Plainly(Cmd("node", "index.js"), <<>>, FALSE)

(* PyApp and FlaskApp: the requirements are looked for, the program not.   *)
PreparePy(tag) ==
  IF ~Has("requirements.txt") THEN NoApp
  ELSE Plainly(Cmd(IF tag = "Flask" THEN "flask" ELSE "python", "app.py"),
               << Cmd("python", "venv"), Cmd("pip", "install") >>, FALSE)

(* MUTANT: the build is left to the checksum of the sources.               *)
PrepareGoControlled ==
  IF ~Has("main.go") THEN NoApp
  ELSE Plainly(Cmd("exe", "unset"), << Cmd("go", "exe") >>, FALSE)

PrepareGo ==
  IF ~Has("main.go") THEN NoApp
  ELSE Plainly(Cmd("exe", "unset"), << Cmd("go", "exe") >>, TRUE)

Prepared(tag, c) ==
  CASE tag = "Js" -> PrepareJs
    [] tag \in NpmTags -> PrepareNpm(tag, c)
    [] tag \in {"Py", "Flask"} -> PreparePy(tag)
    [] tag = "Go" -> PrepareGo

(* Prepare, at the start and at every reload; GoApp removes the executable *)
(* of the last build.                                                      *)
Prepare ==
  /\ kindAt \in {"written", "built"}
  /\ app' = Prepared(manifest.tag, manifest.conf)
  /\ kindAt' = IF app'.ok THEN "prepared" ELSE "failed"
  /\ folder' = IF app'.ok /\ manifest.tag = "Go" THEN folder \ {"exe"} ELSE folder
  /\ UNCHANGED <<onPath, scripts, modules, manifest, buildId, version, advised>>

(* What an install may bring: a package without exports.                   *)
Typescript == [place |-> "local", dep |-> "typescript", export |-> "main"]

(* BuildApp: the commands, unless these sources were built; an install     *)
(* brings the packages.                                                    *)
Build ==
  /\ kindAt = "prepared" /\ kindAt' = "built"
  /\ LET skip == app.build = <<>> \/ (~app.noControl /\ buildId = version)
         did(cmd) == ~skip /\ \E i \in DOMAIN app.build : app.build[i] = cmd
     IN  /\ buildId' = IF skip \/ app.noControl THEN buildId ELSE version
         /\ folder' = folder \cup (IF did(Cmd("go", "exe")) THEN {"exe"} ELSE {})
                             \cup (IF did(Cmd("python", "venv")) THEN {"venv"} ELSE {})
         /\ modules' = IF did(Cmd(app.mgr, "install")) /\ Packages("local", "typescript") = {}
                       THEN modules \cup {Typescript} ELSE modules
  /\ UNCHANGED <<onPath, scripts, manifest, app, version, advised>>

KindNext ==
  \/ \E fs \in Dirs, ts \in Tools, ss \in ScriptSets,
        ms \in ModuleSets : Directory(fs, ts, ss, ms)
  \/ \E tag \in Tags : Generate(tag) \/ \E c \in Confs : Write(tag, c)
  \/ \E f \in Sources : Edit(f)
  \/ Prepare \/ Build

-----------------------------------------------------------------------------
(* A kind that was advised can be prepared while the directory stays as it *)
(* was, but for a package.json that does not parse or has no start script, *)
(* which Advise does not look into: else it looks at what Prepare needs.   *)
AdvisedIsPrepared ==
  kindAt = "failed" /\ advised =>
    manifest.tag \in NpmTags /\ (scripts.start = "unset" \/ ~scripts.parses)

(* What is run is there once the build is done, also when it was skipped   *)
(* because the sources were built before: the executable that Prepare      *)
(* removed is always built again.  A Python program is not looked for, and *)
(* Py is advised where there is no app.py although it will run app.py.     *)
EntryExists ==
  kindAt = "built" =>
    /\ manifest.tag = "Js" => Has("index.js")
    /\ manifest.tag = "Go" => Has("exe")
    /\ manifest.tag \in NpmTags => Has("package.json")

(* A command that takes the place of a script is a program that is on the  *)
(* path, but for an engine that the script itself names; and with a        *)
(* package, one that is still around and has the export.  Where that is    *)
(* "main", as for typescript, the path is the package's own and the engine *)
(* looks for it in the service's directory (ResolveExport).                *)
EscapedIsThere ==
  kindAt = "built" /\ manifest.tag \in NpmTags /\ app.run # NoCmd =>
    \/ app.run[1] = app.mgr
    \/ app.run[2] = "rest" /\ app.run[1] \in onPath \cup {"node", "bun"}
    \/ /\ app.run[1] \in onPath
       /\ \E p \in modules : p.dep = app.run[2] /\ p.export = app.run[3]

(* What is advised can be prepared, and what is run is there once it was   *)
(* prepared and built, with the directory edited in between (Advise,       *)
(* Prepare, TryEscapeScript).                                              *)
KindsCorrect == AdvisedIsPrepared /\ EntryExists /\ EscapedIsThere
=============================================================================
