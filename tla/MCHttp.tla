------------------------------- MODULE MCHttp -------------------------------
(***************************************************************************)
(* The parts that a request to vhttp meets: handlers, client sessions, the *)
(* remote lists that tell about an address, the hosts file that makes      *)
(* names resolve and the file service; and what a node does to get its     *)
(* services up: the kinds of apps it knows and the orphans it ends.  Each  *)
(* on its own: a behaviour is one of the chosen part.                      *)
(***************************************************************************)
EXTENDS HttpServe, ClientSessions, HostsFile, RemoteFile, Orphans,
        FileServe, AppKinds

VARIABLE part   (* the component that runs *)

vars == <<part, httpVars, visitVars, fileVars, remoteVars, orphanVars,
          fileServeVars, kindVars>>

-----------------------------------------------------------------------------
(* Hosts a, w.a and b.  root serves a: a limit, an internal path, a nested *)
(* mux with a drop, a portal to b and proxy-host, then a service.  rootB   *)
(* serves b: a status, an internal guard, auth, a portal back, a rewrite   *)
(* and a publish.  rootW, for w.b, lets in, goes to a relative url, forgets *)
(* that it did and goes to b; rootD denies, marks and does not parse.      *)
HostA == <<"a">>
HostB == <<"b">>
HostWA == <<"w", "a">>
HostWB == <<"w", "b">>
Only(host) == {host} \X {"/", "/x"}
Everything ==
  UNION {Only(h) : h \in {HostA, HostB, HostWA, HostWB, <<"w", "w", "a">>}}
To(pattern, handler) == [pattern |-> pattern, to |-> handler]
Mux(routes) == [kind |-> "mux", routes |-> routes, arg |-> "none", host |-> HostA]
Leaf(kind, arg, host) ==
  [kind |-> kind, routes |-> <<>>, arg |-> arg, host |-> host]

MCHandlers ==
  [root |-> Mux(<<To(Everything, "limit"), To({<<HostA, "/x">>}, "int"),
                  To(Everything \ {<<HostA, "/">>}, "allow"),
                  To(Everything, "sub"), To(Everything, "svc")>>),
   rootB |-> Mux(<<To({<<HostB, "/x">>}, "st"), To(Everything, "int2"),
                   To(Everything, "auth"), To({<<HostB, "/">>}, "portal"),
                   To(Everything, "rw"), To(Everything, "pub")>>),
   sub |-> Mux(<<To(Only(HostWA), "drop"), To({<<HostA, "/">>}, "portalA"),
                 To(Everything, "host")>>),
   limit |-> Leaf("limit", "none", HostA),
   int |-> Leaf("internal", "ret", HostA),
   int2 |-> Leaf("internal", "none", HostA),
   allow |-> Leaf("allow", "none", HostA),
   svc |-> Leaf("service", "none", HostA),
   st |-> Leaf("status", "none", HostA),
   ret |-> Leaf("return", "none", HostA),
   auth |-> Leaf("auth", "none", HostA),
   portal |-> Leaf("portal", "/x", HostA),
   portalA |-> Leaf("portal", "/", HostB),
   drop |-> Leaf("drop", "none", HostA),
   rw |-> Leaf("path", "/x", HostA),
   pub |-> Leaf("publish", "none", HostA),
   abort |-> Leaf("abort", "none", HostA),
   host |-> Leaf("host", "none", HostB),
   rootW |-> Mux(<<To({<<HostWB, "/x">>}, "grant"), To(Everything, "int2"),
                   To({<<HostWB, "/x">>}, "self"), To(Everything, "again"),
                   To(Everything, "portalA")>>),
   rootD |-> Mux(<<To(Everything, "log"), To({<<HostB, "/x">>}, "broken"),
                   To(Everything, "deny"), To(Everything, "mark"),
                   To({<<HostWB, "/">>}, "self"), To(Everything, "plain"),
                   To(Everything, "redirect")>>),
   log |-> Leaf("pass", "none", HostA),
   grant |-> Leaf("set", "P-Internal", HostA),
   deny |-> Leaf("delete", "P-Internal", HostA),
   mark |-> Leaf("set", "P-Portal", HostA),
   again |-> Leaf("delete", "P-Portal", HostA),
   plain |-> Leaf("delete", "Upgrade-Insecure-Requests", HostA),
   self |-> Leaf("portal", "/", <<>>),
   broken |-> Leaf("portal", "unparsable", HostA),
   redirect |-> Leaf("redirect", "none", HostA)]

VHost(names, root, noUpgrade) ==
  [names |-> names, root |-> root, noUpgrade |-> noUpgrade]
MCTables ==
  {<<VHost(<<HostA>>, "root", TRUE), VHost(<<HostB, HostA>>, "rootB", FALSE)>>,
   <<VHost(<<HostB>>, "rootB", TRUE), VHost(<<HostWA, HostA>>, "root", TRUE)>>,
   <<VHost(<<HostA>>, "abort", TRUE), VHost(<<HostWB>>, "rootW", TRUE),
     VHost(<<HostB>>, "rootD", TRUE)>>}
MCInbound ==
  [host : {HostA, HostB, HostWA, HostWB}, path : {"/", "/x"},
   scheme : {"http", "https"}, upgrade : {FALSE}, local : {FALSE},
   trusted : {FALSE}, secret : BOOLEAN, signed : BOOLEAN]
  \cup
  [host : {HostB}, path : {"/", "/x"}, scheme : {"http"}, upgrade : {TRUE},
   local : {TRUE}, trusted : BOOLEAN, secret : {FALSE}, signed : {FALSE}]

(* FileServe: a site with a directory that may be kept, and a single page  *)
(* with its compressed form beside it; every option, and patterns that see *)
(* a directory, only a file, or only a name with the suffix.               *)
Index == <<"index.html">>
SubIndex == <<"d", "index.html">>
MCParts == {"index.html", "d", "immutable", "p", "404", "default", "absent", "@br"}
MCTrees ==
  {Index :> "text" @@ <<"d">> :> "dir" @@ SubIndex :> "small"
     @@ <<"immutable">> :> "dir" @@ <<"immutable", "p">> :> "image",
   <<"404">> :> "text" @@ <<"404", "@br">> :> "text"}
MCOptions ==
  [index : {<<>>, Index}, notFound : {<<>>, <<"default">>, <<"404">>, Index},
   dynamic : BOOLEAN, immutable : BOOLEAN, anyImmutable : BOOLEAN,
   all : {TRUE}, pattern : {{}}]
  \cup
  [index : {Index}, notFound : {Index}, dynamic : BOOLEAN,
   immutable : {FALSE}, anyImmutable : {FALSE}, all : {FALSE},
   pattern : {{<<TRUE, <<"d">>>>, <<FALSE, <<"d">>>>, <<TRUE, Index>>},
              {<<TRUE, SubIndex>>, <<FALSE, SubIndex>>},
              {<<TRUE, Index \o Br>>, <<FALSE, Index>>}}]

(* AppKinds: a directory of every kind, scripts of every form, packages in *)
(* every place, with and without what a script needs.                      *)
MCDirs ==
  {{"package.json"}, {"package.json", "yarn.lock", "pnpm-lock.yaml"},
   {"index.js"}, {"requirements.txt"}, {"requirements.txt", "app.py"},
   {"main.go"}}
MCTools == {{"yarn", "node", "start.sh"}, {"bun", "npm"}}
MCScriptSets ==
  [start : {"unset", "node", "tsx"}, build : {"unset"}, dev : {"unset"}, parses : {TRUE}]
  \cup
  [start : {"vite", "start.sh"}, build : {"tsc"}, dev : {"unset"}, parses : {TRUE}]
  \cup
  [start : {"tsc", "bun"}, build : {"unset"}, dev : {"ts-node-esm"}, parses : BOOLEAN]
Package(place, dep, export) == [place |-> place, dep |-> dep, export |-> export]
MCModuleSets ==
  {{}, {Package("managed", "vite", "root")}, {Package("global", "vite", "root")},
   {Package("local", "vite", "none"), Package("managed", "typescript", "main")}}
MCConfs ==
  {[start |-> "none", build |-> "unset", noInstall |-> FALSE],
   [start |-> "dev", build |-> "none", noInstall |-> TRUE]}

-----------------------------------------------------------------------------
Init ==
  /\ part \in {"http", "visits", "hostsfile", "remote", "orphans", "files", "kinds"}
  /\ HttpInit /\ VisitInit /\ FileInit /\ RemoteInit /\ OrphanInit /\ FileServeInit /\ KindInit

Next ==
  \/ /\ part = "http" /\ HttpNext
     /\ UNCHANGED <<part, visitVars, fileVars, remoteVars, orphanVars,
                    fileServeVars, kindVars>>
  \/ /\ part = "visits" /\ VisitNext
     /\ UNCHANGED <<part, httpVars, fileVars, remoteVars, orphanVars,
                    fileServeVars, kindVars>>
  \/ /\ part = "hostsfile" /\ FileNext
     /\ UNCHANGED <<part, httpVars, visitVars, remoteVars, orphanVars,
                    fileServeVars, kindVars>>
  \/ /\ part = "remote" /\ RemoteNext
     /\ UNCHANGED <<part, httpVars, visitVars, fileVars, orphanVars,
                    fileServeVars, kindVars>>
  \/ /\ part = "orphans" /\ OrphanNext
     /\ UNCHANGED <<part, httpVars, visitVars, fileVars, remoteVars,
                    fileServeVars, kindVars>>
  \/ /\ part = "files" /\ FileServeNext
     /\ UNCHANGED <<part, httpVars, visitVars, fileVars, remoteVars,
                    orphanVars, kindVars>>
  \/ /\ part = "kinds" /\ KindNext
     /\ UNCHANGED <<part, httpVars, visitVars, fileVars, remoteVars,
                    orphanVars, fileServeVars>>

Spec ==
  /\ Init /\ [][Next]_vars
  /\ RemoteFairness
=============================================================================
