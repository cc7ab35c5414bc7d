----------------------------- MODULE HttpServe ------------------------------
(***************************************************************************)
(* One request on its way through vhttp: Server.ServeHTTP, the virtual     *)
(* hosts, muxes and handlers, and the response.  A virtual host is a mux.  *)
(* A host is the sequence of its labels, a pattern the set of the targets  *)
(* <<host, path>> that it matches.  The table of hosts is replaced         *)
(* meanwhile.                                                              *)
(***************************************************************************)
EXTENDS Integers, Sequences, FiniteSets, SequencesExt

CONSTANTS
  Tables,      (* sets of virtual hosts that a manifest may define: each a  *)
               (* sequence of [names, root, noUpgrade]                      *)
  Handlers,    (* [id -> [kind, routes, arg, host]]                         *)
  Inbound,     (* requests: [host, path, scheme, upgrade, local, trusted,   *)
               (* secret, signed], the scheme after X-Forwarded-Proto       *)
  Codes,       (* statuses that directives, services and responders choose  *)
  MaxReloads   (* BOUND: SetHosts                                           *)

ASSUME HttpAssumption ==
  /\ MaxReloads \in Nat /\ Codes \subseteq Int
  /\ \A q \in Inbound :
       {q.upgrade, q.local, q.trusted, q.secret, q.signed} \subseteq BOOLEAN

VARIABLES
  table,     (* TopLevelMux.groups                                          *)
  reloads,   (* number of SetHosts so far                                   *)
  req,       (* the request as the handlers see it                          *)
  out,       (* the response: [status, writes, touched, cut, by]            *)
  stack,     (* calls in progress: [kind, rest]                             *)
  at,        (* the next step                                               *)
  call,      (* the handler to call                                         *)
  ret,       (* the Result of the last call                                 *)
  origin,    (* history: the request as it came in                          *)
  ran        (* history: the handlers that were called for it               *)

httpVars == <<table, reloads, req, out, stack, at, call, ret, origin, ran>>

-----------------------------------------------------------------------------
(* hosts.Match: the root or a subdomain of it, and what is before it.      *)
Match(root, needle) == IsSuffix(root, needle)
Sub(root, needle) == SubSeq(needle, 1, Len(needle) - Len(root))

(* hosts.MatchMap: the most specific name first.  <<>> for none.           *)
MatchMap(names, needle) ==
  LET hit == {i \in 1..Len(needle) :
                SubSeq(needle, i, Len(needle)) \in names}
  IN  IF hit = {} THEN <<>>
      ELSE LET i == CHOOSE i \in hit : \A j \in hit : i <= j
           IN  SubSeq(needle, i, Len(needle))

TestMap(names, needle) == MatchMap(names, needle) # <<>>

(* createGroups: one group for each name, in the order of first mention.   *)
Mentions(vhosts) ==
  FlattenSeq([i \in 1..Len(vhosts) |->
                [k \in 1..Len(vhosts[i].names) |->
                   [name |-> vhosts[i].names[k], vh |-> vhosts[i]]]])
CreateGroups(vhosts) ==
  LET m == Mentions(vhosts)
      first == SelectSeq([i \in 1..Len(m) |-> i],
                 LAMBDA i : \A j \in 1..(i - 1) : m[j].name # m[i].name)
      of(n) == SelectSeq(m, LAMBDA e : e.name = n)
  IN  [g \in 1..Len(first) |->
         LET hs == of(m[first[g]].name)
         IN  [name |-> m[first[g]].name,
              hosts |-> [h \in 1..Len(hs) |-> hs[h].vh]]]

Unique(groups) == {groups[g].name : g \in 1..Len(groups)}

-----------------------------------------------------------------------------
(* error.go: the status sent for a code; 0 where Error panics.             *)
Internal5xx == {522, 1023, 1024}
StatusSent(code) ==
  CASE code \in 200..298               -> code
    [] code \in Internal5xx \cup {0}   -> 502
    [] code = 1020                     -> 500
    [] code = 1021                     -> 403
    [] code \in {1022, 1026}           -> 503
    [] code = 1025                     -> 400
    [] code \in 400..599 \ {522}       -> code
    [] code \in 1000..1099 \ (1020..1026) -> 502
    [] OTHER                           -> 0

Untouched == [status |-> 0, writes |-> 0, touched |-> FALSE, cut |-> FALSE,
              by |-> "none"]
NoOrigin == [local |-> FALSE, trusted |-> FALSE, secret |-> FALSE,
             scheme |-> "none", signed |-> FALSE]
NoRequest == [host |-> <<>>, path |-> "none", urlhost |-> <<>>, scheme |-> "none",
              internal |-> FALSE, portal |-> FALSE, upgrade |-> FALSE]

HttpInit ==
  /\ table = CreateGroups(CHOOSE t \in Tables : TRUE) /\ reloads = 0
  /\ req = NoRequest /\ out = Untouched /\ stack = <<>>
  /\ at = "idle" /\ call = "none" /\ ret = "none"
  /\ origin = NoOrigin /\ ran = {}

(* The places of the machine, its flags and the response.                  *)
HttpTypeOK ==
  /\ reloads \in 0..MaxReloads
  /\ req.internal \in BOOLEAN /\ req.portal \in BOOLEAN /\ req.upgrade \in BOOLEAN
  /\ out \in [status : 0..999, writes : 0..2, touched : BOOLEAN,
              cut : BOOLEAN, by : {"none", "pmesh", "other"}]
  /\ at \in {"idle", "sign", "serve", "call", "return", "panic", "abort", "over"}
  /\ ret \in {"none", "Done", "Continue", "Drop"}

-----------------------------------------------------------------------------
SetHosts(vhosts) ==
  /\ reloads < MaxReloads /\ reloads' = reloads + 1
  /\ table' = CreateGroups(vhosts)
  /\ UNCHANGED <<req, out, stack, at, call, ret, origin, ran>>

Cut == out' = [out EXCEPT !.cut = TRUE]
WriteHeader(code, by) ==
  out' = [status |-> code, writes |-> out.writes + 1, touched |-> TRUE,
          cut |-> out.cut, by |-> by]
Send(code) == WriteHeader(code, "pmesh")

(* StartClientRequest: the marks a client may have sent are replaced.      *)
Mark(q) == q.local \/ q.trusted \/ (q.scheme = "https" /\ q.secret)

(* ServeHTTP: an unknown host is cut off, and so is a client that left     *)
(* while its address was looked up; a blocked client is refused, OPTIONS * *)
(* answered at once.                                                       *)
Accept(q) ==
  /\ at = "idle"
  /\ origin' = q
  /\ req' = [host |-> q.host, path |-> q.path, urlhost |-> q.host,
             scheme |-> q.scheme, internal |-> Mark(q), portal |-> FALSE,
             upgrade |-> q.upgrade]
  /\ \/ Cut /\ at' = "over"
     \/ /\ TestMap(Unique(table), q.host)
        /\ \/ Send(StatusSent(1021)) /\ at' = "over"
           \/ Send(204) /\ at' = "over"
           \/ UNCHANGED out /\ at' = IF q.signed THEN "sign" ELSE "serve"
  /\ UNCHANGED <<table, reloads, stack, call, ret, ran>>

(* The request as if it came for another url, internal from now on.        *)
Moved(host, path, portal) ==
  [host |-> host, path |-> path, urlhost |-> host, scheme |-> req.scheme,
   internal |-> TRUE, portal |-> portal, upgrade |-> req.upgrade]

(* Signer.Authenticate: refused, or internal, with the headers that the    *)
(* signer chose and perhaps another url.                                   *)
Authenticate ==
  /\ at = "sign"
  /\ \/ Send(StatusSent(1025)) /\ at' = "over" /\ UNCHANGED req
     \/ /\ at' = "serve" /\ UNCHANGED out
        /\ \E host \in Unique(table) \cup {req.host}, portal \in {req.portal, TRUE},
              path \in {req.path} \cup {q.path : q \in Inbound} :
             req' = Moved(host, path, portal)
  /\ UNCHANGED <<table, reloads, stack, call, ret, origin, ran>>

(* ServeHTTPSession: the groups of the table, in order.                    *)
ServeSession ==
  /\ at = "serve"
  /\ stack' = Append(stack, [kind |-> "server", rest |-> table])
  /\ at' = "return" /\ ret' = "Continue"
  /\ UNCHANGED <<table, reloads, req, out, call, origin, ran>>

-----------------------------------------------------------------------------
(* What the caller does with the result of a call.                         *)

Top == stack[Len(stack)]
Pop == SubSeq(stack, 1, Len(stack) - 1)
Replace(rest) ==
  [stack EXCEPT ![Len(stack)] = [kind |-> Top.kind, rest |-> rest]]

(* virtualHostGroup: r.URL.Host = r.Host after every host.                 *)
Leaves == [req EXCEPT !.urlhost = req.host]

(* Done is passed on; Drop leaves this mux only.                           *)
Returns(result) ==
  /\ at = "return" /\ Len(stack) > 0 /\ Top.kind \in {"mux", "group"}
  /\ ret = result /\ result \in {"Done", "Drop"}
  /\ stack' = Pop /\ ret' = IF result = "Done" THEN "Done" ELSE "Continue"
  /\ req' = IF Top.kind = "group" THEN Leaves ELSE req
  /\ UNCHANGED <<table, reloads, out, at, call, origin, ran>>

(* ServeHTTPSession ends, a Drop with a reset of the connection.  Within a *)
(* portal its caller goes on with Done.                                    *)
SessionEnds ==
  /\ at = "return" /\ Len(stack) > 0 /\ Top.kind = "server" /\ ret # "Continue"
  /\ stack' = Pop /\ ret' = "Done"
  /\ at' = IF ret = "Drop" THEN "abort" ELSE IF Pop = <<>> THEN "over" ELSE "return"
  /\ UNCHANGED <<table, reloads, req, out, call, origin, ran>>

NotFound ==
  /\ at = "return" /\ Len(stack) > 0 /\ Top.kind = "server"
  /\ ret = "Continue" /\ Top.rest = <<>>
  /\ Send(404) /\ stack' = Pop /\ ret' = "Done"
  /\ at' = IF Pop = <<>> THEN "over" ELSE "return"
  /\ UNCHANGED <<table, reloads, req, call, origin, ran>>

(* What virtualHostGroup.ServeHTTP finds out as it begins: the url that    *)
(* each of its hosts will see, and whether the host may send the client to *)
(* https.                                                                  *)
HostsOf(group) ==
  [h \in 1..Len(group.hosts) |->
     [root |-> group.hosts[h].root,
      url |-> Sub(group.name, req.host) \o group.hosts[h].names[1],
      upgrades |-> ~req.portal /\ ~group.hosts[h].noUpgrade]]

(* The next group whose name matches r.Host.                               *)
NextGroup ==
  /\ at = "return" /\ Len(stack) > 0 /\ Top.kind = "server"
  /\ ret = "Continue" /\ Top.rest # <<>>
  /\ stack' = IF Match(Head(Top.rest).name, req.host)
              THEN Append(Replace(Tail(Top.rest)),
                          [kind |-> "group", rest |-> HostsOf(Head(Top.rest))])
              ELSE Replace(Tail(Top.rest))
  /\ UNCHANGED <<table, reloads, req, out, at, call, ret, origin, ran>>

(* The next virtual host of the group: an upgrade to https, or its mux     *)
(* under the first of its names.                                           *)
NextHost ==
  LET vh == Head(Top.rest)
      redirects == vh.upgrades /\ req.scheme = "http" /\ req.upgrade
  IN  /\ at = "return" /\ Len(stack) > 0 /\ Top.kind = "group"
      /\ ret = "Continue" /\ Top.rest # <<>>
      /\ IF redirects
         THEN /\ Send(301) /\ ret' = "Done"
              /\ UNCHANGED <<stack, req, at, call>>
         ELSE /\ stack' = Replace(Tail(Top.rest))
              /\ req' = [req EXCEPT !.urlhost = vh.url]
              /\ call' = vh.root /\ at' = "call"
              /\ UNCHANGED <<out, ret>>
      /\ UNCHANGED <<table, reloads, origin, ran>>

(* The next route of the mux, if its pattern matches.  A group ends as a   *)
(* mux does.                                                               *)
NextRoute ==
  /\ at = "return" /\ Len(stack) > 0 /\ Top.kind \in {"mux", "group"}
  /\ ret = "Continue"
  /\ \/ /\ Top.rest = <<>> /\ stack' = Pop
        /\ req' = IF Top.kind = "group" THEN Leaves ELSE req
        /\ UNCHANGED <<at, call>>
     \/ /\ Top.rest # <<>> /\ Top.kind = "mux" /\ UNCHANGED req
        /\ stack' = Replace(Tail(Top.rest))
        /\ IF <<req.urlhost, req.path>> \in Head(Top.rest).pattern
           THEN at' = "call" /\ call' = Head(Top.rest).to
           ELSE UNCHANGED <<at, call>>
  /\ UNCHANGED <<table, reloads, out, ret, origin, ran>>

-----------------------------------------------------------------------------
(* The handlers.                                                           *)

Calls(kinds) ==
  at = "call" /\ Handlers[call].kind \in kinds /\ ran' = ran \cup {call}
Result(r) == at' = "return" /\ ret' = r

(* ResetRequestConn: panic(http.ErrAbortHandler).                          *)
Abort == at' = "abort" /\ UNCHANGED <<out, ret>>

(* WriteHeader and Write of a code that pmesh did not choose: net/http     *)
(* goes on to 200 after an informational one, and panics if it is none     *)
(* (ConditionalResponse is touched by then).                               *)
Answer(code) ==
  IF code \in 100..999
  THEN /\ WriteHeader(IF code \in 100..199 \ {101} THEN 200 ELSE code, "other")
       /\ Result("Done")
  ELSE out' = [out EXCEPT !.touched = TRUE] /\ at' = "panic" /\ UNCHANGED ret

(* Error: a code that is not known panics.                                 *)
Error(code) ==
  IF StatusSent(code) = 0
  THEN at' = "panic" /\ UNCHANGED <<out, ret>>
  ELSE Send(StatusSent(code)) /\ Result("Done")

(* Mux.ServeHTTP, HandleSwitch.ServeHTTP                                   *)
EnterMux ==
  /\ Calls({"mux"})
  /\ stack' = Append(stack, [kind |-> "mux", rest |-> Handlers[call].routes])
  /\ Result("Continue")
  /\ UNCHANGED <<table, reloads, req, out, call, origin>>

(* InternalHandler: 403, the inner handler, or the next one.               *)
InternalOnly ==
  /\ Calls({"internal"})
  /\ IF ~req.internal THEN Error(403) /\ UNCHANGED call
     ELSE /\ UNCHANGED out
          /\ IF Handlers[call].arg # "none" THEN call' = Handlers[call].arg /\ UNCHANGED <<at, ret>>
             ELSE Result("Continue") /\ UNCHANGED call
  /\ UNCHANGED <<table, reloads, req, stack, origin>>

(* rewrite, path, path-join ... ; proxy-host; allow-internal; proxy-header *)
(* and del-proxy-header of a header that pmesh looks at; and those that    *)
(* log, set a timeout or a header of the response.                         *)
Directive ==
  LET h == Handlers[call] IN
  /\ Calls({"path", "host", "allow", "set", "delete", "pass"}) /\ Result("Continue")
  /\ req' = CASE h.kind = "path"  -> [req EXCEPT !.path = h.arg]
              [] h.kind = "host"  -> [req EXCEPT !.host = h.host]
              [] h.kind = "allow" -> [req EXCEPT !.internal = TRUE]
              [] h.kind \in {"set", "delete"} ->
                   (CASE h.arg = "P-Internal" -> [req EXCEPT !.internal = (h.kind = "set")]
                      [] h.arg = "P-Portal"   -> [req EXCEPT !.portal = (h.kind = "set")]
                      [] OTHER                -> [req EXCEPT !.upgrade = (h.kind = "set")])
              [] OTHER -> req
  /\ UNCHANGED <<table, reloads, out, stack, call, origin>>

(* portal: once for a request, it is served again as if it came for the    *)
(* new url (the url's own host if that is relative), with the current      *)
(* table.  One that does not parse leaves no url: the group panics on it   *)
(* once the error is sent.                                                 *)
Portal ==
  LET h == Handlers[call] IN
  /\ Calls({"portal"})
  /\ IF req.portal THEN Error(1023) /\ UNCHANGED req
     ELSE IF h.arg = "unparsable"
     THEN Send(StatusSent(522)) /\ at' = "panic" /\ UNCHANGED <<ret, req>>
     ELSE /\ req' = Moved(IF h.host = <<>> THEN req.urlhost ELSE h.host, h.arg, TRUE)
          /\ at' = "serve" /\ UNCHANGED <<out, ret>>
  /\ UNCHANGED <<table, reloads, stack, call, origin>>

(* status %s                                                               *)
Status ==
  /\ Calls({"status"}) /\ \E code \in Codes : Error(code)
  /\ UNCHANGED <<table, reloads, req, stack, call, origin>>

(* return %s %q; redirect; abort; drop                                     *)
Finish ==
  /\ \/ Calls({"return"}) /\ \E code \in Codes : Answer(code)
     \/ Calls({"redirect"}) /\ Send(302) /\ Result("Done")
     \/ Calls({"abort"}) /\ Abort
     \/ Calls({"drop"}) /\ UNCHANGED out /\ Result("Drop")
  /\ UNCHANGED <<table, reloads, req, stack, call, origin>>

(* auth: the right user, or 401.  limit: the next handler, 429, 1021 or a  *)
(* reset.                                                                  *)
Guard ==
  /\ \/ Calls({"auth", "limit"}) /\ UNCHANGED out /\ Result("Continue")
     \/ Calls({"auth"}) /\ Error(401)
     \/ Calls({"limit"}) /\ (Error(429) \/ Error(1021))
     \/ Calls({"limit"}) /\ Abort
  /\ UNCHANGED <<table, reloads, req, stack, call, origin>>

(* HandlePublish: no client, a body that fails, no reply, a beacon that is *)
(* sent, or the reply with the status its responder chose.  A client that  *)
(* left gets what net/http sends for a handler without an answer, if it    *)
(* still can.                                                              *)
Publish ==
  /\ Calls({"publish"})
  /\ \/ \E code \in {503, 500, 1026, 200} : Error(code)
     \/ \E code \in Codes : Answer(code)
     \/ (Cut \/ Send(200)) /\ Result("Done")   (* the client left *)
  /\ UNCHANGED <<table, reloads, req, stack, call, origin>>

(* HandleService: a service that is not there is unavailable; one that is  *)
(* answers, passes, or panics before or in the middle of its answer, with  *)
(* http.ErrAbortHandler (a proxy whose upstream breaks off) or otherwise.  *)
Service ==
  /\ Calls({"service"})
  /\ \/ Error(503)
     \/ \E code \in Codes : Answer(code)
     \/ UNCHANGED out /\ Result("Continue")
     \/ /\ WriteHeader(200, "other") \/ UNCHANGED out
        /\ at' \in {"panic", "abort"} /\ UNCHANGED ret
  /\ UNCHANGED <<table, reloads, req, stack, call, origin>>

(* MUTANT: an answer is sent whether or not one was begun.                 *)
RecoverBlind ==
  /\ at \in {"panic", "abort"} /\ Send(StatusSent(1024))
  /\ at' = "over" /\ stack' = <<>>
  /\ UNCHANGED <<table, reloads, req, call, ret, origin, ran>>

(* The deferred recover of ServeHTTP: http.ErrAbortHandler is passed on,   *)
(* anything else is an error; net/http cuts the connection, as it does if  *)
(* the response was touched.                                               *)
Recover ==
  /\ at \in {"panic", "abort"}
  /\ IF at = "abort" \/ out.touched THEN Cut ELSE Send(StatusSent(1024))
  /\ at' = "over" /\ stack' = <<>>
  /\ UNCHANGED <<table, reloads, req, call, ret, origin, ran>>

-----------------------------------------------------------------------------
HttpNext ==
  \/ \E vhosts \in Tables : SetHosts(vhosts)
  \/ \E q \in Inbound : Accept(q)
  \/ Authenticate \/ ServeSession
  \/ \E r \in {"Done", "Drop"} : Returns(r)
  \/ SessionEnds \/ NotFound \/ NextGroup \/ NextHost \/ NextRoute
  \/ EnterMux \/ InternalOnly \/ Directive \/ Portal \/ Status \/ Finish
  \/ Guard \/ Publish \/ Service \/ Recover

-----------------------------------------------------------------------------
(* Every request gets one answer, and only one: a status is written once,  *)
(* or the connection is cut, whatever handlers pass, drop, panic or send   *)
(* the request elsewhere (ServeHTTP, Mux.ServeHTTP).                       *)
OneAnswer ==
  /\ out.writes <= 1
  /\ at = "over" => out.writes = 1 \/ out.cut

(* Codes of pmesh stay inside: what it sends of its own is a status of     *)
(* HTTP.  A status that HTTP does not know is one that a return directive, *)
(* a service or a responder chose, and has three digits at least (Error,   *)
(* HandlePublish).                                                         *)
SentIsHttp ==
  out.writes > 0 => /\ out.status \in {101} \cup 200..999
                    /\ out.by = "pmesh" => out.status \in 200..599

(* A handler behind "internal" runs only for a request that proved itself, *)
(* by its address, certificate, secret or signature, or that met a handler *)
(* that lets it in: no header of a client, replacement of the table, or    *)
(* way through muxes, hosts and portals does (StartClientRequest,          *)
(* InternalHandler).                                                       *)
LetsIn(h) ==
  \/ Handlers[h].kind \in {"allow", "portal"}
  \/ Handlers[h].kind = "set" /\ Handlers[h].arg = "P-Internal"
InternalIsEarned ==
  req.internal => \/ origin.local \/ origin.trusted \/ origin.signed
                  \/ origin.secret /\ origin.scheme = "https"
                  \/ \E h \in ran : LetsIn(h)

(* A request is served anew once at most: a portal to a portal ends        *)
(* (StatusRestartLoop), so that every request comes to an end, unless a    *)
(* directive deletes the mark.                                             *)
Unportaled == \E h \in ran : Handlers[h].kind = "delete" /\ Handlers[h].arg = "P-Portal"
PortalOnce ==
  \/ Unportaled
  \/ Cardinality({i \in 1..Len(stack) : stack[i].kind = "server"}) <= 2

(* Groups are asked about the request's own host: the name of a virtual    *)
(* host that passed is not left in the url (virtualHostGroup.ServeHTTP).   *)
HostRestored ==
  at = "return" /\ ret = "Continue" /\ Len(stack) > 0 /\ Top.kind = "server"
    => req.urlhost = req.host

(* Through hosts, handlers, panics and portals a request gets exactly one  *)
(* answer, of HTTP unless others chose it, under its own host and with no  *)
(* more rights than it has earned, while the table is replaced             *)
(* (ServeHTTP).                                                            *)
AnswersCorrect ==
  /\ HttpTypeOK /\ OneAnswer /\ SentIsHttp
  /\ InternalIsEarned /\ PortalOnce /\ HostRestored
=============================================================================
