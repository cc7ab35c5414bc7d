------------------------------ MODULE RpcDial ------------------------------
(***************************************************************************)
(* How an rpc connection is set up: ConvertURL, the Dialer of pmtp/conn.go *)
(* at the client, UpgradeServer.Upgrade of pmtp/upgrade.go at the server,  *)
(* and the codes that are opened on the result (pmtp/yamux.go).            *)
(***************************************************************************)
EXTENDS Integers, FiniteSets

(* Codes of RpcCodeList, by the name they are negotiated with; "none"      *)
(* stands for the empty string.                                            *)
Codes == {"jrpc+yamux", "jrpc", "json-rpc+yamux", "json-rpc"}
Plain(c) == CASE c = "jrpc+yamux" -> "jrpc"
              [] c = "json-rpc+yamux" -> "json-rpc"
              [] OTHER -> c
Muxed(c) == CASE c = "jrpc" -> "jrpc+yamux"
              [] c = "json-rpc" -> "json-rpc+yamux"
              [] OTHER -> c

(* YamuxCode.Open: a session with streams, opened and closed as a pool.    *)
Muxes(c) == Plain(c) # c

Urls == [scheme : {"http", "https", "ws", "wss", "pmtp", "pmtp+ws", "ftp"},
         port : {"80", "443", "other"}, host : {"localhost", "remote"},
         path : {"none", "/x"}, pool : {"none", "0"}, yamux : {"none", "0"},
         code : {"none", "json-rpc", "jrpc+yamux", "bogus"}]

Invalid == [ok |-> FALSE, tls |-> FALSE, websocket |-> FALSE, host |-> "none",
            port |-> "none", path |-> "none", noPool |-> FALSE, noYamux |-> FALSE,
            code |-> "none"]

(* Which schemes, ports and hosts mean TLS.                                *)
TLS(u) ==
  IF u.scheme \in {"http", "ws"} THEN FALSE
  ELSE IF u.scheme \in {"https", "wss"} THEN TRUE
  ELSE IF u.port \in {"80", "443"} THEN u.port = "443"
  ELSE u.host # "localhost"

ConvertURL(u) ==
  IF u.scheme = "ftp" \/ u.code = "bogus" THEN Invalid
  ELSE [ok |-> TRUE, tls |-> TLS(u), websocket |-> u.scheme \in {"ws", "wss", "pmtp+ws"},
        host |-> u.host, port |-> u.port,
        path |-> IF u.path \in {"none", "/"} THEN "/connect" ELSE u.path,
        noPool |-> u.pool = "0", noYamux |-> u.yamux = "0",
        code |-> IF u.code = "none" THEN "jrpc" ELSE u.code]

(* ConnURL.URL: the options are not part of it.                            *)
URL(c) ==
  [scheme |-> IF c.tls THEN (IF c.websocket THEN "wss" ELSE "https")
              ELSE (IF c.websocket THEN "ws" ELSE "http"),
   port |-> c.port, host |-> c.host, path |-> c.path, pool |-> "none",
   yamux |-> "none", code |-> "none"]

(* The codes DialContext asks for: the pool dials the plain code for its   *)
(* own connections and the muxed one for the shared connection.            *)
DialCodes(c) ==
  CASE c.noPool -> {c.code}
    [] ~c.noPool /\ c.noYamux -> {c.code, Plain(c.code)}
    [] OTHER -> {Muxed(c.code), Plain(c.code)}

-----------------------------------------------------------------------------
VARIABLES
  url,       (* the ConnURL, or Invalid                                     *)
  cli,       (* the client: [at, code]                                      *)
  raw,       (* its end of the connection: "none", "open", "closing" (gone  *)
             (* away from, and still open), "closed"                        *)
  sent,      (* the request: [kind, proto]                                  *)
  answer,    (* the response: [status, proto]                               *)
  sv,        (* the server: [at, code]                                      *)
  knows      (* the codes the server was built with                         *)

dialVars == <<url, cli, raw, sent, answer, sv, knows>>

Ws == "websocket"
NoSent == [kind |-> "none", proto |-> "none"]
NoAnswer == [status |-> 0, proto |-> "none"]

(* Every variable has its type.                                            *)
DialTypeOK ==
  /\ cli.at \in {"off", "tcp", "tls", "write", "read", "open", "up", "err",
                 "closed"}
  /\ cli.code \in Codes \cup {"none"}
  /\ raw \in {"none", "open", "closing", "closed"}
  /\ sent \in [kind : {"none", "native", Ws}, proto : Codes \cup {"none"}]
  /\ answer \in [status : {0, 101, 200, 406, 500}, proto : Codes \cup {"none", "?"}]
  /\ sv \in [at : {"idle", "serving", "ended"}, code : Codes \cup {"none"}]
  /\ knows \subseteq Codes

DialInit ==
  /\ url = Invalid /\ cli = [at |-> "off", code |-> "none"] /\ raw = "none"
  /\ sent = NoSent /\ answer = NoAnswer
  /\ sv = [at |-> "idle", code |-> "none"] /\ knows = {}

(* DialContext; the server is of this version, or knows one code only.     *)
DialContext(u) ==
  /\ cli.at = "off" /\ url' = ConvertURL(u)
  /\ IF url' = Invalid THEN cli' = [cli EXCEPT !.at = "err"]
     ELSE \E c \in DialCodes(url') : cli' = [at |-> "tcp", code |-> c]
  /\ knows' \in {Codes, {"json-rpc"}}
  /\ UNCHANGED <<raw, sent, answer, sv>>

Fail(close) ==
  /\ cli' = [cli EXCEPT !.at = "err"]
  /\ raw' = IF close THEN "closed" ELSE raw

(* netDialContext                                                          *)
TcpDial ==
  /\ cli.at = "tcp"
  /\ \/ Fail(FALSE)
     \/ /\ raw' = "open"
        /\ cli' = [cli EXCEPT !.at = IF url.tls THEN "tls" ELSE "write"]
  /\ UNCHANGED <<url, sent, answer, sv, knows>>

(* tlsDialContext, and RoundTrip refuses HTTP/2.                           *)
TlsDial ==
  /\ cli.at = "tls"
  /\ \/ Fail(TRUE)
     \/ cli' = [cli EXCEPT !.at = "write"] /\ UNCHANGED raw
  /\ UNCHANGED <<url, sent, answer, sv, knows>>

(* The request of DialUpgrade or of the websocket dialer.                  *)
SendRequest ==
  /\ cli.at = "write"
  /\ \/ Fail(TRUE) /\ UNCHANGED sent
     \/ /\ sent' = [kind |-> IF url.websocket THEN Ws ELSE "native",
                    proto |-> cli.code]
        /\ cli' = [cli EXCEPT !.at = "read"] /\ UNCHANGED raw
  /\ UNCHANGED <<url, answer, sv, knows>>

(* The protocol Upgrade looks up: a websocket without an agreed subproto-  *)
(* col, like an empty Upgrade header, means json-rpc.                      *)
Negotiated == IF sent.proto \in knows THEN sent.proto ELSE "none"
Protocol(p) == IF p = "none" THEN "json-rpc" ELSE p

(* Upgrade: hijack or upgrade the connection and serve, or refuse.         *)
Upgrade ==
  /\ sent # NoSent /\ sv.at = "idle" /\ answer = NoAnswer
  /\ \/ /\ sent.kind = "native" /\ sent.proto \in knows
        /\ \/ /\ answer' = [status |-> 101, proto |-> sent.proto]
              /\ sv' = [at |-> "serving", code |-> sent.proto]
           \/ answer' = [status |-> 500, proto |-> "none"] /\ UNCHANGED sv
     \/ /\ sent.kind = "native" /\ sent.proto \notin knows
        /\ answer' = [status |-> 406, proto |-> "none"] /\ UNCHANGED sv
     \/ /\ sent.kind = Ws
        /\ answer' = [status |-> 101, proto |-> Negotiated]
        /\ sv' = [at |-> "serving", code |-> Protocol(Negotiated)]
  /\ UNCHANGED <<url, cli, raw, sent, knows>>

(* Something else than a pmesh server answers.                             *)
Stranger ==
  /\ sent # NoSent /\ sv.at = "idle" /\ answer = NoAnswer
  /\ answer' \in {[status |-> 200, proto |-> "none"], [status |-> 101, proto |-> "?"]}
  /\ sv' = [at |-> "ended", code |-> "none"]
  /\ UNCHANGED <<url, cli, raw, sent, knows>>

(* MUTANT: the status is all that counts.                                  *)
ReadResponseStatus ==
  /\ cli.at = "read" /\ answer # NoAnswer
  /\ IF answer.status # 101 THEN Fail(TRUE)
     ELSE cli' = [cli EXCEPT !.at = "open"] /\ UNCHANGED raw
  /\ UNCHANGED <<url, sent, answer, sv, knows>>

(* DialUpgrade checks status and headers; the websocket dialer the status. *)
ReadResponse ==
  /\ cli.at = "read" /\ answer # NoAnswer
  /\ IF \/ answer.status # 101
        \/ sent.kind = "native" /\ answer.proto # sent.proto
        \/ sent.kind = Ws /\ answer.proto = "?"
     THEN Fail(TRUE)
     ELSE cli' = [cli EXCEPT !.at = "open"] /\ UNCHANGED raw
  /\ UNCHANGED <<url, sent, answer, sv, knows>>

ReadFails ==
  /\ cli.at = "read" /\ Fail(TRUE)
  /\ UNCHANGED <<url, sent, answer, sv, knows>>

(* code.Open                                                               *)
OpenCode ==
  /\ cli.at = "open" /\ cli' = [cli EXCEPT !.at = "up"]
  /\ UNCHANGED <<url, raw, sent, answer, sv, knows>>

(* The first stream of a yamux session fails: its pool closes, and the     *)
(* session goes away; the dialer itself closes a websocket only.           *)
OpenFails ==
  /\ cli.at = "open" /\ Muxes(cli.code)
  /\ cli' = [cli EXCEPT !.at = "err"]
  /\ raw' = IF url.websocket THEN "closed" ELSE "closing"
  /\ UNCHANGED <<url, sent, answer, sv, knows>>

(* Close of the client: the pool of a yamux session ends in AfterClose.    *)
CloseClient ==
  /\ cli.at = "up" /\ cli' = [cli EXCEPT !.at = "closed"]
  /\ raw' = IF Muxes(cli.code) THEN "closing" ELSE "closed"
  /\ UNCHANGED <<url, sent, answer, sv, knows>>

(* yamuxCloseGraceful: StreamCloseTimeout after the session went away.     *)
SessionCloses ==
  /\ raw = "closing" /\ raw' = "closed"
  /\ UNCHANGED <<url, cli, sent, answer, sv, knows>>

(* proto.Serve returns when its connection ends, and that end is closed.   *)
ServerEnds ==
  /\ sv.at = "serving" /\ raw = "closed" /\ sv' = [sv EXCEPT !.at = "ended"]
  /\ UNCHANGED <<url, cli, raw, sent, answer, knows>>

(* What a dial does without an answer of the peer.                         *)
Dialing == TcpDial \/ SendRequest \/ ReadResponse \/ OpenCode \/ OpenFails

DialNext ==
  \/ \E u \in Urls : DialContext(u)
  \/ Dialing \/ TlsDial \/ ReadFails \/ Upgrade \/ Stranger
  \/ CloseClient \/ SessionCloses \/ ServerEnds

(* The system bounds a connect, yamux the opening of a stream, a timer the *)
(* session that went away, and a server notices a closed connection.       *)
(* Nothing bounds a handshake or an answer: Dial has no deadline.          *)
DialFairness == /\ WF_dialVars(Dialing) /\ WF_dialVars(SessionCloses)
                /\ WF_dialVars(ServerEnds)

-----------------------------------------------------------------------------
(* A dial that fails leaves no connection open, whichever of its steps     *)
(* failed, but for a yamux session whose server had agreed: that one has   *)
(* gone away and waits for its time (DialUpgrade, RoundTrip,               *)
(* tlsDialContext, dialWebsocket, yamuxCloseGraceful).                     *)
FailedDialIsClosed ==
  cli.at = "err" =>
    /\ raw # "open"
    /\ raw = "closing" => Muxes(cli.code) /\ answer = [status |-> 101, proto |-> cli.code]

(* Both ends speak the same code: a client is up only with a server that   *)
(* serves the code it asked for; over websockets as long as the server     *)
(* knows it.                                                               *)
CodesAgree ==
  cli.at = "up" /\ (sent.kind = Ws => cli.code \in knows)
    => sv.at \in {"serving", "ended"} /\ sv.code = cli.code

(* What a client URL says of where and how to connect. *)
Endpoint(c) == <<c.tls, c.websocket, c.host, c.port, c.path>>

(* The URL that is dialled means what the URL that was given means: parsed *)
(* again it names the same endpoint with the same security.                *)
URLStable ==
  url # Invalid => Endpoint(ConvertURL(URL(url))) = Endpoint(url)

(* The handshake or the answer of the peer is still to come. *)
AwaitsPeer == cli.at = "tls" \/ (cli.at = "read" /\ answer = NoAnswer)

(* A dial ends unless the peer is silent for ever; whatever it left open,  *)
(* and whatever a client left that was closed, is closed in the end, and   *)
(* no server serves on (DialContext, yamuxCloseGraceful, Upgrade).         *)
DialEnds ==
  []<>(/\ cli.at \in {"off", "up", "err", "closed"} \/ AwaitsPeer
       /\ cli.at \in {"err", "closed"} => raw \in {"none", "closed"}
       /\ sv.at = "serving" => raw = "open")

(* Both ends of a connection speak one code, at the endpoint that was      *)
(* asked for, and a dial that fails leaves nothing open but a session that *)
(* has gone away (DialContext, Upgrade).                                   *)
DialCorrect == DialTypeOK /\ FailedDialIsClosed /\ CodesAgree /\ URLStable
=============================================================================
