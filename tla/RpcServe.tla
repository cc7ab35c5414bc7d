------------------------------ MODULE RpcServe ------------------------------
(***************************************************************************)
(* The serving end of a muxed connection with a standard code:             *)
(* YamuxCode.Serve of pmtp/yamux.go accepts streams, and for each of them  *)
(* stdCodeAdapter.Serve of pmtp/std_code.go reads requests and answers     *)
(* each in a goroutine.  Both wait for what they started before they end.  *)
(***************************************************************************)
EXTENDS Integers, FiniteSets

CONSTANTS
  Streams,   (* streams the client opens                                    *)
  Requests   (* requests the client sends                                   *)

ASSUME ServeAssumption == "nobody" \notin Requests

VARIABLES
  mux,       (* the session: "off", "accept", "wait", "goaway", "closed"    *)
  stream,    (* per stream: "none", "read", "wait", "closed"                *)
  request,   (* per request: [at, on]                                       *)
  sending,   (* per stream: the request that holds the lock sending         *)
  cut        (* the client closed the connection, or it broke               *)

serveVars == <<mux, stream, request, sending, cut>>

NoRequest == [at |-> "none", on |-> "none"]

ServeInit ==
  /\ mux = "off" /\ stream = [s \in Streams |-> "none"]
  /\ request = [r \in Requests |-> NoRequest]
  /\ sending = [s \in Streams |-> "nobody"] /\ cut = FALSE

ServeMux ==
  /\ mux = "off" /\ mux' = "accept"
  /\ UNCHANGED <<stream, request, sending, cut>>

Cut ==
  /\ mux # "off" /\ ~cut /\ cut' = TRUE
  /\ UNCHANGED <<mux, stream, request, sending>>

(* session.Accept, wg.Add and the goroutine of the stream.                 *)
AcceptStream(s) ==
  /\ mux = "accept" /\ stream[s] = "none" /\ ~cut
  /\ stream' = [stream EXCEPT ![s] = "read"]
  /\ UNCHANGED <<mux, request, sending, cut>>

(* Accept fails, wg.Wait.                                                  *)
AcceptFails ==
  /\ mux = "accept" /\ cut /\ mux' = "wait"
  /\ UNCHANGED <<stream, request, sending, cut>>

(* wg.Wait has returned: yamuxCloseGraceful.                               *)
GoAway ==
  /\ mux = "wait" /\ \A s \in Streams : stream[s] \in {"none", "closed"}
  /\ mux' = "goaway"
  /\ UNCHANGED <<stream, request, sending, cut>>

(* The timeout is over or the session has ended.                           *)
CloseMux ==
  /\ mux = "goaway" /\ mux' = "closed"
  /\ UNCHANGED <<stream, request, sending, cut>>

(* ReadRequestHeader and body, and the goroutine of the request.           *)
ReadStd(s, r) ==
  /\ stream[s] = "read" /\ request[r] = NoRequest /\ ~cut
  /\ request' = [request EXCEPT ![r] = [at |-> "serve", on |-> s]]
  /\ UNCHANGED <<mux, stream, sending, cut>>

(* A stream ends when the client closes it, or with the connection.        *)
ReadStdFails(s) ==
  /\ stream[s] = "read" /\ stream' = [stream EXCEPT ![s] = "wait"]
  /\ UNCHANGED <<mux, request, sending, cut>>

ServeRPC(r) ==
  /\ request[r].at = "serve"
  /\ request' = [request EXCEPT ![r].at = "lock"]
  /\ UNCHANGED <<mux, stream, sending, cut>>

LockSending(r) ==
  /\ request[r].at = "lock" /\ sending[request[r].on] = "nobody"
  /\ request' = [request EXCEPT ![r].at = "write"]
  /\ sending' = [sending EXCEPT ![request[r].on] = r]
  /\ UNCHANGED <<mux, stream, cut>>

(* WriteResponse; an error is logged.                                      *)
WriteResponse(r) ==
  /\ request[r].at = "write"
  /\ request' = [request EXCEPT ![r].at =
                   IF cut \/ stream[request[r].on] = "closed" \/ mux = "closed"
                   THEN "lost" ELSE "answered"]
  /\ sending' = [sending EXCEPT ![request[r].on] = "nobody"]
  /\ UNCHANGED <<mux, stream, cut>>

Unanswered(r) == request[r].at \in {"serve", "lock", "write"}

(* MUTANT: the codec is closed when the input ends.                        *)
CloseStdAtOnce(s) ==
  /\ stream[s] = "wait" /\ stream' = [stream EXCEPT ![s] = "closed"]
  /\ UNCHANGED <<mux, request, sending, cut>>

(* wg.Wait, server.Close.                                                  *)
CloseStd(s) ==
  /\ stream[s] = "wait"
  /\ \A r \in Requests : Unanswered(r) => request[r].on # s
  /\ stream' = [stream EXCEPT ![s] = "closed"]
  /\ UNCHANGED <<mux, request, sending, cut>>

ServeRequest(r) == ServeRPC(r) \/ LockSending(r) \/ WriteResponse(r)

ServeNext ==
  \/ ServeMux \/ Cut \/ AcceptFails \/ GoAway \/ CloseMux
  \/ \E s \in Streams : AcceptStream(s) \/ ReadStdFails(s) \/ CloseStd(s)
  \/ \E s \in Streams, r \in Requests : ReadStd(s, r)
  \/ \E r \in Requests : ServeRequest(r)

(* Methods return, goroutines run, and reads notice a cut connection.      *)
ServeFairness ==
  /\ WF_serveVars(AcceptFails \/ GoAway \/ CloseMux)
  /\ \A s \in Streams : /\ WF_serveVars(cut /\ ReadStdFails(s))
                        /\ WF_serveVars(CloseStd(s))
  /\ \A r \in Requests : WF_serveVars(ServeRequest(r))

-----------------------------------------------------------------------------
(* A client that half-closes a stream still gets its answers: a response   *)
(* is lost only with the connection, never because the server closed the   *)
(* stream or the session before it (the two wait groups).                  *)
LostOnlyWhenCut ==
  \A r \in Requests : request[r].at = "lost" => cut

(* One response at a time is written to a stream (sending).                *)
OneWriter ==
  \A r, q \in Requests :
    request[r].at = "write" /\ request[q].at = "write"
      /\ request[r].on = request[q].on => r = q

(* A session ends after its streams and they end after their requests.     *)
ClosedInOrder ==
  /\ mux \in {"goaway", "closed"} =>
       \A s \in Streams : stream[s] \in {"none", "closed"}
  /\ \A s \in Streams : stream[s] = "closed" =>
       \A r \in Requests : request[r].on = s => ~Unanswered(r)

(* A server whose client is gone closes its session.                       *)
CutCloses == []<>(cut => mux = "closed")

(* Requests are answered before their stream and their session are closed, *)
(* one response at a time (Serve).                                         *)
ServeCorrect == LostOnlyWhenCut /\ OneWriter /\ ClosedInOrder
=============================================================================
