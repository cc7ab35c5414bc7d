------------------------------- MODULE TlsMux -------------------------------
(***************************************************************************)
(* tlsmux: one tls listener whose connections go to the sublistener of the *)
(* negotiated protocol.  Accepting, the handshake, the hand-over and the   *)
(* two ways to close run in goroutines of their own.                       *)
(***************************************************************************)
EXTENDS Integers, Sequences, FiniteSets

CONSTANTS
  Protos,      (* protocols; "*" stands for any                             *)
  Subs,        (* sublisteners that may be created                          *)
  Conns,       (* connections                                               *)
  Backlog      (* capacity of sublistener.backlog                           *)

None == "nil"

ASSUME MuxAssumption == Backlog \in Nat \ {0} /\ None \notin Subs

AnyProto == "*"
AllProtos == Protos \cup {AnyProto}

VARIABLES
  muxSub,      (* Listener.sub                                              *)
  muxClosed,   (* Listener.closed                                           *)
  doomed,      (* sublisteners that the goroutine of closeLocked closes     *)
  sub,         (* per sublistener: [protos, done, backlog, shut, by,        *)
               (* cleaned, burst, bare]; burst: done was closed twice,      *)
               (* bare: Accept returned neither connection nor error        *)
  conn         (* per connection: [at, proto, to]                           *)

muxVars == <<muxSub, muxClosed, doomed, sub, conn>>

NoSub == [protos |-> {}, done |-> FALSE, backlog |-> <<>>, shut |-> FALSE,
          by |-> {}, cleaned |-> FALSE, burst |-> FALSE, bare |-> FALSE]
Closers == {"user", "mux"}

SubType == [protos : SUBSET AllProtos, done : BOOLEAN, backlog : Seq(Conns),
            shut : BOOLEAN, by : SUBSET Closers, cleaned : BOOLEAN,
            burst : BOOLEAN, bare : BOOLEAN]
ConnType == [at : {"off", "hello", "find", "send", "queued", "closed", "given",
                   "panic"}, proto : AllProtos, to : Subs \cup {None}]

(* Every variable has its type.                                            *)
MuxTypeOK ==
  /\ muxSub \in [AllProtos -> Subs \cup {None}]
  /\ muxClosed \in BOOLEAN /\ doomed \subseteq Subs
  /\ sub \in [Subs -> SubType] /\ \A s \in Subs : Len(sub[s].backlog) <= Backlog
  /\ conn \in [Conns -> ConnType]
  /\ \A c \in Conns : conn[c].at \in {"send", "queued"} => conn[c].to \in Subs

MuxInit ==
  /\ muxSub = [p \in AllProtos |-> None]
  /\ muxClosed = FALSE /\ doomed = {}
  /\ sub = [s \in Subs |-> NoSub]
  /\ conn = [c \in Conns |-> [at |-> "off", proto |-> AnyProto, to |-> None]]

Open(s) == sub[s].protos # {}

(* Listener.Listen: all of its protocols, or none.                         *)
Listen(s, protos) ==
  /\ ~Open(s) /\ ~muxClosed /\ protos # {}
  /\ \A p \in protos : muxSub[p] = None
  /\ muxSub' = [p \in AllProtos |-> IF p \in protos THEN s ELSE muxSub[p]]
  /\ sub' = [sub EXCEPT ![s].protos = protos]
  /\ UNCHANGED <<muxClosed, doomed, conn>>

(* findListener                                                            *)
FindListener(protos) ==
  LET hit == {p \in protos : muxSub[p] # None}
  IN  IF hit # {} THEN {muxSub[p] : p \in hit} ELSE {muxSub[AnyProto]}

(* acceptLoop: a goroutine for each connection.                            *)
AcceptConn(c, p) ==
  /\ conn[c].at = "off" /\ ~muxClosed
  /\ conn' = [conn EXCEPT ![c] = [at |-> "hello", proto |-> p, to |-> None]]
  /\ UNCHANGED <<muxSub, muxClosed, doomed, sub>>

(* The handshake takes the configuration of a sublistener: it fails, or    *)
(* agrees on a protocol of the client's, or on none if any will do.        *)
Handshake(c) ==
  /\ conn[c].at = "hello"
  /\ \/ conn' = [conn EXCEPT ![c].at = "closed"]
     \/ /\ FindListener({conn[c].proto}) # {None}
        /\ conn' = [conn EXCEPT ![c].at = "find"]
  /\ UNCHANGED <<muxSub, muxClosed, doomed, sub>>

(* Listener.handleConn looks the sublistener up again.                     *)
FindConn(c) ==
  /\ conn[c].at = "find"
  /\ \E s \in FindListener({conn[c].proto}) :
       conn' = [conn EXCEPT ![c] =
                 [@ EXCEPT !.at = IF s = None THEN "closed" ELSE "send",
                           !.to = s]]
  /\ UNCHANGED <<muxSub, muxClosed, doomed, sub>>

(* sublistener.handleConn: select between a closed done and the queue.     *)
(* Once Close has shut the queue both are ready, and sending panics.       *)
HandOver(c) ==
  LET s == conn[c].to IN
  /\ conn[c].at = "send"
  /\ \/ sub[s].done /\ UNCHANGED sub
        /\ conn' = [conn EXCEPT ![c].at = "closed"]
     \/ sub[s].shut /\ UNCHANGED sub
        /\ conn' = [conn EXCEPT ![c].at = "panic"]
     \/ ~sub[s].shut /\ Len(sub[s].backlog) < Backlog
        /\ sub' = [sub EXCEPT ![s].backlog = Append(@, c)]
        /\ conn' = [conn EXCEPT ![c].at = "queued"]
  /\ UNCHANGED <<muxSub, muxClosed, doomed>>

(* sublistener.Accept: the next of the queue.  Of a listener that closed,  *)
(* ErrListenerClosed, which changes nothing; but once the queue is shut a  *)
(* receive from it is ready as well, and gives nil without an error.       *)
AcceptSub(s) ==
  /\ Open(s) /\ sub[s].backlog # <<>>
  /\ sub' = [sub EXCEPT ![s].backlog = Tail(@)]
  /\ conn' = [conn EXCEPT ![Head(sub[s].backlog)].at = "given"]
  /\ UNCHANGED <<muxSub, muxClosed, doomed>>

AcceptNil(s) ==
  /\ sub[s].shut /\ sub' = [sub EXCEPT ![s].bare = TRUE]
  /\ UNCHANGED <<muxSub, muxClosed, doomed, conn>>

-----------------------------------------------------------------------------
(* sublistener.Close, by its user and by the goroutine of closeLocked: one *)
(* who finds done closed returns.                                          *)
CloseSub(s, who) ==
  /\ Open(s) /\ ~sub[s].done
  /\ who = "mux" => s \in doomed
  /\ sub' = [sub EXCEPT ![s].by = @ \cup {who}]
  /\ UNCHANGED <<muxSub, muxClosed, doomed, conn>>

(* close(done): the second of two that passed the check panics.            *)
CloseDone(s, who) ==
  /\ who \in sub[s].by
  /\ sub' = [sub EXCEPT ![s] =
              [@ EXCEPT !.by = sub[s].by \ {who}, !.done = TRUE,
                        !.burst = sub[s].burst \/ sub[s].done]]
  /\ UNCHANGED <<muxSub, muxClosed, doomed, conn>>

(* MUTANT: the connections of the queue are left.                          *)
DrainSubNot(s) ==
  /\ sub[s].done /\ ~sub[s].shut
  /\ sub' = [sub EXCEPT ![s] = [@ EXCEPT !.shut = TRUE, !.backlog = <<>>]]
  /\ UNCHANGED <<muxSub, muxClosed, doomed, conn>>

(* The queue is shut and drained.  cleanup.Lock waits for those who send   *)
(* under RLock; one that comes for the lock later finds the queue shut.    *)
DrainSub(s) ==
  /\ sub[s].done /\ ~sub[s].shut
  /\ sub' = [sub EXCEPT ![s] = [@ EXCEPT !.shut = TRUE, !.backlog = <<>>]]
  /\ conn' = [c \in Conns |->
                IF \E i \in 1..Len(sub[s].backlog) : sub[s].backlog[i] = c
                THEN [conn[c] EXCEPT !.at = "closed"] ELSE conn[c]]
  /\ UNCHANGED <<muxSub, muxClosed, doomed>>

CloseLocked(subs) ==
  /\ doomed' = doomed \cup ({subs[p] : p \in AllProtos} \ {None})
  /\ muxSub' = [p \in AllProtos |-> None] /\ muxClosed' = TRUE

(* Listener.close: the protocols are free again; the last one closes the   *)
(* shared listener.                                                        *)
LeaveMux(s) ==
  LET rest == [p \in AllProtos |-> IF muxSub[p] = s THEN None ELSE muxSub[p]]
  IN  /\ sub[s].shut /\ ~sub[s].cleaned
      /\ sub' = [sub EXCEPT ![s].cleaned = TRUE]
      /\ IF \A p \in AllProtos : rest[p] = None
         THEN CloseLocked(rest)
         ELSE muxSub' = rest /\ UNCHANGED <<muxClosed, doomed>>
      /\ UNCHANGED conn

(* Listener.Close                                                          *)
CloseMux == ~muxClosed /\ CloseLocked(muxSub) /\ UNCHANGED <<sub, conn>>

-----------------------------------------------------------------------------
MuxConn(c) == FindConn(c) \/ HandOver(c)
MuxCloser(s) ==
  \/ CloseSub(s, "mux") \/ DrainSub(s) \/ LeaveMux(s)
  \/ \E who \in Closers : CloseDone(s, who)

(* A panic in a goroutine that nobody recovers ends the process.           *)
Crashed ==
  (\E s \in Subs : sub[s].burst) \/ (\E c \in Conns : conn[c].at = "panic")

MuxSteps ==
  \/ \E s \in Subs, protos \in SUBSET AllProtos : Listen(s, protos)
  \/ \E c \in Conns, p \in Protos : AcceptConn(c, p)
  \/ \E c \in Conns : Handshake(c) \/ MuxConn(c)
  \/ \E s \in Subs : \/ AcceptSub(s) \/ AcceptNil(s) \/ CloseSub(s, "user")
                     \/ MuxCloser(s)
  \/ CloseMux

MuxNext == ~Crashed /\ MuxSteps

(* Goroutines run; sublisteners are closed when the mux is.  A client need *)
(* not end its handshake, which has no deadline.                           *)
MuxFairness ==
  /\ \A c \in Conns : WF_muxVars(~Crashed /\ MuxConn(c))
  /\ \A s \in Subs : WF_muxVars(~Crashed /\ MuxCloser(s))

-----------------------------------------------------------------------------
(* No connection that was queued is forgotten: it is in the queue of a     *)
(* listener that still has to drain it (Close).                            *)
QueuedIsHeld ==
  \A c \in Conns : conn[c].at = "queued" =>
    LET s == conn[c].to IN
    ~sub[s].shut /\ \E i \in 1..Len(sub[s].backlog) : sub[s].backlog[i] = c

(* A protocol leads to a sublistener that is not closed to the end, and    *)
(* one sublistener has all of its protocols or, closed, none (Listen,      *)
(* Listener.close).                                                        *)
BoundIsOpen ==
  \A s \in Subs : Open(s) =>
    LET bound == {p \in AllProtos : muxSub[p] = s} IN
    IF sub[s].cleaned \/ muxClosed THEN bound = {} ELSE bound = sub[s].protos

(* Closing can end the process, or have Accept return nil with no error,  *)
(* in no other way than these: the user and the mux close a sublistener at *)
(* the same time; a connection that found its sublistener sends to it when *)
(* its queue is shut, though only the user closes; and Accept is called on *)
(* a shut queue.  So nothing fails while no sublistener closes.            *)
FailsOnlyClosing ==
  /\ \A s \in Subs : sub[s].burst => s \in doomed /\ sub[s].done
  /\ \A s \in Subs : sub[s].bare => sub[s].shut
  /\ \A c \in Conns : conn[c].at = "panic" => sub[conn[c].to].shut

(* A closed mux leaves no sublistener open and nobody waiting to send: all *)
(* connections that ended their handshake are given to a user or closed,   *)
(* unless the process ends by one of the panics above (closeLocked,        *)
(* handleConn).                                                            *)
CloseCompletes ==
  []<>(muxClosed /\ ~Crashed =>
         /\ \A s \in Subs : Open(s) => sub[s].cleaned
         /\ \A c \in Conns : conn[c].at \in {"off", "hello", "closed", "given"})

(* Queued connections are held by a queue that will be drained, protocols  *)
(* lead to listeners that are open, and closing fails only in the ways the *)
(* code has, in any order of accepting, listening and closing (handleConn, *)
(* Accept, Close).                                                         *)
MuxCorrect == MuxTypeOK /\ QueuedIsHeld /\ BoundIsOpen /\ FailsOnlyClosing
=============================================================================
