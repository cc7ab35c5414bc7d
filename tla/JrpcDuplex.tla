----------------------------- MODULE JrpcDuplex -----------------------------
(***************************************************************************)
(* One connection of the jrpc code, pmtp/jrpc_code.go over jrpc_stream.go  *)
(* and jrpc_packet.go: callers at one end (Call, roundtrip), the input     *)
(* loop that gives them their replies, and at the other end the loop that  *)
(* serves every request in a goroutine of its own.                         *)
(*                                                                         *)
(* A message is [seq, call]: its header and, for its body, the call it     *)
(* belongs to.  A broken connection fails the write of every message and   *)
(* the read of a header or a body once, at any point.                      *)
(***************************************************************************)
EXTENDS Integers, Sequences, FiniteSets

CONSTANTS
  Calls,     (* concurrent calls of Call                                    *)
  Seqs       (* number of sequence numbers: 2^31 in the code                *)

(* No number comes round while a connection has calls.                     *)
ASSUME DuplexAssumption ==
  Seqs \in Nat \ {0} /\ IsFiniteSet(Calls) /\ Cardinality(Calls) <= Seqs

VARIABLES
  rpc,       (* per call: [at, seq, got]                                    *)
  nextSeq,   (* jrpcDuplex.seq                                              *)
  pending,   (* jrpcDuplex.pending: a set of [seq, call]                    *)
  shut,      (* closed and err of the calling end                           *)
  rejected,  (* calls whose Signal was closed                               *)
  orphans,   (* history: calls popped whose reply could not be read         *)
  up, down,  (* messages under way in the two directions                    *)
  inp,       (* input loop of the calling end: [at, msg, for]               *)
  serving,   (* requests being served                                       *)
  served,    (* the serving end: "off", "open" or "shut"                    *)
  broken     (* the connection is broken                                    *)

duplexVars == <<rpc, nextSeq, pending, shut, rejected, orphans, up, down, inp,
                serving, served, broken>>

Msg == [seq : 0..(Seqs - 1), call : Calls]
NoMsg == [seq |-> 0, call |-> "none"]
NewCall == [at |-> "off", seq |-> 0, got |-> "none"]
Returned(c) == rpc[c].at \in {"ok", "err"}

(* Every variable has its type.                                            *)
DuplexTypeOK ==
  /\ rpc \in [Calls -> [at : {"off", "promise", "write", "wait", "ok", "err"},
                        seq : 0..(Seqs - 1), got : Calls \cup {"none"}]]
  /\ nextSeq \in 0..(Seqs - 1) /\ pending \subseteq Msg
  /\ shut \in BOOLEAN /\ broken \in BOOLEAN
  /\ rejected \subseteq Calls /\ orphans \subseteq Calls
  /\ up \in Seq(Msg) /\ down \in Seq(Msg) /\ serving \subseteq Msg
  /\ inp \in [at : {"header", "pop", "body", "signal", "fail", "end"},
              msg : Msg \cup {NoMsg}, for : SUBSET Calls]
  /\ served \in {"off", "open", "shut"}

DuplexInit ==
  /\ rpc = [c \in Calls |-> NewCall]
  /\ nextSeq = 0 /\ pending = {} /\ shut = FALSE
  /\ rejected = {} /\ orphans = {}
  /\ up = <<>> /\ down = <<>> /\ inp = [at |-> "header", msg |-> NoMsg, for |-> {}]
  /\ serving = {} /\ served = "off" /\ broken = FALSE

-----------------------------------------------------------------------------
(* The connection.                                                         *)

(* Open at one end, Serve at the other.                                    *)
OpenDuplex ==
  /\ served = "off" /\ served' = "open"
  /\ UNCHANGED <<rpc, nextSeq, pending, shut, rejected, orphans, up, down, inp,
                 serving, broken>>

Break ==
  /\ served # "off" /\ ~broken /\ broken' = TRUE
  /\ UNCHANGED <<rpc, nextSeq, pending, shut, rejected, orphans, up, down, inp,
                 serving, served>>

(* Shutdown: every pending call is rejected, once.                         *)
Shutdown ==
  /\ shut' = TRUE
  /\ IF shut THEN UNCHANGED <<pending, rejected, broken>>
     ELSE /\ rejected' = rejected \cup {m.call : m \in pending}
          /\ pending' = {} /\ broken' = TRUE

CloseDuplex ==
  /\ served # "off" /\ ~shut /\ Shutdown
  /\ UNCHANGED <<rpc, nextSeq, orphans, up, down, inp, serving, served>>

-----------------------------------------------------------------------------
(* Callers.                                                                *)

(* Call and the start of roundtrip: seq.Add(1) & FlagMask.                 *)
Number(c) ==
  /\ rpc[c].at = "off" /\ served # "off"
  /\ nextSeq' = (nextSeq + 1) % Seqs
  /\ rpc' = [rpc EXCEPT ![c] = [at |-> "promise", seq |-> nextSeq', got |-> "none"]]
  /\ UNCHANGED <<pending, shut, rejected, orphans, up, down, inp, serving,
                 served, broken>>

Entry(c) == [seq |-> rpc[c].seq, call |-> c]

(* A map of the sequence numbers: an earlier entry is replaced.            *)
PutEntry(c) == {m \in pending : m.seq # rpc[c].seq} \cup {Entry(c)}

(* MUTANT: a connection that is shut is not noticed.                       *)
PromiseAnyway(c) ==
  /\ rpc[c].at = "promise"
  /\ pending' = PutEntry(c) /\ rpc' = [rpc EXCEPT ![c].at = "write"]
  /\ UNCHANGED <<nextSeq, shut, rejected, orphans, up, down, inp, serving,
                 served, broken>>

Promise(c) ==
  /\ rpc[c].at = "promise"
  /\ pending' = IF shut THEN pending ELSE PutEntry(c)
  /\ rpc' = [rpc EXCEPT ![c].at = IF shut THEN "err" ELSE "write"]
  /\ UNCHANGED <<nextSeq, shut, rejected, orphans, up, down, inp, serving,
                 served, broken>>

(* io.Write of the request; when it fails, Shutdown.                       *)
WriteRequest(c) ==
  /\ rpc[c].at = "write"
  /\ \/ /\ ~broken /\ up' = Append(up, Entry(c))
        /\ rpc' = [rpc EXCEPT ![c].at = "wait"]
        /\ UNCHANGED <<pending, shut, rejected, broken>>
     \/ /\ broken /\ Shutdown
        /\ rpc' = [rpc EXCEPT ![c].at = "err"] /\ UNCHANGED up
  /\ UNCHANGED <<nextSeq, orphans, down, inp, serving, served>>

(* The Signal was closed: no reply flag, the error of the connection.      *)
WaitRejected(c) ==
  /\ rpc[c].at = "wait" /\ c \in rejected
  /\ rpc' = [rpc EXCEPT ![c].at = "err"]
  /\ UNCHANGED <<nextSeq, pending, shut, rejected, orphans, up, down, inp,
                 serving, served, broken>>

-----------------------------------------------------------------------------
(* input at the calling end.                                               *)

InputOnly == UNCHANGED <<rpc, nextSeq, up, serving, served>>

ReadHeader ==
  /\ inp.at = "header" /\ served # "off"
  /\ \/ /\ down # <<>>
        /\ inp' = [at |-> "pop", msg |-> Head(down), for |-> {}]
        /\ down' = Tail(down)
     \/ /\ broken \/ (served = "shut" /\ down = <<>>)
        /\ inp' = [inp EXCEPT !.at = "fail"] /\ UNCHANGED down
  /\ UNCHANGED <<pending, shut, rejected, orphans, broken>> /\ InputOnly

Popped == {m \in pending : m.seq = inp.msg.seq}

(* pop finds the call the reply is for, unless it is gone.                 *)
Pop ==
  /\ inp.at = "pop"
  /\ pending' = pending \ Popped
  /\ inp' = [at |-> "body", msg |-> inp.msg, for |-> {m.call : m \in Popped}]
  /\ UNCHANGED <<shut, rejected, orphans, down, broken>> /\ InputOnly

(* ReadBody, into the packet of the call or into one to throw away.        *)
ReadBody ==
  /\ inp.at = "body"
  /\ \/ /\ inp' = [inp EXCEPT !.at = IF inp.for = {}
                                     THEN "header" ELSE "signal"]
        /\ UNCHANGED orphans
     \/ /\ broken
        /\ inp' = [inp EXCEPT !.at = "fail"]
        /\ orphans' = orphans \cup inp.for
  /\ UNCHANGED <<pending, shut, rejected, down, broken>> /\ InputOnly

(* pending.Signal <- seq waits for the caller to receive.                  *)
Signal ==
  /\ inp.at = "signal"
  /\ \E c \in inp.for :
       /\ rpc[c].at = "wait"
       /\ rpc' = [rpc EXCEPT ![c] =
                   [@ EXCEPT !.at = "ok", !.got = inp.msg.call]]
  /\ inp' = [at |-> "header", msg |-> NoMsg, for |-> {}]
  /\ UNCHANGED <<nextSeq, pending, shut, rejected, orphans, up, down, serving,
                 served, broken>>

InputEnds ==
  /\ inp.at = "fail" /\ inp' = [inp EXCEPT !.at = "end"]
  /\ Shutdown
  /\ UNCHANGED <<orphans, down>> /\ InputOnly

-----------------------------------------------------------------------------
(* input and serve at the other end.                                       *)

ReadRequest ==
  /\ served = "open" /\ up # <<>>
  /\ serving' = serving \cup {Head(up)} /\ up' = Tail(up)
  /\ UNCHANGED <<rpc, nextSeq, pending, shut, rejected, orphans, down, inp,
                 served, broken>>

ServeEnds ==
  /\ served = "open" /\ broken /\ served' = "shut"
  /\ UNCHANGED <<rpc, nextSeq, pending, shut, rejected, orphans, up, down, inp,
                 serving, broken>>

(* ServeRPC returns, in any order; the reply carries the seq of its        *)
(* request, or the connection is shut at that end too.                     *)
Reply(m) ==
  /\ m \in serving /\ serving' = serving \ {m}
  /\ \/ /\ ~broken /\ down' = Append(down, m) /\ UNCHANGED served
     \/ /\ broken /\ served' = "shut" /\ UNCHANGED down
  /\ UNCHANGED <<rpc, nextSeq, pending, shut, rejected, orphans, up, inp,
                 broken>>

-----------------------------------------------------------------------------
Caller(c) == Promise(c) \/ WriteRequest(c) \/ WaitRejected(c)
Input == ReadHeader \/ Pop \/ ReadBody \/ Signal \/ InputEnds
Serving == ReadRequest \/ ServeEnds \/ \E m \in Msg : Reply(m)

DuplexNext ==
  \/ OpenDuplex \/ Break \/ CloseDuplex
  \/ \E c \in Calls : Number(c) \/ Caller(c)
  \/ Input \/ Serving

(* The goroutines of the calling end run: what has arrived, or that the    *)
(* connection is broken, is noticed.  The other end need not answer.       *)
DuplexFairness ==
  /\ \A c \in Calls : WF_duplexVars(Caller(c))
  /\ WF_duplexVars(Input)

-----------------------------------------------------------------------------
(* Replies overtake each other, yet a call that returns without error has  *)
(* the reply to its own request (the sequence numbers of roundtrip, serve  *)
(* and pop).                                                               *)
ReplyMatches ==
  \A c \in Calls : rpc[c].at = "ok" => rpc[c].got = c

(* Once the connection is shut nobody is left in the map, so that no call  *)
(* waits for an entry that no reply and no Shutdown will find (promise     *)
(* against Shutdown).                                                      *)
NoneLeftPending ==
  shut => /\ pending = {}
          /\ \A c \in Calls :
               rpc[c].at = "wait" => \/ c \in rejected \/ c \in orphans
                                     \/ /\ inp.at \in {"body", "signal"}
                                        /\ c \in inp.for

(* The other end has not answered yet, on a connection that stands. *)
AwaitsReply(c) ==
  /\ rpc[c].at = "wait" /\ Entry(c) \in pending
  /\ ~broken /\ Entry(c) \notin {down[i] : i \in DOMAIN down}

(* Every call whose reply arrives returns, and every call whenever the     *)
(* connection breaks or is closed, except the one whose reply had its      *)
(* header read and lost its body: pop took its entry out of the map before *)
(* ReadBody failed, and Shutdown cannot reject it any more (input).  A     *)
(* call is made once: that again and again none is under way says that     *)
(* each returns.                                                           *)
CallsReturn ==
  []<>(\A c \in Calls : \/ rpc[c].at = "off" \/ Returned(c)
                        \/ c \in orphans \/ AwaitsReply(c))

(* A call returns with the reply to itself or with an error, though        *)
(* replies overtake each other and calls cross with the end of the         *)
(* connection (roundtrip, input, Shutdown).                                *)
CallsAnswered == DuplexTypeOK /\ ReplyMatches /\ NoneLeftPending
=============================================================================
