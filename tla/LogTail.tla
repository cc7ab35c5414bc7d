------------------------------ MODULE LogTail -------------------------------
(***************************************************************************)
(* Log lines and those who follow them: a logger stamps a line, writes it  *)
(* to its file and hands it to every collector under the read lock         *)
(* (xlog/domain.go); a tail registers a collector, reads the history of    *)
(* all files up to the time it began, with a quota, and then what its      *)
(* collector was handed over a pipe without a buffer (xlog/tail.go,        *)
(* parser.go, parser_filter.go).                                           *)
(***************************************************************************)
EXTENDS Integers, Sequences, FiniteSets, SequencesExt, Functions

CONSTANTS
  Writers,     (* goroutines that log, each into a file of its own          *)
  Tails,       (* calls of TailContext                                      *)
  LineLimits,  (* values of LineLimit, 0 for none                           *)
  MaxLines,    (* BOUND: lines that are logged                              *)
  MaxStamp     (* BOUND: time                                               *)

NoLimit == 1000   (* 1 << 62 *)

(* There are not as many lines as that.                                    *)
ASSUME TailAssumption ==
  /\ IsFiniteSet(Writers) /\ LineLimits \subseteq Nat
  /\ MaxLines \in Nat /\ MaxLines < NoLimit /\ MaxStamp \in Nat

VARIABLES
  logClock,    (* the time                                                  *)
  logFile,     (* [w -> lines in its file, oldest first]: [w, n, t]         *)
  writer,      (* [w -> [at, n, line, left]]: left, collectors to be served *)
  collectors,  (* globalCollectors                                          *)
  readers,     (* writers that hold the read lock                           *)
  wanting,     (* tails that wait for the lock                              *)
  tail,        (* [t -> [at, now, limit, todo, lines, piped]]               *)
  quota,       (* [t -> ParserQuota.Lines]                                  *)
  history,     (* [t -> lines got from files]                               *)
  followed,    (* [t -> lines got from the collector]                       *)
  busy,        (* tails with a line that their client has not taken         *)
  sure         (* history: [t -> [past, from]]: lines that were complete at *)
               (* now, and the time of registration                         *)

tailVars == <<logClock, logFile, writer, collectors, readers, wanting, tail,
              quota, history, followed, busy, sure>>

NoLine == [w |-> "none", n |-> 0, t |-> 0]
Quiet == [at |-> "idle", n |-> 0, line |-> NoLine, left |-> {}]
NoTail == [at |-> "off", now |-> 0, limit |-> 0, todo |-> <<>>, open |-> FALSE]

TailInit ==
  /\ logClock = 1 /\ logFile = [w \in Writers |-> <<>>]
  /\ writer = [w \in Writers |-> Quiet] /\ collectors = {} /\ readers = {}
  /\ wanting = {} /\ busy = {} /\ tail = [t \in Tails |-> NoTail]
  /\ quota = [t \in Tails |-> 0] /\ history = [t \in Tails |-> <<>>]
  /\ followed = [t \in Tails |-> <<>>]
  /\ sure = [t \in Tails |-> [past |-> {}, from |-> 0]]

LogTick ==
  /\ logClock < MaxStamp /\ logClock' = logClock + 1
  /\ UNCHANGED <<logFile, writer, collectors, readers, wanting, tail, quota,
                 history, followed, sure, busy>>

-----------------------------------------------------------------------------
(* A line: the hook stamps it, the writers of the domain follow in order.  *)

Stamp(w) ==
  /\ writer[w].at = "idle"
  /\ Cardinality({l \in Writers \X (1..MaxLines) : l[2] <= writer[l[1]].n}) < MaxLines
  /\ writer' = [writer EXCEPT ![w] =
                 [@ EXCEPT !.at = "file", !.n = writer[w].n + 1,
                           !.line = [w |-> w, n |-> writer[w].n + 1, t |-> logClock]]]
  /\ UNCHANGED <<logClock, logFile, collectors, readers, wanting, tail, quota,
                 history, followed, sure, busy>>

WriteLog(w) ==
  /\ writer[w].at = "file"
  /\ logFile' = [logFile EXCEPT ![w] = Append(@, writer[w].line)]
  /\ writer' = [writer EXCEPT ![w].at = "collect"]
  /\ UNCHANGED <<logClock, collectors, readers, wanting, tail, quota, history,
                 followed, sure, busy>>

(* RLock waits for nobody but those who want the lock.                     *)
RLock(w) ==
  /\ writer[w].at = "collect" /\ wanting = {}
  /\ readers' = readers \cup {w}
  /\ writer' = [writer EXCEPT ![w] =
                 [@ EXCEPT !.at = "send", !.left = collectors]]
  /\ UNCHANGED <<logClock, logFile, collectors, wanting, tail, quota, history,
                 followed, sure, busy>>

(* tailCollector.Write: the pipe takes a line when io.Copy reads it, which *)
(* first gives the line before to the client, or when it is closed, for an *)
(* error.                                                                  *)
Send(w, t) ==
  /\ writer[w].at = "send" /\ t \in writer[w].left
  /\ \/ ~tail[t].open /\ UNCHANGED <<followed, busy>>
     \/ /\ tail[t].open /\ tail[t].at = "copy" /\ t \notin busy
        /\ busy' = busy \cup {t}
        /\ followed' = [followed EXCEPT ![t] = Append(@, writer[w].line)]
  /\ writer' = [writer EXCEPT ![w].left = @ \ {t}]
  /\ UNCHANGED <<logClock, logFile, collectors, readers, wanting, tail, quota,
                 history, sure>>

RUnlock(w) ==
  /\ writer[w].at = "send" /\ writer[w].left = {}
  /\ readers' = readers \ {w}
  /\ writer' = [writer EXCEPT ![w] = [@ EXCEPT !.at = "idle", !.line = NoLine]]
  /\ UNCHANGED <<logClock, logFile, collectors, wanting, tail, quota, history,
                 followed, sure, busy>>

-----------------------------------------------------------------------------
(* TailContext                                                             *)

(* now, and the lock for the collector.                                    *)
Follow(t, limit) ==
  /\ tail[t].at = "off"
  /\ tail' = [tail EXCEPT ![t] =
               [@ EXCEPT !.at = "register", !.now = logClock,
                         !.limit = limit]]
  /\ wanting' = wanting \cup {t}
  /\ quota' = [quota EXCEPT ![t] = IF limit = 0 THEN NoLimit ELSE limit]
  /\ sure' = [sure EXCEPT ![t].past = UNION {ToSet(logFile[w]) : w \in Writers}]
  /\ UNCHANGED <<logClock, logFile, writer, collectors, readers, history,
                 followed, busy>>

(* RegisterCollector *)
Register(t) ==
  /\ tail[t].at = "register" /\ t \in wanting /\ readers = {}
  /\ wanting' = wanting \ {t} /\ collectors' = collectors \cup {t}
  /\ tail' = [tail EXCEPT ![t] = [@ EXCEPT !.at = "files", !.open = TRUE]]
  /\ sure' = [sure EXCEPT ![t].from = logClock]
  /\ UNCHANGED <<logClock, logFile, writer, readers, quota, history, followed, busy>>

(* TailHistory: a parser for each file, from its end of now backwards.     *)
OpenFiles(t) ==
  /\ tail[t].at = "files"
  /\ tail' = [tail EXCEPT ![t] =
               [@ EXCEPT !.at = "history",
                         !.todo = [w \in Writers |-> Reverse(logFile[w])]]]
  /\ UNCHANGED <<logClock, logFile, writer, collectors, readers, wanting, quota,
                 history, followed, sure, busy>>

(* MUTANT: the line after the last is one more.                            *)
ConsumeOneMore(t) == quota[t] >= 0

(* ConsumeLine, when the count has been taken down.                        *)
ConsumeLine(t) == quota[t] > 0

(* NextContext: the next line of a file; the time filter passes over what  *)
(* is after now, the quota ends the file.  The line is for the client.     *)
NextLine(t, w) ==
  /\ tail[t].at = "history" /\ tail[t].todo[w] # <<>> /\ t \notin busy
  /\ LET line == Head(tail[t].todo[w])
         skip == line.t > tail[t].now
         take == ~skip /\ ConsumeLine(t)
     IN  /\ quota' = IF skip THEN quota ELSE [quota EXCEPT ![t] = @ - 1]
         /\ history' = IF take THEN [history EXCEPT ![t] = Append(@, line)]
                       ELSE history
         /\ busy' = IF take THEN busy \cup {t} ELSE busy
         /\ tail' = [tail EXCEPT ![t].todo[w] =
                       IF skip \/ take THEN Tail(@) ELSE <<>>]
  /\ UNCHANGED <<logClock, logFile, writer, collectors, readers, wanting,
                 followed, sure>>

HistoryEnds(t) ==
  /\ tail[t].at = "history" /\ \A w \in Writers : tail[t].todo[w] = <<>>
  /\ tail' = [tail EXCEPT ![t].at = "copy"]
  /\ UNCHANGED <<logClock, logFile, writer, collectors, readers, wanting, quota,
                 history, followed, sure, busy>>

(* The client reads what was written to it; it need not.                   *)
TakeLine(t) ==
  /\ t \in busy /\ busy' = busy \ {t}
  /\ UNCHANGED <<logClock, logFile, writer, collectors, readers, wanting, tail,
                 quota, history, followed, sure>>

(* The context ends, or the client is gone and a write fails; what it got  *)
(* does not matter any more.                                               *)
CancelTail(t) ==
  /\ tail[t].at \in {"files", "history", "copy"}
  /\ tail' = [tail EXCEPT ![t] =
               [@ EXCEPT !.at = "cancelled", !.todo = <<>>,
                         !.now = 0, !.limit = 0]]
  /\ quota' = [quota EXCEPT ![t] = 0] /\ busy' = busy \ {t}
  /\ history' = [history EXCEPT ![t] = <<>>]
  /\ followed' = [followed EXCEPT ![t] = <<>>]
  /\ sure' = [sure EXCEPT ![t] = [past |-> {}, from |-> 0]]
  /\ UNCHANGED <<logClock, logFile, writer, collectors, readers, wanting>>

(* The goroutine of tailFollow: the pipe, so that whoever writes to it     *)
(* goes on and releases the read lock, and then the collector.             *)
ClosePipe(t) ==
  /\ tail[t].at = "cancelled" /\ tail[t].open
  /\ tail' = [tail EXCEPT ![t] = [@ EXCEPT !.open = FALSE, !.at = "remove"]]
  /\ wanting' = wanting \cup {t}
  /\ UNCHANGED <<logClock, logFile, writer, collectors, readers, quota, history,
                 followed, sure, busy>>

RemoveCollector(t) ==
  /\ tail[t].at = "remove" /\ readers = {}
  /\ wanting' = wanting \ {t} /\ collectors' = collectors \ {t}
  /\ tail' = [tail EXCEPT ![t] = [@ EXCEPT !.at = "done", !.open = FALSE]]
  /\ UNCHANGED <<logClock, logFile, writer, readers, quota, history, followed,
                 sure, busy>>

Logging(w) ==
  \/ WriteLog(w) \/ RLock(w) \/ RUnlock(w) \/ \E t \in Tails : Send(w, t)
Tailing(t) ==
  \/ Register(t) \/ OpenFiles(t) \/ (\E w \in Writers : NextLine(t, w))
  \/ HistoryEnds(t) \/ ClosePipe(t) \/ RemoveCollector(t)

TailNext ==
  \/ LogTick
  \/ \E w \in Writers : Stamp(w) \/ Logging(w)
  \/ \E t \in Tails : Tailing(t) \/ TakeLine(t) \/ CancelTail(t)
                        \/ \E k \in LineLimits : Follow(t, k)

(* Goroutines run, and whoever wants the lock is before new readers.  No   *)
(* client has to read.                                                     *)
TailFairness ==
  /\ \A w \in Writers : WF_tailVars(Logging(w))
  /\ \A t \in Tails : WF_tailVars(Tailing(t))

TailSpec == TailInit /\ [][TailNext]_tailVars /\ TailFairness

-----------------------------------------------------------------------------
Occurs(seq, line) == Cardinality({i \in DOMAIN seq : seq[i] = line})
Logged(w) == {l \in ToSet(logFile[w]) : writer[w].at = "idle" \/ l # writer[w].line}

(* A tail that is not cut off gets every line exactly once that was in its *)
(* file when the tail began, or that was stamped later than that with the  *)
(* collector in place.  Lines on their way while it begins may be lost or  *)
(* come twice: the collector has no filter for the time, and now is taken  *)
(* before it is registered (TailContext).                                  *)
TailExact ==
  \A t \in Tails : tail[t].at = "copy" /\ tail[t].limit = 0 =>
    /\ \A l \in sure[t].past : Occurs(history[t], l) = 1
    /\ \A w \in Writers : \A l \in Logged(w) :
         l.t > sure[t].from => Occurs(history[t], l) + Occurs(followed[t], l) = 1

(* The history has as many lines as the limit says, or all there are, when *)
(* the parsers of several files draw on one quota (ConsumeLine).           *)
QuotaExact ==
  \A t \in Tails :
    /\ tail[t].limit # 0 => Len(history[t]) <= tail[t].limit
    /\ tail[t].at = "copy" /\ tail[t].limit # 0
         => \/ Len(history[t]) = tail[t].limit
            \/ sure[t].past \subseteq ToSet(history[t])

(* The client of a tail does not read any more and is not cut off.         *)
Stalls(t) == <>[](t \in busy)

(* Whoever logs goes on although a collector has no buffer and is served   *)
(* under the lock that registering and removing need, unless a client      *)
(* stalls: then nobody logs until it is cut off (WriteLevel, Write).       *)
LoggersGoOn ==
  \A w \in Writers : []<>(writer[w].at = "idle") \/ \E t \in Tails : Stalls(t)

(* A tail that was cut off is removed from the collectors, whether or not  *)
(* its own client stalled: no other must (tailFollow).                     *)
TailsEnd ==
  \A t \in Tails : \/ []<>(tail[t].at \notin {"cancelled", "remove"})
                   \/ \E u \in Tails : Stalls(u)

(* A tail gets its lines once and no more history than it asked for,       *)
(* although lines are logged while it registers, reads the files and       *)
(* begins to follow (TailContext, WriteLevel).                             *)
TailCorrect == TailExact /\ QuotaExact

-----------------------------------------------------------------------------
(* MuxWriter, which merges the logs of several hosts (xlog/tail_ooo.go):   *)
(* lines are held back for half a second and written in the order of their *)
(* times.  What a connection delivers need not end with a line: a line is  *)
(* two halves here, [h, k], the second with an even k.                     *)

CONSTANTS
  Hosts,       (* hosts whose logs are merged                               *)
  LogTimes,    (* [host -> times of its lines]; 0, a line that is not JSON  *)
  FlushTime    (* flushTime                                                 *)

ASSUME MuxAssumption ==
  /\ LogTimes \in [Hosts -> Seq(Nat)] /\ FlushTime \in Nat
  /\ "idle" \notin Hosts /\ "none" \notin Hosts

VARIABLES
  sentHalves,  (* [host -> halves it has written]                           *)
  lnbuf,       (* halves                                                    *)
  muxAt,       (* the lock: "idle", or the host that writes                 *)
  maxTime,     (* the latest time in this write                             *)
  holding,     (* buf is not nil                                            *)
  buf,         (* lines held back: [halves, by, t]                          *)
  out,         (* lines written                                             *)
  outFails,    (* the output is gone                                        *)
  batch,       (* history: the lines of the flush, [first, last] in out     *)
  whole        (* history: lines <<h, n>> that came in one write            *)

muxLogVars == <<sentHalves, lnbuf, muxAt, maxTime, holding, buf, out, outFails,
                batch, whole>>

Half(h, k) == [h |-> h, k |-> k]
Line(h, n) == <<Half(h, 2 * n - 1), Half(h, 2 * n)>>
Lines(h) == 1..Len(LogTimes[h])

MuxLogInit ==
  /\ sentHalves = [h \in Hosts |-> 0] /\ lnbuf = <<>> /\ muxAt = "idle"
  /\ maxTime = 0 /\ holding = TRUE /\ buf = <<>> /\ out = <<>>
  /\ outFails = FALSE /\ batch = <<1, 0>> /\ whole = {}

(* WriteAs: k halves of a host, under the lock.                            *)
WriteAs(h, k) ==
  /\ muxAt = "idle" /\ sentHalves[h] + k <= 2 * Len(LogTimes[h])
  /\ muxAt' = h /\ maxTime' = 0
  /\ sentHalves' = [sentHalves EXCEPT ![h] = @ + k]
  /\ lnbuf' = lnbuf \o [i \in 1..k |-> Half(h, sentHalves[h] + i)]
  /\ whole' = whole \cup
                {<<h, n>> : n \in {i \in Lines(h) : sentHalves[h] < 2 * i - 1
                                                   /\ 2 * i <= sentHalves[h] + k}}
  /\ UNCHANGED <<holding, buf, out, outFails, batch>>

EndOf(halves) == {i \in DOMAIN halves : halves[i].k % 2 = 0}

(* ParseLine: two halves of one line, unless it is not JSON.               *)
TimeOf(half) == LogTimes[half.h][half.k \div 2]
IsLine(halves) ==
  /\ Len(halves) = 2 /\ halves[1] = Half(halves[2].h, halves[2].k - 1)
  /\ TimeOf(halves[2]) # 0

(* A line that is not held back.  If the output fails WriteAs returns with *)
(* what is behind the line in the buffer.                                  *)
WriteOut(halves, by, t) ==
  IF outFails THEN muxAt' = "idle" /\ UNCHANGED out
  ELSE /\ out' = Append(out, [halves |-> halves, by |-> by, t |-> t])
       /\ UNCHANGED muxAt

(* MUTANT: what is not JSON waits with the rest.                           *)
NextLogLineHeld ==
  /\ muxAt # "idle" /\ EndOf(lnbuf) # {}
  /\ LET e == CHOOSE i \in EndOf(lnbuf) : \A j \in EndOf(lnbuf) : i <= j
     IN  /\ lnbuf' = SubSeq(lnbuf, e + 1, Len(lnbuf))
         /\ buf' = Append(buf, [halves |-> SubSeq(lnbuf, 1, e), by |-> muxAt,
                                t |-> 0])
  /\ UNCHANGED <<sentHalves, muxAt, maxTime, holding, out, outFails, batch,
                 whole>>

(* The next line of the buffer: out at once when it cannot be parsed or    *)
(* nothing is held back, with the name of the host that is writing.        *)
NextLogLine ==
  /\ muxAt # "idle" /\ EndOf(lnbuf) # {}
  /\ LET e == CHOOSE i \in EndOf(lnbuf) : \A j \in EndOf(lnbuf) : i <= j
         halves == SubSeq(lnbuf, 1, e)
         t == TimeOf(lnbuf[e])
     IN  /\ lnbuf' = SubSeq(lnbuf, e + 1, Len(lnbuf))
         /\ \/ /\ IsLine(halves) /\ holding
               /\ buf' = Append(buf, [halves |-> halves, by |-> muxAt, t |-> t])
               /\ maxTime' = IF t > maxTime THEN t ELSE maxTime
               /\ UNCHANGED <<muxAt, out>>
            \/ /\ IsLine(halves) /\ ~holding /\ WriteOut(halves, muxAt, t)
               /\ UNCHANGED <<buf, maxTime>>
            \/ /\ ~IsLine(halves) /\ WriteOut(halves, "none", 0)
               /\ UNCHANGED <<buf, maxTime>>
  /\ UNCHANGED <<sentHalves, holding, outFails, batch, whole>>

(* sort.Slice leaves the order of equal times open; the errors of writing  *)
(* are ignored.                                                            *)
flushLocked ==
  /\ \E p \in Bijection(DOMAIN buf, DOMAIN buf) :
       /\ \A i, j \in DOMAIN buf : i < j => buf[p[i]].t <= buf[p[j]].t
       /\ out' = IF outFails THEN out
                 ELSE out \o [i \in DOMAIN buf |-> buf[p[i]]]
  /\ buf' = <<>> /\ holding' = FALSE
  /\ batch' = IF outFails \/ buf = <<>> THEN batch
              ELSE <<Len(out) + 1, Len(out) + Len(buf)>>

(* The end of WriteAs: ReadBytes takes what is left of the buffer with the *)
(* EOF and it is dropped; a line of after the flush time flushes.          *)
EndWrite ==
  /\ muxAt # "idle" /\ EndOf(lnbuf) = {} /\ muxAt' = "idle" /\ lnbuf' = <<>>
  /\ IF maxTime > FlushTime THEN flushLocked
     ELSE UNCHANGED <<holding, buf, out, batch>>
  /\ UNCHANGED <<sentHalves, maxTime, outFails, whole>>

(* time.AfterFunc *)
FlushTimer ==
  /\ muxAt = "idle" /\ flushLocked
  /\ UNCHANGED <<sentHalves, lnbuf, muxAt, maxTime, outFails, whole>>

(* Whoever reads the output is gone.                                       *)
OutBreaks ==
  /\ ~outFails /\ outFails' = TRUE
  /\ UNCHANGED <<sentHalves, lnbuf, muxAt, maxTime, holding, buf, out, batch,
                 whole>>

MuxLogNext ==
  \/ \E h \in Hosts, k \in 1..3 : WriteAs(h, k)
  \/ NextLogLine \/ EndWrite \/ FlushTimer \/ OutBreaks

MuxLogSpec == MuxLogInit /\ [][MuxLogNext]_muxLogVars

-----------------------------------------------------------------------------
Places(lines, h, n) == {i \in DOMAIN lines : lines[i].halves = Line(h, n)}
Copies(h, n) ==
  Cardinality(Places(out, h, n)) + Cardinality(Places(buf, h, n))

(* No line comes out twice, whatever writes are cut where and when the     *)
(* output fails; and as long as it does not, a line that came in one write *)
(* is in the output once, or held back once (WriteAs, flushLocked).        *)
LinesIntact ==
  /\ \A h \in Hosts : \A n \in Lines(h) : Copies(h, n) <= 1
  /\ ~outFails /\ muxAt = "idle" => \A l \in whole : Copies(l[1], l[2]) = 1

(* What comes out under the name of a host is a line of that host, though  *)
(* the name is that of the writer at the time the line is found in the     *)
(* buffer (WriteAs).                                                       *)
NamesRight ==
  \A i \in DOMAIN out : out[i].by # "none" =>
    \E n \in Lines(out[i].by) : out[i].halves = Line(out[i].by, n)

(* Lines that were held back come out in the order of their times, and     *)
(* what cannot be parsed does not wait for them (flushLocked).             *)
BatchSorted ==
  /\ \A i, j \in batch[1]..batch[2] : i < j => out[i].t <= out[j].t
  /\ \A i \in DOMAIN buf : buf[i].t # 0

(* Merging doubles no line, loses none that came in one write, gives none  *)
(* to another host and puts what was held back in order (WriteAs,          *)
(* flushLocked).                                                           *)
MergeExact == LinesIntact /\ NamesRight /\ BatchSorted
=============================================================================
