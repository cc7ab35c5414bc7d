----------------------------- MODULE RemoteFile -----------------------------
(***************************************************************************)
(* A file kept in step with one on the web, and the value parsed from it   *)
(* (netx/remote_file.go): the lists behind the IP information.  Callers    *)
(* with a value do not wait; one goroutine loads, and it goes on when its  *)
(* caller is gone.  A version is a number, the odd ones do not parse.      *)
(***************************************************************************)
EXTENDS Integers

CONSTANTS
  Loaders,      (* goroutines that call LoadContext                         *)
  Recheck,      (* remoteRecheckInterval                                    *)
  MaxVersion,   (* BOUND: versions on the web                               *)
  MaxWebTime    (* BOUND: time                                              *)

ASSUME RemoteAssumption ==
  /\ {Recheck, MaxVersion, MaxWebTime} \subseteq Nat
  /\ MaxVersion >= 2 /\ MaxWebTime >= 1

VARIABLES
  webFile,    (* the file on the web: [v, mod]                              *)
  diskFile,   (* the local file: version, 0 for none                        *)
  lastRead,   (* RemoteFile.lastRead, 0 for the zero time                   *)
  value,      (* remoteParsedFile.data: version, 0 for nil                  *)
  nextAt,     (* remoteParsedFile.next                                      *)
  semaphore,  (* sema is taken                                              *)
  caller,     (* [c -> [at, ptr, err, got]]                                 *)
  load,       (* the loading goroutine: [at, for, lazy, attempt, data, err] *)
  webClock,   (* the time                                                   *)
  torn        (* history: a write of the local file failed                  *)

remoteVars == <<webFile, diskFile, lastRead, value, nextAt, semaphore, caller,
                load, webClock, torn>>

Parses(v) == v % 2 = 0
StillFresh == webClock < nextAt
ReadLately == lastRead # 0 /\ webClock - lastRead < Recheck
Resting == [at |-> "off", ptr |-> 0, err |-> FALSE]
NoLoad == [at |-> "off", by |-> "none", lazy |-> FALSE, attempt |-> 0,
           data |-> 0, err |-> FALSE]

(* Every variable has its type; the attempts are two.                      *)
RemoteTypeOK ==
  /\ webFile.v \in 0..MaxVersion /\ webFile.mod \in 0..MaxWebTime
  /\ diskFile \in 0..MaxVersion /\ lastRead \in 0..MaxWebTime
  /\ value \in 0..MaxVersion /\ Parses(value)
  /\ nextAt \in 0..(MaxWebTime + Recheck) /\ semaphore \in BOOLEAN
  /\ \A c \in Loaders :
       /\ caller[c].at \in {"off", "fast", "enter", "recheck", "wait", "lazy",
                            "done", "left"}
       /\ caller[c].ptr \in 0..MaxVersion /\ caller[c].err \in BOOLEAN
  /\ load.at \in {"off", "fetch", "parse", "finish"} /\ load.attempt \in 0..1
  /\ webClock \in 0..MaxWebTime /\ torn \in BOOLEAN

RemoteInit ==
  /\ webFile = [v |-> 2, mod |-> 0] /\ webClock = 0
  /\ diskFile = 0 /\ lastRead = 0
  /\ value = 0 /\ nextAt = 0 /\ semaphore = FALSE /\ load = NoLoad
  /\ caller = [c \in Loaders |-> Resting] /\ torn = FALSE

-----------------------------------------------------------------------------
(* NewRemoteFile: a file of an earlier run counts as read when it was      *)
(* written.                                                                *)
NewRemoteFile(v) ==
  /\ webClock = 0 /\ webClock' = 1
  /\ diskFile' = v /\ lastRead' = IF v = 0 THEN 0 ELSE 1
  /\ UNCHANGED <<webFile, value, nextAt, semaphore, caller, load, torn>>

(* The world.                                                              *)

WebTick ==
  /\ webClock \in 1..(MaxWebTime - 1) /\ webClock' = webClock + 1
  /\ UNCHANGED <<webFile, diskFile, lastRead, value, nextAt, semaphore, caller,
                 load, torn>>
NewVersion ==
  /\ webClock > 0 /\ webFile.v < MaxVersion
  /\ webFile' = [v |-> webFile.v + 1, mod |-> webClock]
  /\ UNCHANGED <<diskFile, lastRead, value, nextAt, semaphore, caller, load,
                 webClock, torn>>

-----------------------------------------------------------------------------
(* LoadContext                                                             *)

CallLoad(c) ==
  /\ webClock > 0 /\ caller[c].at \in {"off", "done", "left"}
  /\ caller' = [caller EXCEPT ![c] = [Resting EXCEPT !.at = "fast"]]
  /\ UNCHANGED <<webFile, diskFile, lastRead, value, nextAt, semaphore, load,
                 webClock, torn>>

(* The path without a lock.                                                *)
FastPath(c) ==
  /\ caller[c].at = "fast"
  /\ caller' = [caller EXCEPT ![c] =
                 [@ EXCEPT !.ptr = value,
                           !.at = IF value # 0 /\ StillFresh THEN "done"
                                     ELSE "enter"]]
  /\ UNCHANGED <<webFile, diskFile, lastRead, value, nextAt, semaphore, load,
                 webClock, torn>>

(* The semaphore, or the old value while somebody else has it.             *)
Enter(c) ==
  /\ caller[c].at = "enter"
  /\ \/ /\ ~semaphore /\ semaphore' = TRUE
        /\ caller' = [caller EXCEPT ![c].at = "recheck"]
     \/ /\ semaphore /\ caller[c].ptr # 0 /\ UNCHANGED semaphore
        /\ caller' = [caller EXCEPT ![c].at = "done"]
  /\ UNCHANGED <<webFile, diskFile, lastRead, value, nextAt, load, webClock,
                 torn>>

(* Once more; then the goroutine, lazy when there is a value.              *)
RecheckPath(c) ==
  /\ caller[c].at = "recheck"
  /\ IF value # 0 /\ StillFresh
     THEN /\ caller' = [caller EXCEPT ![c] =
                         [@ EXCEPT !.ptr = value, !.at = "done"]]
          /\ semaphore' = FALSE /\ UNCHANGED load
     ELSE /\ caller' = [caller EXCEPT ![c] =
                         [@ EXCEPT !.ptr = value,
                                   !.at = IF value # 0 THEN "lazy"
                                             ELSE "wait"]]
          /\ load' = [NoLoad EXCEPT !.at = "fetch", !.by = c,
                                    !.lazy = value # 0]
          /\ UNCHANGED semaphore
  /\ UNCHANGED <<webFile, diskFile, lastRead, value, nextAt, webClock, torn>>

(* The named result err is written by the goroutine: a caller that does    *)
(* not wait returns what is there by then.                                 *)
ReturnLazy(c) ==
  /\ caller[c].at = "lazy" /\ caller' = [caller EXCEPT ![c].at = "done"]
  /\ UNCHANGED <<webFile, diskFile, lastRead, value, nextAt, semaphore, load,
                 webClock, torn>>

(* The context of a caller that waits ends; without the semaphore that is  *)
(* an error, in front of the result it is neither value nor error.         *)
LeaveLoad(c) ==
  /\ \/ caller[c].at = "enter" /\ semaphore /\ caller[c].ptr = 0
     \/ caller[c].at = "wait"
  /\ caller' = [caller EXCEPT ![c] =
                 [@ EXCEPT !.err = caller[c].at = "enter",
                           !.at = "left"]]
  /\ UNCHANGED <<webFile, diskFile, lastRead, value, nextAt, semaphore, load,
                 webClock, torn>>

-----------------------------------------------------------------------------
(* The goroutine.                                                          *)

(* The result err of the caller, while it has not returned.                *)
Tell(err) ==
  caller' = IF load.by \in Loaders /\ caller[load.by].at \in {"lazy", "wait"}
            THEN [caller EXCEPT ![load.by].err = err] ELSE caller

FileOr(err) == [data |-> diskFile, err |-> err /\ diskFile = 0]

(* Load and loadIfChanged: not again so soon; the answers of the server    *)
(* are the file, not modified, too many requests, or an error.             *)
Fetch ==
  /\ load.at = "fetch"
  /\ LET quiet == [data |-> IF load.lazy THEN 0 ELSE diskFile, err |-> FALSE]
         answer(r) == load' = [load EXCEPT !.at = "parse", !.data = r.data,
                                           !.err = r.err]
                      /\ Tell(r.err)
     IN  \/ /\ ReadLately /\ answer(quiet)
            /\ UNCHANGED <<diskFile, lastRead, torn>>
         \/ /\ ~ReadLately /\ lastRead # 0 /\ lastRead' = webClock /\ answer(quiet)
            /\ UNCHANGED <<diskFile, torn>>
         \/ /\ ~ReadLately
            /\ answer(IF load.lazy THEN [data |-> 0, err |-> TRUE]
                      ELSE FileOr(TRUE))
            /\ UNCHANGED <<diskFile, lastRead, torn>>
         \/ /\ ~ReadLately /\ (lastRead = 0 \/ webFile.mod > lastRead)
            /\ \/ /\ answer([data |-> webFile.v, err |-> FALSE])
                  /\ lastRead' = webClock
                  /\ \/ diskFile' = webFile.v /\ UNCHANGED torn
                     \/ torn' = TRUE /\ UNCHANGED diskFile
               \/ /\ answer(FileOr(TRUE))
                  /\ UNCHANGED <<diskFile, lastRead, torn>>
  /\ UNCHANGED <<webFile, value, nextAt, semaphore, webClock>>

(* No change ends it; what does not parse is thrown away and loaded anew,  *)
(* once.                                                                   *)
Parse ==
  /\ load.at = "parse"
  /\ IF load.err \/ (load.data = 0 /\ load.lazy)
     THEN load' = [load EXCEPT !.at = "finish"]
          /\ UNCHANGED <<diskFile, lastRead, value, caller>>
     ELSE IF load.data # 0 /\ Parses(load.data)
     THEN load' = [load EXCEPT !.at = "finish"] /\ value' = load.data
          /\ Tell(FALSE) /\ UNCHANGED <<diskFile, lastRead>>
     ELSE /\ diskFile' = 0 /\ lastRead' = 0 /\ Tell(TRUE) /\ UNCHANGED value
          /\ load' = IF load.attempt = 0
                     THEN [load EXCEPT !.at = "fetch", !.attempt = 1]
                     ELSE [load EXCEPT !.at = "finish", !.err = TRUE]
  /\ UNCHANGED <<webFile, nextAt, semaphore, webClock, torn>>

(* MUTANT: the semaphore is released by the caller that waits.             *)
FinishLoadKeeps ==
  /\ load.at = "finish" /\ load' = NoLoad
  /\ nextAt' = IF load.err THEN nextAt ELSE webClock + Recheck
  /\ LET c == load.by IN
     IF caller[c].at = "wait"
     THEN /\ caller' = [caller EXCEPT ![c] =
                         [@ EXCEPT !.ptr = value, !.err = load.err,
                                   !.at = "done"]]
          /\ semaphore' = FALSE
     ELSE UNCHANGED <<caller, semaphore>>
  /\ UNCHANGED <<webFile, diskFile, lastRead, value, webClock, torn>>

(* The time of the next load, the answer, and the semaphore.               *)
FinishLoad ==
  /\ load.at = "finish" /\ load' = NoLoad /\ semaphore' = FALSE
  /\ nextAt' = IF load.err THEN nextAt ELSE webClock + Recheck
  /\ LET c == load.by IN
     caller' = IF caller[c].at = "wait"
               THEN [caller EXCEPT ![c] =
                      [@ EXCEPT !.ptr = value, !.err = load.err,
                                !.at = "done"]]
               ELSE caller
  /\ UNCHANGED <<webFile, diskFile, lastRead, value, webClock, torn>>

Loading == Fetch \/ Parse \/ FinishLoad
Calling(c) == FastPath(c) \/ Enter(c) \/ RecheckPath(c) \/ ReturnLazy(c)

RemoteNext ==
  \/ \E v \in 0..2 : NewRemoteFile(v)
  \/ WebTick \/ NewVersion \/ Loading
  \/ \E c \in Loaders : CallLoad(c) \/ Calling(c) \/ LeaveLoad(c)

(* The goroutine asks the web, which need not answer: http.DefaultClient   *)
(* has no timeout, and the request no context.                             *)
Asking == load.at = "fetch" /\ ~ReadLately

RemoteFairness ==
  /\ WF_remoteVars(~Asking /\ Loading)
  /\ \A c \in Loaders : SF_remoteVars(Calling(c))

-----------------------------------------------------------------------------
(* One loads at a time, and the semaphore is released by exactly one of    *)
(* the caller and the goroutine that it started, also when the caller left *)
(* before the result.                                                      *)
OneLoads ==
  LET inside == {c \in Loaders : caller[c].at = "recheck"} IN
  /\ \A c, d \in inside : c = d
  /\ semaphore <=> (inside # {} \/ load.at # "off")
  /\ inside # {} => load.at = "off"

(* A caller that was not given up by its context has a value or an error.  *)
(* One that was has neither (LoadContext returns ptr, nil): whoever calls  *)
(* must look at both.                                                      *)
AnsweredWithOne ==
  \A c \in Loaders : caller[c].at = "done" => caller[c].ptr # 0 \/ caller[c].err

(* The value is never taken back, and never replaced by an older one,      *)
(* unless the local file could not be written when the newer one came.     *)
ValuesGrow == [][value' # value => value' # 0 /\ (value' > value \/ torn)]_remoteVars

(* No call waits for ever that has found a value, although a request to    *)
(* the web stays without an answer.  None does at all, though no context   *)
(* ends, if the web answers: the goroutine releases the semaphore also for *)
(* a caller that left (LoadContext).                                       *)
LoadsReturn ==
  \A c \in Loaders :
    LET waits == caller[c].at \notin {"off", "done", "left"} IN
    /\ []<>(~waits \/ caller[c].ptr = 0)
    /\ <>[]Asking \/ []<>~waits

(* One goroutine loads at a time; calls return with a value or an error    *)
(* although others leave early, and values do not go back (LoadContext).   *)
LoadCorrect == [](RemoteTypeOK /\ OneLoads /\ AnsweredWithOne) /\ ValuesGrow
=============================================================================
