----------------------------- MODULE FileServe ------------------------------
(***************************************************************************)
(* The file service: a tree read into memory with one goroutine for each   *)
(* file, or the directory itself, and the answers to requests.  A name is  *)
(* the sequence of its parts, where the suffix @br is the last part; the   *)
(* pattern sees a request with a slash in front and a file of the tree     *)
(* without one.                                                            *)
(***************************************************************************)
EXTENDS Integers, Sequences, FiniteSets

CONSTANTS
  Parts,      (* the parts of names                                         *)
  Trees,      (* directories: [name -> "dir", "text", "small" or "image"];  *)
              (* the content of a file is its name                          *)
  Options     (* [index, notFound, dynamic, immutable, anyImmutable,        *)
              (* all, pattern]: all, or the pattern, a set of <<slash,      *)
              (* name>>                                                     *)

Br == <<"@br">>
Suffixed(name) == name # <<>> /\ name[Len(name)] = "@br"
Base(name) == IF Suffixed(name) THEN SubSeq(name, 1, Len(name) - 1) ELSE name

ASSUME FilesAssumption ==
  /\ {"@br", "absent"} \subseteq Parts
  /\ \A t \in Trees :
       /\ t \in [DOMAIN t -> {"dir", "text", "small", "image"}]
       /\ DOMAIN t \subseteq Seq(Parts)
       /\ \A n \in DOMAIN t : t[n] = "dir" => ~Suffixed(n)
  /\ \A o \in Options : o.index \in Seq(Parts) /\ o.notFound \in Seq(Parts)

VARIABLES
  phase,     (* "off", "load" or "serve"                                    *)
  disk,      (* the tree                                                    *)
  opt,       (* the options                                                 *)
  memory,    (* memoryFileSystem.files: [name -> [kind, data, br]]          *)
  todo,      (* names that recursiveAdd has not visited                     *)
  reading,   (* files that a goroutine reads: wg                            *)
  asked,     (* the request: [name, br, range, cond]                        *)
  answer     (* the response, or Nothing                                    *)

fileServeVars == <<phase, disk, opt, memory, todo, reading, asked, answer>>

(* A response: what ServeHTTP returns, the status, the file whose content  *)
(* it carries, plain or compressed, whether it says that it is compressed, *)
(* whether it may be kept, and whether it is the page for what is missing. *)
Nothing == [result |-> "none", status |-> 0, body |-> <<"none">>, form |-> "none",
            br |-> FALSE, cache |-> FALSE, page |-> FALSE]
NoAsk == [name |-> <<>>, br |-> FALSE, range |-> FALSE, cond |-> "none"]

Matches(slash, name) == opt.all \/ <<slash, name>> \in opt.pattern

FileServeInit ==
  /\ phase = "off" /\ disk = <<>> /\ opt = <<>> /\ memory = <<>>
  /\ todo = {} /\ reading = {} /\ asked = NoAsk /\ answer = Nothing

-----------------------------------------------------------------------------
(* NewMemoryFileSystem                                                     *)

NoContent(name) == [kind |-> disk[name], data |-> <<"unread">>, br |-> FALSE]

StartFiles(t, o) ==
  /\ phase = "off" /\ disk' = t /\ opt' = o
  /\ IF o.dynamic THEN phase' = "serve" /\ UNCHANGED todo
     ELSE phase' = "load" /\ todo' = DOMAIN t
  /\ UNCHANGED <<memory, reading, asked, answer>>

(* recursiveAdd: a directory before what is in it; the entry is there      *)
(* before its content.                                                     *)
RecursiveAdd(name) ==
  /\ phase = "load" /\ name \in todo
  /\ Len(Base(name)) > 1 => SubSeq(name, 1, Len(Base(name)) - 1) \notin todo
  /\ todo' = todo \ {name}
  /\ IF disk[name] # "dir" /\ ~Matches(FALSE, name)
     THEN UNCHANGED <<memory, reading>>
     ELSE /\ memory' = [n \in DOMAIN memory \cup {name} |->
                          IF n = name THEN NoContent(name) ELSE memory[n]]
          /\ reading' = IF disk[name] = "dir" THEN reading
                        ELSE reading \cup {name}
  /\ UNCHANGED <<phase, disk, opt, asked, answer>>

(* The goroutine: the content, and its compressed form where it is worth   *)
(* it; images are not tried.                                               *)
ReadFile(name) ==
  /\ phase = "load" /\ name \in reading
  /\ memory' = [memory EXCEPT ![name] =
                 [@ EXCEPT !.data = name,
                           !.br = disk[name] = "text"]]
  /\ reading' = reading \ {name}
  /\ UNCHANGED <<phase, disk, opt, todo, asked, answer>>

(* MUTANT: the goroutines are not waited for.                              *)
LoadedEarly ==
  /\ phase = "load" /\ todo = {} /\ phase' = "serve"
  /\ UNCHANGED <<disk, opt, memory, todo, reading, asked, answer>>

(* wg.Wait                                                                 *)
Loaded ==
  /\ phase = "load" /\ todo = {} /\ reading = {} /\ phase' = "serve"
  /\ UNCHANGED <<disk, opt, memory, todo, reading, asked, answer>>

-----------------------------------------------------------------------------
(* Open.  In memory the suffix asks for the compressed form, whoever wrote *)
(* it, and a file that has it in its own name is not found; on disk it is  *)
(* a part of the name.  A directory is found on disk only.                 *)
Missing == [kind |-> "none", data |-> <<"none">>, form |-> "none"]

OpenMemory(name) ==
  LET b == Base(name) IN
  IF /\ b \in DOMAIN memory /\ memory[b].kind # "dir"
     /\ Suffixed(name) => memory[b].br
  THEN [kind |-> memory[b].kind, data |-> memory[b].data,
        form |-> IF Suffixed(name) THEN "br" ELSE "plain"]
  ELSE Missing
OpenDisk(name) ==
  IF name \in DOMAIN disk
  THEN [kind |-> disk[name], data |-> name, form |-> "plain"]
  ELSE Missing
OpenFile(name) == IF opt.dynamic THEN OpenDisk(name) ELSE OpenMemory(name)

(* br in Accept-Encoding, no range, and a file with the suffix to open.    *)
Encode(q, name) == q.br /\ ~q.range /\ OpenFile(name \o Br) # Missing

Immutable(name) ==
  /\ opt.immutable
  /\ opt.anyImmutable \/ \E i \in 1..(Len(name) - 1) : name[i] = "immutable"

(* What http.ServeContent answers to the headers of a request: a part of   *)
(* the file, or that the range is none of it; that the client's copy is    *)
(* good, or that its condition fails.                                      *)
RangeStatus(q) == IF q.range THEN {206, 416} ELSE {}
CopyStatus(q) == IF q.cond = "copy" THEN {304, 412} ELSE {}
UnmodifiedStatus(q) == IF q.cond = "unmodified" THEN {412} ELSE {}
WithBody == {200, 206, 404}

Carried(f, s) == IF s \in WithBody THEN f ELSE Missing

(* notFound: the next handler, the page of the server, or a file.  The     *)
(* fake writer puts 404 for 200 and keeps any other status; nothing of it  *)
(* may be kept, and conditions on a copy were deleted.                     *)
Page(f, s) ==
  [result |-> "Done", status |-> s, body |-> f.data, form |-> f.form,
   br |-> FALSE, cache |-> FALSE, page |-> TRUE]
MissingPage(q) ==
  LET f == OpenFile(opt.notFound) IN
  IF opt.notFound = <<>> THEN {[Nothing EXCEPT !.result = "Continue"]}
  ELSE IF opt.notFound = <<"default">> THEN {Page(Missing, 404)}
  ELSE IF f = Missing THEN {Page(Missing, 500)}
  ELSE {Page(Carried(f, s), s) :
          s \in {404} \cup RangeStatus(q) \cup UnmodifiedStatus(q)}

(* serveContent of what was found: an immutable file is copied out at once *)
(* unless a range is asked for.  A 304 has no Content-Encoding.            *)
Content(q, name) ==
  LET f == IF Encode(q, name) THEN OpenFile(name \o Br) ELSE OpenFile(name)
      statuses == IF Immutable(name) /\ ~q.range THEN {200}
                  ELSE {200} \cup RangeStatus(q) \cup CopyStatus(q)
                             \cup UnmodifiedStatus(q)
  IN  {[result |-> "Done", status |-> s, body |-> Carried(f, s).data,
        form |-> Carried(f, s).form, br |-> Encode(q, name) /\ s # 304,
        cache |-> Immutable(name), page |-> FALSE] : s \in statuses}

(* The loop of ServeHTTP: the name, or the index in it; <<>> for none.     *)
Found(n) == Matches(TRUE, n) /\ OpenFile(n) # Missing
IsDir(n) == OpenFile(n).kind = "dir"
Resolve(name) ==
  LET n1 == IF name = <<>> THEN opt.index ELSE name
      n2 == n1 \o opt.index
  IN  CASE n1 = <<>> \/ ~Found(n1) -> <<>>
        [] n1 # <<>> /\ Found(n1) /\ ~IsDir(n1) -> n1
        [] OTHER -> IF opt.index = <<>> \/ ~Found(n2) \/ IsDir(n2) THEN <<>> ELSE n2

ServeFile(q) ==
  /\ phase = "serve" /\ answer = Nothing
  /\ asked' = q
  /\ answer' \in IF Resolve(q.name) = <<>> THEN MissingPage(q)
                 ELSE Content(q, Resolve(q.name))
  /\ UNCHANGED <<phase, disk, opt, memory, todo, reading>>

(* cond: a condition on the client's copy (If-Match, If-None-Match,        *)
(* If-Modified-Since), If-Unmodified-Since, or none.                       *)
Requests ==
  [name : DOMAIN disk \cup {n \o Br : n \in DOMAIN disk} \cup {<<>>, <<"absent">>},
   br : BOOLEAN, range : BOOLEAN, cond : {"none", "copy", "unmodified"}]

FileServeNext ==
  \/ \E t \in Trees, o \in Options : StartFiles(t, o)
  \/ phase # "off" /\ \E n \in DOMAIN disk : RecursiveAdd(n) \/ ReadFile(n)
  \/ Loaded
  \/ phase = "serve" /\ \E q \in Requests : ServeFile(q)

-----------------------------------------------------------------------------
Plain(name) == Matches(TRUE, name) <=> Matches(FALSE, name)

(* What the directory holds under a name, as the documentation of the      *)
(* options tells it.                                                       *)
Wanted(name) ==
  LET file(n) == n \in DOMAIN disk /\ disk[n] # "dir" /\ Matches(TRUE, n)
  IN  IF name = <<>> THEN (IF opt.index # <<>> /\ file(opt.index)
                           THEN opt.index ELSE <<>>)
      ELSE IF file(name) THEN name
      ELSE <<>>

(* The answer is that for the file w. *)
ServedAs(w) ==
  /\ ~answer.page /\ answer.result = "Done"
  /\ answer.status \in {200, 206} =>
       \/ answer.body = w /\ (answer.form = "br" => answer.br)
       \/ answer.body = w \o Br /\ answer.br
  /\ answer.status \in {206, 416} => asked.range
  /\ answer.status \in {304, 412} => asked.cond # "none"
  /\ answer.status \in {200, 206, 416, 304, 412}

(* A file that is asked for by its name is answered with its content, from *)
(* memory as from disk, completely read however the goroutines ran: all of *)
(* it unless a range was asked for, and only a condition or a range keeps  *)
(* it back.  On disk a file with the suffix stands for the compressed one. *)
(* This is for names without the suffix, where the pattern sees both forms *)
(* of the names alike (ServeHTTP, Open).                                   *)
FilesAreServed ==
  LET w == Wanted(asked.name) IN
  answer.result # "none" /\ (\A n \in DOMAIN disk : Plain(n))
    /\ w # <<>> /\ ~Suffixed(w) => ServedAs(w)

(* Nothing but what the pattern admits, by its own name or by that of its  *)
(* compressed form, is served as found.                                    *)
PatternKept ==
  answer.status = 200 =>
    /\ answer.body \in DOMAIN disk /\ disk[answer.body] # "dir"
    /\ \E n \in {answer.body, Base(answer.body), answer.body \o Br} :
         Matches(TRUE, n)

(* Compressed content goes only to a client that takes it, with the whole  *)
(* file and with a header that says so; but for a name that ends in @br,   *)
(* which Open gives to anybody and which no header tells.  The header is   *)
(* never on a plain file.                                                  *)
EncodedWhenAsked ==
  /\ answer.form = "br" =>
       \/ asked.br /\ ~asked.range /\ answer.br
       \/ Suffixed(asked.name) \/ Suffixed(opt.index) \/ Suffixed(opt.notFound)
  /\ answer.br => asked.br /\ ~asked.range
  /\ answer.br /\ answer.status = 200 => answer.form = "br" \/ Suffixed(answer.body)

(* The page for what is missing says 404, but for a range and a condition  *)
(* that http.ServeContent answers in its own way, and for a page that is   *)
(* itself missing; it is never to be kept and never said to be compressed. *)
PageIsMarked ==
  answer.page =>
    /\ ~answer.cache /\ ~answer.br /\ answer.status # 200
    /\ ~asked.range /\ asked.cond # "unmodified" => answer.status \in {404, 500}

(* A file is served whole, as found, if the pattern admits it and          *)
(* compressed only if the client takes that or names it so, in memory as   *)
(* on disk; what is missing is marked (Open, ServeHTTP, notFound).         *)
FilesCorrect == FilesAreServed /\ PatternKept /\ EncodedWhenAsked /\ PageIsMarked
=============================================================================
