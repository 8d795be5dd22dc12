----------------------------- MODULE WorkClient -----------------------------
(***************************************************************************)
(* class WorkClient, and the commands of xtool_dfscp that are made of it:  *)
(* clients that have one machine, a data server or an index server, carry  *)
(* out commands, one request after the other, interleaved with each other  *)
(* and with the md5 threads.                                               *)
(*                                                                         *)
(* A request, or its answer, may be lost (TCPClient then closes the        *)
(* connection, so that no late answer is taken for another), an operation  *)
(* of the machine may fail, and the server process may be restarted.       *)
(* Somebody reads the list files and takes them away.                      *)
(***************************************************************************)
EXTENDS ServerRequests

CONSTANTS
  Clients,
  MaxChunks,    \* blocks in a file
  Sessions,     \* bound: each session has commands, the versions of what they send, the programs that
                \* somebody else starts on the machine, and how many of all these are given in it
  MaxFaults     \* bound: requests and answers lost, errors of the machine, restarts of the server

ASSUME WorkClientAssumption ==
  /\ MaxChunks \in Nat \ {0}
  /\ \A session \in Sessions : session.max \in Nat
  /\ MaxFaults \in Nat

VARIABLES
  kind,      \* "data" or "index": which of the two servers runs on the machine
  session,   \* what the clients are asked to do, a member of Sessions
  srv,       \* the machine
  cl,        \* the clients
  given, faults, \* spent of session.max and MaxFaults
  owed,      \* history: the names in ended lists that nobody has taken away
  unended,   \* history: lists whose last START has had no END
  crossed,   \* history: such a list was STARTed again
  unrenamed  \* history: the clients of whose command a check got the answer 0, though its rename failed

fixed == <<kind, session>>
bounds == <<given, faults>>
history == <<owed, unended, crossed, unrenamed>>
vars == <<fixed, srv, cl, bounds, history>>

IS == INSTANCE IsBrokerWork

Whole(v) == [i \in 1 .. MaxChunks |-> <<v, i>>]

(* A client at a request of its command cmd: block i of file k of the list.  broke: a file of the list
   failed.  clean: the server had nothing left of what is sent, and nobody else touched it. *)
Idle(ret) ==
  [at |-> "idle", ret |-> ret, cmd |-> [op |-> "none"], v |-> 0, k |-> 1, i |-> 1,
   broke |-> FALSE, clean |-> TRUE]

Init ==
  /\ kind \in {"data", "index"}
  /\ session \in Sessions
  /\ srv = NewMachine
  /\ cl = [c \in Clients |-> Idle(0)]
  /\ given = 0 /\ faults = 0
  /\ owed = {} /\ unended = {} /\ crossed = FALSE /\ unrenamed = {}

-----------------------------------------------------------------------------
(* The commands.  Each of those with one request prints what it answers. *)

one(req) == [op |-> "one", req |-> req]
createOneFile(n, data) == one([op |-> "CREATE_FILE", n |-> n, data |-> data])
checkOneFile(n) == one([op |-> "CHECK_FILE", n |-> n])
removeOneFile(n) == one([op |-> "DEL_FILE", n |-> n])
renameFile(n, to) == one([op |-> "RENAME_FILE", n |-> n, to |-> to])
getMD5(f) == one([op |-> "GET_FILE_MD5", f |-> f])
chmodFile(f) == one([op |-> "FILE_CHMOD", f |-> f])
killProcess(p) == one([op |-> "KILL_PROCESS", p |-> p])
execProcess(p) == one([op |-> "EXEC_PROCESS", p |-> p])
shell == one([op |-> "RPC_SHELL"])

(* These take several requests, or one that is repeated. *)
sendFile(f) == [op |-> "sendFile", f |-> f]
sendList(l, files) == [op |-> "sendList", l |-> l, files |-> files]
checkMD5(f) == [op |-> "checkMD5", f |-> f]

(* What clients are asked to do.  The single names are those of files: a list is taken away by its
   reader, and what is temporary is left to the server. *)
Data == (UNION {x.versions : x \in Sessions}) \X (1 .. MaxChunks)
Blocks == Data \cup {Garbage}
Items == Files \cup Blocks
FinalNames == {Final(f) : f \in Files}
Requests ==
  [op : {"CREATE_FILE"}, n : FinalNames, data : Seq(Data)]
    \cup [op : {"CHECK_FILE", "DEL_FILE"}, n : FinalNames]
    \cup [op : {"RENAME_FILE"}, n : FinalNames, to : FinalNames]
    \cup [op : {"GET_FILE_MD5", "FILE_CHMOD"}, f : Files]
    \cup [op : {"KILL_PROCESS", "EXEC_PROCESS"}, p : Programs] \cup [op : {"RPC_SHELL"}]
Commands ==
  [op : {"one"}, req : Requests] \cup [op : {"sendFile", "checkMD5"}, f : Files]
    \cup [op : {"sendList"}, l : Lists, files : Seq(Files) \ {<<>>}]

ASSUME SessionsAssumption ==
  /\ \A x \in Sessions : x.commands \subseteq Commands /\ x.foreign \subseteq Programs
  /\ NoFile \notin Seq(Items) /\ Empty \notin Seq(Items)

FirstOf(cmd) ==
  CASE cmd.op = "one" -> "one"
    [] cmd.op = "sendFile" -> "single"
    [] cmd.op = "sendList" -> "start"
    [] cmd.op = "checkMD5" -> "check"

FileOf(x) == IF x.cmd.op = "sendList" THEN x.cmd.files[x.k] ELSE x.cmd.f

(* The request a client makes. *)
Request(x) ==
  CASE x.at = "one" -> x.cmd.req
    [] x.at = "single" -> [op |-> "SINGLE_FILE", f |-> x.cmd.f]
    [] x.at = "start" -> [op |-> "START_LST", l |-> x.cmd.l]
    [] x.at = "open" -> [op |-> "OPEN_FILE", l |-> x.cmd.l, f |-> FileOf(x)]
    [] x.at = "write" -> [op |-> "WRITE_FILE", f |-> FileOf(x), data |-> <<<<x.v, x.i>>>>]
    [] x.at = "close" -> [op |-> "CLOSE_FILE", f |-> FileOf(x), all |-> TRUE]
    [] x.at = "check" -> [op |-> "CHECK_MD5", f |-> FileOf(x), hash |-> Whole(x.v)]
    [] x.at = "end" -> [op |-> "END_LST", l |-> x.cmd.l, dated |-> FALSE]

FileDone_SendsAgain(x, ret) ==
  IF x.cmd.op = "sendFile" /\ ret = -2 THEN [x EXCEPT !.at = "single", !.i = 1]
  ELSE IF x.cmd.op # "sendList" THEN Idle(ret)
  ELSE IF ret = 0 /\ x.k < Len(x.cmd.files) THEN [x EXCEPT !.at = "open", !.k = @ + 1, !.i = 1]
  ELSE [x EXCEPT !.at = "end", !.broke = ret # 0]

(* A file is sent, or failed: sendFile and checkMD5 return, sendList goes to the next file, or after a
   failure or the last one to the END. *)
FileDone(x, ret) ==
  IF x.cmd.op # "sendList" THEN Idle(ret)
  ELSE IF ret = 0 /\ x.k < Len(x.cmd.files) THEN [x EXCEPT !.at = "open", !.k = @ + 1, !.i = 1]
  ELSE [x EXCEPT !.at = "end", !.broke = ret # 0]

(* WorkClient::send returned ret, or sendRequest got no answer.  A WRITE that fails goes to the CLOSE,
   a CHECK_MD5 without an answer is repeated. *)
After(x, ret, noAnswer) ==
  CASE x.at = "one" -> Idle(ret)
    [] x.at = "start" -> IF ret = 0 THEN [x EXCEPT !.at = "open"] ELSE Idle(ret)
    [] x.at \in {"single", "open"} -> IF ret = 0 THEN [x EXCEPT !.at = "write"] ELSE FileDone(x, ret)
    [] x.at = "write" -> IF ret = 0 /\ x.i < MaxChunks THEN [x EXCEPT !.i = @ + 1]
                         ELSE [x EXCEPT !.at = "close"]
    [] x.at = "close" -> IF ret = 0 THEN [x EXCEPT !.at = "check"] ELSE FileDone(x, ret)
    [] x.at = "check" -> IF noAnswer THEN x ELSE FileDone(x, ret)
    [] x.at = "end" -> Idle(ret)

Begin(c) ==
  /\ cl[c].at = "idle"
  /\ given < session.max
  /\ given' = given + 1
  /\ \E cmd \in session.commands, v \in session.versions :
       cl' = [cl EXCEPT ![c] = [Idle(0) EXCEPT !.at = FirstOf(cmd), !.cmd = cmd, !.v = v]]
  /\ unrenamed' = unrenamed \ {c}
  /\ UNCHANGED <<fixed, srv, faults, owed, unended, crossed>>

-----------------------------------------------------------------------------
(* Whether a request is about file f, and what a client that sends f meets. *)
Concerns(req, f) ==
  CASE req.op \in {"CREATE_FILE", "DEL_FILE"} -> req.n = Final(f)
    [] req.op = "RENAME_FILE" -> Final(f) \in {req.n, req.to}
    [] req.op \in {"OPEN_FILE", "SINGLE_FILE", "WRITE_FILE", "CLOSE_FILE", "CHECK_MD5"} -> req.f = f
    [] OTHER -> FALSE

Sends(x, f) ==
  \/ x.cmd.op = "sendList" /\ x.at # "idle" /\ Contains(x.cmd.files, f)
  \/ x.cmd.op \in {"sendFile", "checkMD5"} /\ x.at # "idle" /\ x.cmd.f = f

Leftovers(s, f) ==
  Exists(s, Md5(f)) \/ Contains(s.jobs, f) \/ \E j \in s.hashing : j.f = f

StaysClean(x, req) ==
  /\ x.clean
  /\ req.op \in {"OPEN_FILE", "SINGLE_FILE"} => ~Leftovers(srv, req.f)
  /\ req.op = "CHECK_MD5" => srv.disk[Md5(req.f)] # Empty

(* Client c made the request and is at y now; whoever else sends what it is about is not alone. *)
Meet(c, req, y) ==
  LET together(d) == d # c /\ \E f \in Files : Concerns(req, f) /\ Sends(cl[d], f)
      alone == \A d \in Clients : ~together(d)
  IN [d \in Clients |->
        IF d = c THEN IF y.at = "idle" THEN y ELSE [y EXCEPT !.clean = alone /\ StaysClean(cl[c], req)]
        ELSE IF together(d) THEN [cl[d] EXCEPT !.clean = FALSE] ELSE cl[d]]

(* What is in ended lists, and which lists are not ended. *)
Record(req, o) ==
  /\ owed' = owed \cup UNION {ToSet(o.srv.disk[Final(l)]) : l \in {m \in Lists : Exists(o.srv, Final(m))}}
  /\ unended' = IF req.op = "START_LST" THEN unended \cup {req.l}
                ELSE IF req.op = "END_LST" /\ o.ret = 0 THEN unended \ {req.l} ELSE unended
  /\ crossed' = (crossed \/ (req.op = "START_LST" /\ req.l \in unended))

Serve(req) == IF kind = "data" THEN Work(srv, req) ELSE IS!Work(srv, req)

(* A request is served; its answer arrives or is lost. *)
Served(c) ==
  LET x == cl[c]
      req == Request(x)
  IN /\ x.at # "idle"
     /\ \E o \in Serve(req), noAnswer \in BOOLEAN :
          LET ret == IF noAnswer THEN -1 ELSE IF o.ret < 0 THEN o.ret ELSE 0 IN
            /\ faults' = faults + o.bad + (IF noAnswer THEN 1 ELSE 0)
            /\ faults' <= MaxFaults
            /\ srv' = o.srv
            /\ cl' = Meet(c, req, After(x, ret, noAnswer))
            /\ Record(req, o)
            /\ unrenamed' = IF req.op = "CHECK_MD5" /\ o.bad = 1 /\ ret = 0 THEN unrenamed \cup {c} ELSE unrenamed
     /\ UNCHANGED <<fixed, given>>

(* A request that never reaches the server. *)
NotServed(c) ==
  /\ cl[c].at # "idle"
  /\ faults < MaxFaults
  /\ faults' = faults + 1
  /\ cl' = [cl EXCEPT ![c] = After(cl[c], -1, TRUE)]
  /\ UNCHANGED <<fixed, srv, given, history>>

-----------------------------------------------------------------------------
(* The md5 threads, the processes, the restart of the server, and whoever takes a list away. *)

Md5Thread ==
  /\ \/ srv.jobs # <<>> /\ Cardinality(srv.hashing) < Cardinality(Threads) /\ srv' = Md5Reads(srv)
     \/ \E j \in srv.hashing : srv' = Md5Writes(srv, j)
  /\ UNCHANGED <<fixed, cl, bounds, history>>

ProcessExits ==
  /\ \E q \in Pids : srv.procs[q] # NoProcess /\ srv' \in Exits(srv, q)
  /\ UNCHANGED <<fixed, cl, bounds, history>>

ProcessStarts ==
  /\ given < session.max
  /\ given' = given + 1
  /\ \E p \in session.foreign, q \in Pids : srv.procs[q] = NoProcess /\ srv' = ForeignStarts(srv, p, q)
  /\ UNCHANGED <<fixed, cl, faults, history>>

Restart ==
  /\ faults < MaxFaults
  /\ faults' = faults + 1
  /\ srv' = Restarted(srv)
  /\ UNCHANGED <<fixed, cl, given, history>>

TakeList ==
  /\ \E l \in Lists :
       /\ Exists(srv, Final(l))
       /\ srv' = Unlink(srv, Final(l))
       /\ owed' = owed \ ToSet(srv.disk[Final(l)])
  /\ UNCHANGED <<fixed, cl, bounds, unended, crossed, unrenamed>>

Client(c) == Begin(c) \/ Served(c) \/ NotServed(c)

Next ==
  \/ \E c \in Clients : Client(c)
  \/ Md5Thread \/ ProcessExits \/ ProcessStarts \/ Restart \/ TakeList

Spec == Init /\ [][Next]_vars

(* The clients run and the server answers; nobody has to give another command.  This is
   WF_vars(Served(c)) for every client, whose step is enabled unless it is idle. *)
FairSpec ==
  Spec /\ \A c \in Clients : []<>(cl[c].at = "idle") \/ []<><<Served(c)>>_vars

-----------------------------------------------------------------------------
Contents == Seq(Items) \cup {NoFile, Empty}

TypeOK ==
  /\ kind \in {"data", "index"}
  /\ srv.disk \in [Names -> Contents]
  /\ srv.m_mapNameFile \in [Files -> Names \cup {Closed, Gone}]
  /\ srv.m_mapList \in [Lists -> Names \cup {Closed, Gone}]
  /\ srv.jobs \in Seq(Files)
  /\ srv.hashing \subseteq [f : Files, hash : Contents] /\ IsFiniteSet(srv.hashing)
  /\ srv.m_mapProcPid \subseteq [prog : Programs, pid : Pids]
  /\ srv.procs \in [Pids -> [prog : Programs, st : {"run", "zombie", "foreign"}] \cup {NoProcess}]
  /\ owed \subseteq Files /\ unended \subseteq Lists /\ crossed \in BOOLEAN /\ unrenamed \subseteq Clients

Returns(c) == cl[c].at # "idle" /\ cl'[c].at = "idle"
FilesOf(cmd) == IF cmd.op = "sendList" THEN ToSet(cmd.files) ELSE {cmd.f}
Sent(c) ==
  \A f \in FilesOf(cl[c].cmd) :
    /\ srv'.disk[Final(f)] = Whole(cl[c].v)
    /\ srv'.disk[Df(f)] = NoFile /\ srv'.m_mapNameFile[f] = Closed
Clean(c) == cl[c].clean /\ StaysClean(cl[c], Request(cl[c]))

(* sendFile returns 0 ("send %s success") only when the file is whole under its name, with no .df and no
   open FILE* left, whatever was lost, failed or was restarted on the way, unless what failed was the
   rename behind its check, which the server answers with 0; likewise sendList for all its files, when it
   did not break off.
   Only for clean transfers: where an earlier transfer has left a .md5 or a job, or the .md5 is just being
   written, the check says nothing about the file. *)
SentIsInstalled ==
  [][\A c \in Clients :
       Returns(c) /\ cl'[c].ret = 0 /\ cl[c].cmd.op \in {"sendFile", "sendList"}
       /\ Clean(c) /\ ~cl[c].broke /\ c \notin unrenamed' => Sent(c)]_vars

(* A name in a list that was ended stays in it, or in the .dftmp it is continued in, until the list is
   taken away; as long as no START comes before the END of the last one was served. *)
NamesKept ==
  ~crossed => owed \subseteq UNION {ToSet(srv.disk[n]) : n \in {m \in Names :
                 m[1] \in Lists /\ m[2] \in {"", "dftmp"} /\ Exists(srv, m)}}

(* A kill that is served leaves no process of that name, unless it is not a child of the server process
   (it was started before the server was, or by somebody else): of these there may be one that it does not
   know of, or did not get to. *)
KillReaches ==
  [][\A c \in Clients :
       cl[c].at = "one" /\ Request(cl[c]).op = "KILL_PROCESS" /\ Served(c) =>
         \A q \in Pids : srv'.procs[q] # NoProcess /\ srv'.procs[q].prog = Request(cl[c]).p =>
           srv'.procs[q].st = "foreign"]_vars

(* Every command returns. *)
CommandsReturn == \A c \in Clients : cl[c].at # "idle" ~> cl[c].at = "idle"
=============================================================================
