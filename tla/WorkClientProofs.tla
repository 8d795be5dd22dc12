-------------------------- MODULE WorkClientProofs --------------------------
(***************************************************************************)
(* Proofs about WorkClient, for any clients, sessions, files and faults:   *)
(* what its variables hold, that a kill reaches every process of its name, *)
(* that ended lists keep their names, and that what is sent is installed.  *)
(*                                                                         *)
(* Each request is first looked at alone (Served below): it touches only   *)
(* the lists and the files it is about.  The invariants of the clients     *)
(* then follow from what is said of the others.                            *)
(***************************************************************************)
EXTENDS WorkClient, ServerRequestsProofs, FiniteSetTheorems

-----------------------------------------------------------------------------
(* The index server does what the data server does, but for three requests. *)

SameRequests ==
  {"START_LST", "OPEN_FILE", "WRITE_FILE", "DEL_FILE", "CREATE_FILE", "CHECK_FILE", "RENAME_FILE",
   "SINGLE_FILE", "CHECK_MD5", "GET_FILE_MD5", "KILL_PROCESS", "EXEC_PROCESS", "RPC_SHELL"}

LEMMA SameAnswers ==
  ASSUME NEW s, NEW req, req.op \in SameRequests
  PROVE  IS!Work(s, req) = Work(s, req)
<1>1. CASE req.op = "START_LST"
  <2>1. IS!Work(s, req) = IS!CreateAList(s, req.l) /\ Work(s, req) = CreateAList(s, req.l)
    BY <1>1 DEF IS!Work, Work
  <2>2. IS!CreateAList(s, req.l) = CreateAList(s, req.l)
    BY DEF IS!CreateAList, IS!SS!CreateAList, CreateAList, IS!SS!Answer, Answer, IS!SS!Fails, Fails,
       IS!SS!Exists, Exists, IS!SS!Write, Write, IS!SS!Rename, Rename, IS!SS!Rebind, Rebind,
       IS!SS!DfTmp, DfTmp, IS!SS!Final, Final
  <2> QED BY <2>1, <2>2
<1>2. CASE req.op = "OPEN_FILE"
  <2>1. IS!Work(s, req) = IS!OpenAFile(s, req.l, req.f) /\ Work(s, req) = OpenAFile(s, req.l, req.f)
    BY <1>2 DEF IS!Work, Work
  <2>2. IS!OpenAFile(s, req.l, req.f) = OpenAFile(s, req.l, req.f)
    BY DEF IS!OpenAFile, IS!SS!OpenAFile, OpenAFile, IS!SS!Answer, Answer, IS!SS!Fails, Fails,
       IS!SS!AddName, AddName, IS!SS!Put, Put, IS!SS!Extend, Extend, IS!SS!Names, Names,
       IS!SS!Reopened, Reopened, IS!SS!CloseOld, CloseOld, IS!SS!Write, Write,
       IS!SS!Unlink, Unlink, IS!SS!Rebind, Rebind, IS!SS!Df, Df, IS!SS!Md5, Md5, IS!SS!DfTmp, DfTmp
  <2> QED BY <2>1, <2>2
<1>3. CASE req.op = "WRITE_FILE"
  BY <1>3 DEF IS!Work, Work, IS!WriteToFile, IS!SS!WriteToFile, WriteToFile, IS!SS!Answer, Answer,
     IS!SS!Fails, Fails, IS!SS!Put, Put, IS!SS!Extend, Extend, IS!SS!Names, Names
<1>4. CASE req.op = "DEL_FILE"
  BY <1>4 DEF IS!Work, Work, IS!RemoveFile, IS!SS!RemoveFile, RemoveFile, IS!SS!Answer, Answer,
     IS!SS!Exists, Exists, IS!SS!Unlink, Unlink, IS!SS!Rebind, Rebind, IS!SS!Md5, Md5
<1>5. CASE req.op = "CREATE_FILE"
  BY <1>5 DEF IS!Work, Work, IS!CreateAFile, IS!SS!CreateAFile, CreateAFile, IS!SS!Fails, Fails,
     IS!SS!Answer, Answer, IS!SS!Extend, Extend
<1>6. CASE req.op = "CHECK_FILE"
  BY <1>6 DEF IS!Work, Work, IS!CheckAFile, IS!SS!CheckAFile, CheckAFile, IS!SS!Answer, Answer,
     IS!SS!Exists, Exists
<1>7. CASE req.op = "RENAME_FILE"
  BY <1>7 DEF IS!Work, Work, IS!RenameFile, IS!SS!RenameFile, RenameFile, IS!SS!Answer, Answer,
     IS!SS!Exists, Exists, IS!SS!Rename, Rename, IS!SS!Rebind, Rebind
<1>8. CASE req.op = "SINGLE_FILE"
  BY <1>8 DEF IS!Work, Work, IS!RecvSingleFile, IS!SS!RecvSingleFile, RecvSingleFile, IS!SS!Answer, Answer,
     IS!SS!Fails, Fails, IS!SS!Reopened, Reopened, IS!SS!CloseOld, CloseOld, IS!SS!Write, Write, IS!SS!Df, Df
<1>9. CASE req.op = "CHECK_MD5"
  <2>1. IS!Work(s, req) = IS!CheckMD5(s, req.f, req.hash) /\ Work(s, req) = CheckMD5(s, req.f, req.hash)
    BY <1>9 DEF IS!Work, Work
  <2>2. IS!CheckMD5(s, req.f, req.hash) = CheckMD5(s, req.f, req.hash)
    BY DEF IS!CheckMD5, IS!SS!CheckMD5, CheckMD5, IS!SS!Answer, Answer, IS!SS!Exists, Exists,
       IS!SS!Fails, Fails, IS!SS!TriesInstall, TriesInstall,
       IS!SS!BuildMd5, BuildMd5, IS!SS!Install, Install, IS!SS!Write, Write, IS!SS!Rename, Rename,
       IS!SS!Unlink, Unlink, IS!SS!Rebind, Rebind, IS!SS!Df, Df, IS!SS!Md5, Md5, IS!SS!Final, Final
  <2> QED BY <2>1, <2>2
<1>10. CASE req.op = "GET_FILE_MD5"
  BY <1>10 DEF IS!Work, Work, IS!GetFileMD5, IS!SS!GetFileMD5, GetFileMD5, IS!SS!Answer, Answer,
     IS!SS!Exists, Exists, IS!SS!Md5, Md5, IS!SS!Final, Final
<1>11. CASE req.op = "KILL_PROCESS"
  <2>1. IS!Work(s, req) = IS!KillProcess(s, req.p) /\ Work(s, req) = KillProcess(s, req.p)
    BY <1>11 DEF IS!Work, Work
  <2>2. \A t, pids : IS!SS!Killed(t, pids) = Killed(t, pids)
    BY DEF IS!SS!Killed, Killed
  <2>3. \A t, i : IS!SS!Answer(t, i) = Answer(t, i)
    BY DEF IS!SS!Answer, Answer
  <2>4. \A x : IS!SS!Cardinality(x) = Cardinality(x)
    BY DEF IS!SS!Cardinality, Cardinality
  <2>5. IS!KillProcess(s, req.p) = KillProcess(s, req.p)
    BY <2>2, <2>3, <2>4 DEF IS!KillProcess, IS!SS!KillProcess, KillProcess
  <2> QED BY <2>1, <2>5
<1>12. CASE req.op = "EXEC_PROCESS"
  <2>1. IS!Work(s, req) = IS!ExecProcess(s, req.p) /\ Work(s, req) = ExecProcess(s, req.p)
    BY <1>12 DEF IS!Work, Work
  <2>2. \A pid, x : IS!SS!Forked(s, req.p, pid, x) = Forked(s, req.p, pid, x)
    BY DEF IS!SS!Forked, Forked, IS!SS!Inserted, Inserted, IS!SS!Entry, Entry
  <2>3. \A t, i : IS!SS!Answer(t, i) = Answer(t, i) /\ IS!SS!Fails(t, i) = Fails(t, i)
    BY DEF IS!SS!Answer, Answer, IS!SS!Fails, Fails
  <2>4. \A p, st : IS!SS!Process(p, st) = Process(p, st)
    BY DEF IS!SS!Process, Process
  <2>5. \A t : IS!SS!Restarted(t) = Restarted(t)
    BY DEF IS!SS!Restarted, Restarted, IS!SS!NewMachine, NewMachine, IS!SS!Process, Process, IS!SS!Names, Names
  <2>6. IS!ExecProcess(s, req.p) = ExecProcess(s, req.p)
    BY <2>2, <2>3, <2>4, <2>5 DEF IS!ExecProcess, IS!SS!ExecProcess, ExecProcess
  <2> QED BY <2>1, <2>6
<1>13. CASE req.op = "RPC_SHELL"
  BY <1>13 DEF IS!Work, Work, IS!RPCShell, IS!SS!RPCShell, RPCShell, IS!SS!Answer, Answer, IS!SS!Fails, Fails
<1> QED BY <1>1, <1>2, <1>3, <1>4, <1>5, <1>6, <1>7, <1>8, <1>9, <1>10, <1>11, <1>12, <1>13 DEF SameRequests

-----------------------------------------------------------------------------
(* What every request keeps, and what one leaves alone. *)

ListsAlone(s, t) == \A l \in Lists : SameNames(s, t, l)
Keeps(s, t) ==
  /\ MachineType(t, Blocks)
  /\ Registered(s) => Registered(t)
  /\ IsFiniteSet(s.hashing) => IsFiniteSet(t.hashing)
Others(req, s, t) == \A f \in Files : ~Concerns(req, f) => Spared(s, t, f)

LEMMA AloneBySame == ASSUME NEW s, NEW t, SameLists(s, t) PROVE ListsAlone(s, t)
BY NameFacts DEF SameLists, ListsAlone, SameNames

LEMMA AloneByDisk == ASSUME NEW s, NEW t, t.disk = s.disk PROVE ListsAlone(s, t)
BY DEF ListsAlone, SameNames

LEMMA RegisteredBySame == ASSUME NEW s, NEW t, SameRest(s, t), Registered(s) PROVE Registered(t)
BY DEF SameRest, Registered

LEMMA SparedBySelf == ASSUME NEW s, NEW f PROVE Spared(s, s, f)
BY DEF Spared

LEMMA SparedByFinals ==
  ASSUME NEW D, NEW s, NEW t, NEW F \in SUBSET Files, FinalsOnly(D, s, t, F), NEW f \in Files \ F
  PROVE  Spared(s, t, f)
<1>1. \A h \in F : Final(h) # Final(f)
  BY NameFacts
<1>2. \A h \in F : Final(h) # Df(f) /\ Final(h) # Closed /\ Final(h) # Gone
  <2>1. \A h \in F : Final(h) # Df(f) /\ Final(h) \in Names
    BY NameFacts
  <2> QED BY <2>1, NameFacts
<1>3. Final(f) # Gone
  BY NameFacts
<1>4. \A g \in Files :
        \/ t.m_mapNameFile[g] = s.m_mapNameFile[g]
        \/ /\ s.m_mapNameFile[g] \in {Final(h) : h \in F}
           /\ t.m_mapNameFile[g] \in {Gone} \cup {Final(h) : h \in F}
  BY DEF FinalsOnly
<1>5. s.m_mapNameFile[f] \in {Closed, Df(f)} => t.m_mapNameFile[f] = s.m_mapNameFile[f]
  BY <1>2, <1>4
<1>6. ASSUME Unbound(s, f) PROVE Unbound(t, f)
  BY <1>1, <1>3, <1>4, <1>6 DEF Unbound
<1>7. /\ t.disk[Df(f)] = s.disk[Df(f)] /\ t.disk[Md5(f)] = s.disk[Md5(f)] /\ t.disk[Final(f)] = s.disk[Final(f)]
      /\ t.jobs = s.jobs /\ t.hashing = s.hashing
  BY DEF FinalsOnly
<1> QED BY <1>5, <1>6, <1>7 DEF Spared

LEMMA KeepsByFinals ==
  ASSUME NEW s, NEW t, NEW F, FinalsOnly(Blocks, s, t, F)
  PROVE  Keeps(s, t) /\ ListsAlone(s, t)
BY AloneBySame, RegisteredBySame DEF FinalsOnly, Keeps

LEMMA KeepsByProcs ==
  ASSUME NEW s, NEW t, ProcsOnly(Blocks, s, t), Registered(s) => Registered(t)
  PROVE  Keeps(s, t) /\ ListsAlone(s, t) /\ \A f \in Files : Spared(s, t, f)
BY AloneBySame, SparedBySame DEF ProcsOnly, Keeps, SameFiles

LEMMA KeepsItself == ASSUME NEW s, MachineType(s, Blocks) PROVE Keeps(s, s) /\ ListsAlone(s, s)
BY DEF Keeps, ListsAlone, SameNames

(* No content is one of the two marks. *)
LEMMA MarksAreNone ==
  /\ NoFile \notin Seq(Blocks) /\ Empty \notin Seq(Blocks)
  /\ NoFile \notin Seq(Files) /\ Empty \notin Seq(Files)
<1>1. Blocks \subseteq Items /\ Files \subseteq Items
  BY DEF Items
<1>2. \A q \in Seq(Blocks) : q \in Seq(Items)
  BY <1>1, SeqMonotonic
<1>3. \A q \in Seq(Files) : q \in Seq(Items)
  BY <1>1, SeqMonotonic
<1> QED BY <1>2, <1>3, SessionsAssumption

LEMMA GarbageIsABlock == Garbage \in Blocks /\ Seq(Data) \subseteq Seq(Blocks)
<1>1. Data \subseteq Blocks /\ Garbage \in Blocks
  BY DEF Blocks
<1> QED BY <1>1, SeqMonotonic

(* The restart leaves the files as they are. *)
LEMMA RestartedKeeps ==
  ASSUME NEW s, MachineType(s, Blocks)
  PROVE  /\ Keeps(s, Restarted(s)) /\ ListsAlone(s, Restarted(s))
         /\ \A f \in Files : Spared(s, Restarted(s), f)
<1> DEFINE t == Restarted(s)
<1>0. t = Restarted(s) /\ Registered(t)
  BY RestartedRegistered
<1> HIDE DEF t
<1>1. /\ MachineType(t, Blocks) /\ t.disk = s.disk /\ t.jobs = <<>> /\ t.hashing = {}
      /\ t.m_mapNameFile = [f \in Files |-> Closed] /\ t.m_mapList = [l \in Lists |-> Closed]
  BY <1>0, RestartedEffect
<1>2. Keeps(s, t) /\ ListsAlone(s, t)
  BY <1>0, <1>1, AloneByDisk, FS_EmptySet DEF Keeps
<1>3. ASSUME NEW f \in Files PROVE Spared(s, t, f)
  <2>1. Unbound(t, f)
    BY <1>1, NameFacts DEF Unbound
  <2>2. ~Contains(t.jobs, f)
    BY <1>1 DEF Contains
  <2> QED BY <1>1, <1>3, <2>1, <2>2 DEF Spared
<1> QED BY <1>0, <1>2, <1>3

LEMMA KeepsTwice ==
  ASSUME NEW s, NEW t, NEW u, Keeps(s, t), Keeps(t, u)
  PROVE  Keeps(s, u)
BY DEF Keeps

LEMMA AloneTwice ==
  ASSUME NEW s, NEW t, NEW u, ListsAlone(s, t), ListsAlone(t, u)
  PROVE  ListsAlone(s, u)
BY DEF ListsAlone, SameNames

-----------------------------------------------------------------------------
(* The requests about single names, and the processes. *)

LEMMA ServedSame ==
  ASSUME NEW req, req.op \in SameRequests, NEW o \in Serve(req)
  PROVE  o \in Work(srv, req)
BY SameAnswers DEF Serve

LEMMA RequestFields ==
  ASSUME NEW req \in Requests
  PROVE  /\ req.op \in {"CREATE_FILE", "CHECK_FILE", "DEL_FILE", "RENAME_FILE", "GET_FILE_MD5", "FILE_CHMOD",
                        "KILL_PROCESS", "EXEC_PROCESS", "RPC_SHELL"}
         /\ req.op \in {"CREATE_FILE", "CHECK_FILE", "DEL_FILE"} => \E f \in Files : req.n = Final(f)
         /\ req.op = "CREATE_FILE" => req.data \in Seq(Data)
         /\ req.op = "RENAME_FILE" => \E f \in Files, g \in Files : req.n = Final(f) /\ req.to = Final(g)
         /\ req.op \in {"GET_FILE_MD5", "FILE_CHMOD"} => req.f \in Files
         /\ req.op \in {"KILL_PROCESS", "EXEC_PROCESS"} => req.p \in Programs
BY DEF Requests, FinalNames

(* The machine is asked, and nothing happens. *)
LEMMA OnlyAnswered ==
  ASSUME NEW req, NEW o, o.srv = srv, MachineType(srv, Blocks)
  PROVE  Keeps(srv, o.srv) /\ ListsAlone(srv, o.srv) /\ Others(req, srv, o.srv)
BY KeepsItself, SparedBySelf DEF Others

LEMMA NamesServed ==
  ASSUME MachineType(srv, Blocks), Registered(srv), NEW req \in Requests, NEW o \in Serve(req)
  PROVE  Keeps(srv, o.srv) /\ ListsAlone(srv, o.srv) /\ Others(req, srv, o.srv)
<1>1. CASE req.op = "CREATE_FILE"
  <2>1. PICK f \in Files : req.n = Final(f)
    BY <1>1, RequestFields
  <2>2. req.data \in Seq(Blocks)
    BY <1>1, RequestFields, GarbageIsABlock
  <2>3. o \in CreateAFile(srv, Final(f), req.data)
    BY <1>1, <2>1, ServedSame DEF Work, SameRequests
  <2>4. FinalsOnly(Blocks, srv, o.srv, {f})
    BY <2>2, <2>3, CreateEffect, GarbageIsABlock
  <2>5. \A g \in Files : ~Concerns(req, g) => g \in Files \ {f}
    BY <1>1, <2>1 DEF Concerns
  <2> QED BY <2>4, <2>5, KeepsByFinals, SparedByFinals DEF Others
<1>2. CASE req.op = "CHECK_FILE"
  <2>1. o.srv = srv
    BY <1>2, ServedSame DEF Work, SameRequests, CheckAFile, Answer
  <2> QED BY <2>1, OnlyAnswered
<1>3. CASE req.op = "DEL_FILE"
  <2>1. PICK f \in Files : req.n = Final(f)
    BY <1>3, RequestFields
  <2>2. o \in RemoveFile(srv, Final(f))
    BY <1>3, <2>1, ServedSame DEF Work, SameRequests
  <2>3. FinalsOnly(Blocks, srv, o.srv, {f})
    BY <2>2, RemoveEffect
  <2>4. \A g \in Files : ~Concerns(req, g) => g \in Files \ {f}
    BY <1>3, <2>1 DEF Concerns
  <2> QED BY <2>3, <2>4, KeepsByFinals, SparedByFinals DEF Others
<1>4. CASE req.op = "RENAME_FILE"
  <2>1. PICK f \in Files, g \in Files : req.n = Final(f) /\ req.to = Final(g)
    BY <1>4, RequestFields
  <2>2. o \in RenameFile(srv, Final(f), Final(g))
    BY <1>4, <2>1, ServedSame DEF Work, SameRequests
  <2>3. FinalsOnly(Blocks, srv, o.srv, {f, g})
    BY <2>2, RenameFinalEffect
  <2>4. \A h \in Files : ~Concerns(req, h) => h \in Files \ {f, g}
    BY <1>4, <2>1 DEF Concerns
  <2> QED BY <2>3, <2>4, KeepsByFinals, SparedByFinals DEF Others
<1>5. CASE req.op = "GET_FILE_MD5"
  <2>1. o.srv = srv
    BY <1>5, ServedSame DEF Work, SameRequests, GetFileMD5, Answer
  <2> QED BY <2>1, OnlyAnswered
<1>6. CASE req.op = "FILE_CHMOD"
  <2>1. \A x \in Work(srv, req) : x.srv = srv
    BY <1>6 DEF Work, FileChmod, Answer, Fails
  <2>2. \A x \in IS!Work(srv, req) : x.srv = srv
    BY <1>6 DEF IS!Work, IS!FileChmod, IS!SS!Answer, IS!SS!Fails
  <2>3. o.srv = srv
    BY <2>1, <2>2 DEF Serve
  <2> QED BY <2>3, OnlyAnswered
<1>7. CASE req.op = "KILL_PROCESS"
  <2>1. req.p \in Programs /\ o \in KillProcess(srv, req.p)
    BY <1>7, RequestFields, ServedSame DEF Work, SameRequests
  <2>2. ProcsOnly(Blocks, srv, o.srv) /\ Registered(o.srv)
    BY <2>1, KillEffect
  <2> QED BY <2>2, KeepsByProcs DEF Others
<1>8. CASE req.op = "EXEC_PROCESS"
  <2>1. req.p \in Programs /\ o \in ExecProcess(srv, req.p)
    BY <1>8, RequestFields, ServedSame DEF Work, SameRequests
  <2>2. PICK u : ProcsOnly(Blocks, srv, u) /\ Registered(u) /\ (o.srv = u \/ o = Fails(Restarted(u), -1))
    BY <2>1, ExecEffect
  <2>3. Keeps(srv, u) /\ ListsAlone(srv, u) /\ \A f \in Files : Spared(srv, u, f)
    BY <2>2, KeepsByProcs
  <2>4. MachineType(u, Blocks)
    BY <2>3 DEF Keeps
  <2>5. PICK w : w = Restarted(u)
    OBVIOUS
  <2>6. Keeps(u, w) /\ ListsAlone(u, w) /\ \A f \in Files : Spared(u, w, f)
    BY <2>4, <2>5, RestartedKeeps
  <2>7. Keeps(srv, w) /\ ListsAlone(srv, w) /\ \A f \in Files : Spared(srv, w, f)
    BY <2>3, <2>6, KeepsTwice, AloneTwice, SparedTwice
  <2>8. o.srv = u \/ o.srv = w
    BY <2>2, <2>5 DEF Fails
  <2> QED BY <2>3, <2>7, <2>8 DEF Others
<1>9. CASE req.op = "RPC_SHELL"
  <2>1. o.srv = srv
    BY <1>9, ServedSame DEF Work, SameRequests, RPCShell, Answer, Fails
  <2> QED BY <2>1, OnlyAnswered
<1> QED BY <1>1, <1>2, <1>3, <1>4, <1>5, <1>6, <1>7, <1>8, <1>9, RequestFields

LEMMA KillServed ==
  ASSUME MachineType(srv, Blocks), Registered(srv), NEW req \in Requests, req.op = "KILL_PROCESS",
         NEW o \in Serve(req)
  PROVE  \A q \in Pids : o.srv.procs[q] # NoProcess /\ o.srv.procs[q].prog = req.p =>
           o.srv.procs[q].st = "foreign"
<1>1. req.p \in Programs /\ o \in KillProcess(srv, req.p)
  BY RequestFields, ServedSame DEF Work, SameRequests
<1> QED BY <1>1, KillEffect

-----------------------------------------------------------------------------
(* The stages of a file that is sent and that nobody else is about: its .df is written, waits for the
   check, or is the file. *)

Fresh(s, f) == Exists(s, Df(f)) /\ s.m_mapNameFile[f] \in {Closed, Df(f)} /\ ~Leftovers(s, f)
Waiting(s, f) ==
  /\ Exists(s, Df(f)) /\ s.m_mapNameFile[f] = Closed
  /\ s.disk[Md5(f)] \in {NoFile, Empty, s.disk[Df(f)]}
  /\ \A j \in s.hashing : j.f = f => j.hash = s.disk[Df(f)]
Installed(s, f, v) ==
  /\ s.disk[Final(f)] = Whole(v) /\ s.disk[Df(f)] = NoFile /\ s.m_mapNameFile[f] = Closed
  /\ Unbound(s, f)

LEMMA SparedStages ==
  ASSUME NEW s, NEW t, NEW f, Spared(s, t, f)
  PROVE  /\ Fresh(s, f) => Fresh(t, f)
         /\ Waiting(s, f) => Waiting(t, f)
         /\ \A v : Installed(s, f, v) => Installed(t, f, v)
<1>1. ASSUME Fresh(s, f) PROVE Fresh(t, f)
  BY <1>1 DEF Spared, Fresh, Leftovers, Exists
<1>2. ASSUME Waiting(s, f) PROVE Waiting(t, f)
  BY <1>2 DEF Spared, Waiting, Exists
<1>3. ASSUME NEW v, Installed(s, f, v) PROVE Installed(t, f, v)
  BY <1>3 DEF Spared, Installed
<1> QED BY <1>1, <1>2, <1>3

(* SINGLE_FILE and OPEN_FILE *)
LEMMA SingleServed ==
  ASSUME MachineType(srv, Blocks), Registered(srv), NEW req, req.op = "SINGLE_FILE", req.f \in Files,
         NEW o \in Serve(req)
  PROVE  /\ Keeps(srv, o.srv) /\ ListsAlone(srv, o.srv) /\ Others(req, srv, o.srv)
         /\ o.ret \in {0, -2} /\ (o.ret = 0 /\ ~Leftovers(srv, req.f) => Fresh(o.srv, req.f))
<1> DEFINE f == req.f
<1>1. f \in Files /\ o \in RecvSingleFile(srv, f)
  BY ServedSame DEF Work, SameRequests
<1>2. Concerns(req, f)
  BY DEF Concerns
<1>3. \A g \in Files : ~Concerns(req, g) => g # f
  BY <1>2
<1> HIDE DEF f
<1>4. Singles(Blocks, srv, o, f)
  BY <1>1, SingleEffect
<1>5. Keeps(srv, o.srv) /\ ListsAlone(srv, o.srv)
  BY <1>4, AloneBySame, RegisteredBySame DEF Singles, Keeps
<1>6. \A g \in Files : g # f => Spared(srv, o.srv, g)
  BY <1>1, <1>4, SparedByOther DEF Singles
<1>7. ASSUME o.ret = 0, ~Leftovers(srv, f) PROVE Fresh(o.srv, f)
  <2>1. o.srv.disk[Df(f)] = <<>> /\ o.srv.m_mapNameFile[f] = Df(f) /\ o.srv.disk[Md5(f)] = srv.disk[Md5(f)]
        /\ o.srv.jobs = srv.jobs /\ o.srv.hashing = srv.hashing
    BY <1>4, <1>7 DEF Singles
  <2>2. <<>> # NoFile
    BY MarksAreNone, EmptySeq
  <2> QED BY <1>7, <2>1, <2>2 DEF Fresh, Leftovers, Exists
<1> QED BY <1>3, <1>4, <1>5, <1>6, <1>7 DEF Others, Singles, f

LEMMA OpenServed ==
  ASSUME MachineType(srv, Blocks), Registered(srv), NEW req, req.op = "OPEN_FILE", req.f \in Files,
         req.l \in Lists, NEW o \in Serve(req)
  PROVE  /\ Keeps(srv, o.srv) /\ Adds(srv, o.srv, req.l, req.f) /\ Others(req, srv, o.srv)
         /\ o.ret \in {0, -1} /\ (o.ret = 0 /\ ~Leftovers(srv, req.f) => Fresh(o.srv, req.f))
<1> DEFINE f == req.f
<1>1. f \in Files /\ o \in OpenAFile(srv, req.l, f)
  BY ServedSame DEF Work, SameRequests
<1>2. Concerns(req, f)
  BY DEF Concerns
<1>3. \A g \in Files : ~Concerns(req, g) => g # f
  BY <1>2
<1> HIDE DEF f
<1>4. Opens(Blocks, srv, o, f) /\ Adds(srv, o.srv, req.l, f)
  BY <1>1, OpenEffect, OpenLists
<1>5. Keeps(srv, o.srv)
  <2>1. o.srv.hashing \subseteq srv.hashing
    BY <1>4 DEF Opens
  <2> QED BY <1>4, <2>1, RegisteredBySame, FS_Subset DEF Opens, Keeps
<1>6. \A g \in Files : g # f => Spared(srv, o.srv, g)
  BY <1>1, <1>4, SparedByOther DEF Opens
<1>7. ASSUME o.ret = 0, ~Leftovers(srv, f) PROVE Fresh(o.srv, f)
  <2>1. o.srv.disk[Df(f)] = <<>> /\ o.srv.m_mapNameFile[f] = Df(f) /\ o.srv.disk[Md5(f)] = NoFile
        /\ o.srv.jobs = srv.jobs /\ o.srv.hashing \subseteq srv.hashing
    BY <1>4, <1>7 DEF Opens
  <2>2. <<>> # NoFile
    BY MarksAreNone, EmptySeq
  <2> QED BY <1>7, <2>1, <2>2 DEF Fresh, Leftovers, Exists
<1> QED BY <1>3, <1>4, <1>5, <1>6, <1>7 DEF Others, Opens, f

(* WRITE_FILE: a .df that is written stays fresh; no file is touched under its name that no FILE* is of. *)
LEMMA WriteServed ==
  ASSUME MachineType(srv, Blocks), Registered(srv), NEW req, req.op = "WRITE_FILE", req.f \in Files,
         req.data \in Seq(Blocks), NEW o \in Serve(req)
  PROVE  /\ Keeps(srv, o.srv) /\ ListsAlone(srv, o.srv) /\ Others(req, srv, o.srv)
         /\ Fresh(srv, req.f) => Fresh(o.srv, req.f)
<1> DEFINE f == req.f
           n == srv.m_mapNameFile[f]
<1>1. f \in Files /\ o \in WriteToFile(srv, f, req.data)
  BY ServedSame DEF Work, SameRequests
<1>2. \A g \in Files : ~Concerns(req, g) => g # f
  BY DEF Concerns
<1> HIDE DEF f
<1>3. Writes(Blocks, srv, o, f, req.data)
  BY <1>1, WriteFileEffect
<1>4. Keeps(srv, o.srv) /\ ListsAlone(srv, o.srv)
  BY <1>3, AloneBySame, RegisteredBySame DEF Writes, Keeps
<1>5. srv.disk \in [Names -> AnyContents(Blocks)]
  BY DEF MachineType, Machines
<1>6. \A m \in Names : m # n => o.srv.disk[m] = srv.disk[m]
  BY <1>3, <1>5 DEF Writes
<1> HIDE DEF n
<1>7. n = srv.m_mapNameFile[f] /\ n \in {Closed, Gone, Df(f)} \cup {Final(g) : g \in Files}
  BY <1>1 DEF n, MachineType, OwnFiles
<1>8. \A g \in Files : Df(g) \in Names /\ Md5(g) \in Names /\ Final(g) \in Names
  BY NameFacts
<1>9. /\ o.srv.m_mapNameFile = srv.m_mapNameFile /\ o.srv.jobs = srv.jobs /\ o.srv.hashing = srv.hashing
  BY <1>3 DEF Writes
<1>10. \A g \in Files : n # Md5(g)
  BY <1>7, <1>8, NameFacts
<1>11. ASSUME NEW g \in Files, g # f PROVE Spared(srv, o.srv, g)
  <2>1. n # Df(g)
    BY <1>7, <1>8, <1>11, NameFacts
  <2>2. Unbound(srv, g) => n # Final(g)
    BY <1>1, <1>7 DEF Unbound
  <2>3. /\ o.srv.disk[Df(g)] = srv.disk[Df(g)] /\ o.srv.disk[Md5(g)] = srv.disk[Md5(g)]
        /\ Unbound(srv, g) => o.srv.disk[Final(g)] = srv.disk[Final(g)]
    BY <1>6, <1>8, <1>10, <2>1, <2>2
  <2> QED BY <1>9, <2>3 DEF Spared, Unbound
<1>12. ASSUME Fresh(srv, f) PROVE Fresh(o.srv, f)
  <2>1. o.srv.disk[Md5(f)] = srv.disk[Md5(f)]
    BY <1>1, <1>6, <1>8, <1>10
  <2>2. Exists(o.srv, Df(f))
    <3>1. CASE o.srv.disk = srv.disk
      BY <1>12, <3>1 DEF Fresh, Exists
    <3>2. CASE n # Df(f)
      BY <1>1, <1>6, <1>8, <1>12, <3>2 DEF Fresh, Exists
    <3>3. CASE n = Df(f) /\ o.srv.disk # srv.disk
      <4>1. o.srv.disk = [srv.disk EXCEPT ![Df(f)] = Appended(srv.disk[Df(f)], req.data)]
        BY <1>3, <1>7, <3>3 DEF Writes
      <4>2. o.srv.disk[Df(f)] = Appended(srv.disk[Df(f)], req.data)
        BY <1>1, <1>5, <1>8, <4>1
      <4>3. srv.disk[Df(f)] \in Seq(Blocks)
        BY <1>1, <1>12 DEF MachineType, OwnContents, DataContents, Fresh, Exists
      <4>4. Appended(srv.disk[Df(f)], req.data) \in Seq(Blocks)
        BY <4>3, ConcatProperties DEF Appended
      <4> QED BY <4>2, <4>4, MarksAreNone DEF Exists
    <3> QED BY <3>1, <3>2, <3>3
  <2> QED BY <1>9, <1>12, <2>1, <2>2 DEF Fresh, Leftovers, Exists
<1> QED BY <1>2, <1>4, <1>11, <1>12 DEF Others, f

LEMMA CloseAnswers ==
  ASSUME NEW req, req.op = "CLOSE_FILE", NEW o \in Serve(req)
  PROVE  \/ o \in CloseAFile(srv, req.f, req.all)
         \/ o.srv = Restarted(CloseOld(srv, req.f)) /\ o.ret = 0
<1>1. CASE kind = "data"
  BY <1>1 DEF Serve, Work
<1>2. CASE kind # "data"
  <2> DEFINE t == CloseOld(srv, req.f)
  <2>1. o \in IS!CloseAFile(srv, req.f, req.all)
    BY <1>2 DEF Serve, IS!Work
  <2>2. IS!SS!CloseOld(srv, req.f) = t
    BY DEF IS!SS!CloseOld, CloseOld
  <2> HIDE DEF t
  <2>3. IS!SS!HandOver(t, req.f, req.all) = HandOver(t, req.f, req.all)
    BY DEF IS!SS!HandOver, HandOver, IS!SS!Exists, Exists, IS!SS!Rename, Rename, IS!SS!Rebind, Rebind,
       IS!SS!Df, Df, IS!SS!Final, Final, IS!SS!Answer, Answer, IS!SS!Fails, Fails
  <2>4. IS!SS!Restarted(t) = Restarted(t)
    BY DEF IS!SS!Restarted, Restarted, IS!SS!NewMachine, NewMachine, IS!SS!Process, Process, IS!SS!Names, Names
  <2>5. o \in HandOver(t, req.f, req.all) \/ o = Fails(Restarted(t), 0)
    BY <2>1, <2>2, <2>3, <2>4 DEF IS!CloseAFile, IS!SS!Fails, Fails
  <2> QED BY <2>5 DEF CloseAFile, Fails, t
<1> QED BY <1>1, <1>2

LEMMA CloseOldSpares ==
  ASSUME NEW s, MachineType(s, Blocks), NEW g \in Files
  PROVE  /\ Keeps(s, CloseOld(s, g)) /\ ListsAlone(s, CloseOld(s, g))
         /\ \A f \in Files : Spared(s, CloseOld(s, g), f)
<1> DEFINE t == CloseOld(s, g)
<1>1. FileSets(Blocks, s, t, g, Closed)
  BY CloseOldEffect
<1> HIDE DEF t
<1>2. Keeps(s, t) /\ ListsAlone(s, t)
  BY <1>1, AloneBySame, RegisteredBySame DEF FileSets, Keeps
<1>3. s.m_mapNameFile \in [Files -> Names \cup {Closed, Gone}]
  BY DEF MachineType, Machines
<1>4. \A f \in Files : t.m_mapNameFile[f] = IF f = g THEN Closed ELSE s.m_mapNameFile[f]
  BY <1>1, <1>3 DEF FileSets
<1>5. ASSUME NEW f \in Files PROVE Spared(s, t, f)
  <2>1. Final(f) # Closed
    BY NameFacts
  <2>2. Unbound(s, f) => Unbound(t, f)
    BY <1>4, <2>1 DEF Unbound
  <2> QED BY <1>1, <1>4, <1>5, <2>2 DEF FileSets, Spared
<1> QED BY <1>2, <1>5 DEF t

(* CLOSE_FILE: a fresh .df waits from then on, also when the index server dies behind its answer. *)
LEMMA CloseServed ==
  ASSUME MachineType(srv, Blocks), Registered(srv), NEW req, req.op = "CLOSE_FILE", req.f \in Files,
         req.all = TRUE, NEW o \in Serve(req)
  PROVE  /\ Keeps(srv, o.srv) /\ ListsAlone(srv, o.srv) /\ Others(req, srv, o.srv)
         /\ Fresh(srv, req.f) => Waiting(o.srv, req.f)
<1> DEFINE f == req.f
<1>1. f \in Files /\ \A g \in Files : ~Concerns(req, g) => g # f
  BY DEF Concerns
<1>2. o \in CloseAFile(srv, f, TRUE) \/ o.srv = Restarted(CloseOld(srv, f))
  BY CloseAnswers
<1> HIDE DEF f
<1>3. CASE o \in CloseAFile(srv, f, TRUE)
  <2>1. Closes(Blocks, srv, o, f, TRUE)
    BY <1>1, <1>3, CloseFileEffect
  <2>2. Keeps(srv, o.srv) /\ ListsAlone(srv, o.srv)
    BY <2>1, AloneBySame, RegisteredBySame DEF Closes, Keeps
  <2>3. srv.jobs \in Seq(Files) /\ o.srv.jobs = Append(srv.jobs, f)
    BY <2>1 DEF Closes, MachineType, Machines
  <2>4. ASSUME NEW g \in Files, g # f PROVE Spared(srv, o.srv, g)
    <3>1. Contains(o.srv.jobs, g) => Contains(srv.jobs, g)
      BY <1>1, <2>3, <2>4, ContainsAppended
    <3> QED BY <1>1, <2>1, <2>4, <3>1, SparedByOther DEF Closes
  <2>5. ASSUME Fresh(srv, f) PROVE Waiting(o.srv, f)
    <3>1. /\ o.srv.disk[Df(f)] = srv.disk[Df(f)] /\ o.srv.m_mapNameFile[f] = Closed
          /\ o.srv.disk[Md5(f)] = srv.disk[Md5(f)] /\ o.srv.hashing = srv.hashing
      BY <2>1 DEF Closes
    <3> QED BY <2>5, <3>1 DEF Fresh, Leftovers, Waiting, Exists
  <2> QED BY <1>1, <2>2, <2>4, <2>5 DEF Others, f
<1>4. CASE o.srv = Restarted(CloseOld(srv, f))
  <2> DEFINE t == CloseOld(srv, f)
             u == Restarted(t)
  <2>1. Keeps(srv, t) /\ ListsAlone(srv, t) /\ \A g \in Files : Spared(srv, t, g)
    BY <1>1, CloseOldSpares
  <2> HIDE DEF t
  <2>2. MachineType(t, Blocks)
    BY <2>1 DEF Keeps
  <2>3. Keeps(t, u) /\ ListsAlone(t, u) /\ \A g \in Files : Spared(t, u, g)
    BY <2>2, RestartedKeeps
  <2>4. u.m_mapNameFile = [g \in Files |-> Closed]
    BY <2>2, RestartedEffect
  <2>5. o.srv = u
    BY <1>4 DEF t
  <2> HIDE DEF u
  <2>6. Keeps(srv, u) /\ ListsAlone(srv, u)
    BY <2>1, <2>3, KeepsTwice, AloneTwice
  <2>7. \A g \in Files : Spared(srv, u, g)
    BY <2>1, <2>3, SparedTwice
  <2>8. ASSUME Fresh(srv, f) PROVE Waiting(u, f)
    <3>1. Fresh(u, f)
      BY <1>1, <2>7, <2>8, SparedStages
    <3> QED BY <1>1, <2>4, <3>1 DEF Fresh, Leftovers, Waiting, Exists
  <2> QED BY <2>5, <2>6, <2>7, <2>8 DEF Others, f
<1> QED BY <1>2, <1>3, <1>4

(* CHECK_MD5: what waits, and has no empty .md5, is installed or refused; what is installed stays so. *)
LEMMA CheckServed ==
  ASSUME MachineType(srv, Blocks), Registered(srv), NEW v, NEW req, req.op = "CHECK_MD5", req.f \in Files,
         req.hash = Whole(v), NEW o \in Serve(req)
  PROVE  /\ Keeps(srv, o.srv) /\ ListsAlone(srv, o.srv) /\ Others(req, srv, o.srv) /\ o.ret \in -4 .. 0
         /\ srv.disk[Md5(req.f)] # Empty /\ (Installed(srv, req.f, v) \/ Waiting(srv, req.f)) =>
              /\ Installed(o.srv, req.f, v) \/ Waiting(o.srv, req.f)
              /\ o.ret = 0 /\ o.bad # 1 => Installed(o.srv, req.f, v)
<1> DEFINE f == req.f
<1>1. f \in Files /\ o \in CheckMD5(srv, f, Whole(v))
  BY ServedSame DEF Work, SameRequests
<1>2. \A g \in Files : ~Concerns(req, g) => g # f
  BY DEF Concerns
<1> HIDE DEF f
<1>3. Checks(Blocks, srv, o, f, Whole(v))
  BY <1>1, CheckEffect
<1>4. o.srv.hashing \subseteq srv.hashing
  BY <1>3 DEF Checks
<1>5. Keeps(srv, o.srv) /\ ListsAlone(srv, o.srv)
  BY <1>3, <1>4, AloneBySame, RegisteredBySame, FS_Subset DEF Checks, Keeps
<1>6. o.srv.m_mapNameFile[f] \in {srv.m_mapNameFile[f], Closed, Gone, Df(f), Final(f)}
  BY <1>1, <1>3 DEF Checks, Becomes
<1>7. \A g \in Files : g # f => Spared(srv, o.srv, g)
  BY <1>1, <1>3, <1>4, <1>6, SparedByOther DEF Checks
<1>8. ASSUME srv.disk[Md5(f)] # Empty, Installed(srv, f, v)
      PROVE  Installed(o.srv, f, v)
  BY <1>3, <1>8 DEF Checks, Installed
<1>9. ASSUME srv.disk[Md5(f)] # Empty, Waiting(srv, f)
      PROVE  Installed(o.srv, f, v) \/ (Waiting(o.srv, f) /\ (o.ret # 0 \/ o.bad = 1))
  <2>1. srv.disk[Df(f)] # NoFile /\ TextOf(srv, f) = srv.disk[Df(f)] /\ srv.m_mapNameFile[f] = Closed
    BY <1>9 DEF Waiting, TextOf, Exists
  <2>2. srv.disk[Df(f)] # Empty
    BY <1>1, <2>1, MarksAreNone DEF MachineType, OwnContents, DataContents
  <2>3. CASE o.bad = 0 /\ srv.disk[Df(f)] = Whole(v)
    <3>1. /\ o.srv.disk[Df(f)] = NoFile /\ o.srv.disk[Final(f)] = Whole(v)
          /\ \A g \in Files : o.srv.m_mapNameFile[g] = Becomes(srv.m_mapNameFile[g], Df(f), Final(f))
      BY <1>3, <2>1, <2>2, <2>3 DEF Checks
    <3>2. Closed # Df(f) /\ Closed # Final(f) /\ Gone # Final(f)
      BY <1>1, NameFacts
    <3>3. o.srv.m_mapNameFile[f] = Closed
      BY <1>1, <2>1, <3>1, <3>2 DEF Becomes
    <3>4. \A g \in Files : srv.m_mapNameFile[g] # Df(f)
      BY <1>1, <2>1, <3>2, NameFacts DEF MachineType, OwnFiles
    <3>5. Unbound(o.srv, f)
      BY <3>1, <3>2, <3>4 DEF Unbound, Becomes
    <3> QED BY <3>1, <3>3, <3>5 DEF Installed
  <2>4. CASE o.bad = 0 /\ srv.disk[Df(f)] # Whole(v)
    <3>1. /\ o.ret = -2 /\ o.srv.disk[Df(f)] = srv.disk[Df(f)] /\ o.srv.disk[Md5(f)] = srv.disk[Df(f)]
          /\ o.srv.hashing = srv.hashing /\ o.srv.m_mapNameFile = srv.m_mapNameFile
      BY <1>3, <2>1, <2>2, <2>4 DEF Checks
    <3> QED BY <1>9, <3>1 DEF Waiting, Exists
  <2>5. CASE o.bad = 1
    <3>1. \/ o.srv = srv
          \/ /\ o.srv.disk[Df(f)] = srv.disk[Df(f)] /\ o.srv.disk[Md5(f)] = NoFile
             /\ o.srv.hashing = {j \in srv.hashing : j.f # f} /\ o.srv.m_mapNameFile = srv.m_mapNameFile
      BY <1>3, <2>5 DEF Checks
    <3> QED BY <1>9, <2>5, <3>1 DEF Waiting, Exists
  <2>6. o.bad \in {0, 1}
    BY <1>3 DEF Checks
  <2> QED BY <2>3, <2>4, <2>5, <2>6
<1> QED BY <1>2, <1>3, <1>5, <1>7, <1>8, <1>9 DEF Others, Checks, f

(* START_LST and END_LST *)
LEMMA KeepsByLists ==
  ASSUME NEW s, NEW t, ListsOnly(Blocks, s, t)
  PROVE  Keeps(s, t) /\ \A f \in Files : Spared(s, t, f)
BY RegisteredBySame, SparedBySame DEF ListsOnly, Keeps, SameFiles

LEMMA StartServed ==
  ASSUME MachineType(srv, Blocks), Registered(srv), NEW req, req.op = "START_LST", req.l \in Lists,
         NEW o \in Serve(req)
  PROVE  Keeps(srv, o.srv) /\ Continues(srv, o.srv, req.l) /\ Others(req, srv, o.srv)
<1>1. o \in CreateAList(srv, req.l)
  BY ServedSame DEF Work, SameRequests
<1>2. ListsOnly(Blocks, srv, o.srv) /\ Continues(srv, o.srv, req.l)
  BY <1>1, StartEffect, StartLists DEF Starts
<1> QED BY <1>2, KeepsByLists DEF Others

(* The index server ends a list as the data server does, and may leave a dated symbol. *)
AsClosed(p, o, l) ==
  /\ o.srv \in {p.srv, Write(p.srv, <<l, "date">>, <<>>)}
  /\ p.ret # 0 => o.ret # 0

LEMMA EndAnswers ==
  ASSUME NEW req, req.op = "END_LST", req.dated = FALSE, NEW o \in Serve(req)
  PROVE  \E p \in CloseAList(srv, req.l, FALSE) : AsClosed(p, o, req.l)
<1> USE DEF AsClosed
<1>1. CASE kind = "data"
  <2>1. o \in CloseAList(srv, req.l, FALSE)
    BY <1>1 DEF Serve, Work
  <2> QED BY <2>1
<1>2. CASE kind # "data"
  <2> DEFINE l == req.l
             t == [srv EXCEPT !.m_mapList[l] = Closed]
             u == Rename(t, DfTmp(l), Final(l))
  <2>1. o \in IS!CloseAList(srv, l)
    BY <1>2 DEF Serve, IS!Work
  <2>2. /\ IS!SS!Exists(t, IS!SS!DfTmp(l)) = Exists(t, DfTmp(l))
        /\ IS!SS!Rename(t, IS!SS!DfTmp(l), IS!SS!Final(l)) = u
    BY DEF IS!SS!Exists, Exists, IS!SS!DfTmp, DfTmp, IS!SS!Final, Final, IS!SS!Rename, Rename, IS!SS!Rebind, Rebind
  <2>3. \A v, c, n : IS!SS!Write(v, n, c) = Write(v, n, c)
    BY DEF IS!SS!Write, Write
  <2>4. IF srv.m_mapList[l] = Closed THEN o = Answer(srv, -2)
        ELSE IF Exists(t, DfTmp(l)) THEN o \in {Answer(Write(u, <<l, "date">>, <<>>), 0), Fails(u, -1)}
        ELSE o \in {Answer(Write(t, <<l, "date">>, <<>>), -1), Fails(t, -1)}
    <3> HIDE DEF u
    <3>1. t = [srv EXCEPT !.m_mapList[l] = Closed]
      OBVIOUS
    <3> HIDE DEF t
    <3>2. o \in IF srv.m_mapList[l] = Closed THEN {IS!SS!Answer(srv, -2)}
                ELSE IF IS!SS!Exists(t, IS!SS!DfTmp(l))
                THEN {IS!SS!Answer(IS!SS!Write(IS!SS!Rename(t, IS!SS!DfTmp(l), IS!SS!Final(l)), <<l, "date">>, <<>>), 0),
                      IS!SS!Fails(IS!SS!Rename(t, IS!SS!DfTmp(l), IS!SS!Final(l)), -1)}
                ELSE {IS!SS!Answer(IS!SS!Write(t, <<l, "date">>, <<>>), -1), IS!SS!Fails(t, -1)}
      BY <2>1, <3>1 DEF IS!CloseAList
    <3> QED BY <2>2, <2>3, <3>2 DEF IS!SS!Answer, Answer, IS!SS!Fails, Fails
  <2>5. CloseAList(srv, l, FALSE) =
          {IF srv.m_mapList[l] = Closed THEN Answer(srv, -2)
           ELSE IF ~Exists(t, DfTmp(l)) THEN Answer(t, -1) ELSE Answer(u, 0)}
    BY DEF CloseAList
  <2> DEFINE p == IF srv.m_mapList[l] = Closed THEN Answer(srv, -2)
                  ELSE IF ~Exists(t, DfTmp(l)) THEN Answer(t, -1) ELSE Answer(u, 0)
  <2> HIDE DEF t, u
  <2>6. p \in CloseAList(srv, l, FALSE)
    BY <2>5
  <2>7. CASE srv.m_mapList[l] = Closed
    <3>1. o = p
      BY <2>4, <2>7
    <3> QED BY <2>6, <3>1
  <2>8. CASE srv.m_mapList[l] # Closed /\ Exists(t, DfTmp(l))
    <3>1. p.srv = u /\ p.ret = 0 /\ o.srv \in {u, Write(u, <<l, "date">>, <<>>)}
      BY <2>4, <2>8 DEF Answer, Fails
    <3> HIDE DEF p
    <3> QED BY <2>6, <3>1
  <2>9. CASE srv.m_mapList[l] # Closed /\ ~Exists(t, DfTmp(l))
    <3>1. p.srv = t /\ o.ret = -1 /\ o.srv \in {t, Write(t, <<l, "date">>, <<>>)}
      BY <2>4, <2>9 DEF Answer, Fails
    <3>2. o.ret # 0
      BY <3>1
    <3> HIDE DEF p
    <3> QED BY <2>6, <3>1, <3>2
  <2> QED BY <2>7, <2>8, <2>9
<1> QED BY <1>1, <1>2

LEMMA DateWritten ==
  ASSUME NEW s, MachineType(s, Blocks), NEW l \in Lists
  PROVE  ListsOnly(Blocks, s, Write(s, <<l, "date">>, <<>>)) /\ ListsAlone(s, Write(s, <<l, "date">>, <<>>))
<1>1. <<l, "date">> \in ListNames /\ <<l, "date">> \in Names /\ <<>> \in NameContents /\ <<>> \in AnyContents(Blocks)
  BY NameFacts, EmptySeq DEF NameContents, AnyContents
<1>2. s \in Machines(Blocks)
  BY DEF MachineType
<1> DEFINE t == Write(s, <<l, "date">>, <<>>)
<1>3. t = Write(s, <<l, "date">>, <<>>) /\ ListsOnly(Blocks, s, t)
  BY <1>1, ListWriteOnly
<1> HIDE DEF t
<1>4. t.disk = [s.disk EXCEPT ![<<l, "date">>] = <<>>]
  BY <1>1, <1>2, <1>3, WriteEffect
<1>5. \A n \in Names : n # <<l, "date">> => t.disk[n] = s.disk[n]
  BY <1>2, <1>4 DEF Machines
<1>6. ListsAlone(s, t)
  BY <1>5, ListNamesDiffer DEF ListsAlone, SameNames
<1> QED BY <1>3, <1>6

LEMMA EndServed ==
  ASSUME MachineType(srv, Blocks), Registered(srv), NEW req, req.op = "END_LST", req.l \in Lists,
         req.dated = FALSE, NEW o \in Serve(req)
  PROVE  /\ Keeps(srv, o.srv) /\ Others(req, srv, o.srv)
         /\ Ended(srv, o.srv, req.l) \/ (ListsAlone(srv, o.srv) /\ o.ret # 0)
<1>1. PICK p \in CloseAList(srv, req.l, FALSE) : AsClosed(p, o, req.l)
  BY EndAnswers
<1>2. /\ o.srv \in {p.srv, Write(p.srv, <<req.l, "date">>, <<>>)}
      /\ p.ret # 0 => o.ret # 0
  BY <1>1 DEF AsClosed
<1>3. ListsOnly(Blocks, srv, p.srv)
  <2>1. PICK dated \in BOOLEAN : dated = FALSE
    OBVIOUS
  <2>2. p \in CloseAList(srv, req.l, dated)
    BY <2>1
  <2> QED BY <2>2, EndEffect
<1>4. Ended(srv, p.srv, req.l) \/ (p.ret # 0 /\ ListsAlone(srv, p.srv))
  <2>1. Ended(srv, p.srv, req.l) \/ (p.ret # 0 /\ p.srv.disk = srv.disk)
    BY EndLists
  <2> QED BY <2>1, AloneByDisk
<1>5. ListsOnly(Blocks, p.srv, o.srv) /\ ListsAlone(p.srv, o.srv)
  <2>1. MachineType(p.srv, Blocks)
    BY <1>3 DEF ListsOnly
  <2>2. ListsOnly(Blocks, p.srv, p.srv) /\ ListsAlone(p.srv, p.srv)
    BY <2>1, KeepsItself DEF ListsOnly, SameFiles, SameRest
  <2> QED BY <1>2, <2>1, <2>2, DateWritten
<1>6. ListsOnly(Blocks, srv, o.srv)
  BY <1>3, <1>5, ListsAgain
<1>7. Keeps(srv, o.srv) /\ Others(req, srv, o.srv)
  BY <1>6, KeepsByLists DEF Others
<1>8. Ended(srv, p.srv, req.l) => Ended(srv, o.srv, req.l)
  BY <1>5 DEF Ended, ListsAlone, OtherLists, SameNames
<1>9. p.ret # 0 /\ ListsAlone(srv, p.srv) => o.ret # 0 /\ ListsAlone(srv, o.srv)
  BY <1>2, <1>5, AloneTwice
<1> QED BY <1>4, <1>7, <1>8, <1>9

-----------------------------------------------------------------------------
(* What the machine does on its own: no stage of a file is left. *)

StageKept(s, t, f) ==
  /\ Fresh(s, f) => Fresh(t, f)
  /\ Waiting(s, f) => Waiting(t, f)
  /\ \A v : Installed(s, f, v) => Installed(t, f, v)

LEMMA StagesBySpared ==
  ASSUME NEW s, NEW t, NEW f, Spared(s, t, f)
  PROVE  StageKept(s, t, f)
BY SparedStages DEF StageKept

LEMMA ReadsKeeps ==
  ASSUME NEW s, MachineType(s, Blocks), s.jobs # <<>>
  PROVE  /\ Keeps(s, Md5Reads(s)) /\ ListsAlone(s, Md5Reads(s))
         /\ \A f \in Files : StageKept(s, Md5Reads(s), f)
<1> DEFINE t == Md5Reads(s)
           h == Head(s.jobs)
<1>1. Reads(Blocks, s, t) /\ s.jobs \in Seq(Files)
  BY ReadsEffect DEF MachineType, Machines
<1> HIDE DEF t
<1>2. h \in Files /\ Contains(s.jobs, h)
  BY <1>1, ContainsFirst DEF Reads
<1>3. t.hashing = s.hashing \/ t.hashing = s.hashing \cup {[f |-> h, hash |-> s.disk[Df(h)]]}
  BY <1>1 DEF Reads
<1>4. Keeps(s, t) /\ ListsAlone(s, t)
  <2>1. IsFiniteSet(s.hashing) => IsFiniteSet(t.hashing)
    BY <1>3, FS_AddElement
  <2> QED BY <1>1, <2>1, AloneBySame, RegisteredBySame DEF Reads, Keeps
<1>5. ASSUME NEW f \in Files, f # h PROVE StageKept(s, t, f)
  <2>1. Contains(t.jobs, f) => Contains(s.jobs, f)
    BY <1>1, ContainsRest DEF Reads
  <2>2. \A j \in t.hashing : j.f = f => j \in s.hashing
    BY <1>3, <1>5
  <2>3. SameOthers(s, t, h) /\ t.m_mapNameFile = s.m_mapNameFile
    BY <1>1 DEF Reads
  <2>4. Spared(s, t, f)
    BY <1>2, <1>5, <2>1, <2>2, <2>3, SparedByOther
  <2> QED BY <2>4, StagesBySpared
<1>6. StageKept(s, t, h)
  <2>1. /\ t.m_mapNameFile = s.m_mapNameFile /\ t.disk[Df(h)] = s.disk[Df(h)] /\ t.disk[Final(h)] = s.disk[Final(h)]
    BY <1>1 DEF Reads
  <2>2. ~Fresh(s, h)
    BY <1>2 DEF Fresh, Leftovers
  <2>3. ASSUME Waiting(s, h) PROVE Waiting(t, h)
    <3>1. t.disk[Md5(h)] = Empty
      BY <1>1, <2>3 DEF Reads, Waiting, Exists
    <3>2. \A j \in t.hashing : j.f = h => j.hash = s.disk[Df(h)]
      BY <1>3, <2>3 DEF Waiting
    <3> QED BY <2>1, <2>3, <3>1, <3>2 DEF Waiting, Exists
  <2>4. ASSUME NEW v, Installed(s, h, v) PROVE Installed(t, h, v)
    BY <2>1, <2>4 DEF Installed, Unbound
  <2> QED BY <2>2, <2>3, <2>4 DEF StageKept
<1> QED BY <1>4, <1>5, <1>6 DEF t

LEMMA WritesKeeps ==
  ASSUME NEW s, MachineType(s, Blocks), NEW j \in s.hashing
  PROVE  /\ Keeps(s, Md5Writes(s, j)) /\ ListsAlone(s, Md5Writes(s, j))
         /\ \A f \in Files : StageKept(s, Md5Writes(s, j), f)
<1> DEFINE t == Md5Writes(s, j)
           h == j.f
<1>1. TextWritten(Blocks, s, t, j)
  BY WritesEffect
<1> HIDE DEF t
<1>2. h \in Files /\ t.hashing \subseteq s.hashing /\ t.jobs = s.jobs /\ t.m_mapNameFile = s.m_mapNameFile
  BY <1>1 DEF TextWritten
<1>3. Keeps(s, t) /\ ListsAlone(s, t)
  BY <1>1, <1>2, FS_Subset, AloneBySame, RegisteredBySame DEF TextWritten, Keeps
<1>4. ASSUME NEW f \in Files, f # h PROVE StageKept(s, t, f)
  <2>1. SameOthers(s, t, h)
    BY <1>1 DEF TextWritten
  <2>2. Spared(s, t, f)
    BY <1>2, <1>4, <2>1, SparedByOther
  <2> QED BY <2>2, StagesBySpared
<1>5. StageKept(s, t, h)
  <2>1. /\ t.disk[Df(h)] = s.disk[Df(h)] /\ t.disk[Final(h)] = s.disk[Final(h)] /\ t.disk[Md5(h)] = j.hash
    BY <1>1 DEF TextWritten
  <2>2. ~Fresh(s, h)
    BY DEF Fresh, Leftovers
  <2>3. ASSUME Waiting(s, h) PROVE Waiting(t, h)
    BY <1>2, <2>1, <2>3 DEF Waiting, Exists
  <2>4. ASSUME NEW v, Installed(s, h, v) PROVE Installed(t, h, v)
    BY <1>2, <2>1, <2>4 DEF Installed, Unbound
  <2> QED BY <2>2, <2>3, <2>4 DEF StageKept
<1> QED BY <1>3, <1>4, <1>5 DEF t

-----------------------------------------------------------------------------
(* The clients on their own. *)

Versions == UNION {x.versions : x \in Sessions}
Stages == {"idle", "one", "single", "start", "open", "write", "close", "check", "end"}
ClientStates ==
  [at : Stages, ret : Int, cmd : Commands \cup {[op |-> "none"]}, v : Versions \cup {0}, k : Nat,
   i : 1 .. MaxChunks, broke : BOOLEAN, clean : BOOLEAN]

(* Which requests each command makes. *)
StagesOf(op) ==
  {y \in {"one"} : op = "one"}
    \cup {y \in {"single", "write", "close", "check"} : op = "sendFile"}
    \cup {y \in {"start", "open", "write", "close", "check", "end"} : op = "sendList"}
    \cup {y \in {"check"} : op = "checkMD5"}

Sane(x) ==
  /\ x \in ClientStates
  /\ x.at # "idle" =>
       /\ x.cmd \in Commands /\ x.v \in Versions /\ x.at \in StagesOf(x.cmd.op)
       /\ x.cmd.op = "sendList" => x.k \in 1 .. Len(x.cmd.files)

LEMMA CommandFields ==
  ASSUME NEW cmd \in Commands
  PROVE  /\ cmd.op \in {"one", "sendFile", "checkMD5", "sendList"}
         /\ cmd.op = "one" => cmd.req \in Requests
         /\ cmd.op \in {"sendFile", "checkMD5"} => cmd.f \in Files
         /\ cmd.op = "sendList" =>
              /\ cmd.l \in Lists /\ cmd.files \in Seq(Files) /\ Len(cmd.files) \in Nat \ {0}
              /\ \A j \in 1 .. Len(cmd.files) : cmd.files[j] \in Files
<1>1. /\ cmd.op \in {"one", "sendFile", "checkMD5", "sendList"}
      /\ cmd.op = "one" => cmd.req \in Requests
      /\ cmd.op \in {"sendFile", "checkMD5"} => cmd.f \in Files
      /\ cmd.op = "sendList" => cmd.l \in Lists /\ cmd.files \in Seq(Files) \ {<<>>}
  BY DEF Commands
<1>2. \A q \in Seq(Files) \ {<<>>} : Len(q) \in Nat \ {0} /\ \A j \in 1 .. Len(q) : q[j] \in Files
  BY EmptySeq, ElementOfSeq
<1> QED BY <1>1, <1>2

LEMMA SaneFacts ==
  ASSUME NEW x, Sane(x), x.at # "idle"
  PROVE  /\ x.cmd \in Commands
         /\ x.at = "one" <=> x.cmd.op = "one"
         /\ x.at \in {"single"} => x.cmd.op = "sendFile"
         /\ x.at \in {"start", "open", "end"} => x.cmd.op = "sendList"
         /\ x.at \in {"write", "close"} => x.cmd.op \in {"sendFile", "sendList"}
         /\ x.at # "one" => x.cmd.op \in {"sendFile", "sendList", "checkMD5"}
         /\ x.at \notin {"one", "start", "end"} => FileOf(x) \in Files
         /\ x.cmd.op = "sendList" =>
              /\ x.cmd.l \in Lists /\ x.k \in 1 .. Len(x.cmd.files) /\ FileOf(x) = x.cmd.files[x.k]
              /\ \A j \in 1 .. Len(x.cmd.files) : x.cmd.files[j] \in Files /\ Sends(x, x.cmd.files[j])
         /\ x.cmd.op \in {"sendFile", "checkMD5"} => x.cmd.f \in Files /\ FileOf(x) = x.cmd.f /\ Sends(x, x.cmd.f)
<1>1. /\ x.cmd \in Commands /\ x.at \in StagesOf(x.cmd.op)
      /\ x.cmd.op = "sendList" => x.k \in 1 .. Len(x.cmd.files)
  BY DEF Sane
<1>2. /\ x.at = "one" <=> x.cmd.op = "one"
      /\ x.at \in {"single"} => x.cmd.op = "sendFile"
      /\ x.at \in {"start", "open", "end"} => x.cmd.op = "sendList"
      /\ x.at \in {"write", "close"} => x.cmd.op \in {"sendFile", "sendList"}
      /\ x.at # "one" => x.cmd.op \in {"sendFile", "sendList", "checkMD5"}
  BY <1>1 DEF StagesOf
<1>3. x.cmd.op = "sendList" =>
              /\ x.cmd.l \in Lists /\ x.k \in 1 .. Len(x.cmd.files) /\ FileOf(x) = x.cmd.files[x.k]
              /\ \A j \in 1 .. Len(x.cmd.files) : x.cmd.files[j] \in Files /\ Sends(x, x.cmd.files[j])
  BY <1>1, CommandFields DEF FileOf, Sends, Contains
<1>4. x.cmd.op \in {"sendFile", "checkMD5"} => x.cmd.f \in Files /\ FileOf(x) = x.cmd.f /\ Sends(x, x.cmd.f)
  BY <1>1, CommandFields DEF FileOf, Sends
<1> HIDE DEF Sane
<1> QED BY <1>1, <1>2, <1>3, <1>4

LEMMA RequestAt ==
  ASSUME NEW x, Sane(x), x.at # "idle"
  PROVE  /\ x.at = "one" => Request(x) \in Requests /\ Request(x) = x.cmd.req
         /\ x.at = "single" => Request(x).op = "SINGLE_FILE" /\ Request(x).f = FileOf(x)
         /\ x.at = "start" => Request(x).op = "START_LST" /\ Request(x).l = x.cmd.l
         /\ x.at = "open" => Request(x).op = "OPEN_FILE" /\ Request(x).l = x.cmd.l /\ Request(x).f = FileOf(x)
         /\ x.at = "write" => /\ Request(x).op = "WRITE_FILE" /\ Request(x).f = FileOf(x)
                              /\ Request(x).data \in Seq(Blocks)
         /\ x.at = "close" => Request(x).op = "CLOSE_FILE" /\ Request(x).f = FileOf(x) /\ Request(x).all = TRUE
         /\ x.at = "check" => Request(x).op = "CHECK_MD5" /\ Request(x).f = FileOf(x) /\ Request(x).hash = Whole(x.v)
         /\ x.at = "end" => Request(x).op = "END_LST" /\ Request(x).l = x.cmd.l /\ Request(x).dated = FALSE
<1>1. x.at = "one" => Request(x) \in Requests /\ Request(x) = x.cmd.req
  BY SaneFacts, CommandFields DEF Request
<1>2. x.at = "single" => Request(x).op = "SINGLE_FILE" /\ Request(x).f = FileOf(x)
  BY SaneFacts DEF Request
<1>3. x.at = "write" => Request(x).data \in Seq(Blocks)
  <2>1. <<x.v, x.i>> \in Blocks
    BY DEF Sane, ClientStates, Blocks, Data, Versions
  <2>2. x.at = "write" => Request(x).data = <<<<x.v, x.i>>>>
    BY DEF Request
  <2> QED BY <2>1, <2>2
<1>4. /\ x.at = "start" => Request(x).op = "START_LST" /\ Request(x).l = x.cmd.l
      /\ x.at = "open" => Request(x).op = "OPEN_FILE" /\ Request(x).l = x.cmd.l /\ Request(x).f = FileOf(x)
      /\ x.at = "write" => Request(x).op = "WRITE_FILE" /\ Request(x).f = FileOf(x)
      /\ x.at = "close" => Request(x).op = "CLOSE_FILE" /\ Request(x).f = FileOf(x) /\ Request(x).all = TRUE
      /\ x.at = "check" => Request(x).op = "CHECK_MD5" /\ Request(x).f = FileOf(x) /\ Request(x).hash = Whole(x.v)
      /\ x.at = "end" => Request(x).op = "END_LST" /\ Request(x).l = x.cmd.l /\ Request(x).dated = FALSE
  BY DEF Request
<1> QED BY <1>1, <1>2, <1>3, <1>4

(* Where a client is after an answer, or without one. *)
Stopped(y, ret) == y.at = "idle" /\ y.ret = ret /\ y.cmd.op = "none"
Moved(x, y, at) ==
  y.at = at /\ y.cmd = x.cmd /\ y.v = x.v /\ y.clean = x.clean
Done(x, y, ret) ==
  \/ x.cmd.op # "sendList" /\ Stopped(y, ret)
  \/ x.cmd.op = "sendList" /\ ret = 0 /\ x.k < Len(x.cmd.files) /\ Moved(x, y, "open") /\ y.k = x.k + 1
  \/ /\ x.cmd.op = "sendList" /\ (ret = 0 => x.k = Len(x.cmd.files)) /\ Moved(x, y, "end") /\ y.k = x.k
     /\ y.broke = (ret # 0)

LEMMA IdleSane ==
  ASSUME NEW ret \in Int
  PROVE  Sane(Idle(ret)) /\ Stopped(Idle(ret), ret)
<1>1. 1 \in 1 .. MaxChunks
  BY WorkClientAssumption
<1>2. Idle(ret) \in ClientStates
  BY <1>1 DEF Idle, ClientStates, Stages
<1> QED BY <1>2 DEF Idle, Sane, Stopped

LEMMA FileDoneEffect ==
  ASSUME NEW x, Sane(x), x.at \in {"single", "open", "close", "check"}, NEW ret \in Int,
         NEW y, y = FileDone(x, ret)
  PROVE  Sane(y) /\ Done(x, y, ret)
<1>1. x \in ClientStates /\ x.cmd \in Commands /\ x.v \in Versions /\ x.at \in StagesOf(x.cmd.op)
  BY DEF Sane
<1>2. x.cmd.op = "sendList" => x.k \in 1 .. Len(x.cmd.files) /\ Len(x.cmd.files) \in Nat
  BY <1>1, CommandFields DEF Sane
<1>3. CASE x.cmd.op # "sendList"
  BY <1>3, IdleSane DEF FileDone, Done
<1>4. CASE x.cmd.op = "sendList" /\ ret = 0 /\ x.k < Len(x.cmd.files)
  <2>1. y = [x EXCEPT !.at = "open", !.k = x.k + 1, !.i = 1]
    BY <1>4 DEF FileDone
  <2>2. 1 \in 1 .. MaxChunks /\ x.k + 1 \in Nat /\ x.k + 1 \in 1 .. Len(x.cmd.files)
    BY <1>2, <1>4, WorkClientAssumption
  <2>3. y \in ClientStates /\ Moved(x, y, "open") /\ y.k = x.k + 1
    BY <1>1, <2>1, <2>2 DEF ClientStates, Stages, Moved
  <2>4. y.at \in StagesOf(y.cmd.op)
    BY <1>4, <2>3 DEF Moved, StagesOf
  <2> QED BY <1>1, <1>4, <2>2, <2>3, <2>4 DEF Sane, Moved, Done
<1>5. CASE x.cmd.op = "sendList" /\ ~(ret = 0 /\ x.k < Len(x.cmd.files))
  <2>1. y = [x EXCEPT !.at = "end", !.broke = ret # 0]
    BY <1>5 DEF FileDone
  <2>2. ret = 0 => x.k = Len(x.cmd.files)
    BY <1>2, <1>5
  <2>3. y \in ClientStates /\ Moved(x, y, "end") /\ y.k = x.k /\ y.broke = (ret # 0)
    BY <1>1, <2>1 DEF ClientStates, Stages, Moved
  <2>4. y.at \in StagesOf(y.cmd.op)
    BY <1>5, <2>3 DEF Moved, StagesOf
  <2> QED BY <1>1, <1>2, <1>5, <2>2, <2>3, <2>4 DEF Sane, Moved, Done
<1> QED BY <1>3, <1>4, <1>5

LEMMA StageSet ==
  ASSUME NEW x, Sane(x), x.at # "idle", NEW at \in Stages, at \in StagesOf(x.cmd.op),
         NEW y, y = [x EXCEPT !.at = at]
  PROVE  Sane(y) /\ Moved(x, y, at) /\ y.k = x.k /\ y.broke = x.broke
<1>1. y \in ClientStates /\ Moved(x, y, at) /\ y.k = x.k /\ y.broke = x.broke
  BY DEF Sane, ClientStates, Moved
<1> QED BY <1>1 DEF Sane, Moved

LEMMA AfterEffect ==
  ASSUME NEW x, Sane(x), x.at # "idle", NEW ret \in Int, NEW noAnswer \in BOOLEAN,
         NEW y, y = After(x, ret, noAnswer)
  PROVE  /\ Sane(y)
         /\ x.at = "one" => Stopped(y, ret)
         /\ x.at = "start" => IF ret = 0 THEN Moved(x, y, "open") /\ y.k = x.k ELSE Stopped(y, ret)
         /\ x.at \in {"single", "open"} =>
              IF ret = 0 THEN Moved(x, y, "write") /\ y.k = x.k ELSE Done(x, y, ret)
         /\ x.at = "write" => (Moved(x, y, "write") \/ Moved(x, y, "close")) /\ y.k = x.k
         /\ x.at = "close" => IF ret = 0 THEN Moved(x, y, "check") /\ y.k = x.k ELSE Done(x, y, ret)
         /\ x.at = "check" => IF noAnswer THEN y = x ELSE Done(x, y, ret)
         /\ x.at = "end" => Stopped(y, ret)
<1>1. CASE x.at \in {"one", "end"}
  BY <1>1, IdleSane DEF After
<1>2. CASE x.at = "start"
  <2>1. x.cmd.op = "sendList"
    BY <1>2, SaneFacts
  <2>2. ret = 0 => y = [x EXCEPT !.at = "open"]
    BY <1>2 DEF After
  <2>3. ret # 0 => y = Idle(ret)
    BY <1>2 DEF After
  <2>4. "open" \in Stages /\ "open" \in StagesOf(x.cmd.op)
    BY <2>1 DEF Stages, StagesOf
  <2> QED BY <1>2, <2>2, <2>3, <2>4, StageSet, IdleSane
<1>3. CASE x.at \in {"single", "open"}
  <2>1. x.cmd.op \in {"sendFile", "sendList"}
    BY <1>3, SaneFacts
  <2>2. ret = 0 => y = [x EXCEPT !.at = "write"]
    BY <1>3 DEF After
  <2>3. ret # 0 => y = FileDone(x, ret)
    BY <1>3 DEF After
  <2>4. "write" \in Stages /\ "write" \in StagesOf(x.cmd.op)
    BY <2>1 DEF Stages, StagesOf
  <2> QED BY <1>3, <2>2, <2>3, <2>4, StageSet, FileDoneEffect
<1>4. CASE x.at = "write"
  <2>1. x.cmd.op \in {"sendFile", "sendList"}
    BY <1>4, SaneFacts
  <2>2. CASE ret = 0 /\ x.i < MaxChunks
    <3>1. y = [x EXCEPT !.i = x.i + 1]
      BY <1>4, <2>2 DEF After
    <3>2. x.i + 1 \in 1 .. MaxChunks
      BY <2>2, WorkClientAssumption DEF Sane, ClientStates
    <3>3. y \in ClientStates /\ Moved(x, y, "write") /\ y.k = x.k
      BY <1>4, <3>1, <3>2 DEF Sane, ClientStates, Moved
    <3> QED BY <1>4, <3>3 DEF Sane, Moved
  <2>3. CASE ~(ret = 0 /\ x.i < MaxChunks)
    <3>1. y = [x EXCEPT !.at = "close"]
      BY <1>4, <2>3 DEF After
    <3>2. "close" \in Stages /\ "close" \in StagesOf(x.cmd.op)
      BY <2>1 DEF Stages, StagesOf
    <3> QED BY <1>4, <3>1, <3>2, StageSet
  <2> QED BY <2>2, <2>3
<1>5. CASE x.at = "close"
  <2>1. x.cmd.op \in {"sendFile", "sendList"}
    BY <1>5, SaneFacts
  <2>2. ret = 0 => y = [x EXCEPT !.at = "check"]
    BY <1>5 DEF After
  <2>3. ret # 0 => y = FileDone(x, ret)
    BY <1>5 DEF After
  <2>4. "check" \in Stages /\ "check" \in StagesOf(x.cmd.op)
    BY <2>1 DEF Stages, StagesOf
  <2> QED BY <1>5, <2>2, <2>3, <2>4, StageSet, FileDoneEffect
<1>6. CASE x.at = "check"
  <2>1. y = IF noAnswer THEN x ELSE FileDone(x, ret)
    BY <1>6 DEF After
  <2> QED BY <1>6, <2>1, FileDoneEffect
<1>7. x.at \in Stages
  BY DEF Sane, ClientStates
<1> QED BY <1>1, <1>2, <1>3, <1>4, <1>5, <1>6, <1>7 DEF Stages

(* A client that meets another one is the same, but may not be clean any more. *)
Same(x, y) ==
  /\ y.at = x.at /\ y.ret = x.ret /\ y.cmd = x.cmd /\ y.v = x.v /\ y.k = x.k /\ y.broke = x.broke

LEMMA CleanSet ==
  ASSUME NEW x, Sane(x), NEW b \in BOOLEAN, NEW y, y = [x EXCEPT !.clean = b]
  PROVE  Sane(y) /\ Same(x, y) /\ y.clean = b
<1>1. y \in ClientStates /\ Same(x, y) /\ y.clean = b
  BY DEF Sane, ClientStates, Same
<1> QED BY <1>1 DEF Sane, Same

Meets(c, req, y, m) ==
  /\ \A d \in Clients : Sane(m[d])
  /\ m \in [Clients -> ClientStates]
  /\ Same(y, m[c]) /\ (m[c].at # "idle" /\ m[c].clean => StaysClean(cl[c], req))
  /\ \A d \in Clients \ {c} :
       /\ Same(cl[d], m[d])
       /\ m[d].clean => cl[d].clean /\ \A f \in Files : Sends(cl[d], f) => ~Concerns(req, f)

LEMMA MeetEffect ==
  ASSUME \A d \in Clients : Sane(cl[d]), NEW c \in Clients, NEW req, NEW y, Sane(y)
  PROVE  Meets(c, req, y, Meet(c, req, y))
<1> DEFINE together(d) == d # c /\ \E f \in Files : Concerns(req, f) /\ Sends(cl[d], f)
           alone == \A d \in Clients : ~together(d)
           m == Meet(c, req, y)
           own == IF y.at = "idle" THEN y ELSE [y EXCEPT !.clean = alone /\ StaysClean(cl[c], req)]
<1>1. m = [d \in Clients |-> IF d = c THEN own ELSE IF together(d) THEN [cl[d] EXCEPT !.clean = FALSE] ELSE cl[d]]
  BY DEF Meet
<1>2. Sane(own) /\ Same(y, own) /\ (own.at # "idle" /\ own.clean => StaysClean(cl[c], req))
  <2> DEFINE b == alone /\ StaysClean(cl[c], req)
  <2>1. b \in BOOLEAN /\ (b => StaysClean(cl[c], req))
    OBVIOUS
  <2>2. own = IF y.at = "idle" THEN y ELSE [y EXCEPT !.clean = b]
    OBVIOUS
  <2> HIDE DEF b, own
  <2>3. CASE y.at = "idle"
    BY <2>2, <2>3 DEF Same
  <2>4. CASE y.at # "idle"
    <3>1. Sane(own) /\ Same(y, own) /\ own.clean = b
      BY <2>1, <2>2, <2>4, CleanSet
    <3> QED BY <2>1, <3>1
  <2> QED BY <2>3, <2>4
<1> HIDE DEF own, m
<1>3. ASSUME NEW d \in Clients, d # c
      PROVE  /\ Sane(m[d]) /\ Same(cl[d], m[d])
             /\ m[d].clean => cl[d].clean /\ \A f \in Files : Sends(cl[d], f) => ~Concerns(req, f)
  <2>1. CASE together(d)
    <3>1. m[d] = [cl[d] EXCEPT !.clean = FALSE]
      BY <1>1, <1>3, <2>1
    <3> QED BY <3>1, CleanSet
  <2>2. CASE ~together(d)
    <3>1. m[d] = cl[d]
      BY <1>1, <1>3, <2>2
    <3> QED BY <1>3, <2>2, <3>1 DEF Same
  <2> QED BY <2>1, <2>2
<1>4. m[c] = own
  BY <1>1
<1>5. \A d \in Clients : Sane(m[d])
  BY <1>2, <1>3, <1>4
<1>6. m \in [Clients -> ClientStates]
  BY <1>1, <1>5 DEF Sane
<1> QED BY <1>2, <1>3, <1>4, <1>5, <1>6 DEF Meets, m

-----------------------------------------------------------------------------
(* A request that is served. *)

LEMMA NumbersAnswered ==
  ASSUME MachineType(srv, Blocks), NEW x, Sane(x), x.at # "idle", NEW o \in Serve(Request(x))
  PROVE  o.ret \in Int
<1> DEFINE req == Request(x)
<1>0. o \in Serve(req)
  OBVIOUS
<1>1. CASE x.at = "one"
  <2>1. req \in Requests
    BY <1>1, RequestAt
  <2> HIDE DEF req
  <2>2. CASE req.op = "CREATE_FILE"
    <3>1. PICK f \in Files : req.n = Final(f)
      BY <2>1, <2>2, RequestFields
    <3>2. req.data \in Seq(Blocks)
      BY <2>1, <2>2, RequestFields, GarbageIsABlock
    <3>3. o \in CreateAFile(srv, Final(f), req.data)
      BY <1>0, <2>2, <3>1, ServedSame DEF Work, SameRequests
    <3>4. o.ret \in Nat \cup {-1}
      BY <3>2, <3>3, CreateEffect, GarbageIsABlock
    <3> QED BY <3>4
  <2>3. CASE req.op = "FILE_CHMOD"
    <3>1. \A p \in Work(srv, req) : p.ret \in Int
      BY <2>3 DEF Work, FileChmod, Answer, Fails
    <3>2. \A p \in IS!Work(srv, req) : p.ret \in Int
      BY <2>3 DEF IS!Work, IS!FileChmod, IS!SS!Answer, IS!SS!Fails
    <3>3. o \in Work(srv, req) \/ o \in IS!Work(srv, req)
      BY <1>0 DEF Serve
    <3> QED BY <3>1, <3>2, <3>3
  <2>4. CASE req.op \in {"CHECK_FILE", "DEL_FILE", "RENAME_FILE"}
    <3>1. o \in Work(srv, req)
      BY <1>0, <2>4, ServedSame DEF SameRequests
    <3>2. o \in CheckAFile(srv, req.n) \/ o \in RemoveFile(srv, req.n) \/ o \in RenameFile(srv, req.n, req.to)
      BY <2>4, <3>1 DEF Work
    <3> QED BY <3>2 DEF CheckAFile, RemoveFile, RenameFile, Answer
  <2>5. CASE req.op \in {"GET_FILE_MD5", "RPC_SHELL"}
    <3>1. o \in Work(srv, req)
      BY <1>0, <2>5, ServedSame DEF SameRequests
    <3>2. o \in GetFileMD5(srv, req.f) \/ o \in RPCShell(srv)
      BY <2>5, <3>1 DEF Work
    <3> QED BY <3>2 DEF GetFileMD5, RPCShell, Answer, Fails
  <2>6. CASE req.op = "KILL_PROCESS"
    <3>1. o \in KillProcess(srv, req.p)
      BY <1>0, <2>6, ServedSame DEF Work, SameRequests
    <3> QED BY <3>1 DEF KillProcess, Answer
  <2>7. CASE req.op = "EXEC_PROCESS"
    <3>1. o \in ExecProcess(srv, req.p) /\ req.p \in Programs
      BY <1>0, <2>1, <2>7, RequestFields, ServedSame DEF Work, SameRequests
    <3> QED BY <3>1, ExecEffect
  <2> QED BY <2>1, <2>2, <2>3, <2>4, <2>5, <2>6, <2>7, RequestFields
<1>2. CASE x.at = "single"
  <2>1. req.op = "SINGLE_FILE"
    BY <1>2, RequestAt
  <2> HIDE DEF req
  <2>2. o \in RecvSingleFile(srv, req.f)
    BY <1>0, <2>1, ServedSame DEF Work, SameRequests
  <2> QED BY <2>2 DEF RecvSingleFile, Answer, Fails
<1>3. CASE x.at = "start"
  <2>1. req.op = "START_LST"
    BY <1>3, RequestAt
  <2> HIDE DEF req
  <2>2. o \in CreateAList(srv, req.l)
    BY <1>0, <2>1, ServedSame DEF Work, SameRequests
  <2> QED BY <2>2 DEF CreateAList, Answer, Fails
<1>4. CASE x.at = "open"
  <2>1. req.op = "OPEN_FILE"
    BY <1>4, RequestAt
  <2> HIDE DEF req
  <2>2. o \in OpenAFile(srv, req.l, req.f)
    BY <1>0, <2>1, ServedSame DEF Work, SameRequests
  <2> QED BY <2>2 DEF OpenAFile, Answer, Fails
<1>5. CASE x.at = "write"
  <2>1. req.op = "WRITE_FILE"
    BY <1>5, RequestAt
  <2> HIDE DEF req
  <2>2. o \in WriteToFile(srv, req.f, req.data)
    BY <1>0, <2>1, ServedSame DEF Work, SameRequests
  <2> QED BY <2>2 DEF WriteToFile, Answer, Fails
<1>6. CASE x.at = "close"
  <2>1. req.op = "CLOSE_FILE"
    BY <1>6, RequestAt
  <2> HIDE DEF req
  <2>2. o \in CloseAFile(srv, req.f, req.all) \/ o.ret = 0
    BY <1>0, <2>1, CloseAnswers
  <2> QED BY <2>2 DEF CloseAFile, HandOver, Answer, Fails
<1>7. CASE x.at = "check"
  <2>1. req.op = "CHECK_MD5"
    BY <1>7, RequestAt
  <2> HIDE DEF req
  <2>2. o \in CheckMD5(srv, req.f, req.hash)
    BY <1>0, <2>1, ServedSame DEF Work, SameRequests
  <2>3. \A t : \A p \in TriesInstall(t, req.f) : p.ret = 0
    BY DEF TriesInstall, Answer, Fails
  <2> QED BY <2>2, <2>3 DEF CheckMD5, Answer, Fails
<1>8. CASE x.at = "end"
  <2>1. req.op = "END_LST"
    BY <1>8, RequestAt
  <2> HIDE DEF req
  <2>2. \A p \in Work(srv, req) : p.ret \in Int
    BY <2>1 DEF Work, CloseAList, Answer
  <2>3. \A p \in IS!Work(srv, req) : p.ret \in Int
    BY <2>1 DEF IS!Work, IS!CloseAList, IS!SS!Answer, IS!SS!Fails
  <2>4. o \in Work(srv, req) \/ o \in IS!Work(srv, req)
    BY <1>0 DEF Serve
  <2> QED BY <2>2, <2>3, <2>4
<1>9. x.at \in Stages
  BY DEF Sane, ClientStates
<1> QED BY <1>1, <1>2, <1>3, <1>4, <1>5, <1>6, <1>7, <1>8, <1>9 DEF Stages

LEMMA MachineServed ==
  ASSUME MachineType(srv, Blocks), Registered(srv), NEW x, Sane(x), x.at # "idle", NEW o \in Serve(Request(x))
  PROVE  /\ Keeps(srv, o.srv) /\ Others(Request(x), srv, o.srv)
         /\ x.at = "start" => Continues(srv, o.srv, x.cmd.l)
         /\ x.at = "open" => Adds(srv, o.srv, x.cmd.l, FileOf(x))
         /\ x.at = "end" => Ended(srv, o.srv, x.cmd.l) \/ (ListsAlone(srv, o.srv) /\ o.ret # 0)
         /\ x.at \notin {"start", "open", "end"} => ListsAlone(srv, o.srv)
<1>1. CASE x.at = "one"
  BY <1>1, RequestAt, NamesServed
<1>2. CASE x.at = "single"
  BY <1>2, RequestAt, SaneFacts, SingleServed
<1>3. CASE x.at = "start"
  BY <1>3, RequestAt, SaneFacts, StartServed
<1>4. CASE x.at = "open"
  BY <1>4, RequestAt, SaneFacts, OpenServed
<1>5. CASE x.at = "write"
  BY <1>5, RequestAt, SaneFacts, WriteServed
<1>6. CASE x.at = "close"
  BY <1>6, RequestAt, SaneFacts, CloseServed
<1>7. CASE x.at = "check"
  BY <1>7, RequestAt, SaneFacts, CheckServed
<1>8. CASE x.at = "end"
  BY <1>8, RequestAt, SaneFacts, EndServed
<1>9. x.at \in Stages
  BY DEF Sane, ClientStates
<1> QED BY <1>1, <1>2, <1>3, <1>4, <1>5, <1>6, <1>7, <1>8, <1>9 DEF Stages

LEMMA ListOps ==
  ASSUME NEW x, Sane(x), x.at # "idle"
  PROVE  /\ Request(x).op = "START_LST" <=> x.at = "start"
         /\ Request(x).op = "END_LST" <=> x.at = "end"
         /\ Request(x).op \in {"OPEN_FILE", "SINGLE_FILE"} <=> x.at \in {"open", "single"}
         /\ Request(x).op = "CHECK_MD5" <=> x.at = "check"
<1>1. x.at \in Stages
  BY DEF Sane, ClientStates
<1>2. x.at = "one" => Request(x).op \notin {"START_LST", "END_LST", "OPEN_FILE", "SINGLE_FILE", "CHECK_MD5"}
  BY RequestAt, RequestFields
<1>3. CASE x.at = "one"
  BY <1>2, <1>3
<1>4. CASE x.at \in {"single", "open"}
  BY <1>4, RequestAt
<1>5. CASE x.at \in {"start", "end"}
  BY <1>5, RequestAt
<1>6. CASE x.at \in {"write", "close", "check"}
  BY <1>6, RequestAt
<1> QED BY <1>1, <1>3, <1>4, <1>5, <1>6 DEF Stages

-----------------------------------------------------------------------------
(* What the variables hold. *)

SrvInv == MachineType(srv, Blocks) /\ Registered(srv) /\ IsFiniteSet(srv.hashing)
ClientsInv == cl \in [Clients -> ClientStates] /\ \A c \in Clients : Sane(cl[c])
HistoryType ==
  owed \subseteq Files /\ unended \subseteq Lists /\ crossed \in BOOLEAN /\ unrenamed \subseteq Clients
TypeInv == kind \in {"data", "index"} /\ session \in Sessions /\ SrvInv /\ ClientsInv /\ HistoryType

LEMMA ContentsAreTyped ==
  ASSUME NEW s, MachineType(s, Blocks)
  PROVE  /\ s.disk \in [Names -> Contents]
         /\ s.hashing \subseteq [f : Files, hash : Contents]
<1>1. Seq(Blocks) \subseteq Contents /\ Seq(Files) \subseteq Contents
  BY SeqMonotonic DEF Contents, Items
<1>2. AnyContents(Blocks) \subseteq Contents
  BY <1>1 DEF AnyContents, Contents
<1>3. s.disk \in [Names -> AnyContents(Blocks)] /\ s.hashing \subseteq Jobs(Blocks)
  BY DEF MachineType, Machines
<1>4. Jobs(Blocks) \subseteq [f : Files, hash : Contents]
  BY <1>1 DEF Jobs
<1> QED BY <1>2, <1>3, <1>4

LEMMA TypesHold == TypeInv => TypeOK
<1> SUFFICES ASSUME TypeInv PROVE TypeOK
  OBVIOUS
<1>1. MachineType(srv, Blocks) /\ IsFiniteSet(srv.hashing)
  BY DEF TypeInv, SrvInv
<1>2. srv \in Machines(Blocks)
  BY <1>1 DEF MachineType
<1>3. /\ srv.m_mapNameFile \in [Files -> Names \cup {Closed, Gone}]
      /\ srv.m_mapList \in [Lists -> Names \cup {Closed, Gone}]
      /\ srv.jobs \in Seq(Files)
      /\ srv.m_mapProcPid \subseteq [prog : Programs, pid : Pids]
      /\ srv.procs \in [Pids -> [prog : Programs, st : {"run", "zombie", "foreign"}] \cup {NoProcess}]
  BY <1>2 DEF Machines
<1> QED BY <1>1, <1>3, ContentsAreTyped DEF TypeOK, TypeInv, HistoryType

LEMMA NamesTyped ==
  ASSUME NEW s, MachineType(s, Blocks), NEW l \in Lists, Exists(s, Final(l))
  PROVE  ToSet(s.disk[Final(l)]) \subseteq Files
<1>1. s.disk[Final(l)] \in Seq(Files)
  BY NameFacts DEF MachineType, OwnContents, NameContents, Exists
<1>2. \A q \in Seq(Files) : \A i \in DOMAIN q : q[i] \in Files
  BY LenProperties, ElementOfSeq
<1> QED BY <1>1, <1>2 DEF ToSet

LEMMA SrvKept ==
  ASSUME SrvInv, Keeps(srv, srv')
  PROVE  SrvInv'
BY DEF SrvInv, Keeps

(* Who got a 0 for a check whose rename had failed. *)
Unrenamed(c, req, o, ret) ==
  unrenamed' = IF req.op = "CHECK_MD5" /\ o.bad = 1 /\ ret = 0 THEN unrenamed \cup {c} ELSE unrenamed

LEMMA ServedStep ==
  ASSUME TypeInv, NEW c \in Clients, Served(c)
  PROVE  /\ Sane(cl[c]) /\ cl[c].at # "idle"
         /\ \E o \in Serve(Request(cl[c])), noAnswer \in BOOLEAN, ret \in Int :
              /\ ret = IF noAnswer THEN -1 ELSE IF o.ret < 0 THEN o.ret ELSE 0
              /\ srv' = o.srv /\ Sane(After(cl[c], ret, noAnswer))
              /\ Meets(c, Request(cl[c]), After(cl[c], ret, noAnswer), cl')
              /\ Record(Request(cl[c]), o) /\ Unrenamed(c, Request(cl[c]), o, ret)
<1> DEFINE x == cl[c]
           req == Request(x)
<1>1. Sane(x) /\ x.at # "idle" /\ \A d \in Clients : Sane(cl[d])
  BY DEF TypeInv, ClientsInv, Served
<1>2. PICK o \in Serve(req), noAnswer \in BOOLEAN :
        /\ srv' = o.srv
        /\ cl' = Meet(c, req, After(x, IF noAnswer THEN -1 ELSE IF o.ret < 0 THEN o.ret ELSE 0, noAnswer))
        /\ Record(req, o)
        /\ Unrenamed(c, req, o, IF noAnswer THEN -1 ELSE IF o.ret < 0 THEN o.ret ELSE 0)
  BY DEF Served, Unrenamed
<1> DEFINE ret == IF noAnswer THEN -1 ELSE IF o.ret < 0 THEN o.ret ELSE 0
           y == After(x, ret, noAnswer)
<1>3. o.ret \in Int
  BY <1>1, NumbersAnswered DEF TypeInv, SrvInv
<1>4. ret \in Int
  BY <1>3
<1>5. cl' = Meet(c, req, y) /\ Unrenamed(c, req, o, ret)
  BY <1>2
<1>6. y = After(x, ret, noAnswer)
  OBVIOUS
<1>7. ret = IF noAnswer THEN -1 ELSE IF o.ret < 0 THEN o.ret ELSE 0
  OBVIOUS
<1> HIDE DEF ret, y
<1>8. Sane(y)
  BY <1>1, <1>4, <1>6, AfterEffect
<1>9. Meets(c, req, y, cl')
  BY <1>1, <1>5, <1>8, MeetEffect
<1> QED BY <1>1, <1>2, <1>4, <1>5, <1>6, <1>7, <1>8, <1>9

LEMMA NotServedStep ==
  ASSUME TypeInv, NEW c \in Clients, NotServed(c)
  PROVE  /\ Sane(cl[c]) /\ cl[c].at # "idle" /\ Sane(After(cl[c], -1, TRUE))
         /\ cl' = [cl EXCEPT ![c] = After(cl[c], -1, TRUE)]
<1>1. Sane(cl[c]) /\ cl[c].at # "idle"
  BY DEF TypeInv, ClientsInv, NotServed
<1>2. -1 \in Int /\ TRUE \in BOOLEAN
  OBVIOUS
<1> QED BY <1>1, <1>2, AfterEffect DEF NotServed

LEMMA BeginStep ==
  ASSUME TypeInv, NEW c \in Clients, Begin(c)
  PROVE  \E y : /\ Sane(y) /\ y.at \in {"one", "single", "start", "check"} /\ y.k = 1
                /\ y.at = "check" => y.cmd.op = "checkMD5"
                /\ cl' = [cl EXCEPT ![c] = y]
<1>1. PICK cmd \in session.commands, v \in session.versions :
        cl' = [cl EXCEPT ![c] = [Idle(0) EXCEPT !.at = FirstOf(cmd), !.cmd = cmd, !.v = v]]
  BY DEF Begin
<1>2. cmd \in Commands /\ v \in Versions
  BY SessionsAssumption DEF TypeInv, Versions
<1> DEFINE y == [Idle(0) EXCEPT !.at = FirstOf(cmd), !.cmd = cmd, !.v = v]
<1>3. /\ FirstOf(cmd) \in {"one", "single", "start", "check"} /\ FirstOf(cmd) \in StagesOf(cmd.op)
      /\ FirstOf(cmd) = "check" => cmd.op = "checkMD5"
  BY <1>2, CommandFields DEF FirstOf, StagesOf
<1>4. Idle(0) \in ClientStates /\ Idle(0).k = 1
  BY IdleSane DEF Sane, Idle
<1>5. y \in ClientStates /\ y.at = FirstOf(cmd) /\ y.cmd = cmd /\ y.v = v /\ y.k = 1
  BY <1>2, <1>3, <1>4 DEF ClientStates, Stages
<1>6. cl' = [cl EXCEPT ![c] = y]
  BY <1>1
<1> HIDE DEF y
<1>7. y.cmd.op = "sendList" => y.k \in 1 .. Len(y.cmd.files)
  BY <1>2, <1>5, CommandFields
<1>8. Sane(y)
  BY <1>2, <1>3, <1>5, <1>7 DEF Sane
<1> QED BY <1>3, <1>5, <1>6, <1>8

LEMMA OwnSteps ==
  ASSUME SrvInv, session \in Sessions, Md5Thread \/ ProcessExits \/ ProcessStarts \/ Restart
  PROVE  Keeps(srv, srv') /\ ListsAlone(srv, srv') /\ \A f \in Files : StageKept(srv, srv', f)
<1>0. MachineType(srv, Blocks) /\ Registered(srv)
  BY DEF SrvInv
<1>1. CASE Md5Thread
  BY <1>0, <1>1, ReadsKeeps, WritesKeeps DEF Md5Thread
<1>2. CASE ProcessExits
  <2>1. PICK q \in Pids : srv.procs[q] # NoProcess /\ srv' \in Exits(srv, q)
    BY <1>2 DEF ProcessExits
  <2>2. ProcsOnly(Blocks, srv, srv') /\ Registered(srv')
    BY <1>0, <2>1, ExitsEffect
  <2> QED BY <2>2, KeepsByProcs, StagesBySpared
<1>3. CASE Restart
  <2>1. srv' = Restarted(srv)
    BY <1>3 DEF Restart
  <2> QED BY <1>0, <2>1, RestartedKeeps, StagesBySpared
<1>4. CASE ProcessStarts
  <2>1. PICK p \in Programs, q \in Pids : srv' = ForeignStarts(srv, p, q)
    BY <1>4, SessionsAssumption DEF ProcessStarts
  <2>2. ProcsOnly(Blocks, srv, srv') /\ Registered(srv')
    BY <1>0, <2>1, StartsEffect
  <2> QED BY <2>2, KeepsByProcs, StagesBySpared
<1> QED BY <1>1, <1>2, <1>3, <1>4

LEMMA TakeStep ==
  ASSUME SrvInv, TakeList
  PROVE  /\ Keeps(srv, srv') /\ \A f \in Files : StageKept(srv, srv', f)
         /\ \E l \in Lists :
              /\ Exists(srv, Final(l)) /\ OtherLists(srv, srv', l)
              /\ srv'.disk[DfTmp(l)] = srv.disk[DfTmp(l)] /\ srv'.disk[Final(l)] = NoFile
              /\ owed' = owed \ ToSet(srv.disk[Final(l)])
<1>0. MachineType(srv, Blocks) /\ Registered(srv)
  BY DEF SrvInv
<1>1. PICK l \in Lists :
        /\ Exists(srv, Final(l)) /\ srv' = Unlink(srv, Final(l))
        /\ owed' = owed \ ToSet(srv.disk[Final(l)])
  BY DEF TakeList
<1>2. /\ ListsOnly(Blocks, srv, srv') /\ OtherLists(srv, srv', l)
      /\ srv'.disk[DfTmp(l)] = srv.disk[DfTmp(l)] /\ srv'.disk[Final(l)] = NoFile
  BY <1>0, <1>1, TakenEffect
<1> QED BY <1>1, <1>2, KeepsByLists, StagesBySpared

LEMMA TypeInit == Init => TypeInv
<1> SUFFICES ASSUME Init PROVE TypeInv
  OBVIOUS
<1>1. SrvInv
  <2>1. MachineType(NewMachine, Blocks)
    BY NewMachineTyped
  <2>2. Registered(NewMachine) /\ NewMachine.hashing = {}
    BY DEF Registered, NewMachine
  <2> QED BY <2>1, <2>2, FS_EmptySet DEF Init, SrvInv
<1>2. ClientsInv
  <2>1. Sane(Idle(0))
    BY IdleSane
  <2> QED BY <2>1 DEF Init, ClientsInv, Sane
<1> QED BY <1>1, <1>2 DEF Init, TypeInv, HistoryType

LEMMA TypeNext == TypeInv /\ [Next]_vars => TypeInv'
<1> SUFFICES ASSUME TypeInv, [Next]_vars PROVE TypeInv'
  OBVIOUS
<1>0. SrvInv /\ ClientsInv /\ HistoryType /\ kind \in {"data", "index"} /\ session \in Sessions
  BY DEF TypeInv
<1>1. ASSUME NEW c \in Clients, Begin(c) PROVE TypeInv'
  <2>1. PICK y : Sane(y) /\ cl' = [cl EXCEPT ![c] = y]
    BY <1>1, BeginStep
  <2>2. ClientsInv'
    BY <1>0, <2>1 DEF ClientsInv, Sane
  <2> QED BY <1>0, <1>1, <2>2 DEF Begin, TypeInv, SrvInv, HistoryType, fixed, history
<1>2. ASSUME NEW c \in Clients, Served(c) PROVE TypeInv'
  <2> DEFINE x == cl[c]
             req == Request(x)
  <2>1. Sane(x) /\ x.at # "idle"
    BY <1>2, ServedStep
  <2>2. PICK o \in Serve(req), noAnswer \in BOOLEAN, ret \in Int :
              /\ srv' = o.srv /\ Meets(c, req, After(x, ret, noAnswer), cl')
              /\ Record(req, o) /\ Unrenamed(c, req, o, ret)
    BY <1>2, ServedStep
  <2>3. Keeps(srv, srv')
    BY <1>0, <2>1, <2>2, MachineServed DEF SrvInv
  <2>4. SrvInv'
    BY <1>0, <2>3, SrvKept
  <2>5. ClientsInv'
    BY <2>2 DEF Meets, ClientsInv
  <2>6. HistoryType'
    <3>1. owed' \subseteq Files
      <4>1. owed' = owed \cup UNION {ToSet(o.srv.disk[Final(l)]) : l \in {m \in Lists : Exists(o.srv, Final(m))}}
        BY <2>2 DEF Record
      <4>2. MachineType(o.srv, Blocks)
        BY <2>2, <2>3 DEF Keeps
      <4>3. \A l \in Lists : Exists(o.srv, Final(l)) => ToSet(o.srv.disk[Final(l)]) \subseteq Files
        BY <4>2, NamesTyped
      <4> QED BY <1>0, <4>1, <4>3 DEF HistoryType
    <3>2. unended' \subseteq Lists
      <4>1. req.op = "START_LST" => req.l \in Lists
        BY <2>1, ListOps, RequestAt, SaneFacts
      <4> HIDE DEF req
      <4> QED BY <1>0, <2>2, <4>1 DEF Record, HistoryType
    <3>3. crossed' \in BOOLEAN /\ unrenamed' \subseteq Clients
      BY <1>0, <2>2 DEF Record, Unrenamed, HistoryType
    <3> QED BY <3>1, <3>2, <3>3 DEF HistoryType
  <2> QED BY <1>0, <1>2, <2>4, <2>5, <2>6 DEF Served, TypeInv, fixed
<1>3. ASSUME NEW c \in Clients, NotServed(c) PROVE TypeInv'
  <2>1. ClientsInv'
    BY <1>0, <1>3, NotServedStep DEF ClientsInv, Sane
  <2> QED BY <1>0, <1>3, <2>1 DEF NotServed, TypeInv, SrvInv, HistoryType, fixed, history
<1>4. ASSUME Md5Thread \/ ProcessExits \/ ProcessStarts \/ Restart PROVE TypeInv'
  <2>1. SrvInv'
    BY <1>0, <1>4, OwnSteps, SrvKept
  <2>2. UNCHANGED <<kind, session, cl, owed, unended, crossed, unrenamed>>
    BY <1>4 DEF Md5Thread, ProcessExits, ProcessStarts, Restart, fixed, history
  <2> QED BY <1>0, <2>1, <2>2 DEF TypeInv, ClientsInv, HistoryType
<1>5. ASSUME TakeList PROVE TypeInv'
  <2>1. SrvInv' /\ owed' \subseteq owed
    BY <1>0, <1>5, TakeStep, SrvKept
  <2>2. UNCHANGED <<kind, session, cl, unended, crossed, unrenamed>>
    BY <1>5 DEF TakeList, fixed
  <2> QED BY <1>0, <2>1, <2>2 DEF TypeInv, ClientsInv, HistoryType
<1>6. ASSUME UNCHANGED vars PROVE TypeInv'
  BY <1>0, <1>6 DEF vars, fixed, history, TypeInv, SrvInv, ClientsInv, HistoryType
<1> QED BY <1>1, <1>2, <1>3, <1>4, <1>5, <1>6 DEF Next, Client

(* What the variables hold: the files and FILE*s of the machine, the work of the md5 threads, the processes
   and the map of them, whatever the clients ask for and whatever fails. *)
THEOREM TypeCorrect == Spec => []TypeOK
<1>1. TypeInv /\ [Next]_vars => TypeInv'
  BY TypeNext
<1> QED BY <1>1, TypeInit, TypesHold, PTL DEF Spec

-----------------------------------------------------------------------------
(* A kill leaves nothing of its name that this server process started: every such process is in the map. *)

LEMMA KillStep ==
  ASSUME TypeInv, NEW c \in Clients, cl[c].at = "one", Request(cl[c]).op = "KILL_PROCESS", Served(c)
  PROVE  \A q \in Pids : srv'.procs[q] # NoProcess /\ srv'.procs[q].prog = Request(cl[c]).p =>
           srv'.procs[q].st = "foreign"
<1>1. Sane(cl[c]) /\ \E o \in Serve(Request(cl[c])) : srv' = o.srv
  BY ServedStep
<1>2. Request(cl[c]) \in Requests
  BY <1>1, RequestAt
<1> QED BY <1>1, <1>2, KillServed DEF TypeInv, SrvInv

(* A kill that is served leaves no process of its name that is a child of this server process, running or
   not waited for yet: m_mapProcPid has every one of them, several of a name included, though it also has
   pids that are free, or somebody else's, by now. *)
THEOREM KillReachesAll == Spec => KillReaches
<1> DEFINE Reached ==
      \A c \in Clients :
        cl[c].at = "one" /\ Request(cl[c]).op = "KILL_PROCESS" /\ Served(c) =>
          \A q \in Pids : srv'.procs[q] # NoProcess /\ srv'.procs[q].prog = Request(cl[c]).p =>
            srv'.procs[q].st = "foreign"
<1>1. TypeInv => Reached
  BY KillStep
<1>2. TypeInv /\ [Next]_vars => TypeInv'
  BY TypeNext
<1>3. KillReaches <=> [][Reached]_vars
  BY DEF KillReaches
<1> HIDE DEF Reached
<1> QED BY <1>1, <1>2, <1>3, TypeInit, PTL DEF Spec

-----------------------------------------------------------------------------
(* The lists.  A client that is past its START is alone with the list, which has no name until the END. *)

Busy(x, l) == x.cmd.op = "sendList" /\ x.cmd.l = l /\ x.at \notin {"idle", "start"}
ListsInv ==
  ~crossed =>
    /\ \A c \in Clients, l \in Lists : Busy(cl[c], l) => l \in unended /\ ~Exists(srv, Final(l))
    /\ \A c \in Clients, d \in Clients, l \in Lists : Busy(cl[c], l) /\ Busy(cl[d], l) => c = d

(* Where a name of an ended list is. *)
Ends(s, l, f) == Exists(s, Final(l)) /\ Contains(s.disk[Final(l)], f)
GoesOn(s, l, f) == Exists(s, DfTmp(l)) /\ Contains(s.disk[DfTmp(l)], f)
KeptInv ==
  ~crossed => \A f \in owed : \E l \in Lists : Ends(srv, l, f) \/ (l \in unended /\ GoesOn(srv, l, f))

LEMMA NamesHold == TypeInv /\ KeptInv => NamesKept
<1> SUFFICES ASSUME TypeInv, KeptInv, ~crossed, NEW f \in owed
             PROVE  f \in UNION {ToSet(srv.disk[n]) : n \in {m \in Names :
                           m[1] \in Lists /\ m[2] \in {"", "dftmp"} /\ Exists(srv, m)}}
  BY DEF NamesKept
<1>1. PICK l \in Lists : Ends(srv, l, f) \/ GoesOn(srv, l, f)
  BY DEF KeptInv
<1>2. PICK n \in {Final(l), DfTmp(l)} : Exists(srv, n) /\ Contains(srv.disk[n], f)
  BY <1>1 DEF Ends, GoesOn
<1>3. n \in Names /\ n \in ListNames /\ n[1] \in Lists /\ n[2] \in {"", "dftmp"}
  <2>1. Final(l)[1] = l /\ Final(l)[2] = "" /\ DfTmp(l)[1] = l /\ DfTmp(l)[2] = "dftmp"
    BY DEF Final, DfTmp
  <2> QED BY <1>2, <2>1, NameFacts
<1>4. srv.disk[n] \in Seq(Files)
  BY <1>2, <1>3 DEF TypeInv, SrvInv, MachineType, OwnContents, NameContents, Exists
<1>5. f \in ToSet(srv.disk[n])
  <2>1. DOMAIN srv.disk[n] = 1 .. Len(srv.disk[n])
    BY <1>4, LenProperties
  <2> QED BY <1>2, <2>1 DEF Contains, ToSet
<1> QED BY <1>2, <1>3, <1>5

LEMMA ListsInit == Init => ListsInv /\ KeptInv
BY DEF Init, ListsInv, KeptInv, Busy, Idle

(* Of a list nobody touches, everything stays. *)
LEMMA PlacesKept ==
  ASSUME NEW s, NEW t, NEW l, SameNames(s, t, l)
  PROVE  /\ Exists(t, Final(l)) <=> Exists(s, Final(l))
         /\ \A f : (Ends(t, l, f) <=> Ends(s, l, f)) /\ (GoesOn(t, l, f) <=> GoesOn(s, l, f))
BY DEF SameNames, Exists, Ends, GoesOn

LEMMA BusyAfter ==
  ASSUME NEW x, Sane(x), x.at # "idle", NEW ret \in Int, NEW noAnswer \in BOOLEAN, NEW l,
         Busy(After(x, ret, noAnswer), l)
  PROVE  /\ Busy(x, l) \/ (x.at = "start" /\ x.cmd.l = l /\ ret = 0)
         /\ x.at # "end"
<1> DEFINE y == After(x, ret, noAnswer)
<1>1. Busy(y, l) /\ y = After(x, ret, noAnswer)
  OBVIOUS
<1> HIDE DEF y
<1>2. ~Stopped(y, ret)
  BY <1>1 DEF Busy, Stopped
<1>3. x.at \in Stages
  BY DEF Sane, ClientStates
<1>4. x.at \notin {"one", "end"}
  BY <1>1, <1>2, AfterEffect
<1>5. CASE x.at = "start"
  BY <1>1, <1>2, <1>5, AfterEffect DEF Moved, Busy
<1>6. CASE x.at \in {"single", "open", "close"}
  <2>1. \E at \in Stages : Moved(x, y, at)
    BY <1>1, <1>2, <1>6, AfterEffect DEF Done, Stages
  <2> QED BY <1>1, <1>6, <2>1 DEF Moved, Busy
<1>7. CASE x.at = "write"
  BY <1>1, <1>7, AfterEffect DEF Moved, Busy
<1>8. CASE x.at = "check"
  <2>1. y = x \/ \E at \in Stages : Moved(x, y, at)
    BY <1>1, <1>2, <1>8, AfterEffect DEF Done, Stages
  <2> QED BY <1>1, <1>8, <2>1 DEF Moved, Busy
<1> QED BY <1>3, <1>4, <1>5, <1>6, <1>7, <1>8 DEF Stages

LEMMA NameAdded ==
  ASSUME NEW q \in Seq(Files), NEW g \in Files, NEW f, Contains(q, f)
  PROVE  Contains(q \o <<g>>, f)
<1>1. <<g>> \in Seq(Files) /\ Len(<<g>>) = 1 /\ Len(q) \in Nat
  BY LenProperties
<1>2. Len(q \o <<g>>) = Len(q) + 1 /\ \A i \in 1 .. Len(q) : (q \o <<g>>)[i] = q[i]
  BY <1>1, ConcatProperties
<1> QED BY <1>1, <1>2 DEF Contains

(* A step that leaves the lists alone, or takes no name away that is owed. *)
LEMMA Undisturbed ==
  ASSUME ListsInv, KeptInv, ListsAlone(srv, srv'), unended' = unended, crossed' = crossed,
         \A c \in Clients, l \in Lists : Busy(cl'[c], l) => Busy(cl[c], l),
         \A f \in owed' : f \in owed \/ \E l \in Lists : Ends(srv', l, f)
  PROVE  ListsInv' /\ KeptInv'
<1>1. \A l \in Lists :
        /\ Exists(srv', Final(l)) <=> Exists(srv, Final(l))
        /\ \A f : (Ends(srv', l, f) <=> Ends(srv, l, f)) /\ (GoesOn(srv', l, f) <=> GoesOn(srv, l, f))
  BY PlacesKept DEF ListsAlone
<1>2. ListsInv'
  BY <1>1 DEF ListsInv
<1>3. KeptInv'
  BY <1>1 DEF KeptInv
<1> QED BY <1>2, <1>3

LEMMA RecordedEnds ==
  ASSUME NEW s, MachineType(s, Blocks), NEW l \in Lists, Exists(s, Final(l)), NEW f
  PROVE  f \in ToSet(s.disk[Final(l)]) <=> Ends(s, l, f)
<1>1. s.disk[Final(l)] \in Seq(Files)
  BY NameFacts DEF MachineType, OwnContents, NameContents, Exists
<1>2. DOMAIN s.disk[Final(l)] = 1 .. Len(s.disk[Final(l)])
  BY <1>1, LenProperties
<1> QED BY <1>2 DEF ToSet, Ends, Contains

LEMMA Recorded ==
  ASSUME NEW req, NEW o, MachineType(o.srv, Blocks), Record(req, o)
  PROVE  \A f \in owed' : f \in owed \/ \E l \in Lists : Ends(o.srv, l, f)
<1>1. owed' = owed \cup UNION {ToSet(o.srv.disk[Final(l)]) : l \in {m \in Lists : Exists(o.srv, Final(m))}}
  BY DEF Record
<1>2. SUFFICES ASSUME NEW f \in owed', f \notin owed PROVE \E l \in Lists : Ends(o.srv, l, f)
  OBVIOUS
<1>3. PICK l \in Lists : Exists(o.srv, Final(l)) /\ f \in ToSet(o.srv.disk[Final(l)])
  BY <1>1, <1>2
<1> QED BY <1>3, RecordedEnds

(* START_LST *)
LEMMA StartKeepsLists ==
  ASSUME TypeInv, ListsInv, KeptInv, NEW l \in Lists, NEW c \in Clients, Continues(srv, srv', l),
         unended' = unended \cup {l}, crossed' = (crossed \/ l \in unended),
         \A d \in Clients \ {c}, m \in Lists : Busy(cl'[d], m) => Busy(cl[d], m),
         \A m \in Lists : Busy(cl'[c], m) => m = l,
         \A f \in owed' : f \in owed \/ \E m \in Lists : Ends(srv', m, f)
  PROVE  ListsInv' /\ KeptInv'
<1> SUFFICES ASSUME ~crossed' PROVE ListsInv' /\ KeptInv'
  BY DEF ListsInv, KeptInv
<1>1. ~crossed /\ l \notin unended
  OBVIOUS
<1>2. \A d \in Clients : ~Busy(cl[d], l)
  BY <1>1 DEF ListsInv
<1>3. \A m \in Lists \ {l} :
        /\ Exists(srv', Final(m)) <=> Exists(srv, Final(m))
        /\ \A f : (Ends(srv', m, f) <=> Ends(srv, m, f)) /\ (GoesOn(srv', m, f) <=> GoesOn(srv, m, f))
  BY PlacesKept DEF Continues, OtherLists
<1>4. ListsInv'
  <2>1. \A d \in Clients, m \in Lists : Busy(cl'[d], m) => (d = c /\ m = l) \/ (d # c /\ m # l /\ Busy(cl[d], m))
    BY <1>2
  <2>2. ~Exists(srv', Final(l))
    BY DEF Continues, Exists
  <2>3. \A d \in Clients, m \in Lists : Busy(cl'[d], m) => m \in unended' /\ ~Exists(srv', Final(m))
    BY <1>1, <1>3, <2>1, <2>2 DEF ListsInv
  <2>4. \A d \in Clients, e \in Clients, m \in Lists : Busy(cl'[d], m) /\ Busy(cl'[e], m) => d = e
    BY <1>1, <2>1 DEF ListsInv
  <2> QED BY <2>3, <2>4 DEF ListsInv
<1>5. ASSUME NEW f \in owed PROVE \E m \in Lists : Ends(srv', m, f) \/ (m \in unended' /\ GoesOn(srv', m, f))
  <2>1. PICK m \in Lists : Ends(srv, m, f) \/ (m \in unended /\ GoesOn(srv, m, f))
    BY <1>1, <1>5 DEF KeptInv
  <2>2. CASE m # l
    BY <1>3, <2>1, <2>2
  <2>3. CASE m = l
    <3>1. Ends(srv, l, f)
      BY <1>1, <2>1, <2>3
    <3>2. GoesOn(srv', l, f)
      BY <3>1 DEF Ends, GoesOn, Continues, Exists
    <3> QED BY <3>2
  <2> QED BY <2>2, <2>3
<1>6. KeptInv'
  BY <1>5 DEF KeptInv
<1> QED BY <1>4, <1>6

(* OPEN_FILE *)
LEMMA OpenKeepsLists ==
  ASSUME TypeInv, ListsInv, KeptInv, NEW l \in Lists, NEW g \in Files, Adds(srv, srv', l, g),
         unended' = unended, crossed' = crossed,
         \A d \in Clients, m \in Lists : Busy(cl'[d], m) => Busy(cl[d], m),
         \A f \in owed' : f \in owed \/ \E m \in Lists : Ends(srv', m, f)
  PROVE  ListsInv' /\ KeptInv'
<1>1. \A m \in Lists \ {l} :
        /\ Exists(srv', Final(m)) <=> Exists(srv, Final(m))
        /\ \A f : (Ends(srv', m, f) <=> Ends(srv, m, f)) /\ (GoesOn(srv', m, f) <=> GoesOn(srv, m, f))
  BY PlacesKept DEF Adds, OtherLists
<1>2. /\ Exists(srv', Final(l)) <=> Exists(srv, Final(l))
      /\ \A f : Ends(srv', l, f) <=> Ends(srv, l, f)
  BY DEF Adds, Exists, Ends
<1>3. ASSUME NEW f, GoesOn(srv, l, f) PROVE GoesOn(srv', l, f)
  <2>1. srv.disk[DfTmp(l)] \in Seq(Files)
    BY <1>3, NameFacts DEF TypeInv, SrvInv, MachineType, OwnContents, NameContents, GoesOn, Exists
  <2>2. Contains(srv.disk[DfTmp(l)] \o <<g>>, f)
    BY <1>3, <2>1, NameAdded DEF GoesOn
  <2>3. srv.disk[DfTmp(l)] \o <<g>> \in Seq(Files)
    <3>1. <<g>> \in Seq(Files)
      OBVIOUS
    <3> QED BY <2>1, <3>1, ConcatProperties
  <2>4. NoFile \notin Seq(Files)
    BY MarksAreNone
  <2>5. srv'.disk[DfTmp(l)] \in {srv.disk[DfTmp(l)], srv.disk[DfTmp(l)] \o <<g>>}
    BY <1>3 DEF Adds, Appended, GoesOn, Exists
  <2> QED BY <1>3, <2>2, <2>3, <2>4, <2>5 DEF GoesOn, Exists
<1>4. ListsInv'
  BY <1>1, <1>2 DEF ListsInv
<1>5. KeptInv'
  BY <1>1, <1>2, <1>3 DEF KeptInv
<1> QED BY <1>4, <1>5

(* END_LST that renames the list: the client was alone with it. *)
LEMMA EndKeepsLists ==
  ASSUME TypeInv, ListsInv, KeptInv, NEW l \in Lists, NEW c \in Clients, Busy(cl[c], l), Ended(srv, srv', l),
         unended' \in {unended, unended \ {l}}, crossed' = crossed,
         \A d \in Clients, m \in Lists : Busy(cl'[d], m) => d # c /\ Busy(cl[d], m),
         \A f \in owed' : f \in owed \/ \E m \in Lists : Ends(srv', m, f)
  PROVE  ListsInv' /\ KeptInv'
<1> SUFFICES ASSUME ~crossed PROVE ListsInv' /\ KeptInv'
  BY DEF ListsInv, KeptInv
<1>1. \A m \in Lists \ {l} :
        /\ Exists(srv', Final(m)) <=> Exists(srv, Final(m))
        /\ \A f : (Ends(srv', m, f) <=> Ends(srv, m, f)) /\ (GoesOn(srv', m, f) <=> GoesOn(srv, m, f))
  BY PlacesKept DEF Ended, OtherLists
<1>2. ~Exists(srv, Final(l)) /\ \A d \in Clients \ {c} : ~Busy(cl[d], l)
  BY DEF ListsInv
<1>3. \A d \in Clients, m \in Lists : Busy(cl'[d], m) => m # l /\ Busy(cl[d], m)
  BY <1>2
<1>4. ListsInv'
  BY <1>1, <1>3 DEF ListsInv
<1>5. ASSUME NEW f \in owed PROVE \E m \in Lists : Ends(srv', m, f) \/ (m \in unended' /\ GoesOn(srv', m, f))
  <2>1. PICK m \in Lists : Ends(srv, m, f) \/ (m \in unended /\ GoesOn(srv, m, f))
    BY <1>5 DEF KeptInv
  <2>2. CASE m # l
    BY <1>1, <2>1, <2>2
  <2>3. CASE m = l
    <3>1. GoesOn(srv, l, f)
      BY <1>2, <2>1, <2>3 DEF Ends
    <3>2. Ends(srv', l, f)
      BY <3>1 DEF Ended, Ends, GoesOn, Exists
    <3> QED BY <3>2
  <2> QED BY <2>2, <2>3
<1>6. KeptInv'
  BY <1>5 DEF KeptInv
<1> QED BY <1>4, <1>6

LEMMA TakeKeepsLists ==
  ASSUME TypeInv, ListsInv, KeptInv, TakeList
  PROVE  ListsInv' /\ KeptInv'
<1>1. PICK l \in Lists :
              /\ Exists(srv, Final(l)) /\ OtherLists(srv, srv', l)
              /\ srv'.disk[DfTmp(l)] = srv.disk[DfTmp(l)] /\ srv'.disk[Final(l)] = NoFile
              /\ owed' = owed \ ToSet(srv.disk[Final(l)])
  BY TakeStep DEF TypeInv
<1>2. cl' = cl /\ unended' = unended /\ crossed' = crossed
  BY DEF TakeList
<1>3. \A m \in Lists \ {l} :
        /\ Exists(srv', Final(m)) <=> Exists(srv, Final(m))
        /\ \A f : (Ends(srv', m, f) <=> Ends(srv, m, f)) /\ (GoesOn(srv', m, f) <=> GoesOn(srv, m, f))
  BY <1>1, PlacesKept DEF OtherLists
<1>4. ~Exists(srv', Final(l)) /\ \A f : GoesOn(srv', l, f) <=> GoesOn(srv, l, f)
  BY <1>1 DEF Exists, GoesOn
<1>5. \A f \in owed' : f \in owed /\ ~Ends(srv, l, f)
  BY <1>1, RecordedEnds DEF TypeInv, SrvInv
<1>6. ListsInv'
  BY <1>2, <1>3, <1>4 DEF ListsInv
<1>7. KeptInv'
  BY <1>2, <1>3, <1>4, <1>5 DEF KeptInv
<1> QED BY <1>6, <1>7

LEMMA ListsServed ==
  ASSUME TypeInv, ListsInv, KeptInv, NEW c \in Clients, Served(c)
  PROVE  ListsInv' /\ KeptInv'
<1> DEFINE x == cl[c]
           req == Request(x)
<1>1. Sane(x) /\ x.at # "idle"
  BY ServedStep
<1>2. PICK o \in Serve(req), noAnswer \in BOOLEAN, ret \in Int :
        /\ ret = IF noAnswer THEN -1 ELSE IF o.ret < 0 THEN o.ret ELSE 0
        /\ srv' = o.srv /\ Sane(After(x, ret, noAnswer)) /\ Meets(c, req, After(x, ret, noAnswer), cl')
        /\ Record(req, o)
  BY ServedStep
<1> DEFINE y == After(x, ret, noAnswer)
<1>3. /\ Keeps(srv, srv')
      /\ x.at = "start" => Continues(srv, srv', x.cmd.l)
      /\ x.at = "open" => Adds(srv, srv', x.cmd.l, FileOf(x))
      /\ x.at = "end" => Ended(srv, srv', x.cmd.l) \/ (ListsAlone(srv, srv') /\ o.ret # 0)
      /\ x.at \notin {"start", "open", "end"} => ListsAlone(srv, srv')
  BY <1>1, <1>2, MachineServed DEF TypeInv, SrvInv
<1>4. \A f \in owed' : f \in owed \/ \E l \in Lists : Ends(srv', l, f)
  BY <1>2, <1>3, Recorded DEF Keeps
<1>5. \A d \in Clients \ {c}, l \in Lists : Busy(cl'[d], l) => Busy(cl[d], l)
  BY <1>2 DEF Meets, Same, Busy
<1>6. \A l \in Lists : Busy(cl'[c], l) => Busy(y, l)
  BY <1>2 DEF Meets, Same, Busy
<1>7. \A l \in Lists : Busy(cl'[c], l) => x.at # "end" /\ (Busy(x, l) \/ (x.at = "start" /\ x.cmd.l = l))
  BY <1>1, <1>6, BusyAfter
<1>8. /\ req.op = "START_LST" <=> x.at = "start"
      /\ req.op = "END_LST" <=> x.at = "end"
  BY <1>1, ListOps
<1>9. Record(req, o)
  BY <1>2
<1>10. x.at \in {"start", "end"} => req.l = x.cmd.l /\ x.cmd.l \in Lists /\ x.cmd.op = "sendList"
  BY <1>1, RequestAt, SaneFacts
<1> HIDE DEF y, req
<1>11. CASE x.at = "start"
  <2>1. unended' = unended \cup {x.cmd.l} /\ crossed' = (crossed \/ x.cmd.l \in unended)
    BY <1>8, <1>9, <1>10, <1>11 DEF Record
  <2>2. \A m \in Lists : Busy(cl'[c], m) => m = x.cmd.l
    BY <1>7, <1>11 DEF Busy
  <2> QED BY <1>3, <1>4, <1>5, <1>10, <1>11, <2>1, <2>2, StartKeepsLists
<1>12. CASE x.at = "open"
  <2>1. unended' = unended /\ crossed' = crossed
    BY <1>8, <1>9, <1>12 DEF Record, TypeInv, HistoryType
  <2>2. \A d \in Clients, m \in Lists : Busy(cl'[d], m) => Busy(cl[d], m)
    BY <1>5, <1>7, <1>12
  <2>3. x.cmd.l \in Lists /\ FileOf(x) \in Files
    BY <1>1, <1>12, SaneFacts
  <2> QED BY <1>3, <1>4, <1>12, <2>1, <2>2, <2>3, OpenKeepsLists
<1>13. CASE x.at = "end"
  <2>1. crossed' = crossed /\ unended' = IF o.ret = 0 THEN unended \ {x.cmd.l} ELSE unended
    BY <1>8, <1>9, <1>10, <1>13 DEF Record, TypeInv, HistoryType
  <2>2. \A d \in Clients, m \in Lists : Busy(cl'[d], m) => d # c /\ Busy(cl[d], m)
    BY <1>5, <1>7, <1>13
  <2>3. CASE Ended(srv, srv', x.cmd.l)
    <3>1. Busy(cl[c], x.cmd.l)
      BY <1>10, <1>13 DEF Busy
    <3>2. unended' \in {unended, unended \ {x.cmd.l}}
      BY <2>1
    <3> QED BY <1>4, <1>10, <1>13, <2>1, <2>2, <2>3, <3>1, <3>2, EndKeepsLists
  <2>4. CASE ListsAlone(srv, srv') /\ o.ret # 0
    BY <1>4, <2>1, <2>2, <2>4, Undisturbed
  <2> QED BY <1>3, <1>13, <2>3, <2>4
<1>14. CASE x.at \notin {"start", "open", "end"}
  <2>1. unended' = unended /\ crossed' = crossed
    BY <1>8, <1>9, <1>14 DEF Record, TypeInv, HistoryType
  <2>2. \A d \in Clients, m \in Lists : Busy(cl'[d], m) => Busy(cl[d], m)
    BY <1>5, <1>7, <1>14
  <2> QED BY <1>3, <1>4, <1>14, <2>1, <2>2, Undisturbed
<1> QED BY <1>11, <1>12, <1>13, <1>14

LEMMA ListsNext == TypeInv /\ ListsInv /\ KeptInv /\ [Next]_vars => ListsInv' /\ KeptInv'
<1> SUFFICES ASSUME TypeInv, ListsInv, KeptInv, [Next]_vars PROVE ListsInv' /\ KeptInv'
  OBVIOUS
<1>1. ASSUME NEW c \in Clients, Begin(c) PROVE ListsInv' /\ KeptInv'
  <2>1. PICK y : /\ Sane(y) /\ y.at \in {"one", "single", "start", "check"}
                 /\ y.at = "check" => y.cmd.op = "checkMD5"
                 /\ cl' = [cl EXCEPT ![c] = y]
    BY <1>1, BeginStep
  <2>2. \A l : ~Busy(y, l)
    BY <2>1, SaneFacts DEF Busy
  <2>3. \A d \in Clients, l \in Lists : Busy(cl'[d], l) => Busy(cl[d], l)
    BY <2>1, <2>2 DEF TypeInv, ClientsInv
  <2>4. ListsAlone(srv, srv') /\ UNCHANGED <<owed, unended, crossed>>
    BY <1>1 DEF Begin, ListsAlone, SameNames
  <2> QED BY <2>3, <2>4, Undisturbed
<1>2. ASSUME NEW c \in Clients, Served(c) PROVE ListsInv' /\ KeptInv'
  BY <1>2, ListsServed
<1>3. ASSUME NEW c \in Clients, NotServed(c) PROVE ListsInv' /\ KeptInv'
  <2>1. /\ Sane(cl[c]) /\ cl[c].at # "idle" /\ cl' = [cl EXCEPT ![c] = After(cl[c], -1, TRUE)]
    BY <1>3, NotServedStep
  <2>2. -1 \in Int /\ -1 # 0
    OBVIOUS
  <2>3. \A l : Busy(After(cl[c], -1, TRUE), l) => Busy(cl[c], l)
    BY <2>1, <2>2, BusyAfter
  <2>4. \A d \in Clients, l \in Lists : Busy(cl'[d], l) => Busy(cl[d], l)
    BY <2>1, <2>3 DEF TypeInv, ClientsInv
  <2>5. ListsAlone(srv, srv') /\ UNCHANGED history
    BY <1>3 DEF NotServed, ListsAlone, SameNames
  <2> QED BY <2>4, <2>5, Undisturbed DEF history
<1>4. ASSUME Md5Thread \/ ProcessExits \/ ProcessStarts \/ Restart PROVE ListsInv' /\ KeptInv'
  <2>1. ListsAlone(srv, srv')
    BY <1>4, OwnSteps DEF TypeInv
  <2>2. UNCHANGED <<cl, history>>
    BY <1>4 DEF Md5Thread, ProcessExits, ProcessStarts, Restart
  <2> QED BY <2>1, <2>2, Undisturbed DEF history
<1>5. ASSUME TakeList PROVE ListsInv' /\ KeptInv'
  BY <1>5, TakeKeepsLists
<1>6. ASSUME UNCHANGED vars PROVE ListsInv' /\ KeptInv'
  <2>1. ListsAlone(srv, srv') /\ UNCHANGED <<cl, history>>
    BY <1>6 DEF vars, ListsAlone, SameNames
  <2> QED BY <2>1, Undisturbed DEF history
<1> QED BY <1>1, <1>2, <1>3, <1>4, <1>5, <1>6 DEF Next, Client

(* A name in a list that was ended is kept, in the list or in what it is continued in, until the list is
   taken away; unless a START comes while the last one has had no END. *)
THEOREM NamesStay == Spec => []NamesKept
<1>1. TypeInv /\ [Next]_vars => TypeInv'
  BY TypeNext
<1>2. TypeInv /\ ListsInv /\ KeptInv /\ [Next]_vars => ListsInv' /\ KeptInv'
  BY ListsNext
<1> QED BY <1>1, <1>2, TypeInit, ListsInit, NamesHold, PTL DEF Spec

-----------------------------------------------------------------------------
(* The files.  What a client that is clean has sent so far is as it left it. *)

StageOfFile(s, x) ==
  /\ x.at \in {"write", "close"} => Fresh(s, FileOf(x))
  /\ x.at = "check" => Installed(s, FileOf(x), x.v) \/ Waiting(s, FileOf(x))
SentBefore(s, x) ==
  x.cmd.op = "sendList" /\ x.at # "idle" =>
    \A j \in 1 .. Len(x.cmd.files) :
      (j < x.k /\ x.cmd.files[j] # x.cmd.files[x.k]) \/ (x.at = "end" /\ ~x.broke) =>
        Installed(s, x.cmd.files[j], x.v)
CleanFiles(s, x, renamed) ==
  x.clean /\ x.cmd.op \in {"sendFile", "sendList"} => StageOfFile(s, x) /\ (renamed => SentBefore(s, x))
Renamed(c) == c \notin unrenamed
CleanInv == \A c \in Clients : CleanFiles(srv, cl[c], Renamed(c))

(* What others do to other files. *)
LEMMA CleanSpared ==
  ASSUME NEW s, NEW t, NEW x, Sane(x), NEW renamed, CleanFiles(s, x, renamed), NEW y, Same(x, y), y.clean => x.clean,
         y.clean => \A f \in Files : Sends(x, f) => StageKept(s, t, f)
  PROVE  CleanFiles(t, y, renamed)
<1> SUFFICES ASSUME y.clean, x.cmd.op \in {"sendFile", "sendList"}
             PROVE  StageOfFile(t, y) /\ (renamed => SentBefore(t, y))
  BY DEF CleanFiles, Same
<1>1. StageOfFile(s, x) /\ (renamed => SentBefore(s, x))
  BY DEF CleanFiles
<1>2. \A f \in Files : Sends(x, f) => StageKept(s, t, f)
  OBVIOUS
<1>3. FileOf(y) = FileOf(x)
  BY DEF Same, FileOf
<1>4. StageOfFile(t, y)
  <2>1. SUFFICES ASSUME x.at \in {"write", "close", "check"} PROVE StageOfFile(t, y)
    BY DEF StageOfFile, Same
  <2>2. FileOf(x) \in Files /\ Sends(x, FileOf(x))
    BY <2>1, SaneFacts
  <2>3. StageKept(s, t, FileOf(x))
    BY <1>2, <2>2
  <2> QED BY <1>1, <1>3, <2>3 DEF StageOfFile, StageKept, Same
<1>5. ASSUME renamed PROVE SentBefore(t, y)
  <2>1. SUFFICES ASSUME x.cmd.op = "sendList", x.at # "idle" PROVE SentBefore(t, y)
    BY DEF SentBefore, Same
  <2>2. \A j \in 1 .. Len(x.cmd.files) : StageKept(s, t, x.cmd.files[j])
    BY <1>2, <2>1, SaneFacts
  <2> QED BY <1>1, <1>5, <2>1, <2>2 DEF SentBefore, StageKept, Same
<1> QED BY <1>4, <1>5

LEMMA OwnBefore ==
  ASSUME NEW s, NEW t, NEW x, Sane(x), x.at # "idle", x.cmd.op = "sendList", SentBefore(s, x),
         \A f \in Files : f # FileOf(x) => StageKept(s, t, f)
  PROVE  \A j \in 1 .. Len(x.cmd.files) :
           j < x.k /\ x.cmd.files[j] # FileOf(x) => Installed(t, x.cmd.files[j], x.v)
<1>1. FileOf(x) = x.cmd.files[x.k] /\ \A j \in 1 .. Len(x.cmd.files) : x.cmd.files[j] \in Files
  BY SaneFacts
<1> QED BY <1>1 DEF SentBefore, StageKept

(* Which files the requests of a transfer are about. *)
LEMMA OwnConcern ==
  ASSUME NEW x, Sane(x), x.at \notin {"idle", "one"}
  PROVE  \A f \in Files : Concerns(Request(x), f) => f = FileOf(x) /\ x.at \notin {"start", "end"}
<1>1. x.at \in Stages
  BY DEF Sane, ClientStates
<1>2. CASE x.at \in {"start", "end"}
  BY <1>2, RequestAt DEF Concerns
<1>3. CASE x.at \in {"single", "open"}
  BY <1>3, RequestAt DEF Concerns
<1>4. CASE x.at \in {"write", "close", "check"}
  BY <1>4, RequestAt DEF Concerns
<1> QED BY <1>1, <1>2, <1>3, <1>4 DEF Stages

(* A file is through, or has failed. *)
LEMMA CleanDone ==
  ASSUME NEW t, NEW x, Sane(x), x.at # "idle", NEW ret, NEW y, Done(x, y, ret), NEW renamed,
         renamed /\ x.cmd.op = "sendList" => \A j \in 1 .. Len(x.cmd.files) :
           j < x.k /\ x.cmd.files[j] # FileOf(x) => Installed(t, x.cmd.files[j], x.v),
         renamed /\ ret = 0 => Installed(t, FileOf(x), x.v)
  PROVE  CleanFiles(t, y, renamed)
<1>1. CASE Stopped(y, ret)
  BY <1>1 DEF Stopped, CleanFiles
<1>2. CASE x.cmd.op = "sendList" /\ ret = 0 /\ x.k < Len(x.cmd.files) /\ Moved(x, y, "open") /\ y.k = x.k + 1
  <2>1. StageOfFile(t, y)
    BY <1>2 DEF StageOfFile, Moved
  <2>2. x.k \in 1 .. Len(x.cmd.files) /\ Len(x.cmd.files) \in Nat /\ FileOf(x) = x.cmd.files[x.k]
    BY <1>2, SaneFacts, CommandFields
  <2>3. renamed => \A j \in 1 .. Len(x.cmd.files) : j <= x.k => Installed(t, x.cmd.files[j], x.v)
    BY <1>2, <2>2
  <2>4. \A j \in 1 .. Len(x.cmd.files) : j < x.k + 1 => j <= x.k
    BY <2>2
  <2>5. renamed => SentBefore(t, y)
    BY <1>2, <2>3, <2>4 DEF SentBefore, Moved
  <2> QED BY <2>1, <2>5 DEF CleanFiles
<1>3. CASE /\ x.cmd.op = "sendList" /\ (ret = 0 => x.k = Len(x.cmd.files)) /\ Moved(x, y, "end") /\ y.k = x.k
           /\ y.broke = (ret # 0)
  <2>1. StageOfFile(t, y)
    BY <1>3 DEF StageOfFile, Moved
  <2>2. x.k \in 1 .. Len(x.cmd.files) /\ Len(x.cmd.files) \in Nat /\ FileOf(x) = x.cmd.files[x.k]
    BY <1>3, SaneFacts, CommandFields
  <2>3. renamed /\ ret = 0 => \A j \in 1 .. Len(x.cmd.files) : Installed(t, x.cmd.files[j], x.v)
    BY <1>3, <2>2
  <2>4. renamed => SentBefore(t, y)
    BY <1>3, <2>2, <2>3 DEF SentBefore, Moved
  <2> QED BY <2>1, <2>4 DEF CleanFiles
<1> QED BY <1>1, <1>2, <1>3 DEF Done

(* A client goes on with the file it is at. *)
LEMMA CleanMoved ==
  ASSUME NEW t, NEW x, Sane(x), x.at # "idle", NEW at, at # "end", NEW y, Moved(x, y, at), y.k = x.k,
         NEW renamed, renamed /\ x.cmd.op = "sendList" => \A j \in 1 .. Len(x.cmd.files) :
           j < x.k /\ x.cmd.files[j] # FileOf(x) => Installed(t, x.cmd.files[j], x.v),
         at \in {"write", "close"} => Fresh(t, FileOf(x)),
         at = "check" => Installed(t, FileOf(x), x.v) \/ Waiting(t, FileOf(x))
  PROVE  CleanFiles(t, y, renamed)
<1>1. FileOf(y) = FileOf(x) /\ y.at = at /\ y.v = x.v /\ y.cmd = x.cmd
  BY DEF FileOf, Moved
<1>2. StageOfFile(t, y)
  BY <1>1 DEF StageOfFile
<1>3. x.cmd.op = "sendList" => FileOf(x) = x.cmd.files[x.k]
  BY SaneFacts
<1>4. renamed => SentBefore(t, y)
  BY <1>1, <1>3 DEF SentBefore
<1> QED BY <1>2, <1>4 DEF CleanFiles

LEMMA OwnServed ==
  ASSUME SrvInv, NEW x, Sane(x), x.at # "idle", NEW o \in Serve(Request(x)), NEW noAnswer \in BOOLEAN,
         NEW ret \in Int, ret = IF noAnswer THEN -1 ELSE IF o.ret < 0 THEN o.ret ELSE 0,
         StaysClean(x, Request(x)), x.cmd.op \in {"sendFile", "sendList"},
         NEW before \in BOOLEAN, CleanFiles(srv, x, before),
         NEW renamed \in BOOLEAN, renamed => before /\ ~(x.at = "check" /\ o.bad = 1 /\ ret = 0),
         NEW y, y = After(x, ret, noAnswer)
  PROVE  /\ CleanFiles(o.srv, y, renamed)
         /\ renamed /\ x.at = "check" /\ ret = 0 => Installed(o.srv, FileOf(x), x.v)
         /\ renamed /\ x.at = "end" /\ ~x.broke => \A j \in 1 .. Len(x.cmd.files) : Installed(o.srv, x.cmd.files[j], x.v)
<1> DEFINE req == Request(x)
<1>1. MachineType(srv, Blocks) /\ Registered(srv)
  BY DEF SrvInv
<1>2. x.at \in Stages /\ x.at \notin {"one", "idle"}
  BY SaneFacts DEF Sane, ClientStates
<1>3. StageOfFile(srv, x) /\ (renamed => SentBefore(srv, x))
  BY DEF StaysClean, CleanFiles
<1>4. \A f \in Files : ~Concerns(req, f) => StageKept(srv, o.srv, f)
  BY <1>1, MachineServed, StagesBySpared DEF Others
<1>5. \A f \in Files : f # FileOf(x) => StageKept(srv, o.srv, f)
  BY <1>2, <1>4, OwnConcern
<1>6. renamed /\ x.cmd.op = "sendList" => \A j \in 1 .. Len(x.cmd.files) :
        j < x.k /\ x.cmd.files[j] # FileOf(x) => Installed(o.srv, x.cmd.files[j], x.v)
  BY <1>3, <1>5, OwnBefore
<1>7. ret = 0 => ~noAnswer /\ ~(o.ret < 0)
  OBVIOUS
<1>8. /\ x.at = "one" => Stopped(y, ret)
      /\ x.at = "start" => IF ret = 0 THEN Moved(x, y, "open") /\ y.k = x.k ELSE Stopped(y, ret)
      /\ x.at \in {"single", "open"} =>
           IF ret = 0 THEN Moved(x, y, "write") /\ y.k = x.k ELSE Done(x, y, ret)
      /\ x.at = "write" => (Moved(x, y, "write") \/ Moved(x, y, "close")) /\ y.k = x.k
      /\ x.at = "close" => IF ret = 0 THEN Moved(x, y, "check") /\ y.k = x.k ELSE Done(x, y, ret)
      /\ x.at = "check" => IF noAnswer THEN y = x ELSE Done(x, y, ret)
      /\ x.at = "end" => Stopped(y, ret)
  BY AfterEffect
<1>9. CASE x.at = "start"
  <2>1. (Moved(x, y, "open") /\ y.k = x.k) \/ Stopped(y, ret)
    BY <1>8, <1>9
  <2>2. Stopped(y, ret) => CleanFiles(o.srv, y, renamed)
    BY DEF Stopped, CleanFiles
  <2>3. Moved(x, y, "open") /\ y.k = x.k => CleanFiles(o.srv, y, renamed)
    <3>1. "open" \notin {"write", "close"} /\ "open" # "check" /\ "open" # "end"
      OBVIOUS
    <3> QED BY <1>6, <3>1, CleanMoved
  <2> QED BY <1>9, <2>1, <2>2, <2>3
<1>10. CASE x.at \in {"single", "open"}
  <2>1. req.op \in {"SINGLE_FILE", "OPEN_FILE"} /\ req.f = FileOf(x) /\ FileOf(x) \in Files
    BY <1>10, RequestAt, SaneFacts
  <2>2. ~Leftovers(srv, FileOf(x))
    BY <2>1 DEF StaysClean
  <2>3. o.ret \in {0, -1, -2} /\ (o.ret = 0 => Fresh(o.srv, FileOf(x)))
    <3>1. CASE x.at = "single"
      BY <1>1, <2>1, <2>2, <3>1, RequestAt, SingleServed
    <3>2. CASE x.at = "open"
      <4>1. req.op = "OPEN_FILE" /\ req.l \in Lists /\ req.f \in Files
        BY <2>1, <3>2, RequestAt, SaneFacts
      <4>2. o \in Serve(req)
        OBVIOUS
      <4> HIDE DEF req
      <4> QED BY <1>1, <2>1, <2>2, <4>1, <4>2, OpenServed
    <3> QED BY <1>10, <3>1, <3>2
  <2>4. ret = 0 => Fresh(o.srv, FileOf(x))
    BY <1>7, <2>3
  <2>5. CASE ret = 0
    <3>1. Moved(x, y, "write") /\ y.k = x.k
      BY <1>8, <1>10, <2>5
    <3>2. CleanFiles(o.srv, y, renamed)
      BY <1>6, <2>4, <2>5, <3>1, CleanMoved
    <3> QED BY <1>10, <3>2
  <2>6. CASE ret # 0
    <3>1. Done(x, y, ret)
      BY <1>8, <1>10, <2>6
    <3>2. CleanFiles(o.srv, y, renamed)
      BY <1>6, <2>6, <3>1, CleanDone
    <3> QED BY <1>10, <3>2
  <2> QED BY <2>5, <2>6
<1>11. CASE x.at = "write"
  <2>1. Fresh(srv, FileOf(x))
    BY <1>3, <1>11 DEF StageOfFile
  <2>2. Fresh(o.srv, FileOf(x))
    BY <1>1, <1>11, <2>1, RequestAt, SaneFacts, WriteServed
  <2>3. (Moved(x, y, "write") \/ Moved(x, y, "close")) /\ y.k = x.k
    BY <1>8, <1>11
  <2>4. CleanFiles(o.srv, y, renamed)
    BY <1>6, <2>2, <2>3, CleanMoved
  <2> QED BY <1>11, <2>4
<1>12. CASE x.at = "close"
  <2>1. Fresh(srv, FileOf(x))
    BY <1>3, <1>12 DEF StageOfFile
  <2>2. Waiting(o.srv, FileOf(x))
    BY <1>1, <1>12, <2>1, RequestAt, SaneFacts, CloseServed
  <2>3. CASE ret = 0
    <3>1. Moved(x, y, "check") /\ y.k = x.k
      BY <1>8, <1>12, <2>3
    <3>2. CleanFiles(o.srv, y, renamed)
      BY <1>6, <2>2, <3>1, CleanMoved
    <3> QED BY <1>12, <3>2
  <2>4. CASE ret # 0
    <3>1. Done(x, y, ret)
      BY <1>8, <1>12, <2>4
    <3>2. CleanFiles(o.srv, y, renamed)
      BY <1>6, <2>4, <3>1, CleanDone
    <3> QED BY <1>12, <3>2
  <2> QED BY <2>3, <2>4
<1>13. CASE x.at = "check"
  <2>1. req.op = "CHECK_MD5" /\ req.f = FileOf(x) /\ req.hash = Whole(x.v) /\ FileOf(x) \in Files
    BY <1>13, RequestAt, SaneFacts
  <2>2. srv.disk[Md5(FileOf(x))] # Empty
    BY <2>1 DEF StaysClean
  <2>3. Installed(srv, FileOf(x), x.v) \/ Waiting(srv, FileOf(x))
    BY <1>3, <1>13 DEF StageOfFile
  <2>4. /\ Installed(o.srv, FileOf(x), x.v) \/ Waiting(o.srv, FileOf(x))
        /\ o.ret = 0 /\ o.bad # 1 => Installed(o.srv, FileOf(x), x.v)
        /\ o.ret \in -4 .. 0
    BY <1>1, <2>1, <2>2, <2>3, CheckServed
  <2>5. renamed /\ ret = 0 => Installed(o.srv, FileOf(x), x.v)
    BY <1>7, <1>13, <2>4
  <2>6. CleanFiles(o.srv, y, renamed)
    <3>1. CASE noAnswer
      <4>1. y = x
        BY <1>8, <1>13, <3>1
      <4>2. Moved(x, y, "check") /\ y.k = x.k
        BY <1>13, <4>1 DEF Moved
      <4>3. "check" \notin {"write", "close"} /\ "check" # "end"
        OBVIOUS
      <4> QED BY <1>6, <2>4, <4>2, <4>3, CleanMoved
    <3>2. CASE ~noAnswer
      <4>1. Done(x, y, ret)
        BY <1>8, <1>13, <3>2
      <4> QED BY <1>6, <2>5, <4>1, CleanDone
    <3> QED BY <3>1, <3>2
  <2> QED BY <1>13, <2>5, <2>6
<1>14. CASE x.at = "end"
  <2>1. Stopped(y, ret)
    BY <1>8, <1>14
  <2>2. CleanFiles(o.srv, y, renamed)
    BY <2>1 DEF Stopped, CleanFiles
  <2>3. x.cmd.op = "sendList" /\ \A j \in 1 .. Len(x.cmd.files) : x.cmd.files[j] \in Files
    BY <1>14, SaneFacts
  <2>4. \A f \in Files : StageKept(srv, o.srv, f)
    BY <1>2, <1>4, <1>14, OwnConcern
  <2>5. renamed /\ ~x.broke => \A j \in 1 .. Len(x.cmd.files) : Installed(o.srv, x.cmd.files[j], x.v)
    BY <1>3, <1>14, <2>3, <2>4 DEF SentBefore, StageKept
  <2> QED BY <1>14, <2>2, <2>5
<1> QED BY <1>2, <1>9, <1>10, <1>11, <1>12, <1>13, <1>14 DEF Stages

LEMMA OwnNotServed ==
  ASSUME NEW x, Sane(x), x.at # "idle", NEW renamed, CleanFiles(srv, x, renamed), NEW ret \in Int, ret # 0,
         NEW noAnswer \in BOOLEAN, NEW y, y = After(x, ret, noAnswer)
  PROVE  noAnswer = TRUE => CleanFiles(srv, y, renamed)
<1>1. /\ x.at = "one" => Stopped(y, ret)
      /\ x.at = "start" => IF ret = 0 THEN Moved(x, y, "open") /\ y.k = x.k ELSE Stopped(y, ret)
      /\ x.at \in {"single", "open"} =>
           IF ret = 0 THEN Moved(x, y, "write") /\ y.k = x.k ELSE Done(x, y, ret)
      /\ x.at = "write" => (Moved(x, y, "write") \/ Moved(x, y, "close")) /\ y.k = x.k
      /\ x.at = "close" => IF ret = 0 THEN Moved(x, y, "check") /\ y.k = x.k ELSE Done(x, y, ret)
      /\ x.at = "check" => IF noAnswer THEN y = x ELSE Done(x, y, ret)
      /\ x.at = "end" => Stopped(y, ret)
  BY AfterEffect
<1>2. SUFFICES ASSUME noAnswer = TRUE PROVE CleanFiles(srv, y, renamed)
  OBVIOUS
<1>3. x.at \in Stages
  BY DEF Sane, ClientStates
<1>4. SUFFICES ASSUME y.clean, y.cmd.op \in {"sendFile", "sendList"} PROVE CleanFiles(srv, y, renamed)
  BY DEF CleanFiles
<1>5. ~Stopped(y, ret)
  BY <1>4 DEF Stopped
<1>6. y.clean = x.clean /\ y.cmd = x.cmd
  <2>1. CASE x.at \in {"one", "end", "start"}
    BY <1>1, <1>2, <1>5, <2>1
  <2>2. CASE x.at \in {"single", "open", "close"}
    BY <1>1, <1>2, <1>5, <2>2 DEF Done, Moved
  <2>3. CASE x.at \in {"write", "check"}
    BY <1>1, <1>2, <2>3 DEF Moved
  <2> QED BY <1>3, <2>1, <2>2, <2>3 DEF Stages
<1>7. StageOfFile(srv, x) /\ (renamed => SentBefore(srv, x))
  BY <1>4, <1>6 DEF CleanFiles
<1>8. \A f : StageKept(srv, srv, f)
  BY DEF StageKept
<1>9. renamed /\ x.cmd.op = "sendList" => \A j \in 1 .. Len(x.cmd.files) :
        j < x.k /\ x.cmd.files[j] # FileOf(x) => Installed(srv, x.cmd.files[j], x.v)
  BY <1>7, <1>8, OwnBefore
<1>10. CASE x.at \in {"one", "end", "start"}
  BY <1>1, <1>2, <1>5, <1>10
<1>11. CASE x.at \in {"single", "open", "close"}
  <2>1. Done(x, y, ret)
    BY <1>1, <1>11
  <2>2. renamed /\ ret = 0 => Installed(srv, FileOf(x), x.v)
    OBVIOUS
  <2> QED BY <1>9, <2>1, <2>2, CleanDone
<1>12. CASE x.at = "write"
  <2>1. (Moved(x, y, "write") \/ Moved(x, y, "close")) /\ y.k = x.k
    BY <1>1, <1>12
  <2>2. Fresh(srv, FileOf(x))
    BY <1>7, <1>12 DEF StageOfFile
  <2> QED BY <1>9, <2>1, <2>2, CleanMoved
<1>13. CASE x.at = "check"
  <2>1. y = x
    BY <1>1, <1>2, <1>13
  <2> QED BY <2>1
<1> QED BY <1>3, <1>10, <1>11, <1>12, <1>13 DEF Stages

(* A client stops, or goes on with its command; and what a client that stops with 0 was at. *)
LEMMA AfterStops ==
  ASSUME NEW x, Sane(x), x.at # "idle", NEW ret \in Int, NEW noAnswer \in BOOLEAN,
         NEW y, y = After(x, ret, noAnswer)
  PROVE  /\ Stopped(y, ret) \/ (y.at # "idle" /\ y.clean = x.clean /\ y.cmd = x.cmd)
         /\ y.at = "idle" /\ ret = 0 => x.at \in {"one", "check", "end"}
         /\ y.at = "idle" /\ x.at = "check" => x.cmd.op # "sendList"
<1>1. /\ x.at = "one" => Stopped(y, ret)
      /\ x.at = "start" => IF ret = 0 THEN Moved(x, y, "open") /\ y.k = x.k ELSE Stopped(y, ret)
      /\ x.at \in {"single", "open"} =>
           IF ret = 0 THEN Moved(x, y, "write") /\ y.k = x.k ELSE Done(x, y, ret)
      /\ x.at = "write" => (Moved(x, y, "write") \/ Moved(x, y, "close")) /\ y.k = x.k
      /\ x.at = "close" => IF ret = 0 THEN Moved(x, y, "check") /\ y.k = x.k ELSE Done(x, y, ret)
      /\ x.at = "check" => IF noAnswer THEN y = x ELSE Done(x, y, ret)
      /\ x.at = "end" => Stopped(y, ret)
  BY AfterEffect
<1>2. Done(x, y, ret) =>
        (x.cmd.op # "sendList" /\ Stopped(y, ret)) \/ (y.at # "idle" /\ y.clean = x.clean /\ y.cmd = x.cmd)
  BY DEF Done, Moved
<1>3. CASE x.at \in {"one", "end"}
  BY <1>1, <1>3
<1>4. CASE x.at = "start"
  BY <1>1, <1>4 DEF Moved
<1>5. CASE x.at \in {"single", "open"}
  BY <1>1, <1>2, <1>5 DEF Moved
<1>6. CASE x.at = "write"
  BY <1>1, <1>6 DEF Moved
<1>7. CASE x.at = "close"
  BY <1>1, <1>2, <1>7 DEF Moved
<1>8. CASE x.at = "check"
  <2>1. CASE noAnswer
    BY <1>1, <1>8, <2>1
  <2>2. CASE ~noAnswer
    BY <1>1, <1>2, <1>8, <2>2
  <2> QED BY <2>1, <2>2
<1>9. x.at \in Stages
  BY DEF Sane, ClientStates
<1> QED BY <1>3, <1>4, <1>5, <1>6, <1>7, <1>8, <1>9 DEF Stages

LEMMA CleanServed ==
  ASSUME TypeInv, CleanInv, NEW c \in Clients, Served(c)
  PROVE  CleanInv'
<1> DEFINE x == cl[c]
           req == Request(x)
<1>1. Sane(x) /\ x.at # "idle"
  BY ServedStep
<1>2. PICK o \in Serve(req), noAnswer \in BOOLEAN, ret \in Int :
        /\ ret = IF noAnswer THEN -1 ELSE IF o.ret < 0 THEN o.ret ELSE 0
        /\ srv' = o.srv /\ Sane(After(x, ret, noAnswer)) /\ Meets(c, req, After(x, ret, noAnswer), cl')
        /\ Unrenamed(c, req, o, ret)
  BY ServedStep
<1>3. PICK y : y = After(x, ret, noAnswer)
  OBVIOUS
<1>4. Sane(y) /\ Meets(c, req, y, cl')
  BY <1>2, <1>3
<1>5. CleanFiles(srv', cl'[c], Renamed(c)')
  <2>1. SUFFICES ASSUME cl'[c].clean, cl'[c].cmd.op \in {"sendFile", "sendList"} PROVE CleanFiles(srv', cl'[c], Renamed(c)')
    BY DEF CleanFiles
  <2>2. Same(y, cl'[c])
    BY <1>4 DEF Meets
  <2>3. y.at # "idle" /\ y.clean = x.clean /\ y.cmd = x.cmd
    BY <1>1, <1>3, <2>1, <2>2, AfterStops DEF Stopped, Same
  <2>4. StaysClean(x, req)
    BY <1>4, <2>1, <2>2, <2>3 DEF Meets, Same
  <2>5. CleanFiles(srv, x, Renamed(c)) /\ x.cmd.op \in {"sendFile", "sendList"}
    BY <2>1, <2>2, <2>3 DEF CleanInv, Same
  <2>6. CleanFiles(srv', y, Renamed(c)')
    <3>1. Renamed(c) \in BOOLEAN /\ Renamed(c)' \in BOOLEAN
      BY DEF Renamed
    <3>2. Renamed(c)' => Renamed(c) /\ ~(x.at = "check" /\ o.bad = 1 /\ ret = 0)
      BY <1>1, <1>2, RequestAt DEF Renamed, Unrenamed
    <3> QED BY <1>1, <1>2, <1>3, <2>4, <2>5, <3>1, <3>2, OwnServed DEF TypeInv
  <2>7. y.clean
    BY <2>3, <2>4 DEF StaysClean
  <2>8. \A f \in Files : StageKept(srv', srv', f)
    BY DEF StageKept
  <2> QED BY <1>4, <2>2, <2>6, <2>7, <2>8, CleanSpared
<1>6. ASSUME NEW d \in Clients, d # c PROVE CleanFiles(srv', cl'[d], Renamed(d)')
  <2>1. /\ Sane(cl[d]) /\ CleanFiles(srv, cl[d], Renamed(d)) /\ Same(cl[d], cl'[d])
        /\ cl'[d].clean => cl[d].clean /\ \A f \in Files : Sends(cl[d], f) => ~Concerns(req, f)
    BY <1>4, <1>6 DEF Meets, TypeInv, ClientsInv, CleanInv
  <2>2. \A f \in Files : ~Concerns(req, f) => StageKept(srv, srv', f)
    BY <1>1, <1>2, MachineServed, StagesBySpared DEF Others, TypeInv, SrvInv
  <2>3. Renamed(d)' = Renamed(d)
    BY <1>2, <1>6 DEF Renamed, Unrenamed
  <2> QED BY <2>1, <2>2, <2>3, CleanSpared
<1> QED BY <1>5, <1>6 DEF CleanInv

LEMMA CleanUndisturbed ==
  ASSUME TypeInv, CleanInv, cl' = cl, unrenamed' = unrenamed, \A f \in Files : StageKept(srv, srv', f)
  PROVE  CleanInv'
<1> SUFFICES ASSUME NEW c \in Clients PROVE CleanFiles(srv', cl[c], Renamed(c))
  BY DEF CleanInv, Renamed
<1>1. Sane(cl[c]) /\ CleanFiles(srv, cl[c], Renamed(c)) /\ Same(cl[c], cl[c])
  BY DEF TypeInv, ClientsInv, CleanInv, Same
<1> QED BY <1>1, CleanSpared

LEMMA CleanInit == Init => CleanInv
BY DEF Init, CleanInv, CleanFiles, Idle

LEMMA CleanNext == TypeInv /\ CleanInv /\ [Next]_vars => CleanInv'
<1> SUFFICES ASSUME TypeInv, CleanInv, [Next]_vars PROVE CleanInv'
  OBVIOUS
<1>1. ASSUME NEW c \in Clients, Begin(c) PROVE CleanInv'
  <2>1. PICK y : /\ Sane(y) /\ y.at \in {"one", "single", "start", "check"} /\ y.k = 1
                 /\ y.at = "check" => y.cmd.op = "checkMD5"
                 /\ cl' = [cl EXCEPT ![c] = y]
    BY <1>1, BeginStep
  <2>2. \A renamed : CleanFiles(srv, y, renamed)
    <3>1. y.cmd.op \in {"sendFile", "sendList"} => StageOfFile(srv, y)
      BY <2>1 DEF StageOfFile
    <3>2. \A j \in 1 .. Len(y.cmd.files) : ~(j < y.k) /\ y.at # "end"
      BY <2>1
    <3>3. SentBefore(srv, y)
      BY <3>2 DEF SentBefore
    <3> QED BY <3>1, <3>3 DEF CleanFiles
  <2>3. srv' = srv /\ \A d \in Clients : cl'[d] = IF d = c THEN y ELSE cl[d]
    BY <1>1, <2>1 DEF Begin, TypeInv, ClientsInv
  <2>4. \A d \in Clients : d # c => Renamed(d)' = Renamed(d)
    BY <1>1 DEF Begin, Renamed
  <2> QED BY <2>2, <2>3, <2>4 DEF CleanInv
<1>2. ASSUME NEW c \in Clients, Served(c) PROVE CleanInv'
  BY <1>2, CleanServed
<1>3. ASSUME NEW c \in Clients, NotServed(c) PROVE CleanInv'
  <2>1. Sane(cl[c]) /\ cl[c].at # "idle" /\ cl' = [cl EXCEPT ![c] = After(cl[c], -1, TRUE)]
    BY <1>3, NotServedStep
  <2>2. -1 \in Int /\ -1 # 0
    OBVIOUS
  <2>3. CleanFiles(srv, After(cl[c], -1, TRUE), Renamed(c))
    BY <2>1, <2>2, OwnNotServed DEF CleanInv
  <2>4. srv' = srv /\ \A d \in Clients : cl'[d] = IF d = c THEN After(cl[c], -1, TRUE) ELSE cl[d]
    BY <1>3, <2>1 DEF NotServed, TypeInv, ClientsInv
  <2>5. \A d \in Clients : Renamed(d)' = Renamed(d)
    BY <1>3 DEF NotServed, history, Renamed
  <2> QED BY <2>3, <2>4, <2>5 DEF CleanInv
<1>4. ASSUME Md5Thread \/ ProcessExits \/ ProcessStarts \/ Restart PROVE CleanInv'
  <2>1. cl' = cl /\ unrenamed' = unrenamed
    BY <1>4 DEF Md5Thread, ProcessExits, ProcessStarts, Restart, history
  <2> QED BY <1>4, <2>1, OwnSteps, CleanUndisturbed DEF TypeInv
<1>5. ASSUME TakeList PROVE CleanInv'
  <2>1. cl' = cl /\ unrenamed' = unrenamed
    BY <1>5 DEF TakeList
  <2> QED BY <1>5, <2>1, TakeStep, CleanUndisturbed DEF TypeInv
<1>6. ASSUME UNCHANGED vars PROVE CleanInv'
  BY <1>6 DEF vars, history, CleanInv, Renamed
<1> QED BY <1>1, <1>2, <1>3, <1>4, <1>5, <1>6 DEF Next, Client

LEMMA ReturnedSent ==
  ASSUME TypeInv, CleanInv, NEW c \in Clients, Served(c), Returns(c), cl'[c].ret = 0,
         cl[c].cmd.op \in {"sendFile", "sendList"}, Clean(c), ~cl[c].broke,
         Renamed(c)'
  PROVE  Sent(c)
<1> DEFINE x == cl[c]
           req == Request(x)
<1>1. Sane(x) /\ x.at # "idle"
  BY ServedStep
<1>2. PICK o \in Serve(req), noAnswer \in BOOLEAN, ret \in Int :
        /\ ret = IF noAnswer THEN -1 ELSE IF o.ret < 0 THEN o.ret ELSE 0
        /\ srv' = o.srv /\ Sane(After(x, ret, noAnswer)) /\ Meets(c, req, After(x, ret, noAnswer), cl')
        /\ Unrenamed(c, req, o, ret)
  BY ServedStep
<1>3. PICK y : y = After(x, ret, noAnswer)
  OBVIOUS
<1>4. y.at = "idle" /\ y.ret = 0
  BY <1>2, <1>3 DEF Returns, Meets, Same
<1>5. ret = 0
  BY <1>1, <1>3, <1>4, AfterStops DEF Stopped
<1>6. x.at \in {"check", "end"} /\ (x.at = "check" => x.cmd.op = "sendFile")
  BY <1>1, <1>3, <1>4, <1>5, AfterStops, SaneFacts
<1>7. CleanFiles(srv, x, Renamed(c)) /\ StaysClean(x, req)
  BY DEF CleanInv, Clean
<1>a. Renamed(c) \in BOOLEAN /\ Renamed(c)' \in BOOLEAN
  BY DEF Renamed
<1>b. Renamed(c)' => Renamed(c) /\ ~(x.at = "check" /\ o.bad = 1 /\ ret = 0)
  BY <1>1, <1>2, RequestAt DEF Renamed, Unrenamed
<1>8. /\ x.at = "check" => Installed(o.srv, FileOf(x), x.v)
      /\ x.at = "end" => \A j \in 1 .. Len(x.cmd.files) : Installed(o.srv, x.cmd.files[j], x.v)
  BY <1>1, <1>2, <1>3, <1>5, <1>7, <1>a, <1>b, OwnServed DEF TypeInv
<1>9. \A f \in FilesOf(x.cmd) : Installed(o.srv, f, x.v)
  <2>1. CASE x.at = "check"
    <3>1. FilesOf(x.cmd) = {FileOf(x)}
      BY <1>6, <2>1 DEF FilesOf, FileOf
    <3> QED BY <1>8, <2>1, <3>1
  <2>2. CASE x.at = "end"
    <3>1. x.cmd.op = "sendList" /\ x.cmd \in Commands
      BY <1>1, <2>2, SaneFacts
    <3>2. FilesOf(x.cmd) = ToSet(x.cmd.files) /\ x.cmd.files \in Seq(Files)
      BY <3>1, CommandFields DEF FilesOf
    <3>3. \A f \in FilesOf(x.cmd) : \E j \in 1 .. Len(x.cmd.files) : f = x.cmd.files[j]
      BY <3>2, LenProperties DEF ToSet
    <3> QED BY <1>8, <2>2, <3>3
  <2> QED BY <1>6, <2>1, <2>2
<1> QED BY <1>2, <1>9 DEF Sent, Installed

LEMMA ReturnStep ==
  ASSUME TypeInv, CleanInv, Next, NEW c \in Clients, Returns(c), cl'[c].ret = 0,
         cl[c].cmd.op \in {"sendFile", "sendList"}, Clean(c), ~cl[c].broke,
         Renamed(c)'
  PROVE  Sent(c)
<1>1. ASSUME NEW d \in Clients, Begin(d) PROVE FALSE
  <2>1. cl[d].at = "idle" /\ \E y : cl' = [cl EXCEPT ![d] = y]
    BY <1>1, BeginStep DEF Begin
  <2> QED BY <2>1 DEF Returns, TypeInv, ClientsInv
<1>2. ASSUME NEW d \in Clients, Served(d) PROVE Sent(c)
  <2>1. CASE d = c
    BY <1>2, <2>1, ReturnedSent
  <2>2. CASE d # c
    <3>1. Same(cl[c], cl'[c])
      BY <1>2, <2>2, ServedStep DEF Meets
    <3> QED BY <3>1 DEF Same, Returns
  <2> QED BY <2>1, <2>2
<1>3. ASSUME NEW d \in Clients, NotServed(d) PROVE FALSE
  <2>1. Sane(cl[d]) /\ cl[d].at # "idle" /\ cl' = [cl EXCEPT ![d] = After(cl[d], -1, TRUE)]
    BY <1>3, NotServedStep
  <2>2. -1 \in Int /\ -1 # 0
    OBVIOUS
  <2>3. PICK ret \in Int, noAnswer \in BOOLEAN : ret = -1 /\ noAnswer = TRUE
    BY <2>2
  <2>4. PICK y : y = After(cl[d], ret, noAnswer)
    OBVIOUS
  <2>5. Stopped(y, ret) \/ y.at # "idle"
    BY <2>1, <2>4, AfterStops
  <2>6. cl'[c] = IF c = d THEN y ELSE cl[c]
    BY <2>1, <2>3, <2>4 DEF TypeInv, ClientsInv
  <2>7. CASE c # d
    BY <2>6, <2>7 DEF Returns
  <2>8. CASE c = d
    <3>1. cl'[c].at = "idle" /\ cl'[c].ret = 0
      BY DEF Returns
    <3> QED BY <2>2, <2>3, <2>5, <2>6, <2>8, <3>1 DEF Stopped
  <2> QED BY <2>7, <2>8
<1>4. ASSUME Md5Thread \/ ProcessExits \/ ProcessStarts \/ Restart \/ TakeList PROVE FALSE
  <2>1. cl' = cl
    BY <1>4 DEF Md5Thread, ProcessExits, ProcessStarts, Restart, TakeList
  <2> QED BY <2>1 DEF Returns
<1> QED BY <1>1, <1>2, <1>3, <1>4 DEF Next, Client

(* What returns 0 is installed: each file sent is whole under its name, with no .df and no FILE*, whatever
   request or answer was lost and however often the server was restarted on the way, and whatever failed,
   but for the rename behind a check. *)
THEOREM InstalledWhenSent == Spec => SentIsInstalled
<1> DEFINE ReturnsSent ==
      \A c \in Clients :
        Returns(c) /\ cl'[c].ret = 0 /\ cl[c].cmd.op \in {"sendFile", "sendList"}
        /\ Clean(c) /\ ~cl[c].broke /\ c \notin unrenamed' => Sent(c)
<1>1. TypeInv /\ CleanInv /\ [Next]_vars => [ReturnsSent]_vars
  BY ReturnStep DEF Renamed
<1>2. TypeInv /\ [Next]_vars => TypeInv'
  BY TypeNext
<1>3. TypeInv /\ CleanInv /\ [Next]_vars => CleanInv'
  BY CleanNext
<1>4. SentIsInstalled <=> [][ReturnsSent]_vars
  BY DEF SentIsInstalled
<1> HIDE DEF ReturnsSent
<1> QED BY <1>1, <1>2, <1>3, <1>4, TypeInit, CleanInit, PTL DEF Spec
=============================================================================
