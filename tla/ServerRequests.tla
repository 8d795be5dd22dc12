--------------------------- MODULE ServerRequests ---------------------------
(***************************************************************************)
(* Every request a DFS_DataServer serves (class QSEPSDF_SSWork), as an     *)
(* operator from the state of the machine to its possible outcomes.        *)
(* ServerWork follows one transfer through the buffers, the slots and the  *)
(* threads of this server; here each request is one step, so that whole    *)
(* sequences of requests of several clients can be followed.               *)
(*                                                                         *)
(* The machine is a record: the files under their names, the two maps of   *)
(* FILE*s, the work of the md5 threads, and the processes the server       *)
(* started.  A name is <<base, extension>>.  What a FILE* holds back in    *)
(* its buffer, the md5 itself (a content stands for it), the mode bits and *)
(* errno are left out.  A file can fail to be opened, written or renamed   *)
(* where the code looks at the result; a WRITE is then lost as a whole.    *)
(* That renaming a list, or removing a .md5, fails is left out.            *)
(***************************************************************************)
EXTENDS Integers, FiniteSets, SequencesExt

CONSTANTS
  Files,     \* names without extension of the files
  Lists,     \* of the list files
  Programs,  \* what can be executed: numbers in the order of the names, as m_mapProcPid sorts them
  Pids,      \* the numbers processes can have
  Threads,   \* the md5 threads
  NoFile,    \* the content of a name that does not exist
  Empty,     \* the content of a .md5 that is opened and not yet written
  Garbage,   \* whatever follows a request in memory
  Closed,    \* no FILE* in the map
  Gone,      \* a FILE* whose file lost its name
  NoProcess  \* the pid is free

ASSUME ProgramsAssumption == Programs \subseteq Nat

Names == (Files \X {"", "df", "md5"}) \cup (Lists \X {"", "dftmp", "date", "smtmp"})
ASSUME NamesAssumption ==
  /\ Files \cap Lists = {} /\ {Closed, Gone} \cap Names = {}
  /\ Closed # Gone /\ NoFile # Empty
Df(f) == <<f, "df">>
Md5(f) == <<f, "md5">>
Final(f) == <<f, "">>
DfTmp(l) == <<l, "dftmp">>

(* A process that just started. *)
NewMachine ==
  [disk |-> [n \in Names |-> NoFile],
   m_mapNameFile |-> [f \in Files |-> Closed],
   m_mapList |-> [l \in Lists |-> Closed],
   jobs |-> <<>>,             \* closed files no md5 thread has taken
   hashing |-> {},            \* the md5s computed, whose .md5 is open
   m_mapProcPid |-> {},       \* the entries of the multimap
   procs |-> [p \in Pids |-> NoProcess]]

(* What a request does to the machine s and answers; bad counts the errors of the machine it took. *)
Answer(s, r) == [srv |-> s, ret |-> r, bad |-> 0]
Fails(s, r) == [srv |-> s, ret |-> r, bad |-> 1]

-----------------------------------------------------------------------------
(* The file system.  FILE*s and threads stay with a file that is renamed. *)

Exists(s, n) == s.disk[n] # NoFile
Write(s, n, c) == [s EXCEPT !.disk[n] = c]
Extend(s, n, c) == [s EXCEPT !.disk[n] = (IF @ = NoFile THEN <<>> ELSE @) \o c]

Rebind(s, a, b) ==
  LET Becomes(n) == IF n = a THEN b ELSE IF n = b THEN Gone ELSE n
  IN [s EXCEPT !.m_mapNameFile = [f \in Files |-> Becomes(s.m_mapNameFile[f])],
               !.m_mapList = [l \in Lists |-> Becomes(s.m_mapList[l])]]

Rename(s, a, b) == [Rebind(s, a, b) EXCEPT !.disk[a] = NoFile, !.disk[b] = s.disk[a]]

Unlink(s, n) ==
  [Rebind(s, n, Gone) EXCEPT !.disk[n] = NoFile, !.hashing = {j \in @ : Md5(j.f) # n}]

(* fwrite to a FILE* *)
Put(s, n, c) == IF n \in Names THEN Extend(s, n, c) ELSE s

-----------------------------------------------------------------------------
(* The requests of a transfer. *)

(* fclose of a FILE* the map still has for f, then fopen(.df, "wb"). *)
CloseOld(s, f) == [s EXCEPT !.m_mapNameFile[f] = Closed]
Reopened(s, f) == [Write(CloseOld(s, f), Df(f), <<>>) EXCEPT !.m_mapNameFile[f] = Df(f)]

(* The name of f is appended to the list: to the open one, else to .dftmp, opened again. *)
AddName_OwnName(s, l, f) ==
  IF s.m_mapList[l] # Closed THEN Put(s, s.m_mapList[l], <<l>>)
  ELSE [Extend(s, DfTmp(l), <<l>>) EXCEPT !.m_mapList[l] = DfTmp(l)]

AddName(s, l, f) ==
  IF s.m_mapList[l] # Closed THEN Put(s, s.m_mapList[l], <<f>>)
  ELSE [Extend(s, DfTmp(l), <<f>>) EXCEPT !.m_mapList[l] = DfTmp(l)]

OpenAFile(s, l, f) ==
  LET t == Unlink(s, Md5(f)) IN
    {Answer(AddName(Reopened(t, f), l, f), 0), Fails(CloseOld(t, f), -1)}
      \cup {Fails(Reopened(t, f), -1) : c \in {t.m_mapList[l]} \cap {Closed}}

(* A list that exists is renamed to .dftmp and continued; otherwise .dftmp is created or emptied. *)
CreateAList_Truncates(s, l) ==
  {Answer([Write(Unlink(s, Final(l)), DfTmp(l), <<>>) EXCEPT !.m_mapList[l] = DfTmp(l)], 0)}

CreateAList(s, l) ==
  LET t == [s EXCEPT !.m_mapList[l] = Closed]
      made == IF Exists(t, Final(l)) THEN Rename(t, Final(l), DfTmp(l)) ELSE t
      opened == IF Exists(t, Final(l)) THEN made ELSE Write(made, DfTmp(l), <<>>)
  IN {Answer([opened EXCEPT !.m_mapList[l] = DfTmp(l)], 0), Fails(made, -1)}

WriteToFile(s, f, data) ==
  {Answer(Put(s, s.m_mapNameFile[f], data), 0)}
    \cup {Fails(s, -2) : n \in {s.m_mapNameFile[f]} \ {Closed}}

HandOver_AsAll(s, f, all) == {Answer([s EXCEPT !.jobs = Append(@, f)], 0)}

(* all: the file waits for an md5 thread; otherwise it is renamed at once, and whether that succeeded
   is not answered. *)
HandOver(s, f, all) ==
  IF all THEN {Answer([s EXCEPT !.jobs = Append(@, f)], 0)}
  ELSE IF Exists(s, Df(f)) THEN {Answer(Rename(s, Df(f), Final(f)), 0), Fails(s, 0)}
  ELSE {Answer(s, 0)}

CloseAFile(s, f, all) == HandOver(CloseOld(s, f), f, all)

(* The list is renamed to its name, or with dated to its name and the date. *)
CloseAList(s, l, dated) ==
  LET t == [s EXCEPT !.m_mapList[l] = Closed] IN
    {IF s.m_mapList[l] = Closed THEN Answer(s, -2)
     ELSE IF ~Exists(t, DfTmp(l)) THEN Answer(t, -1)
     ELSE Answer(Rename(t, DfTmp(l), IF dated THEN <<l, "date">> ELSE Final(l)), 0)}

(* As OpenAFile, for a file of no list; the .md5 of an earlier transfer stays. *)
RecvSingleFile(s, f) == {Answer(Reopened(s, f), 0), Fails(CloseOld(s, f), -2)}

(* The check succeeded: rename(.df, file), remove(.md5), and 0, also when the rename failed. *)
Install(s, f) == Unlink(Rename(s, Df(f), Final(f)), Md5(f))
TriesInstall(s, f) == {Answer(Install(s, f), 0), Fails(Unlink(s, Md5(f)), 0)}

(* BuildMd5 writes the .md5 it computes. *)
BuildMd5(s, f) == Write(s, Md5(f), s.disk[Df(f)])

CheckMD5_Always(s, f, hash) == IF Exists(s, Df(f)) THEN TriesInstall(s, f) ELSE {Answer(s, 0)}

(* Without a .df the answer is 0, or -1 if the stat buffer that was not written looks like a directory.
   With one, the .md5 cannot be opened, or built; or it is compared.  An empty one answers 0 and renames
   nothing. *)
CheckMD5(s, f, hash) ==
  IF ~Exists(s, Df(f)) THEN {Answer(s, 0), Answer(s, -1)}
  ELSE LET t == IF Exists(s, Md5(f)) THEN s ELSE BuildMd5(s, f)
           text == t.disk[Md5(f)]
       IN {Fails(s, IF Exists(s, Md5(f)) THEN -3 ELSE -4)}
            \cup IF text = Empty THEN {Answer(t, 0)}
                 ELSE IF text = hash THEN TriesInstall(t, f)
                 ELSE {Answer(t, -2)}

-----------------------------------------------------------------------------
(* The requests about single names. *)

RemoveFile(s, n) == {IF Exists(s, n) THEN Answer(Unlink(s, n), 0) ELSE Answer(s, -1)}

(* Data is appended to a file that exists.  The length of data that was not sent is read behind the
   request, so that something may be written. *)
CreateAFile(s, n, data) ==
  {Fails(s, -1)} \cup
  {Answer(Extend(s, n, d), Len(d)) : d \in IF data # <<>> THEN {data} ELSE {<<>>, <<Garbage>>}}

CheckAFile(s, n) == {Answer(s, IF Exists(s, n) THEN 0 ELSE -1)}

RenameFile(s, a, b) == {IF Exists(s, a) THEN Answer(Rename(s, a, b), 0) ELSE Answer(s, -1)}

(* The .md5 beside the file if there is one, else the md5 of the file. *)
GetFileMD5(s, f) ==
  {Answer(s, IF ~Exists(s, Final(f)) THEN -1 ELSE IF s.disk[Md5(f)] = Empty THEN -2 ELSE 0)}

(* A name that is not there: -1 or -2, as the stat buffer happens to look. *)
FileChmod(s, f) ==
  IF Exists(s, Final(f)) THEN {Answer(s, 0), Fails(s, -2)} ELSE {Answer(s, -1), Answer(s, -2)}

(* popen of whatever command it is; its output is answered, and may be an error text. *)
RPCShell(s) == {Answer(s, 0), Fails(s, -4)}

-----------------------------------------------------------------------------
(* The processes.  A child of the server process that has ended is a zombie until it is waited for, by
   the handler of SIGCHLD as a rule, and then its pid is free, though it stays in m_mapProcPid.  A
   foreign process is not a child of the server process. *)

Process(p, st) == [prog |-> p, st |-> st]

(* The server process is started again: what was in memory is gone, files and processes stay, but the
   processes are not its children any more, and those that have ended vanish. *)
Restarted(s) ==
  [NewMachine EXCEPT
     !.disk = s.disk,
     !.procs = [q \in Pids |->
       IF s.procs[q] # NoProcess /\ s.procs[q].st # "zombie" THEN Process(s.procs[q].prog, "foreign")
       ELSE NoProcess]]

(* m_mapProcPid.insert *)
Entry(p, pid) == [prog |-> p, pid |-> pid]
Inserted_OnePerName(s, p, pid) == {e \in s.m_mapProcPid : e.prog # p} \cup {Entry(p, pid)}
Inserted(s, p, pid) == s.m_mapProcPid \cup {Entry(p, pid)}

(* fork and execvp: the program runs, or has ended, or execvp failed and the child exits.  Then the pid
   is looked for in the output of ps, where other things can look like it.  Without the file for the
   pids, fclose(NULL) ends the server process. *)
Forked(s, p, pid, x) ==
  [s EXCEPT !.procs[pid] = x, !.m_mapProcPid = Inserted(s, p, pid)]
ExecProcess(s, p) ==
  {Answer(s, -1), Answer(s, -2), Fails(s, -3)} \cup
  UNION {LET Child(st) == Forked(s, p, pid, Process(p, st))
             reaped == Forked(s, p, pid, NoProcess)
         IN {Answer(Child("run"), 0), Answer(Child("zombie"), 0), Answer(reaped, 0), Answer(reaped, -4),
             Fails(Restarted(Child("run")), -1)} :
           pid \in {q \in Pids : s.procs[q] = NoProcess}}

Killed(s, pids) == [s EXCEPT !.procs = [q \in Pids |-> IF q \in pids THEN NoProcess ELSE @[q]]]

(* kill and waitpid for every entry from the first of p to the end of the map, those of the programs
   behind p included, of which only those of p are erased.  Without an entry, for what ps shows, up to
   the first that is gone meanwhile, or to the fourth, as three tries to wait are allowed in all. *)
KillProcess(s, p) ==
  LET known == {e \in s.m_mapProcPid : e.prog = p}
      behind == {e \in s.m_mapProcPid : e.prog >= p}
      shown == {q \in Pids : s.procs[q] # NoProcess /\ s.procs[q].prog = p}
      tried == {pids \in SUBSET shown : Cardinality(pids) <= 4 /\ (pids = {} => shown = {})}
  IN IF known # {}
     THEN {Answer([Killed(s, {e.pid : e \in behind}) EXCEPT !.m_mapProcPid = @ \ known], 0)}
     ELSE {Answer(Killed(s, pids), 0) : pids \in tried}
            \cup {Answer(Killed(s, pids), -4) : pids \in {x \in tried : Cardinality(x) = 4}}

-----------------------------------------------------------------------------
(* QSEPSDF_SSWork::work. *)
Work(s, req) ==
  CASE req.op = "START_LST" -> CreateAList(s, req.l)
    [] req.op = "END_LST" -> CloseAList(s, req.l, req.dated)
    [] req.op = "OPEN_FILE" -> OpenAFile(s, req.l, req.f)
    [] req.op = "CLOSE_FILE" -> CloseAFile(s, req.f, req.all)
    [] req.op = "WRITE_FILE" -> WriteToFile(s, req.f, req.data)
    [] req.op = "DEL_FILE" -> RemoveFile(s, req.n)
    [] req.op = "CREATE_FILE" -> CreateAFile(s, req.n, req.data)
    [] req.op = "CHECK_FILE" -> CheckAFile(s, req.n)
    [] req.op = "RENAME_FILE" -> RenameFile(s, req.n, req.to)
    [] req.op = "SINGLE_FILE" -> RecvSingleFile(s, req.f)
    [] req.op = "CHECK_MD5" -> CheckMD5(s, req.f, req.hash)
    [] req.op = "GET_FILE_MD5" -> GetFileMD5(s, req.f)
    [] req.op = "FILE_CHMOD" -> FileChmod(s, req.f)
    [] req.op = "KILL_PROCESS" -> KillProcess(s, req.p)
    [] req.op = "EXEC_PROCESS" -> ExecProcess(s, req.p)
    [] req.op = "RPC_SHELL" -> RPCShell(s)

-----------------------------------------------------------------------------
(* What the machine does on its own. *)

(* An md5 thread takes the oldest job: without a .df it is over, else the .df is read and the .md5
   opened, ... *)
Md5Reads(s) ==
  LET f == Head(s.jobs)
      t == [s EXCEPT !.jobs = Tail(@)]
  IN IF ~Exists(s, Df(f)) THEN t
     ELSE [Write(t, Md5(f), Empty) EXCEPT !.hashing = @ \cup {[f |-> f, hash |-> s.disk[Df(f)]]}]

(* ... and writes the md5. *)
Md5Writes(s, j) == [Write(s, Md5(j.f), j.hash) EXCEPT !.hashing = @ \ {j}]

(* A process comes to its end: a child is waited for in the handler of SIGCHLD, at once, or with a later
   signal when two come together. *)
Exits(s, q) ==
  LET Becomes(x) == [s EXCEPT !.procs[q] = x] IN
    {Becomes(NoProcess)} \cup
    {Becomes(Process(x.prog, "zombie")) : x \in {y \in {s.procs[q]} : y.st = "run"}}

(* A program that this server process did not start. *)
ForeignStarts(s, p, q) == [s EXCEPT !.procs[q] = Process(p, "foreign")]
=============================================================================
