---------------------------- MODULE IsBrokerWork ----------------------------
(***************************************************************************)
(* Every request an index server or a broker serves (class IsBrokerWork):  *)
(* a copy of QSEPSDF_SSWork that has drifted.  An operator that is only    *)
(* named after the other class stands for code that is the same but for    *)
(* its layout and its log lines; what has its own definition differs:      *)
(*   - a CLOSE is answered before the file is handed over,                 *)
(*   - the end of a list leaves a dated symbol beside it,                  *)
(*   - chmod looks only whether the file is there.                         *)
(***************************************************************************)
EXTENDS Integers

CONSTANTS Files, Lists, Programs, Pids, Threads, NoFile, Empty, Garbage, Closed, Gone, NoProcess

SS == INSTANCE ServerRequests

OpenAFile(s, l, f) == SS!OpenAFile(s, l, f)
CreateAList(s, l) == SS!CreateAList(s, l)
WriteToFile(s, f, data) == SS!WriteToFile(s, f, data)
RecvSingleFile(s, f) == SS!RecvSingleFile(s, f)
CheckMD5(s, f, hash) == SS!CheckMD5(s, f, hash)
GetFileMD5(s, f) == SS!GetFileMD5(s, f)
RemoveFile(s, n) == SS!RemoveFile(s, n)
CreateAFile(s, n, data) == SS!CreateAFile(s, n, data)
CheckAFile(s, n) == SS!CheckAFile(s, n)
RenameFile(s, a, b) == SS!RenameFile(s, a, b)
KillProcess(s, p) == SS!KillProcess(s, p)
ExecProcess(s, p) == SS!ExecProcess(s, p)
RPCShell(s) == SS!RPCShell(s)

(* The answer goes out first: when the process dies behind it, the client takes a file for closed that
   no md5 thread and no rename will ever see. *)
CloseAFile(s, f, all) ==
  LET t == SS!CloseOld(s, f) IN
    SS!HandOver(t, f, all) \cup {SS!Fails(SS!Restarted(t), 0)}

(* The renamed list stays when the symbol cannot be created. *)
CloseAList(s, l) ==
  LET t == [s EXCEPT !.m_mapList[l] = Closed]
      u == SS!Rename(t, SS!DfTmp(l), SS!Final(l))
      Symbol(v, r) == {SS!Answer(SS!Write(v, <<l, "date">>, <<>>), r), SS!Fails(v, -1)}
  IN IF s.m_mapList[l] = Closed THEN {SS!Answer(s, -2)}
     ELSE IF SS!Exists(t, SS!DfTmp(l)) THEN Symbol(u, 0) ELSE Symbol(t, -1)

FileChmod(s, f) ==
  IF SS!Exists(s, SS!Final(f)) THEN {SS!Answer(s, 0), SS!Fails(s, -2)} ELSE {SS!Answer(s, -1)}

(* IsBrokerWork::work. *)
Work(s, req) ==
  CASE req.op = "START_LST" -> CreateAList(s, req.l)
    [] req.op = "END_LST" -> CloseAList(s, req.l)
    [] req.op = "OPEN_FILE" -> OpenAFile(s, req.l, req.f)
    [] req.op = "CLOSE_FILE" -> CloseAFile(s, req.f, req.all)
    [] req.op = "WRITE_FILE" -> WriteToFile(s, req.f, req.data)
    [] req.op = "DEL_FILE" -> RemoveFile(s, req.n)
    [] req.op = "CREATE_FILE" -> CreateAFile(s, req.n, req.data)
    [] req.op = "CHECK_FILE" -> CheckAFile(s, req.n)
    [] req.op = "RENAME_FILE" -> RenameFile(s, req.n, req.to)
    [] req.op = "SINGLE_FILE" -> RecvSingleFile(s, req.f)
    [] req.op = "CHECK_MD5" -> CheckMD5(s, req.f, req.hash)
    [] req.op = "GET_FILE_MD5" -> GetFileMD5(s, req.f)
    [] req.op = "FILE_CHMOD" -> FileChmod(s, req.f)
    [] req.op = "KILL_PROCESS" -> KillProcess(s, req.p)
    [] req.op = "EXEC_PROCESS" -> ExecProcess(s, req.p)
    [] req.op = "RPC_SHELL" -> RPCShell(s)
=============================================================================
