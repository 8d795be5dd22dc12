---------------------------- MODULE ListTransfer ----------------------------
(***************************************************************************)
(* Whole lists, from the list file that appears to the .Finish it becomes: *)
(* the thread of one list (CQSEPSDF_CS::MainWork) for its groups in turn,  *)
(* the threads of the servers (Main_Command), the count of files a restart *)
(* skips (m_LstNO and its file), the verification, and the servers with    *)
(* every request they serve (ServerRequests).                              *)
(*                                                                         *)
(* The client, or a server, may be killed and started again at any time;   *)
(* requests and answers are lost.  The fields that carry commands, several *)
(* lists, several servers in a group and large files are left to Dispatch: *)
(* here a group is one server, a file is one block, and the list has the   *)
(* number 0.  The next list file appears when the last list is finished.   *)
(***************************************************************************)
EXTENDS ServerRequests

CONSTANTS
  Lines,       \* the files of the list, in order
  GroupList,   \* the name the list has at the servers
  MaxTry,      \* 5: sends before a START, OPEN, CLOSE or END is given up
  Missing,     \* sets of files that a list may name and that cannot be read
  Scenes,      \* bound: each scene has modes, the m_SendDataType of every group in order, "ALL" or "MOD",
               \* and how many lists come, md5 threads run, and crashes of client or servers happen
  MaxLost      \* bound: requests and answers lost, errors of the servers

ASSUME ListTransferAssumption ==
  /\ Lines \in Seq(Files) /\ ToSet(Lines) = Files /\ Lists = {GroupList}
  /\ \A s \in Scenes :
       /\ s.modes \in Seq({"ALL", "MOD"}) /\ s.modes # <<>>
       /\ s.lists \in Nat /\ s.threads \in Nat /\ s.crashes \in Nat
  /\ MaxTry \in Nat \ {0} /\ MaxLost \in Nat
  /\ \A missing \in Missing : missing \subseteq Files
\* No content of a file is confused with a file that is not there, nor with a .md5 not written yet.
ASSUME ContentsAssumption == NoFile \notin Seq(Nat) /\ Empty \notin Seq(Nat)

VARIABLES
  scene,     \* a member of Scenes
  names,     \* which of the list files are there: "list", "Ready", "Finish"
  missing,   \* the files of this list that cannot be read
  md5s,      \* the versions the local .md5 files are of, 0 for none
  m_FileNum, \* the count of m_LstNO
  saved,     \* the count in its file, 0 without one
  lst,       \* the thread of the list
  que,       \* the queue of each group's server
  snd,       \* the thread of each group's server
  srv,       \* the servers
  list,      \* the number of the list, which is the version of its files
  lost, crashes, \* spent of MaxLost and scene.crashes
  alarmed,   \* history: a text message was sent about this list
  dirty,     \* history: what makes a list less than it seems: it began before the last one was carried
             \* out ("early"), the client was killed during it ("crash"), a file was opened of which an
             \* md5 thread still had work ("late"), a check met an empty .md5 ("empty"), or a server failed
             \* to rename a file and answered 0 ("rename")
  sound,     \* history: no check failed, and no crash of the client lost a command behind a finished list
  done       \* history: the files of this list whose CLOSE was released, for each group

Modes == scene.modes
Groups == DOMAIN Modes

disk == <<names, missing, md5s, saved>>
client == <<m_FileNum, lst, que, snd>>
bounds == <<list, lost, crashes>>
history == <<alarmed, dirty, sound, done>>
vars == <<scene, disk, client, srv, bounds, history>>

Version(v) == <<v>>
(* The thread of the list at a stage: group g, line i, the files it skips, whether there is something to
   verify, and then the files still to be checked, the one at hand and the version its .md5 is of. *)
ThreadAt(at, g, skip) ==
  [at |-> at, g |-> g, i |-> 1, skip |-> skip, verify |-> FALSE, todo |-> {}, f |-> NoFile, hash |-> 0]
Waiting == ThreadAt("wait", 1, 0)
NoCommand == [op |-> "none"]
Idle(g) == que[g] = <<>> /\ snd[g].cmd = NoCommand

Init ==
  /\ scene \in Scenes
  /\ names = {} /\ missing = {} /\ md5s = [f \in Files |-> 0]
  /\ m_FileNum = 0 /\ saved = 0
  /\ lst = Waiting
  /\ que = [g \in Groups |-> <<>>]
  /\ snd = [g \in Groups |-> [cmd |-> NoCommand, try |-> 0]]
  /\ srv = [g \in Groups |-> NewMachine]
  /\ list = 0 /\ lost = 0 /\ crashes = 0
  /\ alarmed = FALSE /\ dirty = {} /\ sound = TRUE /\ done = [g \in Groups |-> {}]

-----------------------------------------------------------------------------
(* A list file appears, with new data in the files it names. *)
ListArrives ==
  /\ list < scene.lists
  /\ names \cap {"list", "Ready"} = {}
  /\ list' = list + 1
  /\ names' = names \cup {"list"}
  /\ missing' \in Missing
  /\ UNCHANGED <<scene, md5s, saved, client, srv, lost, crashes, history>>

(* Step 1: a .Ready that is there is resumed behind the files that were counted, otherwise the list is
   begun. *)
Resumes_OnlyCounted == "Ready" \in names /\ m_FileNum # 0
Resumes == "Ready" \in names
Begins == "Ready" \notin names /\ "list" \in names

MonitorList ==
  /\ lst.at = "wait"
  /\ \/ /\ Resumes
        /\ lst' = ThreadAt("start", 1, m_FileNum)
        /\ UNCHANGED <<names, history>>
     \/ /\ Begins
        /\ names' = (names \ {"list"}) \cup {"Ready"}
        /\ lst' = ThreadAt("start", 1, 0)
        /\ alarmed' = FALSE /\ done' = [g \in Groups |-> {}]
        /\ dirty' = IF \A g \in Groups : Idle(g) THEN {} ELSE {"early"}
        /\ UNCHANGED sound
  /\ UNCHANGED <<scene, missing, md5s, saved, m_FileNum, que, snd, srv, bounds>>

PushAll(cmds) == que' = [que EXCEPT ![lst.g] = @ \o cmds]

(* Step 2: START, unless files are skipped. *)
Work_StartList ==
  /\ lst.at = "start"
  /\ IF lst.skip = 0 THEN PushAll(<<[op |-> "START_LST", l |-> GroupList]>>) ELSE UNCHANGED que
  /\ lst' = [lst EXCEPT !.at = "file", !.i = 1, !.verify = FALSE]
  /\ UNCHANGED <<scene, disk, m_FileNum, snd, srv, bounds, history>>

Skipped(i) == i <= lst.skip \/ Lines[i] \in missing

SkipFile ==
  /\ lst.at = "file" /\ lst.i <= Len(Lines)
  /\ Skipped(lst.i)
  /\ lst' = [lst EXCEPT !.i = @ + 1]
  /\ UNCHANGED <<scene, disk, m_FileNum, que, snd, srv, bounds, history>>

(* Steps 3 to 5: OPEN, the data, CLOSE; ... *)
SendFile ==
  /\ lst.at = "file" /\ lst.i <= Len(Lines)
  /\ ~Skipped(lst.i)
  /\ LET f == Lines[lst.i] IN
       PushAll(<<[op |-> "OPEN_FILE", l |-> GroupList, f |-> f],
                 [op |-> "WRITE_FILE", f |-> f, data |-> Version(list)],
                 [op |-> "CLOSE_FILE", f |-> f, all |-> Modes[lst.g] = "ALL"]>>)
  /\ lst' = IF Modes[lst.g] = "ALL" THEN [lst EXCEPT !.at = "md5", !.verify = TRUE]
            ELSE [lst EXCEPT !.i = @ + 1]
  /\ UNCHANGED <<scene, disk, m_FileNum, snd, srv, bounds, history>>

(* ... and the md5 of the file, a second later. *)
BuildLocalMd5 ==
  /\ lst.at = "md5"
  /\ md5s' = [md5s EXCEPT ![Lines[lst.i]] = list]
  /\ lst' = [lst EXCEPT !.at = "file", !.i = @ + 1]
  /\ UNCHANGED <<scene, names, missing, saved, m_FileNum, que, snd, srv, bounds, history>>

FilesEnd ==
  /\ lst.at = "file" /\ lst.i > Len(Lines)
  /\ lst' = [lst EXCEPT !.at = IF lst.verify THEN "drain" ELSE "end"]
  /\ UNCHANGED <<scene, disk, m_FileNum, que, snd, srv, bounds, history>>

-----------------------------------------------------------------------------
(* Step 6: when the queue is empty, every file that has a local .md5 is checked. *)
Drained_Always == TRUE
Drained == que[lst.g] = <<>>

Drain ==
  /\ lst.at = "drain"
  /\ Drained
  /\ lst' = [lst EXCEPT !.at = "verify", !.todo = {f \in Files : md5s[f] # 0}]
  /\ UNCHANGED <<scene, disk, m_FileNum, que, snd, srv, bounds, history>>

(* They are checked in the order of their names, whatever that is; WorkClient::checkMD5 takes the local
   .md5 with it. *)
TakeMd5 ==
  /\ lst.at = "verify"
  /\ \/ /\ lst.todo = {}
        /\ lst' = [lst EXCEPT !.at = "end"]
        /\ UNCHANGED md5s
     \/ \E f \in lst.todo :
          /\ lst' = [lst EXCEPT !.at = "check", !.todo = @ \ {f}, !.f = f, !.hash = md5s[f]]
          /\ md5s' = [md5s EXCEPT ![f] = 0]
  /\ UNCHANGED <<scene, names, missing, saved, m_FileNum, que, snd, srv, bounds, history>>

NextGroup(l) ==
  IF l.g < Len(Modes) THEN ThreadAt("start", l.g + 1, l.skip) ELSE ThreadAt("finish", 1, 0)

(* A check that fails ends the group without its END, and the count is reset. *)
CheckFailed ==
  /\ alarmed' = TRUE /\ sound' = FALSE
  /\ m_FileNum' = 0 /\ saved' = 0
  /\ lst' = NextGroup(lst)

CheckAnswered(ret) ==
  \/ /\ ret = 0
     /\ lst' = [lst EXCEPT !.at = "verify", !.f = NoFile, !.hash = 0]
     /\ UNCHANGED <<m_FileNum, saved, alarmed, sound>>
  \/ ret # 0 /\ CheckFailed

(* The rename failed, and yet 0 is answered. *)
Unrenamed(o) == IF o.bad = 1 /\ o.ret = 0 THEN {"rename"} ELSE {}

(* A check is repeated until it is answered. *)
Check ==
  /\ lst.at = "check"
  /\ LET g == lst.g
         f == lst.f
     IN \E o \in CheckMD5(srv[g], f, Version(lst.hash)), noAnswer \in BOOLEAN :
          /\ srv' = [srv EXCEPT ![g] = o.srv]
          /\ lost' = lost + o.bad + (IF noAnswer THEN 1 ELSE 0) /\ lost' <= MaxLost
          /\ IF noAnswer THEN UNCHANGED <<lst, m_FileNum, saved, alarmed, sound>> ELSE CheckAnswered(o.ret)
          /\ dirty' = dirty \cup Unrenamed(o) \cup (IF srv[g].disk[Md5(f)] = Empty THEN {"empty"} ELSE {})
  /\ UNCHANGED <<scene, names, missing, md5s, que, snd, list, crashes, done>>

Work_MoveMD5File == md5s' = [f \in Files |-> 0]

(* Step 7: END, and the local .md5 files are removed. *)
Work_CloseList ==
  /\ lst.at = "end"
  /\ PushAll(<<[op |-> "END_LST", l |-> GroupList, dated |-> FALSE]>>)
  /\ Work_MoveMD5File
  /\ lst' = NextGroup(lst)
  /\ UNCHANGED <<scene, names, missing, saved, m_FileNum, snd, srv, bounds, history>>

(* Step 8. *)
Finish ==
  /\ lst.at = "finish"
  /\ names' = (names \ {"Ready"}) \cup {"Finish"}
  /\ lst' = Waiting
  /\ UNCHANGED <<scene, missing, md5s, saved, m_FileNum, que, snd, srv, bounds, history>>

ListThread ==
  \/ MonitorList \/ Work_StartList \/ SkipFile \/ SendFile \/ BuildLocalMd5 \/ FilesEnd
  \/ Drain \/ TakeMd5 \/ Check \/ Work_CloseList \/ Finish

-----------------------------------------------------------------------------
(* The thread of a server. *)
PopCommand(g) ==
  /\ snd[g].cmd = NoCommand /\ que[g] # <<>>
  /\ snd' = [snd EXCEPT ![g] = [cmd |-> Head(que[g]), try |-> 0]]
  /\ que' = [que EXCEPT ![g] = Tail(@)]
  /\ UNCHANGED <<scene, disk, m_FileNum, lst, srv, bounds, history>>

Counted_AtOpen(cmd, n) == IF cmd.op = "OPEN_FILE" THEN n + 1 ELSE IF cmd.op = "END_LST" THEN 0 ELSE n
Counted_NoReset(cmd, n) == IF cmd.op = "CLOSE_FILE" THEN n + 1 ELSE n
Counted(cmd, n) == IF cmd.op = "CLOSE_FILE" THEN n + 1 ELSE IF cmd.op = "END_LST" THEN 0 ELSE n

(* FreeAField: UpdateLstNO for a CLOSE, ResetLstNO for an END. *)
Released(g, cmd) ==
  /\ snd' = [snd EXCEPT ![g] = [cmd |-> NoCommand, try |-> 0]]
  /\ m_FileNum' = Counted(cmd, m_FileNum)
  /\ saved' = m_FileNum'
  /\ done' = IF cmd.op = "CLOSE_FILE" THEN [done EXCEPT ![g] = @ \cup {cmd.f}] ELSE done

LastTry_OneMore(s) == s.cmd.op # "WRITE_FILE" /\ s.try >= MaxTry
LastTry(s) == s.cmd.op # "WRITE_FILE" /\ s.try + 1 >= MaxTry

(* A WRITE is sent until it succeeds, every other command MaxTry times; then a text message is sent and
   the command is released as if it had been done. *)
SendFailed(g) ==
  IF LastTry(snd[g])
  THEN Released(g, snd[g].cmd) /\ alarmed' = TRUE
  ELSE /\ snd' = [snd EXCEPT ![g].try = IF snd[g].cmd.op = "WRITE_FILE" THEN @ ELSE @ + 1]
       /\ UNCHANGED <<m_FileNum, saved, alarmed, done>>

Late(g, cmd) ==
  cmd.op = "OPEN_FILE" /\ (Contains(srv[g].jobs, cmd.f) \/ \E j \in srv[g].hashing : j.f = cmd.f)

Send(g) ==
  /\ snd[g].cmd # NoCommand
  /\ \E o \in Work(srv[g], snd[g].cmd) :
       /\ srv' = [srv EXCEPT ![g] = o.srv]
       /\ dirty' = dirty \cup Unrenamed(o) \cup (IF Late(g, snd[g].cmd) THEN {"late"} ELSE {})
       /\ lost' = lost + o.bad /\ lost' <= MaxLost
       /\ IF o.ret < 0 THEN SendFailed(g) ELSE Released(g, snd[g].cmd) /\ UNCHANGED alarmed
  /\ UNCHANGED <<scene, names, missing, md5s, lst, que, list, crashes, sound>>

(* The request or its answer is lost. *)
SendLost(g) ==
  /\ snd[g].cmd # NoCommand
  /\ lost < MaxLost /\ lost' = lost + 1
  /\ \/ UNCHANGED srv
     \/ \E o \in Work(srv[g], snd[g].cmd) : o.bad = 0 /\ srv' = [srv EXCEPT ![g] = o.srv]
  /\ dirty' = dirty \cup (IF Late(g, snd[g].cmd) THEN {"late"} ELSE {})
  /\ SendFailed(g)
  /\ UNCHANGED <<scene, names, missing, md5s, lst, que, list, crashes, sound>>

ServerThread(g) == PopCommand(g) \/ Send(g)

-----------------------------------------------------------------------------
Md5Thread(g) ==
  /\ \/ /\ srv[g].jobs # <<>> /\ Cardinality(srv[g].hashing) < scene.threads
        /\ srv' = [srv EXCEPT ![g] = Md5Reads(@)]
     \/ \E j \in srv[g].hashing : srv' = [srv EXCEPT ![g] = Md5Writes(@, j)]
  /\ UNCHANGED <<scene, disk, client, bounds, history>>

(* The client is started again: the queues are gone, ReadLstNO reads the count. *)
ClientCrash ==
  /\ crashes < scene.crashes /\ crashes' = crashes + 1
  /\ m_FileNum' = saved
  /\ lst' = Waiting
  /\ que' = [g \in Groups |-> <<>>]
  /\ snd' = [g \in Groups |-> [cmd |-> NoCommand, try |-> 0]]
  /\ dirty' = dirty \cup {"crash"}
  /\ sound' = (sound /\ ("Ready" \in names \/ \A g \in Groups : Idle(g)))
  /\ UNCHANGED <<scene, disk, srv, list, lost, alarmed, done>>

ServerCrash(g) ==
  /\ crashes < scene.crashes /\ crashes' = crashes + 1
  /\ srv' = [srv EXCEPT ![g] = Restarted(@)]
  /\ UNCHANGED <<scene, disk, client, list, lost, history>>

Next ==
  \/ ListArrives
  \/ ListThread
  \/ \E g \in Groups : ServerThread(g) \/ SendLost(g) \/ Md5Thread(g) \/ ServerCrash(g)
  \/ ClientCrash

Spec == Init /\ [][Next]_vars

(* The threads run on: WF_vars(ListThread) and WF_vars(ServerThread(g)) for every group, which are
   disabled only where it says so here, and always change something. *)
Fairness ==
  /\ \/ []<>(lst.at = "wait" /\ ~Resumes /\ ~Begins)
     \/ []<>(lst.at = "drain" /\ ~Drained)
     \/ []<><<ListThread>>_vars
  /\ \A g \in UNION {DOMAIN s.modes : s \in Scenes} :
       []<>(g \in Groups => Idle(g)) \/ []<><<g \in Groups /\ ServerThread(g)>>_vars

FairSpec == Spec /\ Fairness

-----------------------------------------------------------------------------
Contents == Seq(1 .. scene.lists) \cup Seq(Files) \cup {NoFile, Empty}

TypeOK ==
  /\ scene \in Scenes
  /\ names \subseteq {"list", "Ready", "Finish"} /\ missing \in Missing \cup {{}}
  /\ md5s \in [Files -> 0 .. scene.lists]
  /\ m_FileNum \in Nat /\ saved = m_FileNum
  /\ lst \in [at : {"wait", "start", "file", "md5", "drain", "verify", "check", "end", "finish"},
              g : Groups, i : 1 .. Len(Lines) + 1, skip : Nat, verify : BOOLEAN,
              todo : SUBSET Files, f : Files \cup {NoFile}, hash : 0 .. scene.lists]
  /\ lst.at = "check" => lst.f \in Files
  /\ lst.at # "wait" => "Ready" \in names
  /\ \A g \in Groups :
       /\ snd[g].try \in 0 .. MaxTry - 1
       /\ srv[g].disk \in [Names -> Contents]
       /\ done[g] \subseteq Files
  /\ list \in 0 .. scene.lists /\ lost \in 0 .. MaxLost /\ crashes \in 0 .. scene.crashes
  /\ alarmed \in BOOLEAN /\ dirty \subseteq {"early", "crash", "late", "empty", "rename"} /\ sound \in BOOLEAN

Readable == Files \ missing
Rest == lst.at = "wait" /\ names \cap {"list", "Ready"} = {} /\ \A g \in Groups : Idle(g)
InstalledAt(g, f) == srv[g].disk[Final(f)] = Version(list)
Installed(g) == \A f \in Readable : InstalledAt(g, f)

(* When every group of a list was gone through and no text message was sent, the servers whose files are
   verified have every file of the list that could be read, whole and under its name; whatever requests,
   answers and servers were lost on the way.  Not so after a crash of the client (see ResumedIsInstalled), when
   a check met an empty .md5, when an md5 thread lagged a whole list behind (then the .md5 is none of this
   file), or when a server failed to rename a file, which it answers with 0. *)
FinishedIsInstalled ==
  lst.at = "finish" /\ ~alarmed /\ dirty \subseteq {"early"} =>
    \A g \in Groups : Modes[g] = "ALL" => Installed(g)

(* "resume the break-point transmission": the same for a list during which the client crashed. *)
ResumedIsInstalled ==
  lst.at = "finish" /\ ~alarmed /\ dirty \subseteq {"early", "crash"} =>
    \A g \in Groups : Modes[g] = "ALL" => Installed(g)

(* The files of a MOD group are never checked.  When everything is at rest and no text message was sent,
   its server has the data of every file under its name, perhaps twice, unless somebody crashed, or a server
   failed to rename a file, which it answers with 0. *)
ModArrives ==
  Rest /\ list > 0 /\ ~alarmed /\ crashes = 0 /\ "rename" \notin dirty =>
    \A g \in Groups : Modes[g] = "MOD" =>
      \A f \in Readable : Exists(srv[g], Final(f)) /\ Contains(srv[g].disk[Final(f)], list)

(* A restarted client skips a file of the first group only when its CLOSE was released, or it was verified,
   in this list: however often client and servers crash, as long as no command was given up, no check failed
   or met an empty .md5, no rename failed, no file was opened that an md5 thread still had to do, no END was
   lost behind a finished list, and the list began when the last one had been carried out.  (The next groups skip as many files, which is wrong: see ResumedIsInstalled.) *)
SkipsOnlySent ==
  lst.at = "file" /\ lst.g = 1 /\ Modes[1] = "ALL" /\ sound /\ ~alarmed /\ dirty \subseteq {"crash"} =>
    \A i \in 1 .. Len(Lines) :
      i <= lst.skip /\ Lines[i] \notin missing => Lines[i] \in done[1] \/ InstalledAt(1, Lines[i])

(* When everything is at rest the count of files is 0 again, in memory and in its file, so that the next
   list begins with no progress of this one. *)
CountRests == Rest /\ sound => m_FileNum = 0 /\ saved = 0

(* Every list is finished and everything that was queued for it is carried out or given up; a list that
   was left by a crash is taken up again. *)
ListsFinish == "Ready" \in names ~> Rest
=============================================================================
