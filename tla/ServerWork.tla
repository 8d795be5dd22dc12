----------------------------- MODULE ServerWork -----------------------------
(***************************************************************************)
(* class QSEPSDF_SSWork, the one thread that serves every request of a     *)
(* DFS_DataServer, for a group sent with DF_SEND_DATA_ALL, together with   *)
(* the two clients it meets: the server thread of the sender (OPEN, the    *)
(* WRITEs and the CLOSE of each file, in order) and, once its queue is     *)
(* empty, Work_Verify (one CHECK_MD5 for each file).                       *)
(*                                                                         *)
(* A request may be lost, or be served and its answer lost: the sender     *)
(* repeats it.  Where the code looks at the result of fopen, fwrite or     *)
(* rename, that may be an error.  The server process may be restarted      *)
(* between any two steps: the files stay, everything in memory is gone.    *)
(***************************************************************************)
EXTENDS ServerFiles, Integers, FiniteSets

CONSTANTS
  NFiles,      \* files in the list: Files is 1 .. NFiles
  MaxChunks,   \* blocks in a file
  MaxTry,      \* failed attempts after which OpenAFile and CloseAFile give up (5 in the code)
  Closed,      \* no FILE* in m_mapNameFile
  MaxRuns,     \* bound: how often the list is transferred
  MaxLost,     \* bound: requests or answers lost, and errors of the machine
  MaxRestarts  \* bound: restarts of the server

ASSUME ServerWorkAssumption ==
  /\ NFiles \in Nat \ {0} /\ Files = 1 .. NFiles
  /\ MaxChunks \in Nat \ {0} /\ MaxTry \in Nat \ {0}
  /\ MaxRuns \in Nat \ {0} /\ MaxLost \in Nat /\ MaxRestarts \in Nat

(* A block is of one version of its file, and at one place in it; the place is 0 when a write failed
   half-way and left a part of a block. *)
Contents == Seq((1 .. MaxRuns) \X (0 .. MaxChunks))

ASSUME ContentsAssumption == NoFile \notin Contents /\ Empty \notin Contents /\ NoFile # Empty

VARIABLES
  m_mapNameFile,   \* per file: Closed, or the FILE*: the name it writes to, and its buffer
  work,            \* what the server thread is in the middle of
  sender,          \* the request the sender has to make: file f, number i, failed attempts
  ver,             \* the file to be checked next (0: not verifying), and whether a check failed
  run,             \* the transfer: the content of file f is the run-th version
  lost, restarts,  \* spent of MaxLost and MaxRestarts
  owed,            \* history: per file, the CLOSEs handed over less the names md5 threads took
  unread,          \* history: the check failed because the server could not open or build the .md5
  early, leftover  \* history: Work_Verify began while the server still had a file open;
                   \* a transfer began while md5 threads were still busy with the one before

client == <<sender, ver, run, unread, early, leftover>>
bounds == <<lost, restarts>>
vars == <<disk, slots, th, m_mapNameFile, work, client, bounds, owed>>

Whole(r) == [c \in 1 .. MaxChunks |-> <<r, c>>]

(* Request 0 is OPEN, 1 .. MaxChunks the WRITEs, then CLOSE. *)
First == [f |-> 1, i |-> 0, try |-> 0]
SenderDone == sender.f > NFiles
IsOpen == ~SenderDone /\ sender.i = 0
IsWrite == ~SenderDone /\ sender.i \in 1 .. MaxChunks
IsClose == ~SenderDone /\ sender.i = MaxChunks + 1

Verifying == ver.at \in 1 .. NFiles /\ ~ver.bad

WorkAt(op, slot, f, hash) == [op |-> op, slot |-> slot, f |-> f, hash |-> hash]
Free == WorkAt("free", 0, NoFile, <<>>)

Init ==
  /\ df = [f \in Files |-> NoFile]
  /\ md5 = [f \in Files |-> NoFile]
  /\ final = [f \in Files |-> NoFile]
  /\ SlotsInit
  /\ m_mapNameFile = [f \in Files |-> Closed]
  /\ work = Free
  /\ sender = First
  /\ ver = [at |-> 0, bad |-> FALSE]
  /\ run = 1
  /\ lost = 0 /\ restarts = 0
  /\ owed = [f \in Files |-> 0]
  /\ unread = FALSE /\ early = FALSE /\ leftover = FALSE

-----------------------------------------------------------------------------
(* The clients. *)

Next1(s) == IF s.i <= MaxChunks THEN [s EXCEPT !.i = @ + 1, !.try = 0]
            ELSE [f |-> s.f + 1, i |-> 0, try |-> 0]

(* A WRITE is repeated for ever, an OPEN or a CLOSE MaxTry times. *)
Again(s) == IF s.i \in 1 .. MaxChunks THEN s
            ELSE IF s.try + 1 < MaxTry THEN [s EXCEPT !.try = @ + 1]
            ELSE Next1(s)

Lose == lost < MaxLost /\ lost' = lost + 1

(* The server answers the sender's request, or its answer is lost. *)
AnswerSender ==
  /\ \/ sender' = Next1(sender) /\ UNCHANGED lost
     \/ Lose /\ sender' = Again(sender)
  /\ UNCHANGED <<ver, run, unread, early, leftover, restarts>>

(* The server answers CHECK_MD5 with result 0 (good) or not; WorkClient::checkMD5 repeats a request
   whose answer is lost, and Work_Verify stops at the first bad one. *)
AnswerVerify(good) ==
  /\ \/ /\ ver' = IF good THEN [ver EXCEPT !.at = @ + 1] ELSE [ver EXCEPT !.bad = TRUE]
        /\ UNCHANGED lost
     \/ Lose /\ UNCHANGED ver
  /\ UNCHANGED <<sender, run, unread, early, leftover, restarts>>

(* The machine fails the request: the sender repeats it. *)
FailSender ==
  /\ Lose
  /\ sender' = Again(sender)
  /\ UNCHANGED <<ver, run, unread, early, leftover, restarts>>

(* The machine fails a CHECK_MD5, which changes ver to v, unless the answer is lost, too. *)
FailVerify(v) ==
  /\ Lose
  /\ \/ ver' = v /\ unread' = v.bad
     \/ UNCHANGED <<ver, unread>>
  /\ UNCHANGED <<sender, run, early, leftover, restarts>>

(* A request that never reaches the server. *)
RequestLost ==
  /\ work = Free
  /\ ~SenderDone
  /\ Lose
  /\ sender' = Again(sender)
  /\ UNCHANGED <<disk, slots, th, m_mapNameFile, work, ver, run, unread, early, leftover, restarts, owed>>

(* MainWork sees the queue of the server empty: its last command may still be in flight. *)
StartVerify ==
  /\ ver.at = 0
  /\ SenderDone \/ (IsClose /\ sender.f = NFiles)
  /\ ver' = [ver EXCEPT !.at = 1]
  /\ early' = (early \/ \E f \in Files : m_mapNameFile[f] # Closed)
  /\ UNCHANGED <<disk, slots, th, m_mapNameFile, work, sender, run, unread, leftover, bounds, owed>>

(* The list is made ready again, with new versions of its files. *)
NextTransfer ==
  /\ run < MaxRuns
  /\ SenderDone
  /\ work = Free
  /\ ver.bad \/ ver.at > NFiles
  /\ run' = run + 1
  /\ sender' = First
  /\ ver' = [at |-> 0, bad |-> FALSE]
  /\ unread' = FALSE
  /\ leftover' = (leftover \/ g_WorkPos # <<>> \/ \E t \in Threads : th[t] # Resting)
  /\ UNCHANGED <<disk, slots, th, m_mapNameFile, work, early, bounds, owed>>

-----------------------------------------------------------------------------
(* The requests. *)

(* Data is written to the name `to` of f, if that is the one the FILE* of f writes to: a file renamed
   while it is open is written to under its new name. *)
WriteFile(f, data) ==
  LET fp == m_mapNameFile[f] IN
    /\ df' = IF fp # Closed /\ fp.to = "df" THEN [df EXCEPT ![f] = @ \o data] ELSE df
    /\ final' = IF fp # Closed /\ fp.to = "final" THEN [final EXCEPT ![f] = @ \o data] ELSE final

(* Everything buffered for f is written, and then data. *)
WriteOut(f, data) == WriteFile(f, IF m_mapNameFile[f] = Closed THEN data ELSE m_mapNameFile[f].buf \o data)

(* fclose of the FILE* f still has, then fopen(.df, "wb"). *)
Reopen(f) ==
  /\ LET fp == m_mapNameFile[f] IN
       final' = IF fp # Closed /\ fp.to = "final" THEN [final EXCEPT ![f] = @ \o fp.buf] ELSE final
  /\ df' = [df EXCEPT ![f] = <<>>]
  /\ m_mapNameFile' = [m_mapNameFile EXCEPT ![f] = [to |-> "df", buf |-> <<>>]]

OpenAFile_KeepsMd5 ==
  /\ work = Free /\ IsOpen
  /\ Reopen(sender.f)
  /\ AnswerSender
  /\ UNCHANGED <<md5, th, slots, work, owed>>

OpenAFile ==
  /\ work = Free /\ IsOpen
  /\ RemoveMd5(sender.f)
  /\ Reopen(sender.f)
  /\ AnswerSender
  /\ UNCHANGED <<slots, work, owed>>

(* The .md5 is removed and the FILE* closed as before, but fopen fails: nobody writes to f now. *)
OpenAFileFails ==
  /\ work = Free /\ IsOpen
  /\ RemoveMd5(sender.f)
  /\ WriteOut(sender.f, <<>>)
  /\ m_mapNameFile' = [m_mapNameFile EXCEPT ![sender.f] = Closed]
  /\ FailSender
  /\ UNCHANGED <<slots, work, owed>>

(* fwrite: the block, and what was buffered before it, reaches the file or stays in the buffer.  The
   answer is 0 also when there is no FILE*. *)
WriteToFile ==
  /\ work = Free /\ IsWrite
  /\ LET f == sender.f
         block == <<run, sender.i>>
     IN \/ /\ m_mapNameFile[f] = Closed
           /\ UNCHANGED <<df, final, m_mapNameFile>>
        \/ /\ m_mapNameFile[f] # Closed
           /\ m_mapNameFile' = [m_mapNameFile EXCEPT ![f].buf = Append(@, block)]
           /\ UNCHANGED <<df, final>>
        \/ /\ m_mapNameFile[f] # Closed
           /\ WriteOut(f, <<block>>)
           /\ m_mapNameFile' = [m_mapNameFile EXCEPT ![f].buf = <<>>]
  /\ AnswerSender
  /\ UNCHANGED <<md5, slots, th, work, owed>>

(* fwrite falls short: nothing was written, or the buffer is empty afterwards and only a part of it and of
   the block is in the file. *)
WriteToFileFails ==
  /\ work = Free /\ IsWrite
  /\ LET f == sender.f
         fp == m_mapNameFile[f]
     IN /\ fp # Closed
        /\ \/ UNCHANGED <<df, final, m_mapNameFile>>
           \/ /\ \E n \in 0 .. Len(fp.buf), torn \in {<<>>, <<<<run, 0>>>>} :
                   WriteFile(f, SubSeq(fp.buf, 1, n) \o torn)
              /\ m_mapNameFile' = [m_mapNameFile EXCEPT ![f].buf = <<>>]
  /\ FailSender
  /\ UNCHANGED <<md5, slots, th, work, owed>>

(* CloseAFile closes the FILE*, then waits for a free slot, ... *)
CloseAFile ==
  /\ work = Free /\ IsClose
  /\ WriteOut(sender.f, <<>>)
  /\ m_mapNameFile' = [m_mapNameFile EXCEPT ![sender.f] = Closed]
  /\ work' = WorkAt("slot", 0, sender.f, <<>>)
  /\ UNCHANGED <<md5, slots, th, client, bounds, owed>>

CloseTakesSlot_NoName ==
  /\ work.op = "slot"
  /\ g_FilePos # <<>>
  /\ g_FilePos' = Tail(g_FilePos)
  /\ work' = [work EXCEPT !.op = "push", !.slot = Head(g_FilePos)]
  /\ UNCHANGED <<disk, g_WorkPos, g_QueFile, th, m_mapNameFile, client, bounds, owed>>

(* ... takes it and writes the name, ... *)
CloseTakesSlot ==
  /\ work.op = "slot"
  /\ g_FilePos # <<>>
  /\ g_FilePos' = Tail(g_FilePos)
  /\ g_QueFile' = [g_QueFile EXCEPT ![Head(g_FilePos)] = work.f]
  /\ work' = [work EXCEPT !.op = "push", !.slot = Head(g_FilePos)]
  /\ UNCHANGED <<disk, g_WorkPos, th, m_mapNameFile, client, bounds, owed>>

(* ... pushes it and answers. *)
ClosePushesSlot ==
  /\ work.op = "push"
  /\ g_WorkPos' = Append(g_WorkPos, work.slot)
  /\ owed' = [owed EXCEPT ![work.f] = @ + 1]
  /\ work' = Free
  /\ AnswerSender
  /\ UNCHANGED <<disk, g_FilePos, g_QueFile, th, m_mapNameFile>>

-----------------------------------------------------------------------------
(* CheckMD5.  The client's md5 is that of the version it sent. *)

Good(hash) == hash = Whole(run)

(* The check succeeded: rename(.df, file), remove(.md5). *)
Install(f) ==
  /\ final' = [final EXCEPT ![f] = df[f]]
  /\ df' = [df EXCEPT ![f] = NoFile]
  /\ m_mapNameFile' = [m_mapNameFile EXCEPT ![f] = IF @ = Closed THEN @ ELSE [@ EXCEPT !.to = "final"]]
  /\ RemoveMd5(f)

Keep == UNCHANGED <<disk, th, m_mapNameFile>>

(* The rename failed, which is only logged: the .md5 goes, the .df stays, and the answer is 0. *)
InstallFails(f) ==
  /\ RemoveMd5(f)
  /\ UNCHANGED <<df, final, m_mapNameFile>>
  /\ FailVerify([ver EXCEPT !.at = @ + 1])

(* There is a .md5: an md5 thread opened it, and may have written it.  fgets finds nothing in an
   empty one, and then the answer is 0 and nothing is renamed. *)
CheckMD5_InstallsEmpty ==
  /\ work = Free /\ Verifying
  /\ LET f == ver.at IN
       /\ df[f] # NoFile /\ md5[f] # NoFile
       /\ \/ /\ IF md5[f] = Empty \/ Good(md5[f]) THEN Install(f) ELSE Keep
             /\ AnswerVerify(md5[f] = Empty \/ Good(md5[f]))
          \/ Good(md5[f]) /\ InstallFails(f)
  /\ UNCHANGED <<slots, work, owed>>

CheckMD5 ==
  /\ work = Free /\ Verifying
  /\ LET f == ver.at IN
       /\ df[f] # NoFile /\ md5[f] # NoFile
       /\ \/ /\ IF Good(md5[f]) THEN Install(f) ELSE Keep
             /\ AnswerVerify(md5[f] = Empty \/ Good(md5[f]))
          \/ Good(md5[f]) /\ InstallFails(f)
  /\ UNCHANGED <<slots, work, owed>>

(* No .df.  stat leaves buf unwritten, and the test for a directory reads it: the answer is -1 if it
   happens to look like one, else 0. *)
CheckMD5NoFile ==
  /\ work = Free /\ Verifying
  /\ df[ver.at] = NoFile
  /\ \E looksLikeDir \in BOOLEAN : AnswerVerify(~looksLikeDir)
  /\ UNCHANGED <<disk, slots, th, m_mapNameFile, work, owed>>

(* There is a .md5 that cannot be opened, or there is none and BuildMd5 cannot open the one or the other
   file: an error, whatever was received. *)
CheckMD5Fails ==
  /\ work = Free /\ Verifying
  /\ df[ver.at] # NoFile
  /\ FailVerify([ver EXCEPT !.bad = TRUE])
  /\ UNCHANGED <<disk, slots, th, m_mapNameFile, work, owed>>

(* No .md5: BuildMd5 reads the .df and opens the .md5, ... *)
CheckMD5Builds ==
  /\ work = Free /\ Verifying
  /\ df[ver.at] # NoFile /\ md5[ver.at] = NoFile
  /\ work' = WorkAt("built", 0, ver.at, df[ver.at])
  /\ md5' = [md5 EXCEPT ![ver.at] = Empty]
  /\ UNCHANGED <<df, final, slots, th, m_mapNameFile, client, bounds, owed>>

(* ... writes it, and CheckMD5 compares what it computed. *)
CheckMD5Compares ==
  /\ work.op = "built"
  /\ LET f == work.f IN
       \/ /\ IF Good(work.hash) THEN Install(f)
             ELSE /\ md5' = [md5 EXCEPT ![f] = work.hash]
                  /\ UNCHANGED <<df, final, th, m_mapNameFile>>
          /\ AnswerVerify(Good(work.hash))
       \/ Good(work.hash) /\ InstallFails(f)
  /\ work' = Free
  /\ UNCHANGED <<slots, owed>>

-----------------------------------------------------------------------------
(* The server process dies and is started again: what a FILE* had buffered is lost, the ring of slots
   is filled anew, and a request in progress fails. *)
Restart ==
  /\ restarts < MaxRestarts
  /\ restarts' = restarts + 1
  /\ m_mapNameFile' = [f \in Files |-> Closed]
  /\ work' = Free
  /\ g_FilePos' = [i \in 1 .. MaxFileNum |-> i - 1]
  /\ g_WorkPos' = <<>>
  /\ g_QueFile' = [s \in Slots |-> NoFile]
  /\ th' = [t \in Threads |-> Resting]
  /\ owed' = [f \in Files |-> 0]
  /\ sender' = IF SenderDone THEN sender ELSE Again(sender)
  /\ UNCHANGED <<disk, ver, run, unread, early, leftover, lost>>

WorkStep ==
  \/ OpenAFile \/ OpenAFileFails \/ WriteToFile \/ WriteToFileFails
  \/ CloseAFile \/ CloseTakesSlot \/ ClosePushesSlot
  \/ CheckMD5 \/ CheckMD5Fails \/ CheckMD5NoFile \/ CheckMD5Builds \/ CheckMD5Compares

(* A step of ThreadMd5 t; a name it takes is owed once less. *)
Md5Step(t) ==
  /\ ThreadStep(t)
  /\ owed' = IF th[t].st = "name" THEN [owed EXCEPT ![g_QueFile[th[t].slot]] = @ - 1] ELSE owed
  /\ UNCHANGED <<m_mapNameFile, work, client, bounds>>

Finished ==
  /\ run = MaxRuns /\ SenderDone /\ work = Free
  /\ ver.bad \/ ver.at > NFiles
  /\ g_WorkPos = <<>> /\ \A t \in Threads : th[t] = Resting

Terminating == Finished /\ UNCHANGED vars

Next ==
  \/ StartVerify \/ NextTransfer \/ RequestLost
  \/ WorkStep
  \/ \E t \in Threads : Md5Step(t)
  \/ Restart
  \/ Terminating

Spec == Init /\ [][Next]_vars

(* The threads of both processes run; nothing makes a message get lost or a process restart. *)
Fairness ==
  /\ WF_vars(WorkStep) /\ WF_vars(StartVerify) /\ WF_vars(NextTransfer)
  /\ \A t \in Threads : WF_vars(Md5Step(t))
FairSpec == Spec /\ Fairness

-----------------------------------------------------------------------------
WorkStates ==
  [op : {"free", "slot", "push", "built"}, slot : Slots, f : Files \cup {NoFile}, hash : Contents]
ThreadStates ==
  [st : {"pop", "name", "return", "read", "open", "write"},
   slot : Slots, f : Files \cup {NoFile}, hash : Contents]

(* Every variable keeps to its type; in particular no name is taken from a slot that holds none. *)
TypeOK ==
  /\ df \in [Files -> Contents \cup {NoFile}]
  /\ md5 \in [Files -> Contents \cup {NoFile, Empty}]
  /\ final \in [Files -> Contents \cup {NoFile}]
  /\ g_FilePos \in Seq(Slots) /\ g_WorkPos \in Seq(Slots)
  /\ g_QueFile \in [Slots -> Files \cup {NoFile}]
  /\ th \in [Threads -> ThreadStates]
  /\ \A t \in Threads : th[t].st \notin {"pop", "name"} => th[t].f \in Files
  /\ m_mapNameFile \in [Files -> [to : {"df", "final"}, buf : Contents] \cup {Closed}]
  /\ work \in WorkStates
  /\ sender \in [f : 1 .. NFiles + 1, i : 0 .. MaxChunks + 1, try : 0 .. MaxTry - 1]
  /\ ver \in [at : 0 .. NFiles + 1, bad : BOOLEAN]
  /\ run \in 1 .. MaxRuns
  /\ lost \in 0 .. MaxLost /\ restarts \in 0 .. MaxRestarts
  /\ owed \in [Files -> Int]
  /\ unread \in BOOLEAN /\ early \in BOOLEAN /\ leftover \in BOOLEAN

(* The places a slot can be in: a position of a ring, the server thread's hand, an md5 thread's. *)
HasSlot(t) == th[t].st \in {"name", "return"}
Waiting(s) == \E i \in DOMAIN g_WorkPos : g_WorkPos[i] = s
Available(s) == \E i \in DOMAIN g_FilePos : g_FilePos[i] = s
InHand(s) == work.op = "push" /\ work.slot = s
Taken(s) == \E t \in Threads : HasSlot(t) /\ th[t].slot = s

NoRepeats(q) == \A i, j \in DOMAIN q : q[i] = q[j] => i = j

(* A slot of g_QueFile has one owner at any time: it is free, in the server thread's hand, waiting, or
   held by one md5 thread, so no name is overwritten while an md5 thread reads it; and no slot is ever
   lost.  (QSEPSDF_SSWork.cpp 567-580, ThreadMd5.cpp 69-89) *)
OneOwner ==
  /\ NoRepeats(g_FilePos) /\ NoRepeats(g_WorkPos)
  /\ \A t, u \in Threads : HasSlot(t) /\ HasSlot(u) /\ th[t].slot = th[u].slot => t = u
  /\ \A s \in Slots :
       /\ Available(s) \/ Waiting(s) \/ InHand(s) \/ Taken(s)
       /\ Available(s) => ~Waiting(s) /\ ~InHand(s) /\ ~Taken(s)
       /\ Waiting(s) => ~InHand(s) /\ ~Taken(s)
       /\ InHand(s) => ~Taken(s)

(* A file is hashed as often as its CLOSE was handed over: the names in the slots that wait, or whose
   md5 thread has not copied the name yet, are exactly the names still owed.  *)
JobsMatch ==
  \A f \in Files :
    owed[f] = Cardinality({i \in DOMAIN g_WorkPos : g_QueFile[g_WorkPos[i]] = f})
              + Cardinality({t \in Threads : th[t].st = "name" /\ g_QueFile[th[t].slot] = f})

Orderly == ~early /\ ~leftover
InstalledWhole == \A f \in Files : final[f] \in {NoFile} \cup {Whole(r) : r \in 1 .. run}
RejectMeansDamage ==
  ver.bad /\ ~unread => df[ver.at] # Whole(run) /\ (final[ver.at] = Whole(run) => lost > 0)

(* A file under its own name is one version of it, whole, however requests, answers and the server
   process failed, when each check began with all files closed and each transfer with the md5 threads
   at rest; and in any order of the threads, as long as nothing was lost or failed. *)
InstalledIsWhole == (Orderly \/ lost = 0) => InstalledWhole

(* When each check began with all files closed and each transfer with the md5 threads at rest, a check
   fails only for a file that did not arrive whole, or, when the answer of its check was lost, for one
   that is installed already, unless the server answers that it could not open or build the .md5 (unread). *)
RejectsOnlyDamaged == Orderly => RejectMeansDamage

(* What CHECK_MD5 is for ("the MD5 check of a file"): a file whose check succeeded has been renamed. *)
CheckedIsInstalled ==
  \A f \in Files : f < ver.at => final[f] = Whole(run)

(* The server thread does not wait for a slot for ever, so every CLOSE is answered or its server is
   restarted. *)
CloseReturns == work.op = "slot" ~> work.op # "slot"

(* The md5 threads work off everything that is handed to them. *)
BacklogDrains == <>[](g_WorkPos = <<>> /\ \A t \in Threads : th[t] = Resting)
=============================================================================
