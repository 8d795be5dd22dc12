---------------------------- MODULE ServerFiles ----------------------------
(***************************************************************************)
(* What the receiving server and its md5 threads share (QSEPSDF_SS.cpp,    *)
(* ThreadMd5.cpp): the files on disk and the hand-over of file names.      *)
(*                                                                         *)
(* While file f is received it is "f.df" (df); its md5 is "f.md5" (md5);   *)
(* checked, it becomes "f" (final).  A closed file waits for one of the    *)
(* md5 threads as a slot of g_QueFile: the server thread takes a free slot *)
(* from g_FilePos, writes the name and pushes the slot to g_WorkPos; an    *)
(* md5 thread takes it, copies the name and returns the slot.  Both rings  *)
(* have room for every slot, so they are plain sequences here (QueEvent    *)
(* is checked to be a bounded FIFO).                                       *)
(*                                                                         *)
(* Contents are the sequence of blocks written, and a content stands for   *)
(* its own md5 (files above MAX_FILE_SIZE, whose md5 covers only the first *)
(* block and the size, are not modelled).                                  *)
(***************************************************************************)
EXTENDS Naturals, Sequences, FiniteSets

CONSTANTS
  Files,       \* the file names
  Threads,     \* the md5 threads, 4 in StartServer
  MaxFileNum,  \* MAX_FILE_NUM, the number of slots
  NoFile,      \* the content of a name that does not exist
  Empty        \* the content of a .md5 opened "wb" whose text is not written yet

ASSUME MaxFileNumAssumption == MaxFileNum \in Nat \ {0}
ASSUME ThreadsAssumption == IsFiniteSet(Threads)

VARIABLES
  df, md5, final,                  \* the files on disk
  g_FilePos, g_WorkPos, g_QueFile, \* the slots free, the slots waiting, the names in them
  th                               \* the md5 threads

disk == <<df, md5, final>>
slots == <<g_FilePos, g_WorkPos, g_QueFile>>

Slots == 0 .. MaxFileNum - 1

(* A thread at st; slot is iPos while the thread owns it, f is szFile, hash is strmd5. *)
ThreadAt(st, slot, f, hash) == [st |-> st, slot |-> slot, f |-> f, hash |-> hash]
Resting == ThreadAt("pop", 0, NoFile, <<>>)

(* CQSEPSDF_SS::InitSys pushes every slot; a process that starts has nothing else. *)
SlotsInit ==
  /\ g_FilePos = [i \in 1 .. MaxFileNum |-> i - 1]
  /\ g_WorkPos = <<>>
  /\ g_QueFile = [s \in Slots |-> NoFile]
  /\ th = [t \in Threads |-> Resting]

-----------------------------------------------------------------------------
(* A name that is removed while a thread has the file open: the text the thread still has to write
   goes nowhere, so the thread is as good as done. *)
RemoveMd5(f) ==
  /\ md5' = [md5 EXCEPT ![f] = NoFile]
  /\ th' = [t \in Threads |-> IF th[t].st = "write" /\ th[t].f = f THEN Resting ELSE th[t]]

-----------------------------------------------------------------------------
(* ThreadMd5::run and buildMd5. *)

Take_ReturnsSlot(t) ==
  /\ th[t].st = "pop"
  /\ g_WorkPos # <<>>
  /\ th' = [th EXCEPT ![t] = ThreadAt("name", Head(g_WorkPos), NoFile, <<>>)]
  /\ g_WorkPos' = Tail(g_WorkPos)
  /\ g_FilePos' = Append(g_FilePos, Head(g_WorkPos))
  /\ UNCHANGED <<disk, g_QueFile>>

Take(t) ==
  /\ th[t].st = "pop"
  /\ g_WorkPos # <<>>
  /\ th' = [th EXCEPT ![t] = ThreadAt("name", Head(g_WorkPos), NoFile, <<>>)]
  /\ g_WorkPos' = Tail(g_WorkPos)
  /\ UNCHANGED <<disk, g_FilePos, g_QueFile>>

CopyName(t) ==
  /\ th[t].st = "name"
  /\ th' = [th EXCEPT ![t].st = "return", ![t].f = g_QueFile[th[t].slot]]
  /\ UNCHANGED <<disk, slots>>

ReturnSlot_OnlyIfThere(t) ==
  /\ th[t].st = "return"
  /\ IF df[th[t].f] = NoFile
       THEN /\ th' = [th EXCEPT ![t] = Resting]
            /\ UNCHANGED g_FilePos
       ELSE /\ g_FilePos' = Append(g_FilePos, th[t].slot)
            /\ th' = [th EXCEPT ![t] = ThreadAt("read", 0, th[t].f, <<>>)]
  /\ UNCHANGED <<disk, g_WorkPos, g_QueFile>>

ReturnSlot(t) ==
  /\ th[t].st = "return"
  /\ g_FilePos' = Append(g_FilePos, th[t].slot)
  /\ th' = [th EXCEPT ![t] = ThreadAt("read", 0, th[t].f, <<>>)]
  /\ UNCHANGED <<disk, g_WorkPos, g_QueFile>>

ReadFile_StopsIfGone(t) ==
  /\ th[t].st = "read"
  /\ df[th[t].f] # NoFile
  /\ th' = [th EXCEPT ![t] = ThreadAt("open", 0, th[t].f, df[th[t].f])]
  /\ UNCHANGED <<disk, slots>>

(* access(.df), stat and the reads of the .df; a file that is gone, or goes meanwhile, ends the job. *)
ReadFile(t) ==
  /\ th[t].st = "read"
  /\ th' = [th EXCEPT ![t] = IF df[th[t].f] = NoFile THEN Resting
                             ELSE ThreadAt("open", 0, th[t].f, df[th[t].f])]
  /\ UNCHANGED <<disk, slots>>

(* fopen(szMd5, "wb") creates or empties it. *)
OpenMd5(t) ==
  /\ th[t].st = "open"
  /\ th' = [th EXCEPT ![t].st = "write"]
  /\ md5' = [md5 EXCEPT ![th[t].f] = Empty]
  /\ UNCHANGED <<df, final, slots>>

(* fprintf is buffered: the text reaches the file at fclose. *)
WriteMd5(t) ==
  /\ th[t].st = "write"
  /\ md5' = [md5 EXCEPT ![th[t].f] = th[t].hash]
  /\ th' = [th EXCEPT ![t] = Resting]
  /\ UNCHANGED <<df, final, slots>>

ThreadStep(t) ==
  \/ Take(t) \/ CopyName(t) \/ ReturnSlot(t) \/ ReadFile(t) \/ OpenMd5(t) \/ WriteMd5(t)
=============================================================================
