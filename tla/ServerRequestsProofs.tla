------------------------ MODULE ServerRequestsProofs ------------------------
(***************************************************************************)
(* Lemmas about the requests of ServerRequests: what each does to the      *)
(* files, the FILE*s and the work of the md5 threads, and that the machine *)
(* stays well-formed.  ListTransferProofs and WorkClientProofs rest on     *)
(* them.                                                                   *)
(***************************************************************************)
EXTENDS ServerRequests, SequenceTheorems, TLAPS

AnyContents(D) == Seq(D) \cup Seq(Files) \cup {NoFile, Empty}
DataContents(D) == Seq(D) \cup {NoFile}
NameContents == Seq(Files) \cup {NoFile}
FileNames == Files \X {"", "df", "md5"}
ListNames == Lists \X {"", "dftmp", "date", "smtmp"}
Jobs(D) == [f : Files, hash : Seq(D)]

(* A machine whose files have blocks of D in them. *)
Machines(D) ==
  [disk : [Names -> AnyContents(D)], m_mapNameFile : [Files -> Names \cup {Closed, Gone}],
   m_mapList : [Lists -> Names \cup {Closed, Gone}], jobs : Seq(Files), hashing : SUBSET Jobs(D),
   m_mapProcPid : SUBSET [prog : Programs, pid : Pids],
   procs : [Pids -> [prog : Programs, st : {"run", "zombie", "foreign"}] \cup {NoProcess}]]

(* What is under a name is of its kind, and a FILE* is of a file of its kind: what a file was renamed to
   when it was checked may have been renamed again. *)
OwnContents(s, D) ==
  /\ \A f \in Files : s.disk[Df(f)] \in DataContents(D) /\ s.disk[Final(f)] \in DataContents(D)
  /\ \A f \in Files : s.disk[Md5(f)] \in DataContents(D) \cup {Empty}
  /\ \A n \in ListNames : s.disk[n] \in NameContents
OwnFiles(s) ==
  /\ \A f \in Files : s.m_mapNameFile[f] \in {Closed, Gone, Df(f)} \cup {Final(g) : g \in Files}
  /\ \A l \in Lists : s.m_mapList[l] \in {Closed, Gone, DfTmp(l)}
MachineType(s, D) == s \in Machines(D) /\ OwnContents(s, D) /\ OwnFiles(s)

LEMMA NameFacts ==
  /\ \A f \in Files : Df(f) \in FileNames /\ Md5(f) \in FileNames /\ Final(f) \in FileNames
  /\ \A f \in Files : Df(f) # Md5(f) /\ Df(f) # Final(f) /\ Md5(f) # Final(f)
  /\ \A f, g : (Df(f) = Df(g) \/ Md5(f) = Md5(g) \/ Final(f) = Final(g)) => f = g
  /\ \A l \in Lists : DfTmp(l) \in ListNames /\ Final(l) \in ListNames /\ <<l, "date">> \in ListNames
  /\ \A l : DfTmp(l) # Final(l) /\ DfTmp(l) # <<l, "date">> /\ Final(l) # <<l, "date">>
  /\ \A l : DfTmp(l)[1] = l /\ Final(l)[1] = l /\ <<l, "date">>[1] = l
  /\ \A f, g : Df(f) # Md5(g) /\ Df(f) # Final(g) /\ Md5(f) # Final(g)
  /\ FileNames \cap ListNames = {} /\ Names = FileNames \cup ListNames
  /\ Closed \notin Names /\ Gone \notin Names /\ Closed # Gone
<1> USE DEF Names, FileNames, ListNames, Df, Md5, Final, DfTmp
<1>1. \A f \in Files : Df(f) \in FileNames /\ Md5(f) \in FileNames /\ Final(f) \in FileNames
  OBVIOUS
<1>2. \A f, g : (Df(f) = Df(g) \/ Md5(f) = Md5(g) \/ Final(f) = Final(g)) => f = g
  OBVIOUS
<1>5. \A f, g : Df(f) # Md5(g) /\ Df(f) # Final(g) /\ Md5(f) # Final(g)
  OBVIOUS
<1>6. \A l \in Lists : DfTmp(l) \in ListNames /\ Final(l) \in ListNames /\ <<l, "date">> \in ListNames
  OBVIOUS
<1>7. \A l : DfTmp(l) # Final(l) /\ DfTmp(l) # <<l, "date">> /\ Final(l) # <<l, "date">>
  OBVIOUS
<1>8. \A l : DfTmp(l)[1] = l /\ Final(l)[1] = l /\ <<l, "date">>[1] = l
  OBVIOUS
<1>3. FileNames \cap ListNames = {}
  BY NamesAssumption
<1>4. Closed \notin Names /\ Gone \notin Names /\ Closed # Gone
  <2> HIDE DEF Names
  <2> QED BY NamesAssumption
<1> QED BY <1>1, <1>2, <1>3, <1>4, <1>5, <1>6, <1>7, <1>8

LEMMA NewMachineTyped == ASSUME NEW D PROVE MachineType(NewMachine, D)
<1>1. NewMachine \in Machines(D)
  BY DEF NewMachine, Machines, AnyContents
<1>2. OwnContents(NewMachine, D)
  BY NameFacts DEF NewMachine, OwnContents, DataContents, NameContents
<1>3. OwnFiles(NewMachine)
  BY DEF NewMachine, OwnFiles
<1> QED BY <1>1, <1>2, <1>3 DEF MachineType

-----------------------------------------------------------------------------
(* The file system: what each operation does to every part of the machine. *)

LEMMA WriteEffect ==
  ASSUME NEW D, NEW s \in Machines(D), NEW n \in Names, NEW c \in AnyContents(D),
         NEW t, t = Write(s, n, c)
  PROVE  /\ t \in Machines(D) /\ t.disk = [s.disk EXCEPT ![n] = c]
         /\ t.m_mapNameFile = s.m_mapNameFile /\ t.m_mapList = s.m_mapList /\ t.jobs = s.jobs
         /\ t.hashing = s.hashing /\ t.m_mapProcPid = s.m_mapProcPid /\ t.procs = s.procs
BY DEF Write, Machines

(* A FILE* of a and one of b, when the file a becomes b. *)
Becomes(n, a, b) == IF n = a THEN b ELSE IF n = b THEN Gone ELSE n

LEMMA RebindEffect ==
  ASSUME NEW D, NEW s \in Machines(D), NEW a \in Names, NEW b \in Names \cup {Gone},
         NEW t, t = Rebind(s, a, b)
  PROVE  /\ t \in Machines(D) /\ t.disk = s.disk /\ t.jobs = s.jobs
         /\ t.hashing = s.hashing /\ t.m_mapProcPid = s.m_mapProcPid /\ t.procs = s.procs
         /\ t.m_mapNameFile = [f \in Files |-> Becomes(s.m_mapNameFile[f], a, b)]
         /\ t.m_mapList = [l \in Lists |-> Becomes(s.m_mapList[l], a, b)]
BY DEF Rebind, Machines, Becomes

Renames(D, s, t, a, b) ==
  /\ t \in Machines(D) /\ t.disk = [s.disk EXCEPT ![a] = NoFile, ![b] = s.disk[a]]
  /\ t.jobs = s.jobs /\ t.hashing = s.hashing /\ t.m_mapProcPid = s.m_mapProcPid
  /\ t.procs = s.procs
  /\ t.m_mapNameFile = [f \in Files |-> Becomes(s.m_mapNameFile[f], a, b)]
  /\ t.m_mapList = [l \in Lists |-> Becomes(s.m_mapList[l], a, b)]

LEMMA RenameEffect ==
  ASSUME NEW D, NEW s \in Machines(D), NEW a \in Names, NEW b \in Names
  PROVE  Renames(D, s, Rename(s, a, b), a, b)
<1> DEFINE r == Rebind(s, a, b)
           t == Rename(s, a, b)
<1>1. /\ r \in Machines(D) /\ r.disk = s.disk /\ r.jobs = s.jobs
      /\ r.hashing = s.hashing /\ r.m_mapProcPid = s.m_mapProcPid /\ r.procs = s.procs
      /\ r.m_mapNameFile = [f \in Files |-> Becomes(s.m_mapNameFile[f], a, b)]
      /\ r.m_mapList = [l \in Lists |-> Becomes(s.m_mapList[l], a, b)]
  BY RebindEffect
<1>2. t = [r EXCEPT !.disk[a] = NoFile, !.disk[b] = s.disk[a]]
  BY DEF Rename
<1> HIDE DEF r
<1>3. s.disk \in [Names -> AnyContents(D)]
  BY DEF Machines
<1>4. [s.disk EXCEPT ![a] = NoFile, ![b] = s.disk[a]] \in [Names -> AnyContents(D)]
  BY <1>3 DEF AnyContents
<1>5. t = [r EXCEPT !.disk = [s.disk EXCEPT ![a] = NoFile, ![b] = s.disk[a]]]
  BY <1>1, <1>2
<1>6. /\ t.disk = [s.disk EXCEPT ![a] = NoFile, ![b] = s.disk[a]]
      /\ t \in Machines(D)
  BY <1>1, <1>4, <1>5 DEF Machines
<1> QED BY <1>1, <1>5, <1>6 DEF Machines, Renames

LEMMA UnlinkEffect ==
  ASSUME NEW D, NEW s \in Machines(D), NEW n \in Names, NEW t, t = Unlink(s, n)
  PROVE  /\ t \in Machines(D) /\ t.disk = [s.disk EXCEPT ![n] = NoFile]
         /\ t.jobs = s.jobs /\ t.m_mapProcPid = s.m_mapProcPid /\ t.procs = s.procs
         /\ t.hashing = {j \in s.hashing : Md5(j.f) # n}
         /\ t.m_mapNameFile = [f \in Files |-> Becomes(s.m_mapNameFile[f], n, Gone)]
         /\ t.m_mapList = [l \in Lists |-> Becomes(s.m_mapList[l], n, Gone)]
<1> DEFINE r == Rebind(s, n, Gone)
<1>1. /\ r \in Machines(D) /\ r.disk = s.disk /\ r.jobs = s.jobs
      /\ r.hashing = s.hashing /\ r.m_mapProcPid = s.m_mapProcPid /\ r.procs = s.procs
      /\ r.m_mapNameFile = [f \in Files |-> Becomes(s.m_mapNameFile[f], n, Gone)]
      /\ r.m_mapList = [l \in Lists |-> Becomes(s.m_mapList[l], n, Gone)]
  BY RebindEffect
<1>2. t = [r EXCEPT !.disk[n] = NoFile, !.hashing = {j \in @ : Md5(j.f) # n}]
  BY DEF Unlink
<1> HIDE DEF r
<1>3. s.disk \in [Names -> AnyContents(D)] /\ s.hashing \subseteq Jobs(D)
  BY DEF Machines
<1>4. [s.disk EXCEPT ![n] = NoFile] \in [Names -> AnyContents(D)]
  BY <1>3 DEF AnyContents
<1>5. {j \in s.hashing : Md5(j.f) # n} \in SUBSET Jobs(D)
  BY <1>3
<1>6. /\ t.disk = [s.disk EXCEPT ![n] = NoFile] /\ t.hashing = {j \in s.hashing : Md5(j.f) # n}
      /\ t.jobs = r.jobs /\ t.m_mapProcPid = r.m_mapProcPid /\ t.procs = r.procs
      /\ t.m_mapNameFile = r.m_mapNameFile /\ t.m_mapList = r.m_mapList
  BY <1>1, <1>2 DEF Machines
<1>7. t \in Machines(D)
  <2>1. \A d \in [Names -> AnyContents(D)], h \in SUBSET Jobs(D) :
          [r EXCEPT !.disk = d, !.hashing = h] \in Machines(D)
    BY <1>1 DEF Machines
  <2>2. t = [r EXCEPT !.disk = [s.disk EXCEPT ![n] = NoFile], !.hashing = {j \in s.hashing : Md5(j.f) # n}]
    BY <1>1, <1>2
  <2> QED BY <1>4, <1>5, <2>1, <2>2
<1> QED BY <1>1, <1>6, <1>7

(* fwrite to a FILE*, or to none. *)
Appended(old, c) == IF old = NoFile THEN c ELSE old \o c
Extends(D, s, t, n, c) ==
  /\ t \in Machines(D) /\ t.disk = [s.disk EXCEPT ![n] = Appended(s.disk[n], c)]
  /\ t.m_mapNameFile = s.m_mapNameFile /\ t.m_mapList = s.m_mapList /\ t.jobs = s.jobs
  /\ t.hashing = s.hashing /\ t.m_mapProcPid = s.m_mapProcPid /\ t.procs = s.procs

LEMMA ExtendEffect ==
  ASSUME NEW D, NEW s \in Machines(D), NEW n \in Names, NEW S, NEW c \in Seq(S),
         s.disk[n] \in Seq(S) \cup {NoFile}, Seq(S) \subseteq AnyContents(D)
  PROVE  Extends(D, s, Extend(s, n, c), n, c) /\ Appended(s.disk[n], c) \in Seq(S)
<1> DEFINE t == Extend(s, n, c)
<1> DEFINE new == Appended(s.disk[n], c)
<1>1. new \in Seq(S)
  BY ConcatProperties DEF Appended
<1>2. s.disk \in [Names -> AnyContents(D)]
  BY DEF Machines
<1>3. t = [s EXCEPT !.disk = [s.disk EXCEPT ![n] = new]]
  <2>1. <<>> \o c = c
    OBVIOUS
  <2>2. new = (IF s.disk[n] = NoFile THEN <<>> ELSE s.disk[n]) \o c
    BY <2>1 DEF Appended
  <2> QED BY <2>2 DEF Extend
<1> HIDE DEF new
<1>4. [s.disk EXCEPT ![n] = new] \in [Names -> AnyContents(D)]
  BY <1>1, <1>2
<1>5. /\ t.disk = [s.disk EXCEPT ![n] = new] /\ t \in Machines(D)
      /\ t.m_mapNameFile = s.m_mapNameFile /\ t.m_mapList = s.m_mapList /\ t.jobs = s.jobs
      /\ t.hashing = s.hashing /\ t.m_mapProcPid = s.m_mapProcPid /\ t.procs = s.procs
  BY <1>3, <1>4 DEF Machines
<1> QED BY <1>1, <1>5 DEF new, Extends

-----------------------------------------------------------------------------
(* Changes that leave a well-formed machine. *)

LEMMA TypeKept ==
  ASSUME NEW D, NEW s, NEW t, MachineType(s, D), t \in Machines(D), t.disk = s.disk,
         t.m_mapNameFile = s.m_mapNameFile, t.m_mapList = s.m_mapList
  PROVE  MachineType(t, D)
BY DEF MachineType, OwnContents, OwnFiles

LEMMA DataWritten ==
  ASSUME NEW D, NEW s, NEW t, MachineType(s, D), t \in Machines(D),
         NEW f \in Files, NEW n \in {Df(f), Final(f)}, NEW c \in DataContents(D),
         t.disk = [s.disk EXCEPT ![n] = c], t.m_mapNameFile = s.m_mapNameFile, t.m_mapList = s.m_mapList
  PROVE  MachineType(t, D)
<1>1. n \in Names /\ n \notin ListNames /\ (\A g : Md5(g) # n) /\ s.disk \in [Names -> AnyContents(D)]
  <2>1. s.disk \in [Names -> AnyContents(D)]
    BY DEF MachineType, Machines
  <2>2. CASE n = Df(f)
    BY <2>1, <2>2, NameFacts
  <2>3. CASE n = Final(f)
    BY <2>1, <2>3, NameFacts
  <2> QED BY <2>2, <2>3
<1>2. \A m \in Names : t.disk[m] = IF m = n THEN c ELSE s.disk[m]
  BY <1>1
<1>3. OwnContents(t, D)
  BY <1>1, <1>2, NameFacts DEF MachineType, OwnContents
<1> QED BY <1>3 DEF MachineType, OwnFiles

LEMMA Md5Written ==
  ASSUME NEW D, NEW s, NEW t, MachineType(s, D), t \in Machines(D),
         NEW f \in Files, NEW c \in DataContents(D) \cup {Empty},
         t.disk = [s.disk EXCEPT ![Md5(f)] = c],
         t.m_mapNameFile = s.m_mapNameFile, t.m_mapList = s.m_mapList
  PROVE  MachineType(t, D)
<1>1. Md5(f) \in Names /\ Md5(f) \notin ListNames /\ s.disk \in [Names -> AnyContents(D)]
  BY NameFacts DEF MachineType, Machines
<1>2. \A m \in Names : t.disk[m] = IF m = Md5(f) THEN c ELSE s.disk[m]
  BY <1>1
<1>3. OwnContents(t, D)
  BY <1>1, <1>2, NameFacts DEF MachineType, OwnContents
<1> QED BY <1>3 DEF MachineType, OwnFiles

LEMMA NamesWritten ==
  ASSUME NEW D, NEW s, NEW t, MachineType(s, D), t \in Machines(D),
         NEW n \in ListNames, NEW c \in NameContents,
         t.disk = [s.disk EXCEPT ![n] = c], t.m_mapNameFile = s.m_mapNameFile, t.m_mapList = s.m_mapList
  PROVE  MachineType(t, D)
<1>1. n \in Names /\ n \notin FileNames /\ s.disk \in [Names -> AnyContents(D)]
  BY NameFacts DEF MachineType, Machines
<1>2. \A m \in Names : t.disk[m] = IF m = n THEN c ELSE s.disk[m]
  BY <1>1
<1>3. OwnContents(t, D)
  BY <1>1, <1>2, NameFacts DEF MachineType, OwnContents
<1> QED BY <1>3 DEF MachineType, OwnFiles

(* No list is written to a file. *)
LEMMA ListsKeepApart ==
  ASSUME NEW D, NEW s, MachineType(s, D), NEW n \in FileNames
  PROVE  \A l \in Lists : s.m_mapList[l] # n
<1>1. \A l \in Lists : s.m_mapList[l] \in {Closed, Gone, DfTmp(l)}
  BY DEF MachineType, OwnFiles
<1>2. \A l \in Lists : DfTmp(l) \notin FileNames
  BY NameFacts
<1>3. n # Closed /\ n # Gone
  BY NameFacts
<1> QED BY <1>1, <1>2, <1>3

LEMMA UnlinkTyped ==
  ASSUME NEW D, NEW s, MachineType(s, D), NEW n \in Names
  PROVE  MachineType(Unlink(s, n), D)
<1> DEFINE t == Unlink(s, n)
<1>1. s \in Machines(D) /\ s.disk \in [Names -> AnyContents(D)]
  BY DEF MachineType, Machines
<1>2. /\ t \in Machines(D) /\ t.disk = [s.disk EXCEPT ![n] = NoFile]
      /\ t.m_mapNameFile = [f \in Files |-> Becomes(s.m_mapNameFile[f], n, Gone)]
      /\ t.m_mapList = [l \in Lists |-> Becomes(s.m_mapList[l], n, Gone)]
  BY <1>1, UnlinkEffect
<1> HIDE DEF t
<1>3. \A m \in Names : t.disk[m] = IF m = n THEN NoFile ELSE s.disk[m]
  BY <1>1, <1>2
<1>4. OwnContents(t, D)
  BY <1>3, NameFacts DEF MachineType, OwnContents, DataContents, NameContents
<1>5. OwnFiles(t)
  BY <1>2 DEF MachineType, OwnFiles, Becomes
<1> QED BY <1>2, <1>4, <1>5 DEF MachineType, t

(* .df becomes the file, one list file another of its list. *)
LEMMA InstallTyped ==
  ASSUME NEW D, NEW s, MachineType(s, D), NEW f \in Files
  PROVE  MachineType(Rename(s, Df(f), Final(f)), D)
<1> DEFINE t == Rename(s, Df(f), Final(f))
<1>1. /\ s \in Machines(D) /\ s.disk \in [Names -> AnyContents(D)] /\ Df(f) \in Names /\ Final(f) \in Names
  BY NameFacts DEF MachineType, Machines
<1>2. /\ t \in Machines(D) /\ t.disk = [s.disk EXCEPT ![Df(f)] = NoFile, ![Final(f)] = s.disk[Df(f)]]
      /\ t.m_mapNameFile = [g \in Files |-> Becomes(s.m_mapNameFile[g], Df(f), Final(f))]
      /\ t.m_mapList = [l \in Lists |-> Becomes(s.m_mapList[l], Df(f), Final(f))]
  BY <1>1, RenameEffect DEF Renames
<1> HIDE DEF t
<1>3. \A m \in Names : t.disk[m] = IF m = Final(f) THEN s.disk[Df(f)] ELSE IF m = Df(f) THEN NoFile ELSE s.disk[m]
  BY <1>1, <1>2, NameFacts
<1>4. OwnContents(t, D)
  BY <1>3, NameFacts DEF MachineType, OwnContents, DataContents, NameContents
<1>5. \A g \in Files : t.m_mapNameFile[g] \in {Closed, Gone, Df(g)} \cup {Final(h) : h \in Files}
  BY <1>2, NameFacts DEF MachineType, OwnFiles, Becomes
<1>6. \A l \in Lists : t.m_mapList[l] = s.m_mapList[l]
  <2>1. Df(f) \in FileNames /\ Final(f) \in FileNames
    BY NameFacts
  <2>2. \A l \in Lists : s.m_mapList[l] # Df(f) /\ s.m_mapList[l] # Final(f)
    BY <2>1, ListsKeepApart
  <2> QED BY <1>2, <2>2 DEF Becomes
<1> QED BY <1>2, <1>4, <1>5, <1>6 DEF MachineType, OwnFiles, t

LEMMA ListRenameTyped ==
  ASSUME NEW D, NEW s, MachineType(s, D), NEW l \in Lists, NEW a \in ListNames, NEW b \in ListNames,
         a[1] = l, b[1] = l, a # b, s.m_mapList[l] = Closed
  PROVE  MachineType(Rename(s, a, b), D)
<1> DEFINE t == Rename(s, a, b)
<1>1. /\ s \in Machines(D) /\ s.disk \in [Names -> AnyContents(D)] /\ a \in Names /\ b \in Names
  BY NameFacts DEF MachineType, Machines
<1>2. /\ t \in Machines(D) /\ t.disk = [s.disk EXCEPT ![a] = NoFile, ![b] = s.disk[a]]
      /\ t.m_mapNameFile = [g \in Files |-> Becomes(s.m_mapNameFile[g], a, b)]
      /\ t.m_mapList = [k \in Lists |-> Becomes(s.m_mapList[k], a, b)]
  <2>1. Renames(D, s, t, a, b)
    BY <1>1, RenameEffect
  <2> HIDE DEF t
  <2> QED BY <2>1 DEF Renames
<1> HIDE DEF t
<1>3. \A m \in Names : t.disk[m] = IF m = b THEN s.disk[a] ELSE IF m = a THEN NoFile ELSE s.disk[m]
  BY <1>1, <1>2
<1>4. OwnContents(t, D)
  BY <1>3, NameFacts DEF MachineType, OwnContents, DataContents, NameContents
<1>5. \A g \in Files : t.m_mapNameFile[g] = s.m_mapNameFile[g]
  BY <1>2, NameFacts DEF MachineType, OwnFiles, Becomes
<1>6. \A k \in Lists : t.m_mapList[k] \in {Closed, Gone, DfTmp(k)}
  <2>1. \A k \in Lists : s.m_mapList[k] \in {Closed, Gone, DfTmp(k)}
    BY DEF MachineType, OwnFiles
  <2>2. \A k \in Lists : k # l => DfTmp(k) # a /\ DfTmp(k) # b
    BY NameFacts
  <2> QED BY <1>1, <1>2, <2>1, <2>2, NameFacts DEF Becomes
<1> QED BY <1>2, <1>4, <1>5, <1>6 DEF MachineType, OwnFiles, t

-----------------------------------------------------------------------------
(* The requests of a transfer.  What is left alone: the files, or the lists. *)
SameFiles(s, t) ==
  /\ \A n \in FileNames : t.disk[n] = s.disk[n]
  /\ t.m_mapNameFile = s.m_mapNameFile /\ t.jobs = s.jobs /\ t.hashing = s.hashing
SameLists(s, t) ==
  /\ \A n \in ListNames : t.disk[n] = s.disk[n]
  /\ t.m_mapList = s.m_mapList
SameRest(s, t) == t.m_mapProcPid = s.m_mapProcPid /\ t.procs = s.procs

ListSet(s, l, n) == [s EXCEPT !.m_mapList[l] = n]
FileSet(s, f, n) == [s EXCEPT !.m_mapNameFile[f] = n]

LEMMA ListSetEffect ==
  ASSUME NEW D, NEW s, MachineType(s, D), NEW l \in Lists,
         NEW n, n = Closed \/ n = DfTmp(l),
         NEW t, t = ListSet(s, l, n)
  PROVE  /\ MachineType(t, D) /\ SameFiles(s, t) /\ SameRest(s, t) /\ t.disk = s.disk
         /\ t.m_mapList = [s.m_mapList EXCEPT ![l] = n]
<1>0. DfTmp(l) \in Names
  BY NameFacts
<1>1. s \in Machines(D) /\ s.m_mapList \in [Lists -> Names \cup {Closed, Gone}] /\ n \in Names \cup {Closed, Gone}
  BY <1>0 DEF MachineType, Machines
<1>2. [s.m_mapList EXCEPT ![l] = n] \in [Lists -> Names \cup {Closed, Gone}]
  BY <1>1
<1>3. /\ t \in Machines(D) /\ t.disk = s.disk /\ t.m_mapNameFile = s.m_mapNameFile /\ t.jobs = s.jobs
      /\ t.hashing = s.hashing /\ t.m_mapProcPid = s.m_mapProcPid /\ t.procs = s.procs
      /\ t.m_mapList = [s.m_mapList EXCEPT ![l] = n]
  BY <1>1, <1>2 DEF Machines, ListSet
<1>4. \A k \in Lists : t.m_mapList[k] = IF k = l THEN n ELSE s.m_mapList[k]
  BY <1>1, <1>3
<1>5. OwnFiles(t)
  BY <1>3, <1>4 DEF MachineType, OwnFiles
<1> QED BY <1>3, <1>5 DEF MachineType, OwnContents, SameFiles, SameRest

FileSets(D, s, t, f, n) ==
  /\ MachineType(t, D) /\ SameLists(s, t) /\ SameRest(s, t) /\ t.disk = s.disk
  /\ t.jobs = s.jobs /\ t.hashing = s.hashing
  /\ t.m_mapNameFile = [s.m_mapNameFile EXCEPT ![f] = n]

LEMMA FileSetEffect ==
  ASSUME NEW D, NEW s, MachineType(s, D), NEW f \in Files, NEW n, n = Closed \/ n = Df(f)
  PROVE  FileSets(D, s, FileSet(s, f, n), f, n)
<1> DEFINE t == FileSet(s, f, n)
<1>1. /\ s \in Machines(D) /\ s.m_mapNameFile \in [Files -> Names \cup {Closed, Gone}]
      /\ n \in Names \cup {Closed, Gone}
  BY NameFacts DEF MachineType, Machines
<1>2. [s.m_mapNameFile EXCEPT ![f] = n] \in [Files -> Names \cup {Closed, Gone}]
  BY <1>1
<1>3. /\ t \in Machines(D) /\ t.disk = s.disk /\ t.m_mapList = s.m_mapList /\ t.jobs = s.jobs
      /\ t.hashing = s.hashing /\ t.m_mapProcPid = s.m_mapProcPid /\ t.procs = s.procs
      /\ t.m_mapNameFile = [s.m_mapNameFile EXCEPT ![f] = n]
  BY <1>1, <1>2 DEF Machines, FileSet
<1>4. \A g \in Files : t.m_mapNameFile[g] = IF g = f THEN n ELSE s.m_mapNameFile[g]
  BY <1>1, <1>3
<1>5. OwnFiles(t)
  BY <1>3, <1>4 DEF MachineType, OwnFiles
<1> QED BY <1>3, <1>5 DEF MachineType, OwnContents, SameLists, SameRest, FileSets

LEMMA CloseOldEffect ==
  ASSUME NEW D, NEW s, MachineType(s, D), NEW f \in Files
  PROVE  FileSets(D, s, CloseOld(s, f), f, Closed)
<1>1. CloseOld(s, f) = FileSet(s, f, Closed)
  BY DEF CloseOld, FileSet
<1> QED BY <1>1, FileSetEffect

(* CloseOld, and the .df opened again. *)
Reopens(D, s, t, f) ==
  /\ MachineType(t, D) /\ SameLists(s, t) /\ SameRest(s, t)
  /\ \A n \in Names : t.disk[n] = IF n = Df(f) THEN <<>> ELSE s.disk[n]
  /\ t.jobs = s.jobs /\ t.hashing = s.hashing
  /\ t.m_mapNameFile = [s.m_mapNameFile EXCEPT ![f] = Df(f)]

LEMMA ReopenedEffect ==
  ASSUME NEW D, NEW s, MachineType(s, D), NEW f \in Files, NEW t, t = Reopened(s, f)
  PROVE  Reopens(D, s, t, f)
<1> DEFINE c == CloseOld(s, f)
           w == Write(c, Df(f), <<>>)
<1>1. /\ MachineType(c, D) /\ SameLists(s, c) /\ SameRest(s, c) /\ c.disk = s.disk
      /\ c.jobs = s.jobs /\ c.hashing = s.hashing
      /\ c.m_mapNameFile = [s.m_mapNameFile EXCEPT ![f] = Closed]
  BY CloseOldEffect DEF FileSets
<1>2. t = FileSet(w, f, Df(f))
  BY DEF Reopened, FileSet
<1> HIDE DEF c
<1>3. /\ c \in Machines(D) /\ Df(f) \in Names /\ <<>> \in Seq(D) /\ <<>> \in AnyContents(D)
      /\ <<>> \in DataContents(D)
  BY <1>1, NameFacts DEF MachineType, AnyContents, DataContents
<1>4. /\ w \in Machines(D) /\ w.disk = [c.disk EXCEPT ![Df(f)] = <<>>]
      /\ w.m_mapNameFile = c.m_mapNameFile /\ w.m_mapList = c.m_mapList /\ w.jobs = c.jobs
      /\ w.hashing = c.hashing /\ w.m_mapProcPid = c.m_mapProcPid /\ w.procs = c.procs
  BY <1>3, WriteEffect
<1> HIDE DEF w
<1>5. MachineType(w, D)
  BY <1>1, <1>3, <1>4, DataWritten
<1>6. /\ MachineType(t, D) /\ SameLists(w, t) /\ SameRest(w, t) /\ t.disk = w.disk
      /\ t.jobs = w.jobs /\ t.hashing = w.hashing
      /\ t.m_mapNameFile = [w.m_mapNameFile EXCEPT ![f] = Df(f)]
  BY <1>2, <1>5, FileSetEffect DEF FileSets
<1>7. t.m_mapNameFile = [s.m_mapNameFile EXCEPT ![f] = Df(f)]
  <2>1. s.m_mapNameFile \in [Files -> Names \cup {Closed, Gone}]
    BY DEF MachineType, Machines
  <2> QED BY <1>1, <1>4, <1>6, <2>1
<1>8. t.disk = [s.disk EXCEPT ![Df(f)] = <<>>] /\ Df(f) \notin ListNames
  BY <1>1, <1>4, <1>6, NameFacts
<1>9. \A n \in ListNames : t.disk[n] = s.disk[n]
  <2>1. s.disk \in [Names -> AnyContents(D)] /\ ListNames \subseteq Names
    BY NameFacts DEF MachineType, Machines
  <2> QED BY <1>8, <2>1
<1>10. \A n \in Names : t.disk[n] = IF n = Df(f) THEN <<>> ELSE s.disk[n]
  <2>1. s.disk \in [Names -> AnyContents(D)]
    BY NameFacts DEF MachineType, Machines
  <2> QED BY <1>8, <2>1
<1> QED BY <1>1, <1>4, <1>6, <1>7, <1>9, <1>10 DEF SameLists, SameRest, Reopens

DropsMd5(D, s, t, f) ==
  /\ MachineType(t, D) /\ SameLists(s, t) /\ SameRest(s, t)
  /\ t.disk = [s.disk EXCEPT ![Md5(f)] = NoFile] /\ t.jobs = s.jobs
  /\ t.hashing = {j \in s.hashing : j.f # f} /\ t.m_mapNameFile = s.m_mapNameFile

LEMMA Md5Unlinked ==
  ASSUME NEW D, NEW s, MachineType(s, D), NEW f \in Files, NEW t, t = Unlink(s, Md5(f))
  PROVE  DropsMd5(D, s, t, f)
<1>1. /\ s \in Machines(D) /\ s.disk \in [Names -> AnyContents(D)] /\ Md5(f) \in Names /\ Md5(f) \notin ListNames
      /\ s.m_mapNameFile \in [Files -> Names \cup {Closed, Gone}]
      /\ s.m_mapList \in [Lists -> Names \cup {Closed, Gone}]
  BY NameFacts DEF MachineType, Machines
<1>2. MachineType(t, D)
  BY <1>1, UnlinkTyped
<1>3. /\ t.disk = [s.disk EXCEPT ![Md5(f)] = NoFile]
      /\ t.jobs = s.jobs /\ t.m_mapProcPid = s.m_mapProcPid /\ t.procs = s.procs
      /\ t.hashing = {j \in s.hashing : Md5(j.f) # Md5(f)}
      /\ t.m_mapNameFile = [g \in Files |-> Becomes(s.m_mapNameFile[g], Md5(f), Gone)]
      /\ t.m_mapList = [l \in Lists |-> Becomes(s.m_mapList[l], Md5(f), Gone)]
  BY <1>1, UnlinkEffect
<1>5. \A g \in Files : Becomes(s.m_mapNameFile[g], Md5(f), Gone) = s.m_mapNameFile[g]
  BY NameFacts DEF MachineType, OwnFiles, Becomes
<1>6. \A l \in Lists : Becomes(s.m_mapList[l], Md5(f), Gone) = s.m_mapList[l]
  <2>1. Md5(f) \in FileNames
    BY NameFacts
  <2>2. \A l \in Lists : s.m_mapList[l] # Md5(f)
    BY <2>1, ListsKeepApart
  <2> QED BY <2>2 DEF Becomes
<1>7. t.m_mapNameFile = s.m_mapNameFile
  BY <1>1, <1>3, <1>5
<1>8. t.m_mapList = s.m_mapList
  BY <1>1, <1>3, <1>6
<1>9. t.hashing = {j \in s.hashing : j.f # f}
  <2>1. \A g : Md5(g) = Md5(f) <=> g = f
    BY NameFacts
  <2> QED BY <1>3, <2>1
<1>10. \A n \in ListNames : t.disk[n] = s.disk[n]
  BY <1>1, <1>3, NameFacts
<1> QED BY <1>2, <1>3, <1>7, <1>8, <1>9, <1>10 DEF SameLists, SameRest, DropsMd5

LEMMA AddNameEffect ==
  ASSUME NEW D, NEW s, MachineType(s, D), NEW l \in Lists, NEW f \in Files, NEW t, t = AddName(s, l, f)
  PROVE  MachineType(t, D) /\ SameFiles(s, t) /\ SameRest(s, t)
<1>1. /\ s \in Machines(D) /\ s.disk \in [Names -> AnyContents(D)] /\ <<f>> \in Seq(Files)
      /\ Seq(Files) \subseteq AnyContents(D) /\ Seq(Files) \subseteq NameContents
  BY DEF MachineType, Machines, AnyContents, NameContents
<1>2. ASSUME NEW n \in ListNames, NEW u, u = Extend(s, n, <<f>>)
      PROVE  MachineType(u, D) /\ SameFiles(s, u) /\ SameRest(s, u)
  <2>1. n \in Names /\ s.disk[n] \in Seq(Files) \cup {NoFile} /\ n \notin FileNames
    BY NameFacts DEF MachineType, OwnContents, NameContents
  <2> DEFINE c == Appended(s.disk[n], <<f>>)
  <2>2. /\ u \in Machines(D) /\ u.disk = [s.disk EXCEPT ![n] = c] /\ c \in Seq(Files)
        /\ u.m_mapNameFile = s.m_mapNameFile /\ u.m_mapList = s.m_mapList /\ u.jobs = s.jobs
        /\ u.hashing = s.hashing /\ u.m_mapProcPid = s.m_mapProcPid /\ u.procs = s.procs
    <3>1. Extends(D, s, u, n, <<f>>) /\ c \in Seq(Files)
      BY <1>1, <1>2, <2>1, ExtendEffect
    <3> QED BY <3>1 DEF Extends
  <2> HIDE DEF c
  <2>3. MachineType(u, D)
    BY <1>1, <2>2, NamesWritten
  <2>4. \A m \in FileNames : u.disk[m] = s.disk[m]
    BY <1>1, <2>1, <2>2, NameFacts
  <2> QED BY <2>2, <2>3, <2>4 DEF SameFiles, SameRest
<1>3. CASE s.m_mapList[l] = Closed
  <2> DEFINE u == Extend(s, DfTmp(l), <<f>>)
  <2>1. MachineType(u, D) /\ SameFiles(s, u) /\ SameRest(s, u)
    BY <1>2, NameFacts
  <2>2. t = ListSet(u, l, DfTmp(l))
    BY <1>3 DEF AddName, ListSet
  <2> HIDE DEF u
  <2>3. DfTmp(l) \in ListNames /\ DfTmp(l)[1] = l
    BY NameFacts
  <2>4. MachineType(t, D) /\ SameFiles(u, t) /\ SameRest(u, t)
    BY <2>1, <2>2, <2>3, ListSetEffect
  <2> QED BY <2>1, <2>4 DEF SameFiles, SameRest
<1>4. CASE s.m_mapList[l] = Gone
  <2>1. t = s
    BY <1>4, NameFacts DEF AddName, Put
  <2> QED BY <2>1 DEF SameFiles, SameRest
<1>5. CASE s.m_mapList[l] = DfTmp(l)
  <2>1. DfTmp(l) \in ListNames /\ DfTmp(l) \in Names /\ DfTmp(l) # Closed
    <3>1. DfTmp(l) \in ListNames /\ ListNames \subseteq Names /\ Closed \notin Names
      BY NameFacts
    <3> QED BY <3>1
  <2>2. t = Extend(s, DfTmp(l), <<f>>)
    BY <1>5, <2>1 DEF AddName, Put
  <2> QED BY <1>2, <2>1, <2>2
<1>6. s.m_mapList[l] \in {Closed, Gone, DfTmp(l)}
  BY DEF MachineType, OwnFiles
<1> QED BY <1>3, <1>4, <1>5, <1>6

(* The other files. *)
SameOthers(s, t, f) ==
  \A g \in Files \ {f} :
    /\ t.m_mapNameFile[g] = s.m_mapNameFile[g] \/ (s.m_mapNameFile[g] = Final(f) /\ t.m_mapNameFile[g] = Gone)
    /\ t.disk[Df(g)] = s.disk[Df(g)]
    /\ t.disk[Md5(g)] = s.disk[Md5(g)] /\ t.disk[Final(g)] = s.disk[Final(g)]

(* OPEN_FILE: the .md5 goes, and unless it fails at once the .df is empty and open. *)
Opens(D, s, o, f) ==
  /\ MachineType(o.srv, D) /\ SameRest(s, o.srv) /\ SameOthers(s, o.srv, f)
  /\ (o.ret = 0 /\ o.bad = 0) \/ (o.ret = -1 /\ o.bad = 1)
  /\ o.srv.jobs = s.jobs /\ o.srv.hashing = {j \in s.hashing : j.f # f}
  /\ o.srv.disk[Md5(f)] = NoFile /\ o.srv.disk[Final(f)] = s.disk[Final(f)]
  /\ \/ o.srv.disk[Df(f)] = <<>> /\ o.srv.m_mapNameFile[f] = Df(f)
     \/ o.ret # 0 /\ o.srv.disk[Df(f)] = s.disk[Df(f)] /\ o.srv.m_mapNameFile[f] = Closed

LEMMA OpenEffect ==
  ASSUME NEW D, NEW s, MachineType(s, D), NEW l \in Lists, NEW f \in Files, NEW o \in OpenAFile(s, l, f)
  PROVE  Opens(D, s, o, f)
<1> DEFINE t == Unlink(s, Md5(f))
           c == CloseOld(t, f)
           r == Reopened(t, f)
           a == AddName(r, l, f)
<1>1. /\ MachineType(t, D) /\ SameRest(s, t)
      /\ t.disk = [s.disk EXCEPT ![Md5(f)] = NoFile] /\ t.jobs = s.jobs
      /\ t.hashing = {j \in s.hashing : j.f # f} /\ t.m_mapNameFile = s.m_mapNameFile
  BY Md5Unlinked DEF DropsMd5
<1>2. o \in {Answer(a, 0), Fails(c, -1)} \cup {Fails(r, -1) : d \in {t.m_mapList[l]} \cap {Closed}}
  BY DEF OpenAFile
<1> HIDE DEF t
<1>3. /\ MachineType(c, D) /\ SameRest(t, c) /\ c.disk = t.disk /\ c.jobs = t.jobs /\ c.hashing = t.hashing
      /\ c.m_mapNameFile = [t.m_mapNameFile EXCEPT ![f] = Closed]
  BY <1>1, CloseOldEffect DEF FileSets
<1>4. /\ MachineType(r, D) /\ SameRest(t, r)
      /\ \A n \in Names : r.disk[n] = IF n = Df(f) THEN <<>> ELSE t.disk[n]
      /\ r.jobs = t.jobs /\ r.hashing = t.hashing
      /\ r.m_mapNameFile = [t.m_mapNameFile EXCEPT ![f] = Df(f)]
  <2>1. Reopens(D, t, r, f)
    BY <1>1, ReopenedEffect
  <2> HIDE DEF r
  <2> QED BY <2>1 DEF Reopens
<1> HIDE DEF c, r
<1>5. MachineType(a, D) /\ SameFiles(r, a) /\ SameRest(r, a)
  BY <1>4, AddNameEffect
<1> HIDE DEF a
<1>6. /\ s.disk \in [Names -> AnyContents(D)] /\ s.m_mapNameFile \in [Files -> Names \cup {Closed, Gone}]
      /\ \A g \in Files : Df(g) \in Names /\ Md5(g) \in Names /\ Final(g) \in Names
  BY NameFacts DEF MachineType, Machines
<1>7. /\ t.disk[Md5(f)] = NoFile /\ t.disk[Df(f)] = s.disk[Df(f)] /\ t.disk[Final(f)] = s.disk[Final(f)]
      /\ SameOthers(s, t, f)
  BY <1>1, <1>6, NameFacts DEF SameOthers
<1>8. t.disk \in [Names -> AnyContents(D)] /\ t.m_mapNameFile \in [Files -> Names \cup {Closed, Gone}]
  BY <1>1 DEF MachineType, Machines
<1>9. /\ r.disk[Md5(f)] = NoFile /\ r.disk[Df(f)] = <<>> /\ r.disk[Final(f)] = s.disk[Final(f)]
      /\ SameOthers(s, r, f) /\ r.m_mapNameFile[f] = Df(f)
  BY <1>1, <1>4, <1>6, <1>7, <1>8, NameFacts DEF SameOthers
<1>10. CASE o = Fails(c, -1)
  <2>1. o.srv = c /\ o.ret = -1 /\ o.bad = 1
    BY <1>10 DEF Fails
  <2>2. SameOthers(s, c, f) /\ c.m_mapNameFile[f] = Closed
    BY <1>3, <1>7, <1>8 DEF SameOthers
  <2>3. /\ c.jobs = s.jobs /\ c.hashing = {j \in s.hashing : j.f # f} /\ c.disk[Md5(f)] = NoFile
        /\ c.disk[Final(f)] = s.disk[Final(f)] /\ c.disk[Df(f)] = s.disk[Df(f)]
    BY <1>1, <1>3, <1>7
  <2>4. SameRest(s, c)
    BY <1>1, <1>3 DEF SameRest
  <2>5. o.ret # 0 /\ MachineType(c, D)
    BY <1>3, <2>1
  <2> QED BY <2>1, <2>2, <2>3, <2>4, <2>5 DEF Opens
<1>11. CASE o = Fails(r, -1)
  <2>1. o.srv = r /\ o.ret = -1 /\ o.bad = 1
    BY <1>11 DEF Fails
  <2> QED BY <1>1, <1>4, <1>9, <2>1 DEF SameRest, Opens
<1>12. CASE o = Answer(a, 0)
  <2>1. o.srv = a /\ o.ret = 0 /\ o.bad = 0
    BY <1>12 DEF Answer
  <2>2. \A g \in Files : Df(g) \in FileNames /\ Md5(g) \in FileNames /\ Final(g) \in FileNames
    BY NameFacts
  <2>3. SameOthers(s, a, f)
    BY <1>5, <1>9, <2>2 DEF SameOthers, SameFiles
  <2> QED BY <1>1, <1>4, <1>5, <1>9, <2>1, <2>2, <2>3 DEF SameRest, SameFiles, Opens
<1> QED BY <1>2, <1>10, <1>11, <1>12

(* START_LST and END_LST: the files are left alone. *)
ListsOnly(D, s, t) == MachineType(t, D) /\ SameFiles(s, t) /\ SameRest(s, t)

LEMMA ListsAgain ==
  ASSUME NEW D, NEW s, NEW t, NEW u, ListsOnly(D, s, t), ListsOnly(D, t, u)
  PROVE  ListsOnly(D, s, u)
BY DEF ListsOnly, SameFiles, SameRest

LEMMA ListSetOnly ==
  ASSUME NEW D, NEW s, MachineType(s, D), NEW l \in Lists, NEW n, n = Closed \/ n = DfTmp(l)
  PROVE  ListsOnly(D, s, ListSet(s, l, n))
BY ListSetEffect DEF ListsOnly

LEMMA ListRenameOnly ==
  ASSUME NEW D, NEW s, MachineType(s, D), NEW l \in Lists, NEW a \in ListNames, NEW b \in ListNames,
         a[1] = l, b[1] = l, a # b, s.m_mapList[l] = Closed
  PROVE  ListsOnly(D, s, Rename(s, a, b))
<1> DEFINE t == Rename(s, a, b)
<1>1. MachineType(t, D)
  BY ListRenameTyped
<1>2. /\ s \in Machines(D) /\ s.disk \in [Names -> AnyContents(D)] /\ a \in Names /\ b \in Names
      /\ s.m_mapNameFile \in [Files -> Names \cup {Closed, Gone}]
  BY NameFacts DEF MachineType, Machines
<1>3. /\ t.disk = [s.disk EXCEPT ![a] = NoFile, ![b] = s.disk[a]]
      /\ t.jobs = s.jobs /\ t.hashing = s.hashing /\ t.m_mapProcPid = s.m_mapProcPid
      /\ t.procs = s.procs
      /\ t.m_mapNameFile = [g \in Files |-> Becomes(s.m_mapNameFile[g], a, b)]
  <2>1. Renames(D, s, t, a, b)
    BY <1>2, RenameEffect
  <2> HIDE DEF t
  <2> QED BY <2>1 DEF Renames
<1> HIDE DEF t
<1>4. \A m \in FileNames : t.disk[m] = s.disk[m]
  BY <1>2, <1>3, NameFacts
<1>5. \A g \in Files : Becomes(s.m_mapNameFile[g], a, b) = s.m_mapNameFile[g]
  BY NameFacts DEF MachineType, OwnFiles, Becomes
<1>6. t.m_mapNameFile = s.m_mapNameFile
  BY <1>2, <1>3, <1>5
<1> QED BY <1>1, <1>3, <1>4, <1>6 DEF t, ListsOnly, SameFiles, SameRest

LEMMA ListWriteOnly ==
  ASSUME NEW D, NEW s, MachineType(s, D), NEW n \in ListNames, NEW c \in NameContents
  PROVE  ListsOnly(D, s, Write(s, n, c))
<1> DEFINE t == Write(s, n, c)
<1>1. s \in Machines(D) /\ s.disk \in [Names -> AnyContents(D)] /\ n \in Names /\ c \in AnyContents(D)
  BY NameFacts DEF MachineType, Machines, NameContents, AnyContents
<1>2. /\ t \in Machines(D) /\ t.disk = [s.disk EXCEPT ![n] = c]
      /\ t.m_mapNameFile = s.m_mapNameFile /\ t.m_mapList = s.m_mapList /\ t.jobs = s.jobs
      /\ t.hashing = s.hashing /\ t.m_mapProcPid = s.m_mapProcPid /\ t.procs = s.procs
  BY <1>1, WriteEffect
<1> HIDE DEF t
<1>3. MachineType(t, D)
  BY <1>2, NamesWritten
<1>4. \A m \in FileNames : t.disk[m] = s.disk[m]
  BY <1>1, <1>2, NameFacts
<1> QED BY <1>2, <1>3, <1>4 DEF t, ListsOnly, SameFiles, SameRest

Starts(D, s, o) == ListsOnly(D, s, o.srv) /\ ((o.ret = 0 /\ o.bad = 0) \/ (o.ret = -1 /\ o.bad = 1))

LEMMA StartEffect ==
  ASSUME NEW D, NEW s, MachineType(s, D), NEW l \in Lists, NEW o \in CreateAList(s, l)
  PROVE  Starts(D, s, o)
<1> DEFINE t == ListSet(s, l, Closed)
           made == IF Exists(t, Final(l)) THEN Rename(t, Final(l), DfTmp(l)) ELSE t
           opened == IF Exists(t, Final(l)) THEN made ELSE Write(made, DfTmp(l), <<>>)
           started == ListSet(opened, l, DfTmp(l))
<1>1. o = Answer(started, 0) \/ o = Fails(made, -1)
  BY DEF CreateAList, ListSet
<1>2. ListsOnly(D, s, t) /\ MachineType(t, D) /\ t.m_mapList[l] = Closed
  <2>1. ListsOnly(D, s, t)
    BY ListSetOnly
  <2>2. t.m_mapList = [s.m_mapList EXCEPT ![l] = Closed] /\ s.m_mapList \in [Lists -> Names \cup {Closed, Gone}]
    BY ListSetEffect DEF MachineType, Machines
  <2> QED BY <2>1, <2>2 DEF ListsOnly
<1> HIDE DEF t
<1>3. ListsOnly(D, t, made) /\ MachineType(made, D)
  <2>1. ListsOnly(D, t, t)
    BY <1>2 DEF ListsOnly, SameFiles, SameRest
  <2>2. ListsOnly(D, t, Rename(t, Final(l), DfTmp(l)))
    BY <1>2, NameFacts, ListRenameOnly
  <2>3. ListsOnly(D, t, made)
    BY <2>1, <2>2
  <2> QED BY <2>3 DEF ListsOnly
<1> HIDE DEF made
<1>4. ListsOnly(D, made, opened) /\ MachineType(opened, D)
  <2>1. ListsOnly(D, made, made)
    BY <1>3 DEF ListsOnly, SameFiles, SameRest
  <2>2. <<>> \in NameContents /\ DfTmp(l) \in ListNames
    <3>1. <<>> \in NameContents
      BY DEF NameContents
    <3> QED BY <3>1, NameFacts
  <2>3. ListsOnly(D, made, Write(made, DfTmp(l), <<>>))
    BY <1>3, <2>2, ListWriteOnly
  <2>4. ListsOnly(D, made, opened)
    BY <2>1, <2>3
  <2> QED BY <2>4 DEF ListsOnly
<1> HIDE DEF opened
<1>5. ListsOnly(D, opened, started)
  BY <1>4, NameFacts, ListSetOnly
<1> HIDE DEF started
<1>6. ListsOnly(D, s, made) /\ ListsOnly(D, s, started)
  BY <1>2, <1>3, <1>4, <1>5, ListsAgain
<1> QED BY <1>1, <1>6 DEF Starts, Answer, Fails

LEMMA EndEffect ==
  ASSUME NEW D, NEW s, MachineType(s, D), NEW l \in Lists, NEW dated \in BOOLEAN,
         NEW o \in CloseAList(s, l, dated)
  PROVE  ListsOnly(D, s, o.srv) /\ o.ret \in {0, -1, -2} /\ o.bad = 0
<1> DEFINE t == ListSet(s, l, Closed)
           n == IF dated THEN <<l, "date">> ELSE Final(l)
           r == Rename(t, DfTmp(l), n)
<1>1. o = Answer(s, -2) \/ o = Answer(t, -1) \/ o = Answer(r, 0)
  BY DEF CloseAList, ListSet
<1>2. ListsOnly(D, s, t) /\ MachineType(t, D) /\ t.m_mapList[l] = Closed
  <2>1. ListsOnly(D, s, t)
    BY ListSetOnly
  <2>2. t.m_mapList = [s.m_mapList EXCEPT ![l] = Closed] /\ s.m_mapList \in [Lists -> Names \cup {Closed, Gone}]
    BY ListSetEffect DEF MachineType, Machines
  <2> QED BY <2>1, <2>2 DEF ListsOnly
<1>3. n \in ListNames /\ n[1] = l /\ DfTmp(l) # n /\ DfTmp(l) \in ListNames /\ DfTmp(l)[1] = l
  <2>1. n = <<l, "date">> \/ n = Final(l)
    OBVIOUS
  <2> HIDE DEF n
  <2>2. DfTmp(l) \in ListNames /\ Final(l) \in ListNames /\ <<l, "date">> \in ListNames
    BY NameFacts
  <2>3. DfTmp(l) # Final(l) /\ DfTmp(l) # <<l, "date">> /\ DfTmp(l)[1] = l /\ Final(l)[1] = l /\ <<l, "date">>[1] = l
    BY NameFacts
  <2>4. CASE n = <<l, "date">>
    BY <2>2, <2>3, <2>4
  <2>5. CASE n = Final(l)
    BY <2>2, <2>3, <2>5
  <2> QED BY <2>1, <2>4, <2>5
<1> HIDE DEF t, n
<1>4. ListsOnly(D, t, r)
  BY <1>2, <1>3, ListRenameOnly
<1> HIDE DEF r
<1>5. ListsOnly(D, s, s) /\ ListsOnly(D, s, r)
  BY <1>2, <1>4, ListsAgain DEF ListsOnly, SameFiles, SameRest
<1> QED BY <1>1, <1>2, <1>5 DEF Answer

(* WRITE_FILE: the data is appended to the file its FILE* is of, if there is one. *)
Writes(D, s, o, f, data) ==
  /\ MachineType(o.srv, D) /\ SameLists(s, o.srv) /\ SameRest(s, o.srv)
  /\ (o.ret = 0 /\ o.bad = 0) \/ (o.ret = -2 /\ o.bad = 1)
  /\ o.srv.m_mapNameFile = s.m_mapNameFile /\ o.srv.jobs = s.jobs /\ o.srv.hashing = s.hashing
  /\ \/ o.srv.disk = s.disk /\ (o.ret = 0 => s.m_mapNameFile[f] \in {Closed, Gone})
     \/ /\ o.ret = 0 /\ s.m_mapNameFile[f] \in {Df(f)} \cup {Final(g) : g \in Files}
        /\ o.srv.disk = [s.disk EXCEPT ![s.m_mapNameFile[f]] = Appended(s.disk[s.m_mapNameFile[f]], data)]

LEMMA WriteFileEffect ==
  ASSUME NEW D, NEW s, MachineType(s, D), NEW f \in Files, NEW data \in Seq(D),
         NEW o \in WriteToFile(s, f, data)
  PROVE  Writes(D, s, o, f, data)
<1> DEFINE n == s.m_mapNameFile[f]
           t == Put(s, n, data)
<1>1. o = Answer(t, 0) \/ o = Fails(s, -2)
  BY DEF WriteToFile
<1>2. n \in {Closed, Gone, Df(f)} \cup {Final(g) : g \in Files}
  BY DEF MachineType, OwnFiles
<1> HIDE DEF n
<1>3. CASE o = Fails(s, -2)
  <2>1. o.srv = s /\ o.ret = -2 /\ o.bad = 1
    BY <1>3 DEF Fails
  <2>2. o.ret # 0
    BY <2>1
  <2> QED BY <2>1, <2>2 DEF Writes, SameLists, SameRest
<1>4. CASE o = Answer(t, 0) /\ n \in {Closed, Gone}
  <2>1. t = s
    BY <1>4, NameFacts DEF Put
  <2> QED BY <1>4, <2>1 DEF Writes, SameLists, SameRest, Answer, n
<1>5. CASE o = Answer(t, 0) /\ n \in {Df(f)} \cup {Final(g) : g \in Files}
  <2>0. PICK g \in Files : n = Df(g) \/ n = Final(g)
    BY <1>5
  <2>1. n \in Names /\ n \notin ListNames /\ s.disk[n] \in DataContents(D)
    BY <2>0, NameFacts DEF MachineType, OwnContents
  <2>2. t = Extend(s, n, data)
    BY <2>1 DEF Put
  <2>3. s \in Machines(D) /\ s.disk \in [Names -> AnyContents(D)] /\ Seq(D) \subseteq AnyContents(D)
    BY DEF MachineType, Machines, AnyContents
  <2>4. Extends(D, s, t, n, data) /\ Appended(s.disk[n], data) \in DataContents(D)
    BY <2>1, <2>2, <2>3, ExtendEffect DEF DataContents
  <2> HIDE DEF t
  <2>5. /\ t \in Machines(D) /\ t.disk = [s.disk EXCEPT ![n] = Appended(s.disk[n], data)]
        /\ t.m_mapNameFile = s.m_mapNameFile /\ t.m_mapList = s.m_mapList /\ t.jobs = s.jobs
        /\ t.hashing = s.hashing /\ t.m_mapProcPid = s.m_mapProcPid /\ t.procs = s.procs
    BY <2>4 DEF Extends
  <2>6. MachineType(t, D)
    BY <2>0, <2>4, <2>5, DataWritten
  <2>7. \A m \in ListNames : t.disk[m] = s.disk[m]
    BY <2>1, <2>3, <2>5, NameFacts
  <2>8. o.srv = t /\ o.ret = 0 /\ o.bad = 0
    BY <1>5 DEF Answer
  <2> QED BY <1>5, <2>5, <2>6, <2>7, <2>8 DEF Writes, SameLists, SameRest, n
<1> QED BY <1>1, <1>2, <1>3, <1>4, <1>5

(* .df becomes the file. *)
Installs(D, s, t, f) ==
  /\ MachineType(t, D) /\ SameLists(s, t) /\ SameRest(s, t) /\ SameOthers(s, t, f)
  /\ t.jobs = s.jobs /\ t.hashing = s.hashing
  /\ t.disk[Df(f)] = NoFile /\ t.disk[Final(f)] = s.disk[Df(f)] /\ t.disk[Md5(f)] = s.disk[Md5(f)]
  /\ \A g \in Files : t.m_mapNameFile[g] = Becomes(s.m_mapNameFile[g], Df(f), Final(f))

LEMMA InstallEffect ==
  ASSUME NEW D, NEW s, MachineType(s, D), NEW f \in Files
  PROVE  Installs(D, s, Rename(s, Df(f), Final(f)), f)
<1> DEFINE t == Rename(s, Df(f), Final(f))
<1>1. MachineType(t, D)
  BY InstallTyped
<1>2. /\ s \in Machines(D) /\ s.disk \in [Names -> AnyContents(D)]
      /\ s.m_mapList \in [Lists -> Names \cup {Closed, Gone}]
      /\ \A g \in Files : Df(g) \in Names /\ Final(g) \in Names /\ Md5(g) \in Names
  BY NameFacts DEF MachineType, Machines
<1>3. Renames(D, s, t, Df(f), Final(f))
  BY <1>2, RenameEffect
<1> HIDE DEF t
<1>4. /\ t.disk = [s.disk EXCEPT ![Df(f)] = NoFile, ![Final(f)] = s.disk[Df(f)]]
      /\ t.jobs = s.jobs /\ t.hashing = s.hashing /\ t.m_mapProcPid = s.m_mapProcPid
      /\ t.procs = s.procs
      /\ t.m_mapNameFile = [g \in Files |-> Becomes(s.m_mapNameFile[g], Df(f), Final(f))]
      /\ t.m_mapList = [l \in Lists |-> Becomes(s.m_mapList[l], Df(f), Final(f))]
  BY <1>3 DEF Renames
<1>5. \A m \in Names : t.disk[m] = IF m = Final(f) THEN s.disk[Df(f)] ELSE IF m = Df(f) THEN NoFile ELSE s.disk[m]
  BY <1>2, <1>4, NameFacts
<1>6. \A m \in ListNames : t.disk[m] = s.disk[m]
  BY <1>5, NameFacts
<1>7. t.disk[Df(f)] = NoFile /\ t.disk[Final(f)] = s.disk[Df(f)] /\ t.disk[Md5(f)] = s.disk[Md5(f)]
  BY <1>2, <1>5, NameFacts
<1>8. \A g \in Files \ {f} :
        Becomes(s.m_mapNameFile[g], Df(f), Final(f)) =
          IF s.m_mapNameFile[g] = Final(f) THEN Gone ELSE s.m_mapNameFile[g]
  BY NameFacts DEF MachineType, OwnFiles, Becomes
<1>9. SameOthers(s, t, f)
  BY <1>2, <1>4, <1>5, <1>8, NameFacts DEF SameOthers
<1>10. \A l \in Lists : Becomes(s.m_mapList[l], Df(f), Final(f)) = s.m_mapList[l]
  <2>1. Df(f) \in FileNames /\ Final(f) \in FileNames
    BY NameFacts
  <2>2. \A l \in Lists : s.m_mapList[l] # Df(f) /\ s.m_mapList[l] # Final(f)
    BY <2>1, ListsKeepApart
  <2> QED BY <2>2 DEF Becomes
<1>11. t.m_mapList = s.m_mapList
  BY <1>2, <1>4, <1>10
<1> QED BY <1>1, <1>4, <1>6, <1>7, <1>9, <1>11 DEF t, Installs, SameLists, SameRest

(* CLOSE_FILE: a job for the md5 threads, or the file at once, if the rename succeeds. *)
Closes(D, s, o, f, all) ==
  /\ MachineType(o.srv, D) /\ SameLists(s, o.srv) /\ SameRest(s, o.srv) /\ SameOthers(s, o.srv, f)
  /\ o.ret = 0 /\ o.bad \in {0, 1} /\ (all => o.bad = 0)
  /\ o.srv.m_mapNameFile[f] = Closed /\ o.srv.hashing = s.hashing
  /\ o.srv.disk[Md5(f)] = s.disk[Md5(f)]
  /\ o.srv.jobs = IF all THEN Append(s.jobs, f) ELSE s.jobs
  /\ IF all \/ s.disk[Df(f)] = NoFile \/ o.bad = 1
     THEN o.srv.disk[Df(f)] = s.disk[Df(f)] /\ o.srv.disk[Final(f)] = s.disk[Final(f)]
     ELSE o.srv.disk[Df(f)] = NoFile /\ o.srv.disk[Final(f)] = s.disk[Df(f)]

LEMMA CloseFileEffect ==
  ASSUME NEW D, NEW s, MachineType(s, D), NEW f \in Files, NEW all \in BOOLEAN,
         NEW o \in CloseAFile(s, f, all)
  PROVE  Closes(D, s, o, f, all)
<1> DEFINE c == CloseOld(s, f)
           j == [c EXCEPT !.jobs = Append(@, f)]
           t == Rename(c, Df(f), Final(f))
<1>1. o \in HandOver(c, f, all)
  BY DEF CloseAFile
<1>2. FileSets(D, s, c, f, Closed)
  BY CloseOldEffect
<1> HIDE DEF c
<1>3. /\ MachineType(c, D) /\ SameLists(s, c) /\ SameRest(s, c) /\ c.disk = s.disk
      /\ c.jobs = s.jobs /\ c.hashing = s.hashing
      /\ c.m_mapNameFile = [s.m_mapNameFile EXCEPT ![f] = Closed]
  BY <1>2 DEF FileSets
<1>4. c.m_mapNameFile[f] = Closed /\ SameOthers(s, c, f)
  <2>1. s.m_mapNameFile \in [Files -> Names \cup {Closed, Gone}]
    BY DEF MachineType, Machines
  <2> QED BY <1>3, <2>1 DEF SameOthers
<1>5. CASE all
  <2>1. o.srv = j /\ o.ret = 0 /\ o.bad = 0
    BY <1>1, <1>5 DEF HandOver, Answer
  <2>2. c \in Machines(D) /\ c.jobs \in Seq(Files) /\ Append(c.jobs, f) \in Seq(Files)
    BY <1>3 DEF MachineType, Machines
  <2>3. /\ j \in Machines(D) /\ j.disk = c.disk /\ j.m_mapNameFile = c.m_mapNameFile
        /\ j.m_mapList = c.m_mapList /\ j.hashing = c.hashing /\ j.jobs = Append(c.jobs, f)
        /\ SameRest(c, j)
    BY <2>2 DEF Machines, SameRest
  <2> HIDE DEF j
  <2>4. MachineType(j, D)
    BY <1>3, <2>3, TypeKept
  <2>5. SameLists(s, j) /\ SameRest(s, j) /\ SameOthers(s, j, f)
    BY <1>3, <1>4, <2>3 DEF SameLists, SameRest, SameOthers
  <2> QED BY <1>3, <1>4, <1>5, <2>1, <2>3, <2>4, <2>5 DEF Closes
<1>6. CASE ~all /\ (o = Fails(c, 0) \/ (~Exists(c, Df(f)) /\ o = Answer(c, 0)))
  <2>1. o.srv = c /\ o.ret = 0 /\ (o.bad = 1 \/ (o.bad = 0 /\ c.disk[Df(f)] = NoFile))
    BY <1>6 DEF Answer, Fails, Exists
  <2> QED BY <1>3, <1>4, <1>6, <2>1 DEF Closes
<1>7. CASE ~all /\ Exists(c, Df(f)) /\ o = Answer(t, 0)
  <2>1. o.srv = t /\ o.ret = 0 /\ o.bad = 0 /\ c.disk[Df(f)] # NoFile
    BY <1>7 DEF Answer, Exists
  <2>2. Installs(D, c, t, f)
    BY <1>3, InstallEffect
  <2> HIDE DEF t
  <2>3. /\ MachineType(t, D) /\ SameLists(c, t) /\ SameRest(c, t) /\ SameOthers(c, t, f)
        /\ t.jobs = c.jobs /\ t.hashing = c.hashing
        /\ t.disk[Df(f)] = NoFile /\ t.disk[Final(f)] = c.disk[Df(f)] /\ t.disk[Md5(f)] = c.disk[Md5(f)]
        /\ t.m_mapNameFile[f] = Closed
    BY <1>4, <2>2, NameFacts DEF Installs, Becomes
  <2>4. SameLists(s, t) /\ SameRest(s, t) /\ SameOthers(s, t, f)
    BY <1>3, <1>4, <2>3 DEF SameLists, SameRest, SameOthers
  <2> QED BY <1>3, <1>7, <2>1, <2>3, <2>4 DEF Closes
<1> QED BY <1>1, <1>5, <1>6, <1>7 DEF HandOver

(* A text of f, or nothing, goes to its .md5. *)
Md5Texts(D, s, t, f, c) ==
  /\ MachineType(t, D) /\ SameLists(s, t) /\ SameRest(s, t) /\ SameOthers(s, t, f)
  /\ t.jobs = s.jobs /\ t.hashing = s.hashing /\ t.m_mapNameFile = s.m_mapNameFile
  /\ t.disk[Md5(f)] = c /\ t.disk[Df(f)] = s.disk[Df(f)] /\ t.disk[Final(f)] = s.disk[Final(f)]

LEMMA Md5TextEffect ==
  ASSUME NEW D, NEW s, MachineType(s, D), NEW f \in Files, NEW c \in DataContents(D) \cup {Empty}
  PROVE  Md5Texts(D, s, Write(s, Md5(f), c), f, c)
<1> DEFINE t == Write(s, Md5(f), c)
<1>1. /\ s \in Machines(D) /\ s.disk \in [Names -> AnyContents(D)] /\ c \in AnyContents(D)
      /\ \A g \in Files : Df(g) \in Names /\ Final(g) \in Names /\ Md5(g) \in Names
  BY NameFacts DEF MachineType, Machines, DataContents, AnyContents
<1>2. /\ t \in Machines(D) /\ t.disk = [s.disk EXCEPT ![Md5(f)] = c]
      /\ t.m_mapNameFile = s.m_mapNameFile /\ t.m_mapList = s.m_mapList /\ t.jobs = s.jobs
      /\ t.hashing = s.hashing /\ t.m_mapProcPid = s.m_mapProcPid /\ t.procs = s.procs
  BY <1>1, WriteEffect
<1> HIDE DEF t
<1>3. MachineType(t, D)
  BY <1>2, Md5Written
<1>4. \A m \in Names : t.disk[m] = IF m = Md5(f) THEN c ELSE s.disk[m]
  BY <1>1, <1>2
<1>5. \A m \in ListNames : t.disk[m] = s.disk[m]
  BY <1>4, NameFacts
<1>6. t.disk[Md5(f)] = c /\ t.disk[Df(f)] = s.disk[Df(f)] /\ t.disk[Final(f)] = s.disk[Final(f)]
  BY <1>1, <1>4, NameFacts
<1>7. SameOthers(s, t, f)
  BY <1>1, <1>2, <1>4, NameFacts DEF SameOthers
<1> QED BY <1>2, <1>3, <1>5, <1>6, <1>7 DEF t, Md5Texts, SameLists, SameRest

(* CHECK_MD5: without a .df a matter of luck; otherwise the .md5, made if it is not there, decides, unless
   the machine fails: then nothing is done, or the .md5 goes and the .df stays. *)
TextOf(s, f) == IF Exists(s, Md5(f)) THEN s.disk[Md5(f)] ELSE s.disk[Df(f)]

Checks(D, s, o, f, hash) ==
  /\ MachineType(o.srv, D) /\ SameLists(s, o.srv) /\ SameRest(s, o.srv) /\ SameOthers(s, o.srv, f)
  /\ o.srv.jobs = s.jobs /\ o.bad \in {0, 1} /\ o.ret \in {0, -1, -2, -3, -4}
  /\ \/ o.srv = s /\ s.disk[Df(f)] = NoFile /\ o.ret \in {0, -1} /\ o.bad = 0
     \/ o.srv = s /\ s.disk[Df(f)] # NoFile /\ o.ret \in {-3, -4} /\ o.bad = 1
     \/ /\ s.disk[Df(f)] # NoFile /\ TextOf(s, f) # Empty /\ TextOf(s, f) = hash /\ o.ret = 0 /\ o.bad = 1
        /\ o.srv.disk[Df(f)] = s.disk[Df(f)] /\ o.srv.disk[Final(f)] = s.disk[Final(f)]
        /\ o.srv.disk[Md5(f)] = NoFile /\ o.srv.hashing = {j \in s.hashing : j.f # f}
        /\ o.srv.m_mapNameFile = s.m_mapNameFile
     \/ /\ s.disk[Df(f)] # NoFile /\ TextOf(s, f) # Empty /\ TextOf(s, f) = hash /\ o.ret = 0 /\ o.bad = 0
        /\ o.srv.disk[Df(f)] = NoFile /\ o.srv.disk[Final(f)] = s.disk[Df(f)]
        /\ o.srv.disk[Md5(f)] = NoFile /\ o.srv.hashing = {j \in s.hashing : j.f # f}
        /\ \A g \in Files : o.srv.m_mapNameFile[g] = Becomes(s.m_mapNameFile[g], Df(f), Final(f))
     \/ /\ s.disk[Df(f)] # NoFile /\ o.ret = (IF TextOf(s, f) = Empty THEN 0 ELSE -2) /\ o.bad = 0
        /\ TextOf(s, f) # Empty => TextOf(s, f) # hash
        /\ o.srv.disk[Df(f)] = s.disk[Df(f)] /\ o.srv.disk[Final(f)] = s.disk[Final(f)]
        /\ o.srv.disk[Md5(f)] = TextOf(s, f) /\ o.srv.hashing = s.hashing
        /\ o.srv.m_mapNameFile = s.m_mapNameFile

LEMMA CheckEffect ==
  ASSUME NEW D, NEW s, MachineType(s, D), NEW f \in Files, NEW hash, NEW o \in CheckMD5(s, f, hash)
  PROVE  Checks(D, s, o, f, hash)
<1>1. CASE ~Exists(s, Df(f))
  <2>1. o.srv = s /\ o.bad = 0 /\ o.ret \in {0, -1} /\ s.disk[Df(f)] = NoFile
    BY <1>1 DEF CheckMD5, Answer, Exists
  <2> QED BY <2>1 DEF Checks, SameLists, SameRest, SameOthers
<1>2. CASE Exists(s, Df(f))
  <2> DEFINE t == IF Exists(s, Md5(f)) THEN s ELSE BuildMd5(s, f)
             text == t.disk[Md5(f)]
             r == Rename(t, Df(f), Final(f))
             u == Unlink(r, Md5(f))
             v == Unlink(t, Md5(f))
  <2>1. Md5Texts(D, s, t, f, TextOf(s, f)) /\ text = TextOf(s, f) /\ s.disk[Df(f)] # NoFile
    <3>1. CASE Exists(s, Md5(f))
      BY <1>2, <3>1 DEF Md5Texts, TextOf, SameLists, SameRest, SameOthers, Exists
    <3>2. CASE ~Exists(s, Md5(f))
      <4>1. s.disk[Df(f)] \in DataContents(D) \cup {Empty}
        BY DEF MachineType, OwnContents
      <4>2. Md5Texts(D, s, t, f, TextOf(s, f))
        BY <3>2, <4>1, Md5TextEffect DEF BuildMd5, TextOf
      <4> QED BY <1>2, <4>2 DEF Md5Texts, Exists
    <3> QED BY <3>1, <3>2
  <2>2. \/ text = Empty /\ o = Answer(t, 0)
        \/ text # Empty /\ text = hash /\ o = Answer(u, 0)
        \/ text # Empty /\ text = hash /\ o = Fails(v, 0)
        \/ text # Empty /\ text # hash /\ o = Answer(t, -2)
        \/ o = Fails(s, -3) \/ o = Fails(s, -4)
    BY <1>2 DEF CheckMD5, TriesInstall, Install
  <2> HIDE DEF t
  <2>3. /\ MachineType(t, D) /\ SameLists(s, t) /\ SameRest(s, t) /\ SameOthers(s, t, f)
        /\ t.jobs = s.jobs /\ t.hashing = s.hashing /\ t.m_mapNameFile = s.m_mapNameFile
        /\ t.disk[Df(f)] = s.disk[Df(f)] /\ t.disk[Final(f)] = s.disk[Final(f)]
    BY <2>1 DEF Md5Texts
  <2>4. CASE text # Empty /\ text = hash /\ o = Answer(u, 0)
    <3>1. Installs(D, t, r, f)
      BY <2>3, InstallEffect
    <3> HIDE DEF r
    <3>2. MachineType(r, D)
      BY <3>1 DEF Installs
    <3>3. DropsMd5(D, r, u, f)
      BY <3>2, Md5Unlinked
    <3> HIDE DEF u
    <3>4. /\ r.disk \in [Names -> AnyContents(D)] /\ \A g \in Files : Df(g) \in Names /\ Final(g) \in Names /\ Md5(g) \in Names
      BY <3>2, NameFacts DEF MachineType, Machines
    <3>5. /\ u.disk[Df(f)] = NoFile /\ u.disk[Final(f)] = t.disk[Df(f)] /\ u.disk[Md5(f)] = NoFile
          /\ \A g \in Files : u.m_mapNameFile[g] = Becomes(t.m_mapNameFile[g], Df(f), Final(f))
      BY <3>1, <3>3, <3>4, NameFacts DEF Installs, DropsMd5
    <3>6. SameOthers(t, u, f)
      BY <3>1, <3>3, <3>4, NameFacts DEF Installs, DropsMd5, SameOthers
    <3>7. /\ MachineType(u, D) /\ SameLists(t, u) /\ SameRest(t, u) /\ u.jobs = t.jobs
          /\ u.hashing = {j \in t.hashing : j.f # f}
      BY <3>1, <3>3 DEF Installs, DropsMd5, SameLists, SameRest
    <3>8. SameLists(s, u) /\ SameRest(s, u) /\ SameOthers(s, u, f)
      BY <2>3, <3>6, <3>7 DEF SameLists, SameRest, SameOthers
    <3>9. o.srv = u /\ o.ret = 0 /\ o.bad = 0
      BY <2>4 DEF Answer
    <3> QED BY <2>1, <2>3, <2>4, <3>5, <3>7, <3>8, <3>9 DEF Checks
  <2>5. CASE text = Empty /\ o = Answer(t, 0)
    <3>1. o.srv = t /\ o.ret = 0 /\ o.bad = 0
      BY <2>5 DEF Answer
    <3> QED BY <2>1, <2>3, <2>5, <3>1 DEF Checks
  <2>6. CASE text # Empty /\ text # hash /\ o = Answer(t, -2)
    <3>1. o.srv = t /\ o.ret = -2 /\ o.bad = 0
      BY <2>6 DEF Answer
    <3> QED BY <2>1, <2>3, <2>6, <3>1 DEF Checks
  <2>7. CASE text # Empty /\ text = hash /\ o = Fails(v, 0)
    <3>1. DropsMd5(D, t, v, f)
      BY <2>3, Md5Unlinked
    <3> HIDE DEF v
    <3>2. /\ t.disk \in [Names -> AnyContents(D)]
          /\ \A g \in Files : Df(g) \in Names /\ Final(g) \in Names /\ Md5(g) \in Names
      BY <2>3, NameFacts DEF MachineType, Machines
    <3>3. /\ MachineType(v, D) /\ SameLists(t, v) /\ SameRest(t, v) /\ v.jobs = t.jobs
          /\ v.hashing = {j \in t.hashing : j.f # f} /\ v.m_mapNameFile = t.m_mapNameFile
          /\ \A n \in Names : v.disk[n] = IF n = Md5(f) THEN NoFile ELSE t.disk[n]
      BY <3>1, <3>2 DEF DropsMd5
    <3>4. v.disk[Df(f)] = t.disk[Df(f)] /\ v.disk[Final(f)] = t.disk[Final(f)] /\ v.disk[Md5(f)] = NoFile
      BY <3>2, <3>3, NameFacts
    <3>5. SameOthers(t, v, f)
      BY <3>2, <3>3, NameFacts DEF SameOthers
    <3>6. SameLists(s, v) /\ SameRest(s, v) /\ SameOthers(s, v, f)
      BY <2>3, <3>3, <3>5 DEF SameLists, SameRest, SameOthers
    <3>7. o.srv = v /\ o.ret = 0 /\ o.bad = 1
      BY <2>7 DEF Fails
    <3> QED BY <2>1, <2>3, <2>7, <3>3, <3>4, <3>6, <3>7 DEF Checks
  <2>8. CASE o = Fails(s, -3) \/ o = Fails(s, -4)
    BY <2>1, <2>8 DEF Checks, Fails, SameLists, SameRest, SameOthers
  <2> QED BY <2>2, <2>4, <2>5, <2>6, <2>7, <2>8
<1> QED BY <1>1, <1>2

-----------------------------------------------------------------------------
(* The md5 threads and the restart. *)
Reads(D, s, t) ==
  /\ MachineType(t, D) /\ SameLists(s, t) /\ SameRest(s, t) /\ SameOthers(s, t, Head(s.jobs))
  /\ Head(s.jobs) \in Files /\ t.jobs = Tail(s.jobs) /\ t.m_mapNameFile = s.m_mapNameFile
  /\ t.disk[Df(Head(s.jobs))] = s.disk[Df(Head(s.jobs))]
  /\ t.disk[Final(Head(s.jobs))] = s.disk[Final(Head(s.jobs))]
  /\ IF s.disk[Df(Head(s.jobs))] = NoFile
     THEN t.disk[Md5(Head(s.jobs))] = s.disk[Md5(Head(s.jobs))] /\ t.hashing = s.hashing
     ELSE /\ t.disk[Md5(Head(s.jobs))] = Empty
          /\ t.hashing = s.hashing \cup {[f |-> Head(s.jobs), hash |-> s.disk[Df(Head(s.jobs))]]}

LEMMA ReadsEffect ==
  ASSUME NEW D, NEW s, MachineType(s, D), s.jobs # <<>>
  PROVE  Reads(D, s, Md5Reads(s))
<1> DEFINE f == Head(s.jobs)
           t == [s EXCEPT !.jobs = Tail(@)]
           w == Write(t, Md5(f), Empty)
           j == [f |-> f, hash |-> s.disk[Df(f)]]
           h == [w EXCEPT !.hashing = @ \cup {j}]
<1>1. s \in Machines(D) /\ s.jobs \in Seq(Files) /\ f \in Files /\ Tail(s.jobs) \in Seq(Files)
  BY DEF MachineType, Machines
<1>2. Md5Reads(s) = IF s.disk[Df(f)] = NoFile THEN t ELSE h
  BY <1>1 DEF Md5Reads, Exists, Machines
<1>3. /\ t \in Machines(D) /\ t.disk = s.disk /\ t.m_mapNameFile = s.m_mapNameFile
      /\ t.m_mapList = s.m_mapList /\ t.hashing = s.hashing /\ t.jobs = Tail(s.jobs) /\ SameRest(s, t)
  BY <1>1 DEF Machines, SameRest
<1> HIDE DEF t, f
<1>4. MachineType(t, D)
  BY <1>3, TypeKept
<1>5. SameLists(s, t) /\ SameOthers(s, t, f)
  BY <1>3 DEF SameLists, SameOthers
<1>6. CASE s.disk[Df(f)] = NoFile
  BY <1>1, <1>2, <1>3, <1>4, <1>5, <1>6 DEF Reads, f
<1>7. CASE s.disk[Df(f)] # NoFile
  <2>1. Md5Texts(D, t, w, f, Empty)
    BY <1>1, <1>4, Md5TextEffect
  <2> HIDE DEF w
  <2>2. /\ MachineType(w, D) /\ SameLists(t, w) /\ SameRest(t, w) /\ SameOthers(t, w, f)
        /\ w.jobs = t.jobs /\ w.hashing = t.hashing /\ w.m_mapNameFile = t.m_mapNameFile
        /\ w.disk[Md5(f)] = Empty /\ w.disk[Df(f)] = t.disk[Df(f)] /\ w.disk[Final(f)] = t.disk[Final(f)]
    BY <2>1 DEF Md5Texts
  <2>3. j \in Jobs(D)
    BY <1>1, <1>7 DEF MachineType, OwnContents, DataContents, Jobs
  <2> HIDE DEF j
  <2>4. w \in Machines(D) /\ w.hashing \cup {j} \subseteq Jobs(D)
    BY <2>2, <2>3 DEF MachineType, Machines
  <2>5. /\ h \in Machines(D) /\ h.disk = w.disk /\ h.m_mapNameFile = w.m_mapNameFile
        /\ h.m_mapList = w.m_mapList /\ h.hashing = w.hashing \cup {j} /\ h.jobs = w.jobs /\ SameRest(w, h)
    BY <2>4 DEF Machines, SameRest
  <2> HIDE DEF h
  <2>6. MachineType(h, D)
    BY <2>2, <2>5, TypeKept
  <2>7. SameLists(s, h) /\ SameOthers(s, h, f) /\ SameRest(s, h)
    BY <1>3, <1>5, <2>2, <2>5 DEF SameLists, SameOthers, SameRest
  <2>8. Md5Reads(s) = h
    BY <1>2, <1>7
  <2> QED BY <1>1, <1>3, <1>7, <2>2, <2>5, <2>6, <2>7, <2>8 DEF Reads, f, j
<1> QED BY <1>6, <1>7

TextWritten(D, s, t, j) ==
  /\ MachineType(t, D) /\ SameLists(s, t) /\ SameRest(s, t) /\ SameOthers(s, t, j.f)
  /\ j.f \in Files /\ t.jobs = s.jobs /\ t.m_mapNameFile = s.m_mapNameFile
  /\ t.hashing = s.hashing \ {j} /\ t.disk[Md5(j.f)] = j.hash
  /\ t.disk[Df(j.f)] = s.disk[Df(j.f)] /\ t.disk[Final(j.f)] = s.disk[Final(j.f)]

LEMMA WritesEffect ==
  ASSUME NEW D, NEW s, MachineType(s, D), NEW j \in s.hashing
  PROVE  TextWritten(D, s, Md5Writes(s, j), j)
<1> DEFINE w == Write(s, Md5(j.f), j.hash)
           h == [w EXCEPT !.hashing = @ \ {j}]
<1>1. j.f \in Files /\ j.hash \in DataContents(D) \cup {Empty}
  BY DEF MachineType, Machines, Jobs, DataContents
<1>2. Md5Writes(s, j) = h
  BY DEF Md5Writes
<1>3. Md5Texts(D, s, w, j.f, j.hash)
  BY <1>1, Md5TextEffect
<1> HIDE DEF w
<1>4. /\ MachineType(w, D) /\ SameLists(s, w) /\ SameRest(s, w) /\ SameOthers(s, w, j.f)
      /\ w.jobs = s.jobs /\ w.hashing = s.hashing /\ w.m_mapNameFile = s.m_mapNameFile
      /\ w.disk[Md5(j.f)] = j.hash /\ w.disk[Df(j.f)] = s.disk[Df(j.f)] /\ w.disk[Final(j.f)] = s.disk[Final(j.f)]
  BY <1>3 DEF Md5Texts
<1>5. w \in Machines(D) /\ w.hashing \ {j} \subseteq Jobs(D)
  BY <1>4 DEF MachineType, Machines
<1>6. /\ h \in Machines(D) /\ h.disk = w.disk /\ h.m_mapNameFile = w.m_mapNameFile
      /\ h.m_mapList = w.m_mapList /\ h.hashing = w.hashing \ {j} /\ h.jobs = w.jobs /\ SameRest(w, h)
  BY <1>5 DEF Machines, SameRest
<1> HIDE DEF h
<1>7. MachineType(h, D)
  BY <1>4, <1>6, TypeKept
<1>8. SameLists(s, h) /\ SameOthers(s, h, j.f) /\ SameRest(s, h)
  BY <1>4, <1>6 DEF SameLists, SameOthers, SameRest
<1> QED BY <1>1, <1>2, <1>4, <1>6, <1>7, <1>8 DEF TextWritten

LEMMA RestartedEffect ==
  ASSUME NEW D, NEW s, MachineType(s, D), NEW t, t = Restarted(s)
  PROVE  /\ MachineType(t, D) /\ t.disk = s.disk /\ t.jobs = <<>> /\ t.hashing = {}
         /\ t.m_mapNameFile = [f \in Files |-> Closed] /\ t.m_mapList = [l \in Lists |-> Closed]
<1> DEFINE left == [q \in Pids |->
              IF s.procs[q] # NoProcess /\ s.procs[q].st # "zombie" THEN Process(s.procs[q].prog, "foreign")
              ELSE NoProcess]
<1>1. /\ s.disk \in [Names -> AnyContents(D)]
      /\ left \in [Pids -> [prog : Programs, st : {"run", "zombie", "foreign"}] \cup {NoProcess}]
  BY DEF MachineType, Machines, Process
<1>2. t = [NewMachine EXCEPT !.disk = s.disk, !.procs = left]
  BY DEF Restarted
<1> HIDE DEF left
<1>3. /\ t.disk = s.disk /\ t.jobs = <<>> /\ t.hashing = {} /\ t.procs = left /\ t.m_mapProcPid = {}
      /\ t.m_mapNameFile = [f \in Files |-> Closed] /\ t.m_mapList = [l \in Lists |-> Closed]
  BY <1>2 DEF NewMachine
<1>4. t \in Machines(D)
  <2>1. NewMachine \in Machines(D)
    BY NewMachineTyped DEF MachineType
  <2> QED BY <1>1, <1>2, <2>1 DEF Machines
<1> QED BY <1>3, <1>4 DEF MachineType, OwnContents, OwnFiles

-----------------------------------------------------------------------------
(* The requests of a single transfer and about single names. *)

(* SINGLE_FILE: the .df is empty and open; the .md5 stays. *)
Singles(D, s, o, f) ==
  /\ MachineType(o.srv, D) /\ SameLists(s, o.srv) /\ SameRest(s, o.srv) /\ SameOthers(s, o.srv, f)
  /\ (o.ret = 0 /\ o.bad = 0) \/ (o.ret = -2 /\ o.bad = 1)
  /\ o.srv.jobs = s.jobs /\ o.srv.hashing = s.hashing
  /\ o.srv.disk[Md5(f)] = s.disk[Md5(f)] /\ o.srv.m_mapNameFile[f] \in {Closed, Df(f)}
  /\ o.ret = 0 => o.srv.disk[Df(f)] = <<>> /\ o.srv.m_mapNameFile[f] = Df(f)

LEMMA SingleEffect ==
  ASSUME NEW D, NEW s, MachineType(s, D), NEW f \in Files, NEW o \in RecvSingleFile(s, f)
  PROVE  Singles(D, s, o, f)
<1> DEFINE r == Reopened(s, f)
           c == CloseOld(s, f)
<1>1. o = Answer(r, 0) \/ o = Fails(c, -2)
  BY DEF RecvSingleFile
<1>2. /\ s.disk \in [Names -> AnyContents(D)] /\ s.m_mapNameFile \in [Files -> Names \cup {Closed, Gone}]
      /\ \A g \in Files : Df(g) \in Names /\ Final(g) \in Names /\ Md5(g) \in Names
  BY NameFacts DEF MachineType, Machines
<1>3. Reopens(D, s, r, f)
  BY ReopenedEffect
<1>4. FileSets(D, s, c, f, Closed)
  BY CloseOldEffect
<1> HIDE DEF r, c
<1>5. CASE o = Answer(r, 0)
  <2>1. o.srv = r /\ o.ret = 0 /\ o.bad = 0
    BY <1>5 DEF Answer
  <2>2. /\ MachineType(r, D) /\ SameLists(s, r) /\ SameRest(s, r)
        /\ \A n \in Names : r.disk[n] = IF n = Df(f) THEN <<>> ELSE s.disk[n]
        /\ r.jobs = s.jobs /\ r.hashing = s.hashing
        /\ r.m_mapNameFile = [s.m_mapNameFile EXCEPT ![f] = Df(f)]
    BY <1>3 DEF Reopens
  <2>3. SameOthers(s, r, f)
    BY <1>2, <2>2, NameFacts DEF SameOthers
  <2>4. r.disk[Md5(f)] = s.disk[Md5(f)] /\ r.disk[Df(f)] = <<>> /\ r.m_mapNameFile[f] = Df(f)
    BY <1>2, <2>2, NameFacts
  <2> QED BY <2>1, <2>2, <2>3, <2>4 DEF Singles
<1>6. CASE o = Fails(c, -2)
  <2>1. o.srv = c /\ o.ret = -2 /\ o.bad = 1 /\ o.ret # 0
    BY <1>6 DEF Fails
  <2>2. /\ MachineType(c, D) /\ SameLists(s, c) /\ SameRest(s, c) /\ c.disk = s.disk
        /\ c.jobs = s.jobs /\ c.hashing = s.hashing
        /\ c.m_mapNameFile = [s.m_mapNameFile EXCEPT ![f] = Closed]
    BY <1>4 DEF FileSets
  <2>3. SameOthers(s, c, f)
    BY <1>2, <2>2 DEF SameOthers
  <2>4. c.m_mapNameFile[f] = Closed
    BY <1>2, <2>2
  <2> QED BY <2>1, <2>2, <2>3, <2>4 DEF Singles
<1> QED BY <1>1, <1>5, <1>6

(* Only files of F under their own names have changed, and what FILE*s of them are called. *)
FinalsOnly(D, s, t, F) ==
  /\ MachineType(t, D) /\ SameLists(s, t) /\ SameRest(s, t) /\ t.jobs = s.jobs /\ t.hashing = s.hashing
  /\ \A g \in Files : t.disk[Df(g)] = s.disk[Df(g)] /\ t.disk[Md5(g)] = s.disk[Md5(g)]
  /\ \A g \in Files \ F : t.disk[Final(g)] = s.disk[Final(g)]
  /\ \A g \in Files :
       \/ t.m_mapNameFile[g] = s.m_mapNameFile[g]
       \/ /\ s.m_mapNameFile[g] \in {Final(h) : h \in F}
          /\ t.m_mapNameFile[g] \in {Gone} \cup {Final(h) : h \in F}

LEMMA NothingDone ==
  ASSUME NEW D, NEW s, MachineType(s, D), NEW F
  PROVE  FinalsOnly(D, s, s, F)
BY DEF FinalsOnly, SameLists, SameRest

LEMMA RemoveEffect ==
  ASSUME NEW D, NEW s, MachineType(s, D), NEW f \in Files, NEW o \in RemoveFile(s, Final(f))
  PROVE  FinalsOnly(D, s, o.srv, {f}) /\ o.ret \in {0, -1} /\ o.bad = 0
<1> DEFINE t == Unlink(s, Final(f))
<1>1. o = Answer(t, 0) \/ o = Answer(s, -1)
  BY DEF RemoveFile
<1>2. /\ s \in Machines(D) /\ s.disk \in [Names -> AnyContents(D)] /\ Final(f) \in Names /\ Final(f) \in FileNames
      /\ s.m_mapList \in [Lists -> Names \cup {Closed, Gone}]
      /\ \A g \in Files : Df(g) \in Names /\ Final(g) \in Names /\ Md5(g) \in Names
  BY NameFacts DEF MachineType, Machines
<1>3. MachineType(t, D)
  BY <1>2, UnlinkTyped
<1>4. /\ t.disk = [s.disk EXCEPT ![Final(f)] = NoFile]
      /\ t.jobs = s.jobs /\ t.m_mapProcPid = s.m_mapProcPid /\ t.procs = s.procs
      /\ t.hashing = {j \in s.hashing : Md5(j.f) # Final(f)}
      /\ t.m_mapNameFile = [g \in Files |-> Becomes(s.m_mapNameFile[g], Final(f), Gone)]
      /\ t.m_mapList = [l \in Lists |-> Becomes(s.m_mapList[l], Final(f), Gone)]
  BY <1>2, UnlinkEffect
<1> HIDE DEF t
<1>5. t.hashing = s.hashing
  <2>1. \A g : Md5(g) # Final(f)
    BY NameFacts
  <2> QED BY <1>4, <2>1
<1>6. t.m_mapList = s.m_mapList
  <2>1. \A l \in Lists : s.m_mapList[l] # Final(f)
    BY <1>2, ListsKeepApart
  <2>2. \A l \in Lists : Becomes(s.m_mapList[l], Final(f), Gone) = s.m_mapList[l]
    BY <2>1 DEF Becomes
  <2> QED BY <1>2, <1>4, <2>2
<1>7. \A n \in ListNames : t.disk[n] = s.disk[n]
  BY <1>2, <1>4, NameFacts
<1>8. /\ \A g \in Files : t.disk[Df(g)] = s.disk[Df(g)] /\ t.disk[Md5(g)] = s.disk[Md5(g)]
      /\ \A g \in Files \ {f} : t.disk[Final(g)] = s.disk[Final(g)]
  BY <1>2, <1>4, NameFacts
<1>9. \A g \in Files :
        t.m_mapNameFile[g] = s.m_mapNameFile[g] \/ (s.m_mapNameFile[g] = Final(f) /\ t.m_mapNameFile[g] = Gone)
  BY <1>4 DEF Becomes
<1>10. FinalsOnly(D, s, t, {f})
  BY <1>3, <1>4, <1>5, <1>6, <1>7, <1>8, <1>9 DEF FinalsOnly, SameLists, SameRest
<1> QED BY <1>1, <1>10, NothingDone DEF Answer

LEMMA CreateEffect ==
  ASSUME NEW D, Garbage \in D, NEW s, MachineType(s, D), NEW f \in Files, NEW data \in Seq(D),
         NEW o \in CreateAFile(s, Final(f), data)
  PROVE  FinalsOnly(D, s, o.srv, {f}) /\ o.ret \in Nat \cup {-1} /\ o.bad \in {0, 1}
<1>1. CASE o = Fails(s, -1)
  BY <1>1, NothingDone DEF Fails
<1>2. CASE \E d \in Seq(D) : o = Answer(Extend(s, Final(f), d), Len(d))
  <2>1. PICK d \in Seq(D) : o = Answer(Extend(s, Final(f), d), Len(d))
    BY <1>2
  <2> DEFINE t == Extend(s, Final(f), d)
  <2>2. o.srv = t /\ o.ret = Len(d) /\ o.bad = 0 /\ Len(d) \in Nat
    BY <2>1, LenProperties DEF Answer
  <2>3. /\ s \in Machines(D) /\ s.disk \in [Names -> AnyContents(D)] /\ Seq(D) \subseteq AnyContents(D)
        /\ Final(f) \in Names /\ s.disk[Final(f)] \in DataContents(D)
        /\ \A g \in Files : Df(g) \in Names /\ Final(g) \in Names /\ Md5(g) \in Names
    BY NameFacts DEF MachineType, Machines, OwnContents, AnyContents
  <2>4. Extends(D, s, t, Final(f), d) /\ Appended(s.disk[Final(f)], d) \in DataContents(D)
    BY <2>3, ExtendEffect DEF DataContents
  <2> HIDE DEF t
  <2>5. /\ t \in Machines(D) /\ t.disk = [s.disk EXCEPT ![Final(f)] = Appended(s.disk[Final(f)], d)]
        /\ t.m_mapNameFile = s.m_mapNameFile /\ t.m_mapList = s.m_mapList /\ t.jobs = s.jobs
        /\ t.hashing = s.hashing /\ t.m_mapProcPid = s.m_mapProcPid /\ t.procs = s.procs
    BY <2>4 DEF Extends
  <2>6. MachineType(t, D)
    BY <2>4, <2>5, DataWritten
  <2>7. \A m \in ListNames : t.disk[m] = s.disk[m]
    BY <2>3, <2>5, NameFacts
  <2>8. /\ \A g \in Files : t.disk[Df(g)] = s.disk[Df(g)] /\ t.disk[Md5(g)] = s.disk[Md5(g)]
        /\ \A g \in Files \ {f} : t.disk[Final(g)] = s.disk[Final(g)]
    BY <2>3, <2>5, NameFacts
  <2>9. FinalsOnly(D, s, t, {f})
    BY <2>5, <2>6, <2>7, <2>8 DEF FinalsOnly, SameLists, SameRest
  <2> QED BY <2>2, <2>9
<1>3. <<>> \in Seq(D) /\ <<Garbage>> \in Seq(D)
  OBVIOUS
<1> QED BY <1>1, <1>2, <1>3 DEF CreateAFile

LEMMA RenameFinalEffect ==
  ASSUME NEW D, NEW s, MachineType(s, D), NEW a \in Files, NEW b \in Files,
         NEW o \in RenameFile(s, Final(a), Final(b))
  PROVE  FinalsOnly(D, s, o.srv, {a, b}) /\ o.ret \in {0, -1} /\ o.bad = 0
<1> DEFINE t == Rename(s, Final(a), Final(b))
<1>1. o = Answer(t, 0) \/ o = Answer(s, -1)
  BY DEF RenameFile
<1>2. /\ s \in Machines(D) /\ s.disk \in [Names -> AnyContents(D)]
      /\ Final(a) \in Names /\ Final(b) \in Names /\ Final(a) \in FileNames /\ Final(b) \in FileNames
      /\ s.m_mapList \in [Lists -> Names \cup {Closed, Gone}]
      /\ \A g \in Files : Df(g) \in Names /\ Final(g) \in Names /\ Md5(g) \in Names
  BY NameFacts DEF MachineType, Machines
<1>3. Renames(D, s, t, Final(a), Final(b))
  BY <1>2, RenameEffect
<1> HIDE DEF t
<1>4. /\ t \in Machines(D) /\ t.disk = [s.disk EXCEPT ![Final(a)] = NoFile, ![Final(b)] = s.disk[Final(a)]]
      /\ t.jobs = s.jobs /\ t.hashing = s.hashing /\ t.m_mapProcPid = s.m_mapProcPid
      /\ t.procs = s.procs
      /\ t.m_mapNameFile = [g \in Files |-> Becomes(s.m_mapNameFile[g], Final(a), Final(b))]
      /\ t.m_mapList = [l \in Lists |-> Becomes(s.m_mapList[l], Final(a), Final(b))]
  BY <1>3 DEF Renames
<1>5. t.m_mapList = s.m_mapList
  <2>1. \A l \in Lists : s.m_mapList[l] # Final(a) /\ s.m_mapList[l] # Final(b)
    BY <1>2, ListsKeepApart
  <2>2. \A l \in Lists : Becomes(s.m_mapList[l], Final(a), Final(b)) = s.m_mapList[l]
    BY <2>1 DEF Becomes
  <2> QED BY <1>2, <1>4, <2>2
<1>6. \A n \in Names : t.disk[n] = IF n = Final(b) THEN s.disk[Final(a)]
                                   ELSE IF n = Final(a) THEN NoFile ELSE s.disk[n]
  BY <1>2, <1>4
<1>7. \A n \in ListNames : t.disk[n] = s.disk[n]
  BY <1>6, NameFacts
<1>8. \A g \in Files : t.disk[Df(g)] = s.disk[Df(g)] /\ t.disk[Md5(g)] = s.disk[Md5(g)]
  BY <1>2, <1>6, NameFacts
<1>9. \A g \in Files \ {a, b} : t.disk[Final(g)] = s.disk[Final(g)]
  BY <1>2, <1>6, NameFacts
<1>10. \A g \in Files :
         \/ t.m_mapNameFile[g] = s.m_mapNameFile[g]
         \/ /\ s.m_mapNameFile[g] \in {Final(h) : h \in {a, b}}
            /\ t.m_mapNameFile[g] \in {Gone} \cup {Final(h) : h \in {a, b}}
  BY <1>4 DEF Becomes
<1>11. MachineType(t, D)
  <2>1. OwnContents(t, D)
    <3>1. \A g \in Files : t.disk[Final(g)] \in DataContents(D)
      BY <1>2, <1>6 DEF MachineType, OwnContents, DataContents
    <3> QED BY <1>7, <1>8, <3>1 DEF MachineType, OwnContents
  <2>2. \A g \in Files : t.m_mapNameFile[g] \in {Closed, Gone, Df(g)} \cup {Final(h) : h \in Files}
    BY <1>10 DEF MachineType, OwnFiles
  <2> QED BY <1>4, <1>5, <2>1, <2>2 DEF MachineType, OwnFiles
<1>12. FinalsOnly(D, s, t, {a, b})
  BY <1>4, <1>5, <1>7, <1>8, <1>9, <1>10, <1>11 DEF FinalsOnly, SameLists, SameRest
<1> QED BY <1>1, <1>12, NothingDone DEF Answer

-----------------------------------------------------------------------------
(* The processes. *)

(* A process the server could wait for is in its map. *)
Registered(s) ==
  \A q \in Pids : s.procs[q] # NoProcess /\ s.procs[q].st # "foreign" =>
    Entry(s.procs[q].prog, q) \in s.m_mapProcPid

ProcsOnly(D, s, t) == MachineType(t, D) /\ SameLists(s, t) /\ SameFiles(s, t)

ProcStates == [prog : Programs, st : {"run", "zombie", "foreign"}] \cup {NoProcess}

ProcsPut(s, procs, m) == [s EXCEPT !.procs = procs, !.m_mapProcPid = m]

LEMMA ProcsSet ==
  ASSUME NEW D, NEW s, MachineType(s, D), NEW procs \in [Pids -> ProcStates],
         NEW m \in SUBSET [prog : Programs, pid : Pids],
         NEW t, t = ProcsPut(s, procs, m)
  PROVE  ProcsOnly(D, s, t) /\ t.procs = procs /\ t.m_mapProcPid = m
<1>1. s \in Machines(D)
  BY DEF MachineType
<1>2. /\ t \in Machines(D) /\ t.procs = procs /\ t.m_mapProcPid = m /\ t.disk = s.disk
      /\ t.m_mapNameFile = s.m_mapNameFile /\ t.m_mapList = s.m_mapList /\ t.jobs = s.jobs
      /\ t.hashing = s.hashing
  BY <1>1 DEF Machines, ProcStates, ProcsPut
<1>3. MachineType(t, D)
  BY <1>2, TypeKept
<1> QED BY <1>2, <1>3 DEF ProcsOnly, SameLists, SameFiles

(* EXEC_PROCESS *)
LEMMA ExecEffect ==
  ASSUME NEW D, NEW s, MachineType(s, D), NEW p \in Programs, NEW o \in ExecProcess(s, p)
  PROVE  \E u : /\ ProcsOnly(D, s, u) /\ (Registered(s) => Registered(u))
                /\ o.srv = u \/ o = Fails(Restarted(u), -1)
                /\ o.ret \in {0, -1, -2, -3, -4} /\ o.bad \in {0, 1}
<1>1. CASE o \in {Answer(s, -1), Answer(s, -2), Fails(s, -3)}
  BY <1>1 DEF Answer, Fails, ProcsOnly, SameLists, SameFiles
<1>2. CASE \E pid \in Pids, x \in {Process(p, "run"), Process(p, "zombie"), NoProcess}, i \in {0, -4} :
             o = Answer(Forked(s, p, pid, x), i) \/ o = Fails(Restarted(Forked(s, p, pid, x)), -1)
  <2>1. PICK pid \in Pids, x \in {Process(p, "run"), Process(p, "zombie"), NoProcess}, i \in {0, -4} :
             o = Answer(Forked(s, p, pid, x), i) \/ o = Fails(Restarted(Forked(s, p, pid, x)), -1)
    BY <1>2
  <2> DEFINE procs == [s.procs EXCEPT ![pid] = x]
             m == s.m_mapProcPid \cup {Entry(p, pid)}
             t == ProcsPut(s, procs, m)
  <2>2. x \in ProcStates /\ (x # NoProcess => x.prog = p)
    BY DEF ProcStates, Process
  <2>3. s.procs \in [Pids -> ProcStates] /\ s.m_mapProcPid \subseteq [prog : Programs, pid : Pids]
    BY DEF MachineType, Machines, ProcStates
  <2>4. procs \in [Pids -> ProcStates] /\ m \in SUBSET [prog : Programs, pid : Pids]
    BY <2>2, <2>3 DEF Entry
  <2>5. t = Forked(s, p, pid, x)
    BY DEF ProcsPut, Forked, Inserted
  <2>6. \A q \in Pids : procs[q] = IF q = pid THEN x ELSE s.procs[q]
    BY <2>3
  <2> HIDE DEF procs, m
  <2>7. t = ProcsPut(s, procs, m)
    OBVIOUS
  <2> HIDE DEF t
  <2>8. ProcsOnly(D, s, t) /\ t.procs = procs /\ t.m_mapProcPid = m
    BY <2>4, <2>7, ProcsSet
  <2>9. ASSUME Registered(s) PROVE Registered(t)
    BY <2>2, <2>6, <2>8, <2>9 DEF Registered, Entry, m
  <2>10. \/ o.srv = t /\ o.ret = i /\ o.bad = 0
         \/ o = Fails(Restarted(t), -1) /\ o.ret = -1 /\ o.bad = 1
    BY <2>1, <2>5 DEF Answer, Fails
  <2> QED BY <2>8, <2>9, <2>10
<1>3. \/ o \in {Answer(s, -1), Answer(s, -2), Fails(s, -3)}
      \/ \E pid \in Pids, x \in {Process(p, "run"), Process(p, "zombie"), NoProcess}, i \in {0, -4} :
           o = Answer(Forked(s, p, pid, x), i) \/ o = Fails(Restarted(Forked(s, p, pid, x)), -1)
  BY DEF ExecProcess
<1> QED BY <1>1, <1>2, <1>3

(* KILL_PROCESS: what is left of the program is no child of the server process. *)
LEMMA KillEffect ==
  ASSUME NEW D, NEW s, MachineType(s, D), Registered(s), NEW p \in Programs, NEW o \in KillProcess(s, p)
  PROVE  /\ ProcsOnly(D, s, o.srv) /\ o.ret \in {0, -4} /\ o.bad = 0 /\ Registered(o.srv)
         /\ \A q \in Pids : o.srv.procs[q] # NoProcess /\ o.srv.procs[q].prog = p =>
              o.srv.procs[q].st = "foreign"
<1> DEFINE known == {e \in s.m_mapProcPid : e.prog = p}
           behind == {e \in s.m_mapProcPid : e.prog >= p}
           m == s.m_mapProcPid \ known
<1> DEFINE Leaves(gone, i) ==
             \/ /\ known # {} /\ gone = {e.pid : e \in behind}
                /\ o = Answer([Killed(s, gone) EXCEPT !.m_mapProcPid = @ \ known], i)
             \/ known = {} /\ o = Answer(Killed(s, gone), i)
<1>0. \E gone : \E i \in {0, -4} : Leaves(gone, i)
  <2>1. CASE known # {}
    <3>1. o = Answer([Killed(s, {e.pid : e \in behind}) EXCEPT !.m_mapProcPid = @ \ known], 0)
      BY <2>1 DEF KillProcess
    <3>2. PICK gone : gone = {e.pid : e \in behind}
      OBVIOUS
    <3>3. Leaves(gone, 0)
      BY <2>1, <3>1, <3>2
    <3> HIDE DEF Leaves
    <3> QED BY <3>3
  <2>2. CASE known = {}
    <3>1. \E pids : \E i \in {0, -4} : o = Answer(Killed(s, pids), i)
      <4> DEFINE shown == {q \in Pids : s.procs[q] # NoProcess /\ s.procs[q].prog = p}
                 tried == {pids \in SUBSET shown : Cardinality(pids) <= 4 /\ (pids = {} => shown = {})}
      <4>1. o \in {Answer(Killed(s, pids), 0) : pids \in tried}
                   \cup {Answer(Killed(s, pids), -4) : pids \in {x \in tried : Cardinality(x) = 4}}
        BY <2>2 DEF KillProcess
      <4> HIDE DEF tried
      <4> QED BY <4>1
    <3>2. PICK pids : \E i \in {0, -4} : o = Answer(Killed(s, pids), i)
      BY <3>1
    <3>3. PICK i \in {0, -4} : o = Answer(Killed(s, pids), i)
      BY <3>2
    <3>4. Leaves(pids, i)
      BY <2>2, <3>3
    <3> HIDE DEF Leaves
    <3> QED BY <3>4
  <2> QED BY <2>1, <2>2
<1>a. PICK gone : \E i \in {0, -4} : Leaves(gone, i)
  BY <1>0
<1>b. PICK i \in {0, -4} : Leaves(gone, i)
  BY <1>a
<1> DEFINE procs == [q \in Pids |-> IF q \in gone THEN NoProcess ELSE s.procs[q]]
           t == ProcsPut(s, procs, m)
<1>1. s.procs \in [Pids -> ProcStates] /\ s.m_mapProcPid \subseteq [prog : Programs, pid : Pids]
  BY DEF MachineType, Machines, ProcStates
<1>2. o.srv = t /\ o.ret = i /\ o.bad = 0
  <2>1. CASE known # {}
    <3>1. o = Answer([Killed(s, gone) EXCEPT !.m_mapProcPid = @ \ known], i)
      BY <1>b, <2>1
    <3>2. Killed(s, gone) = [s EXCEPT !.procs = procs]
      BY DEF Killed
    <3> HIDE DEF procs, known, behind
    <3>3. [[s EXCEPT !.procs = procs] EXCEPT !.m_mapProcPid = @ \ known] = t
      BY <1>1 DEF MachineType, Machines, ProcsPut
    <3> QED BY <3>1, <3>2, <3>3 DEF Answer
  <2>2. CASE known = {}
    <3>1. o = Answer(Killed(s, gone), i)
      BY <1>b, <2>2
    <3>2. Killed(s, gone) = [s EXCEPT !.procs = procs]
      BY DEF Killed
    <3>3. m = s.m_mapProcPid
      BY <2>2
    <3> HIDE DEF procs, known, m
    <3>4. [s EXCEPT !.procs = procs] = t
      BY <3>3 DEF MachineType, Machines, ProcsPut
    <3> QED BY <3>1, <3>2, <3>4 DEF Answer
  <2> QED BY <2>1, <2>2
<1>3. procs \in [Pids -> ProcStates] /\ m \in SUBSET [prog : Programs, pid : Pids]
  BY <1>1 DEF ProcStates
<1>4. \A q \in Pids : procs[q] = IF q \in gone THEN NoProcess ELSE s.procs[q]
  OBVIOUS
<1>5. ASSUME NEW q \in Pids, procs[q] # NoProcess, procs[q].st # "foreign"
      PROVE  procs[q].prog # p /\ Entry(procs[q].prog, q) \in m
  <2>1. q \notin gone /\ procs[q] = s.procs[q]
    BY <1>4, <1>5
  <2>2. Entry(s.procs[q].prog, q) \in s.m_mapProcPid
    BY <1>5, <2>1 DEF Registered
  <2>3. s.procs[q].prog # p
    <3> SUFFICES ASSUME s.procs[q].prog = p PROVE FALSE
      OBVIOUS
    <3>1. Entry(p, q) \in known /\ Entry(p, q).pid = q
      BY <2>2 DEF Entry
    <3>2. Entry(p, q) \in behind
      BY <2>2, ProgramsAssumption DEF Entry
    <3>3. gone = {e.pid : e \in behind}
      BY <1>b, <3>1
    <3> QED BY <2>1, <3>1, <3>2, <3>3
  <2> QED BY <2>1, <2>2, <2>3 DEF Entry
<1> HIDE DEF procs, m
<1>7. t = ProcsPut(s, procs, m)
  OBVIOUS
<1> HIDE DEF t
<1>6. ProcsOnly(D, s, t) /\ t.procs = procs /\ t.m_mapProcPid = m
  BY <1>3, <1>7, ProcsSet
<1> QED BY <1>2, <1>5, <1>6 DEF Registered

-----------------------------------------------------------------------------
(* What the requests of a list do to the lists themselves. *)

SameNames(s, t, l) == t.disk[Final(l)] = s.disk[Final(l)] /\ t.disk[DfTmp(l)] = s.disk[DfTmp(l)]
OtherLists(s, t, l) == \A k \in Lists \ {l} : SameNames(s, t, k)

(* START_LST: what was ended is continued. *)
Continues(s, t, l) ==
  /\ OtherLists(s, t, l)
  /\ t.disk[Final(l)] = NoFile
  /\ Exists(s, Final(l)) => t.disk[DfTmp(l)] = s.disk[Final(l)]

(* OPEN_FILE: the name is added, or not. *)
Adds(s, t, l, f) ==
  /\ OtherLists(s, t, l)
  /\ t.disk[Final(l)] = s.disk[Final(l)]
  /\ t.disk[DfTmp(l)] \in {s.disk[DfTmp(l)], Appended(s.disk[DfTmp(l)], <<f>>)}

(* END_LST: the list gets its name, or nothing is done. *)
Ended(s, t, l) ==
  /\ Exists(s, DfTmp(l))
  /\ OtherLists(s, t, l)
  /\ t.disk[Final(l)] = s.disk[DfTmp(l)] /\ t.disk[DfTmp(l)] = NoFile

LEMMA ListNamesDiffer ==
  /\ \A l \in Lists : Final(l) \in Names /\ DfTmp(l) \in Names /\ <<l, "date">> \in Names
  /\ \A k \in Lists, l \in Lists : k # l => Final(k) # Final(l) /\ DfTmp(k) # DfTmp(l)
  /\ \A k, l : Final(k) # DfTmp(l) /\ Final(k) # <<l, "date">> /\ DfTmp(k) # <<l, "date">>
  /\ \A l \in Lists, f \in Files :
       /\ Final(l) # Df(f) /\ Final(l) # Md5(f) /\ Final(l) # Final(f)
       /\ DfTmp(l) # Df(f) /\ DfTmp(l) # Md5(f) /\ DfTmp(l) # Final(f)
<1>1. \A l \in Lists : Final(l) \in Names /\ DfTmp(l) \in Names /\ <<l, "date">> \in Names
  BY NameFacts
<1>2. \A k \in Lists, l \in Lists : k # l => Final(k) # Final(l) /\ DfTmp(k) # DfTmp(l)
  BY DEF Final, DfTmp
<1>3. \A k, l : Final(k) # DfTmp(l) /\ Final(k) # <<l, "date">> /\ DfTmp(k) # <<l, "date">>
  BY DEF Final, DfTmp
<1>4. \A l \in Lists, f \in Files :
       /\ Final(l) # Df(f) /\ Final(l) # Md5(f) /\ Final(l) # Final(f)
       /\ DfTmp(l) # Df(f) /\ DfTmp(l) # Md5(f) /\ DfTmp(l) # Final(f)
  <2>1. \A l \in Lists : Final(l) \notin FileNames /\ DfTmp(l) \notin FileNames
    BY NameFacts
  <2>2. \A f \in Files : Df(f) \in FileNames /\ Md5(f) \in FileNames /\ Final(f) \in FileNames
    BY NameFacts
  <2> QED BY <2>1, <2>2
<1> QED BY <1>1, <1>2, <1>3, <1>4

LEMMA StartLists ==
  ASSUME NEW D, NEW s, MachineType(s, D), NEW l \in Lists, NEW o \in CreateAList(s, l)
  PROVE  Continues(s, o.srv, l)
<1> DEFINE t == ListSet(s, l, Closed)
           made == IF Exists(t, Final(l)) THEN Rename(t, Final(l), DfTmp(l)) ELSE t
           opened == IF Exists(t, Final(l)) THEN made ELSE Write(made, DfTmp(l), <<>>)
           started == ListSet(opened, l, DfTmp(l))
<1>1. o = Answer(started, 0) \/ o = Fails(made, -1)
  BY DEF CreateAList, ListSet
<1>2. MachineType(t, D) /\ t.disk = s.disk /\ t.m_mapList[l] = Closed
  <2>1. s.m_mapList \in [Lists -> Names \cup {Closed, Gone}]
    BY DEF MachineType, Machines
  <2>2. MachineType(t, D) /\ t.disk = s.disk /\ t.m_mapList = [s.m_mapList EXCEPT ![l] = Closed]
    BY ListSetEffect
  <2> HIDE DEF t
  <2> QED BY <2>1, <2>2
<1> HIDE DEF t
<1>3. /\ t \in Machines(D) /\ s.disk \in [Names -> AnyContents(D)] /\ Final(l) \in Names /\ DfTmp(l) \in Names
      /\ <<>> \in AnyContents(D)
  <2>1. <<>> \in AnyContents(D)
    BY DEF AnyContents
  <2>2. Final(l) \in Names /\ DfTmp(l) \in Names
    BY ListNamesDiffer
  <2> QED BY <1>2, <2>1, <2>2 DEF MachineType, Machines
<1>4. CASE Exists(s, Final(l))
  <2>1. Exists(t, Final(l))
    BY <1>2, <1>4 DEF Exists
  <2>2. Renames(D, t, made, Final(l), DfTmp(l)) /\ opened = made
    BY <1>3, <2>1, RenameEffect
  <2> HIDE DEF made, opened
  <2>3. made.disk = [s.disk EXCEPT ![Final(l)] = NoFile, ![DfTmp(l)] = s.disk[Final(l)]]
    BY <1>2, <2>2 DEF Renames
  <2>4. started.disk = made.disk
    BY <2>2 DEF Renames, Machines, ListSet
  <2>5. o.srv.disk = made.disk
    BY <1>1, <2>4 DEF Answer, Fails
  <2>6. \A n \in Names : o.srv.disk[n] = IF n = DfTmp(l) THEN s.disk[Final(l)]
                                         ELSE IF n = Final(l) THEN NoFile ELSE s.disk[n]
    BY <1>3, <2>3, <2>5
  <2>7. \A k \in Lists \ {l} : SameNames(s, o.srv, k)
    BY <2>6, ListNamesDiffer DEF SameNames
  <2>8. o.srv.disk[Final(l)] = NoFile /\ o.srv.disk[DfTmp(l)] = s.disk[Final(l)]
    BY <1>3, <2>6, ListNamesDiffer
  <2> QED BY <2>7, <2>8 DEF Continues, OtherLists
<1>5. CASE ~Exists(s, Final(l))
  <2>1. ~Exists(t, Final(l))
    BY <1>2, <1>5 DEF Exists
  <2>2. made = t /\ opened = Write(t, DfTmp(l), <<>>)
    BY <2>1
  <2>3. opened \in Machines(D) /\ opened.disk = [t.disk EXCEPT ![DfTmp(l)] = <<>>]
    BY <1>3, <2>2, WriteEffect
  <2> HIDE DEF made, opened
  <2>4. started.disk = opened.disk
    BY <2>3 DEF Machines, ListSet
  <2>5. o.srv.disk = s.disk \/ o.srv.disk = [s.disk EXCEPT ![DfTmp(l)] = <<>>]
    BY <1>1, <1>2, <2>2, <2>3, <2>4 DEF Answer, Fails
  <2>6. \A n \in Names : n # DfTmp(l) => o.srv.disk[n] = s.disk[n]
    BY <1>3, <2>5
  <2>7. \A k \in Lists \ {l} : SameNames(s, o.srv, k)
    BY <2>6, ListNamesDiffer DEF SameNames
  <2>8. o.srv.disk[Final(l)] = NoFile
    BY <1>3, <1>5, <2>6, ListNamesDiffer DEF Exists
  <2> QED BY <1>5, <2>7, <2>8 DEF Continues, OtherLists
<1> QED BY <1>4, <1>5

LEMMA OpenLists ==
  ASSUME NEW D, NEW s, MachineType(s, D), NEW l \in Lists, NEW f \in Files, NEW o \in OpenAFile(s, l, f)
  PROVE  Adds(s, o.srv, l, f)
<1> DEFINE t == Unlink(s, Md5(f))
           c == CloseOld(t, f)
           r == Reopened(t, f)
           a == AddName(r, l, f)
<1>1. o \in {Answer(a, 0), Fails(c, -1)} \cup {Fails(r, -1) : d \in {t.m_mapList[l]} \cap {Closed}}
  BY DEF OpenAFile
<1>2. MachineType(t, D) /\ SameLists(s, t)
  BY Md5Unlinked DEF DropsMd5
<1> HIDE DEF t
<1>3. MachineType(c, D) /\ SameLists(t, c)
  BY <1>2, CloseOldEffect DEF FileSets
<1>4. MachineType(r, D) /\ SameLists(t, r)
  BY <1>2, ReopenedEffect DEF Reopens
<1> HIDE DEF c, r
<1>5. \A n \in ListNames : c.disk[n] = s.disk[n] /\ r.disk[n] = s.disk[n]
  BY <1>2, <1>3, <1>4 DEF SameLists
<1>6. r \in Machines(D) /\ r.disk \in [Names -> AnyContents(D)] /\ DfTmp(l) \in Names /\ <<f>> \in Seq(Files)
  <2>1. <<f>> \in Seq(Files)
    OBVIOUS
  <2>2. DfTmp(l) \in Names
    BY ListNamesDiffer
  <2> QED BY <1>4, <2>1, <2>2 DEF MachineType, Machines
<1>7. a = r \/ a.disk = [r.disk EXCEPT ![DfTmp(l)] = Appended(r.disk[DfTmp(l)], <<f>>)]
  <2> DEFINE e == Extend(r, DfTmp(l), <<f>>)
  <2>1. Extends(D, r, e, DfTmp(l), <<f>>)
    <3>1. r.disk[DfTmp(l)] \in Seq(Files) \cup {NoFile} /\ Seq(Files) \subseteq AnyContents(D)
      BY <1>4, NameFacts DEF MachineType, OwnContents, NameContents, AnyContents
    <3> QED BY <1>6, <3>1, ExtendEffect
  <2> HIDE DEF e
  <2>2. e \in Machines(D) /\ e.disk = [r.disk EXCEPT ![DfTmp(l)] = Appended(r.disk[DfTmp(l)], <<f>>)]
    BY <2>1 DEF Extends
  <2>3. r.m_mapList[l] \in {Closed, Gone, DfTmp(l)}
    BY <1>4 DEF MachineType, OwnFiles
  <2>4. CASE r.m_mapList[l] = Closed
    <3>1. a = [e EXCEPT !.m_mapList[l] = DfTmp(l)]
      BY <2>4 DEF AddName, e
    <3> QED BY <2>2, <3>1 DEF Machines
  <2>5. CASE r.m_mapList[l] = Gone
    BY <2>5, NameFacts DEF AddName, Put
  <2>6. CASE r.m_mapList[l] = DfTmp(l)
    <3>1. DfTmp(l) # Closed
      BY <1>6, NameFacts
    <3>2. a = e
      BY <1>6, <2>6, <3>1 DEF AddName, Put, e
    <3> QED BY <2>2, <3>2
  <2> QED BY <2>3, <2>4, <2>5, <2>6
<1> HIDE DEF a
<1>8. o.srv \in {a, c, r}
  BY <1>1 DEF Answer, Fails
<1>9. \A k \in Lists : Final(k) \in ListNames /\ DfTmp(k) \in ListNames
  BY NameFacts
<1>10. CASE o.srv = a /\ a # r
  <2>1. \A n \in Names : a.disk[n] = IF n = DfTmp(l) THEN Appended(r.disk[DfTmp(l)], <<f>>) ELSE r.disk[n]
    BY <1>6, <1>7, <1>10
  <2>2. \A k \in Lists \ {l} : SameNames(s, a, k)
    BY <1>5, <1>9, <2>1, ListNamesDiffer DEF SameNames
  <2>3. a.disk[Final(l)] = s.disk[Final(l)]
    BY <1>5, <1>9, <2>1, ListNamesDiffer
  <2>4. a.disk[DfTmp(l)] = Appended(s.disk[DfTmp(l)], <<f>>)
    BY <1>5, <1>6, <1>9, <2>1
  <2> QED BY <1>10, <2>2, <2>3, <2>4 DEF Adds, OtherLists
<1>11. CASE o.srv \in {c, r}
  BY <1>5, <1>9, <1>11 DEF Adds, OtherLists, SameNames
<1> QED BY <1>8, <1>10, <1>11

LEMMA EndLists ==
  ASSUME NEW D, NEW s, MachineType(s, D), NEW l \in Lists, NEW o \in CloseAList(s, l, FALSE)
  PROVE  Ended(s, o.srv, l) \/ (o.ret # 0 /\ o.srv.disk = s.disk)
<1> DEFINE t == ListSet(s, l, Closed)
           r == Rename(t, DfTmp(l), Final(l))
<1>1. \/ o = Answer(s, -2) \/ o = Answer(t, -1)
      \/ Exists(t, DfTmp(l)) /\ o = Answer(r, 0)
  BY DEF CloseAList, ListSet
<1>2. MachineType(t, D) /\ t.disk = s.disk /\ t.m_mapList = [s.m_mapList EXCEPT ![l] = Closed]
  BY ListSetEffect
<1> HIDE DEF t
<1>3. /\ t \in Machines(D) /\ s.disk \in [Names -> AnyContents(D)] /\ Final(l) \in Names /\ DfTmp(l) \in Names
  <2>1. Final(l) \in Names /\ DfTmp(l) \in Names
    BY ListNamesDiffer
  <2> QED BY <1>2, <2>1 DEF MachineType, Machines
<1>4. r.disk = [s.disk EXCEPT ![DfTmp(l)] = NoFile, ![Final(l)] = s.disk[DfTmp(l)]]
  <2>1. Renames(D, t, r, DfTmp(l), Final(l))
    BY <1>3, RenameEffect
  <2> HIDE DEF r
  <2> QED BY <1>2, <2>1 DEF Renames
<1> HIDE DEF r
<1>5. CASE Exists(t, DfTmp(l)) /\ o = Answer(r, 0)
  <2>1. o.srv = r
    BY <1>5 DEF Answer
  <2>2. \A n \in Names : o.srv.disk[n] = IF n = Final(l) THEN s.disk[DfTmp(l)]
                                         ELSE IF n = DfTmp(l) THEN NoFile ELSE s.disk[n]
    BY <1>3, <1>4, <2>1
  <2>3. \A k \in Lists \ {l} : SameNames(s, o.srv, k)
    BY <2>2, ListNamesDiffer DEF SameNames
  <2>4. o.srv.disk[Final(l)] = s.disk[DfTmp(l)] /\ o.srv.disk[DfTmp(l)] = NoFile
    BY <1>3, <2>2, ListNamesDiffer
  <2>5. Exists(s, DfTmp(l))
    BY <1>2, <1>5 DEF Exists
  <2> QED BY <2>3, <2>4, <2>5 DEF Ended, OtherLists
<1>6. CASE o = Answer(s, -2) \/ o = Answer(t, -1)
  <2>1. o.srv.disk = s.disk /\ o.ret # 0
    BY <1>2, <1>6 DEF Answer
  <2> QED BY <2>1
<1> QED BY <1>1, <1>5, <1>6

-----------------------------------------------------------------------------
(* What the machine does on its own to processes and lists. *)

LEMMA ExitsEffect ==
  ASSUME NEW D, NEW s, MachineType(s, D), NEW q \in Pids, s.procs[q] # NoProcess
  PROVE  \A u \in Exits(s, q) : ProcsOnly(D, s, u) /\ (Registered(s) => Registered(u))
<1> SUFFICES ASSUME NEW u \in Exits(s, q)
             PROVE  ProcsOnly(D, s, u) /\ (Registered(s) => Registered(u))
  OBVIOUS
<1>0. PICK new : /\ u = [s EXCEPT !.procs[q] = new]
                 /\ new = NoProcess \/ (s.procs[q].st = "run" /\ new = Process(s.procs[q].prog, "zombie"))
  BY DEF Exits
<1> DEFINE procs == [s.procs EXCEPT ![q] = new]
           t == ProcsPut(s, procs, s.m_mapProcPid)
<1>1. s.procs \in [Pids -> ProcStates] /\ s.m_mapProcPid \subseteq [prog : Programs, pid : Pids]
  BY DEF MachineType, Machines, ProcStates
<1>2. new \in ProcStates /\ (new # NoProcess => s.procs[q].st = "run" /\ new.prog = s.procs[q].prog)
  BY <1>0, <1>1 DEF ProcStates, Process
<1>3. procs \in [Pids -> ProcStates] /\ \A x \in Pids : procs[x] = IF x = q THEN new ELSE s.procs[x]
  BY <1>1, <1>2
<1>4. u = t
  BY <1>0, <1>1 DEF ProcsPut, MachineType, Machines
<1> HIDE DEF procs
<1>5. t = ProcsPut(s, procs, s.m_mapProcPid)
  OBVIOUS
<1> HIDE DEF t
<1>6. ProcsOnly(D, s, t) /\ t.procs = procs /\ t.m_mapProcPid = s.m_mapProcPid
  BY <1>1, <1>3, <1>5, ProcsSet
<1>7. ASSUME Registered(s) PROVE Registered(t)
  BY <1>2, <1>3, <1>6, <1>7 DEF Registered
<1> QED BY <1>4, <1>6, <1>7

LEMMA StartsEffect ==
  ASSUME NEW D, NEW s, MachineType(s, D), NEW p \in Programs, NEW q \in Pids
  PROVE  ProcsOnly(D, s, ForeignStarts(s, p, q)) /\ (Registered(s) => Registered(ForeignStarts(s, p, q)))
<1>0. PICK new : new = Process(p, "foreign")
  OBVIOUS
<1> DEFINE procs == [s.procs EXCEPT ![q] = new]
           t == ProcsPut(s, procs, s.m_mapProcPid)
<1>1. s.procs \in [Pids -> ProcStates] /\ s.m_mapProcPid \subseteq [prog : Programs, pid : Pids]
  BY DEF MachineType, Machines, ProcStates
<1>2. new \in ProcStates /\ new.st = "foreign"
  BY <1>0 DEF ProcStates, Process
<1>3. procs \in [Pids -> ProcStates] /\ \A x \in Pids : procs[x] = IF x = q THEN new ELSE s.procs[x]
  BY <1>1, <1>2
<1>4. ForeignStarts(s, p, q) = t
  <2>1. ForeignStarts(s, p, q) = [s EXCEPT !.procs[q] = new]
    BY <1>0 DEF ForeignStarts
  <2> QED BY <1>1, <2>1 DEF ProcsPut, MachineType, Machines
<1> HIDE DEF procs
<1>5. t = ProcsPut(s, procs, s.m_mapProcPid)
  OBVIOUS
<1> HIDE DEF t
<1>6. ProcsOnly(D, s, t) /\ t.procs = procs /\ t.m_mapProcPid = s.m_mapProcPid
  BY <1>1, <1>3, <1>5, ProcsSet
<1>7. ASSUME Registered(s) PROVE Registered(t)
  BY <1>2, <1>3, <1>6, <1>7 DEF Registered
<1> QED BY <1>4, <1>6, <1>7

LEMMA RestartedRegistered == ASSUME NEW s PROVE Registered(Restarted(s))
<1> DEFINE left == [q \in Pids |->
              IF s.procs[q] # NoProcess /\ s.procs[q].st # "zombie" THEN Process(s.procs[q].prog, "foreign")
              ELSE NoProcess]
<1>1. Restarted(s) = [NewMachine EXCEPT !.disk = s.disk, !.procs = left]
  BY DEF Restarted
<1>2. \A q \in Pids : left[q] # NoProcess => left[q].st = "foreign"
  BY DEF Process
<1> HIDE DEF left
<1>3. Restarted(s).procs = left
  BY <1>1 DEF NewMachine
<1> QED BY <1>2, <1>3 DEF Registered

(* Somebody takes a list away. *)
LEMMA TakenEffect ==
  ASSUME NEW D, NEW s, MachineType(s, D), NEW l \in Lists
  PROVE  /\ ListsOnly(D, s, Unlink(s, Final(l)))
         /\ OtherLists(s, Unlink(s, Final(l)), l)
         /\ Unlink(s, Final(l)).disk[DfTmp(l)] = s.disk[DfTmp(l)]
         /\ Unlink(s, Final(l)).disk[Final(l)] = NoFile
<1> DEFINE t == Unlink(s, Final(l))
<1>1. /\ s \in Machines(D) /\ s.disk \in [Names -> AnyContents(D)]
      /\ s.m_mapNameFile \in [Files -> Names \cup {Closed, Gone}]
  BY DEF MachineType, Machines
<1>2. Final(l) \in Names /\ Final(l) \in ListNames
  BY NameFacts
<1>3. MachineType(t, D)
  BY <1>2, UnlinkTyped
<1>0. t = Unlink(s, Final(l))
  OBVIOUS
<1> HIDE DEF t
<1>4. /\ t \in Machines(D) /\ t.disk = [s.disk EXCEPT ![Final(l)] = NoFile]
      /\ t.jobs = s.jobs /\ t.m_mapProcPid = s.m_mapProcPid /\ t.procs = s.procs
      /\ t.hashing = {j \in s.hashing : Md5(j.f) # Final(l)}
      /\ t.m_mapNameFile = [g \in Files |-> Becomes(s.m_mapNameFile[g], Final(l), Gone)]
      /\ t.m_mapList = [g \in Lists |-> Becomes(s.m_mapList[g], Final(l), Gone)]
  BY <1>0, <1>1, <1>2, UnlinkEffect
<1>5. t.hashing = s.hashing
  <2>1. \A g : Md5(g) # Final(l)
    BY NameFacts DEF Final, Md5
  <2> QED BY <1>4, <2>1
<1>6. t.m_mapNameFile = s.m_mapNameFile
  <2>1. \A g \in Files : s.m_mapNameFile[g] # Final(l)
    BY <1>2, NameFacts DEF MachineType, OwnFiles
  <2>2. \A g \in Files : Becomes(s.m_mapNameFile[g], Final(l), Gone) = s.m_mapNameFile[g]
    BY <2>1 DEF Becomes
  <2> QED BY <1>1, <1>4, <2>2
<1>7. \A n \in Names : t.disk[n] = IF n = Final(l) THEN NoFile ELSE s.disk[n]
  BY <1>1, <1>4
<1>8. \A n \in FileNames : t.disk[n] = s.disk[n]
  BY <1>2, <1>7, NameFacts
<1>9. OtherLists(s, t, l) /\ t.disk[DfTmp(l)] = s.disk[DfTmp(l)] /\ t.disk[Final(l)] = NoFile
  BY <1>2, <1>7, ListNamesDiffer DEF OtherLists, SameNames
<1> QED BY <1>0, <1>3, <1>4, <1>5, <1>6, <1>8, <1>9 DEF ListsOnly, SameFiles, SameRest

-----------------------------------------------------------------------------
(* What a step that is not about file f leaves of it. *)

Unbound(s, f) == \A g \in Files : s.m_mapNameFile[g] # Final(f)

Spared(s, t, f) ==
  /\ t.disk[Df(f)] = s.disk[Df(f)] /\ t.disk[Md5(f)] = s.disk[Md5(f)]
  /\ s.m_mapNameFile[f] \in {Closed, Df(f)} => t.m_mapNameFile[f] \in {Closed, s.m_mapNameFile[f]}
  /\ Unbound(s, f) => Unbound(t, f) /\ t.disk[Final(f)] = s.disk[Final(f)]
  /\ Contains(t.jobs, f) => Contains(s.jobs, f)
  /\ \A j \in t.hashing : j.f = f => j \in s.hashing

LEMMA SparedTwice ==
  ASSUME NEW f, NEW s, NEW t, NEW u, Spared(s, t, f), Spared(t, u, f)
  PROVE  Spared(s, u, f)
BY DEF Spared

LEMMA SparedBySame ==
  ASSUME NEW s, NEW t, SameFiles(s, t), NEW f \in Files
  PROVE  Spared(s, t, f)
<1>1. Df(f) \in FileNames /\ Md5(f) \in FileNames /\ Final(f) \in FileNames
  BY NameFacts
<1> QED BY <1>1 DEF Spared, SameFiles, Unbound

(* By a step about file g. *)
LEMMA SparedByOther ==
  ASSUME NEW s, NEW t, NEW g \in Files, NEW f \in Files, f # g, SameOthers(s, t, g),
         t.m_mapNameFile[g] \in {s.m_mapNameFile[g], Closed, Gone, Df(g), Final(g)},
         Contains(t.jobs, f) => Contains(s.jobs, f),
         \A j \in t.hashing : j.f = f => j \in s.hashing
  PROVE  Spared(s, t, f)
<1>1. /\ t.m_mapNameFile[f] = s.m_mapNameFile[f] \/ (s.m_mapNameFile[f] = Final(g) /\ t.m_mapNameFile[f] = Gone)
      /\ t.disk[Df(f)] = s.disk[Df(f)] /\ t.disk[Md5(f)] = s.disk[Md5(f)] /\ t.disk[Final(f)] = s.disk[Final(f)]
  BY DEF SameOthers
<1>2. Final(g) # Closed /\ Final(g) # Df(f)
  BY NameFacts
<1>3. s.m_mapNameFile[f] \in {Closed, Df(f)} => t.m_mapNameFile[f] \in {Closed, s.m_mapNameFile[f]}
  BY <1>1, <1>2
<1>4. Closed # Final(f) /\ Gone # Final(f) /\ Df(g) # Final(f) /\ Final(g) # Final(f)
  BY NameFacts
<1>5. ASSUME Unbound(s, f) PROVE Unbound(t, f)
  BY <1>4, <1>5 DEF Unbound, SameOthers
<1> QED BY <1>1, <1>3, <1>5 DEF Spared

LEMMA ContainsAppended ==
  ASSUME NEW S, NEW s \in Seq(S), NEW g \in S, NEW f
  PROVE  Contains(Append(s, g), f) => Contains(s, f) \/ f = g
<1>1. Len(Append(s, g)) = Len(s) + 1 /\ Len(s) \in Nat
  BY AppendProperties, LenProperties
<1>2. \A i \in 1 .. Len(s) + 1 : Append(s, g)[i] = IF i <= Len(s) THEN s[i] ELSE g
  BY <1>1, AppendProperties
<1> QED BY <1>1, <1>2 DEF Contains

LEMMA ContainsRest ==
  ASSUME NEW S, NEW s \in Seq(S), s # <<>>, NEW f
  PROVE  Contains(Tail(s), f) => Contains(s, f)
<1>1. Len(Tail(s)) = Len(s) - 1 /\ Len(s) \in Nat \ {0} /\ \A i \in 1 .. Len(Tail(s)) : Tail(s)[i] = s[i + 1]
  BY HeadTailProperties, LenProperties, EmptySeq
<1> QED BY <1>1 DEF Contains

LEMMA ContainsFirst ==
  ASSUME NEW S, NEW s \in Seq(S), s # <<>>
  PROVE  Contains(s, Head(s))
<1>1. Len(s) \in Nat \ {0} /\ Head(s) = s[1]
  BY LenProperties, EmptySeq
<1> QED BY <1>1 DEF Contains
=============================================================================
