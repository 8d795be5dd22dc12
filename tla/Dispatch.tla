------------------------------ MODULE Dispatch ------------------------------
(***************************************************************************)
(* class CQSEPSDF_CS at work: one thread per list (MainWork) turns the     *)
(* files of its list into commands, one data field each, and puts the      *)
(* field's index on the queue of every server it is for; one thread per    *)
(* list, group and server (Main_Command) takes the indices off its queue,  *)
(* sends the commands over its connection and lets go of the fields.       *)
(*                                                                         *)
(* A step is a stretch of code that ends where another thread can tell the *)
(* difference: a queue operation, the write of the shared m_Result, the    *)
(* read of a field the thread no longer holds.                             *)
(***************************************************************************)
EXTENDS MainControl, FiniteSets

CONSTANTS
  Layout,    \* per list, its groups in order: [type |-> m_SendDataType, n |-> m_RealServerNum]
  MaxGroups, \* MAX_GROUP_NUM
  MaxServers,\* MAX_S_NUM_AGROUP
  NFiles,    \* files in a list
  MaxChunks, \* most WRITE commands for one file
  MaxTry,    \* failed sends of one command before the thread gives up: 5 in the code
  MaxFail,   \* failed sends in a behaviour (a bound)
  BatchMax   \* WRITEs added to one batch: 666 in the code

ASSUME LayoutAssumption ==
  \A l \in Lists : Layout[l] \in Seq([type : {"MOD", "ALL"}, n : 1 .. MaxServers]) /\ Len(Layout[l]) \in 1 .. MaxGroups
ASSUME BoundsAssumption ==
  /\ MaxGroups \in Nat /\ MaxServers \in Nat /\ NFiles \in Nat \ {0} /\ MaxChunks \in Nat \ {0} /\ MaxTry \in Nat \ {0}
  /\ MaxFail \in Nat /\ BatchMax \in Nat

VARIABLES
  lst,        \* per list thread: where in the list it is
  m_pDataQue, \* per server thread: the indices on its queue
  srv,        \* per server thread: what it is doing
  remote,     \* per server: the latest command it carried out, its open files, the blocks it stored
  sent,       \* per server: the data blocks queued for it
  gaveUp,     \* per server: whether its thread let go of a command it could not deliver
  reread,     \* history: a thread took the CLOSE that a field it had freed has become for its own
  fails       \* sends that failed so far

vars == <<pool, lst, m_pDataQue, srv, remote, sent, gaveUp, reread, fails>>

(* The threads Main_Command(l, g, s), one per server of every group of every list. *)
Servers ==
  {c \in Lists \X (1 .. MaxGroups) \X (1 .. MaxServers) :
     c[2] <= Len(Layout[c[1]]) /\ c[3] <= Layout[c[1]][c[2]].n}

Group(c) == Layout[c[1]][c[2]]

(* A position in a list: the command to issue, for file f, block k of it. *)
Pos(op, f, k) == [op |-> op, f |-> f, k |-> k]

(* The order of a list's commands: each has a number above those of the commands before it. *)
Rank(p) ==
  LET first == (p.f - 1) * (MaxChunks + 2) + 2 IN
    CASE p.op = "START_LST" -> 1
      [] p.op = "OPEN_FILE" -> first
      [] p.op = "WRITE_FILE" -> first + p.k
      [] p.op = "CLOSE_FILE" -> first + MaxChunks + 1
      [] p.op = "END_LST" -> first + MaxChunks + 2

FileOf(rank) == (rank - 2) \div (MaxChunks + 2) + 1

(* What MainWork may issue next.  Work_ALLData reads before it looks for the end of the file, so it
   issues at least one WRITE; Work_ModData may find no line. *)
Following(p, type) ==
  CASE p.op = "START_LST" -> {Pos("OPEN_FILE", 1, 0)}
    [] p.op = "OPEN_FILE" -> {Pos("WRITE_FILE", p.f, 1)}
                               \cup {Pos("CLOSE_FILE", p.f, 0) : m \in {type} \cap {"MOD"}}
    [] p.op = "WRITE_FILE" -> {Pos("CLOSE_FILE", p.f, 0)}
                                \cup {Pos("WRITE_FILE", p.f, k) : k \in {p.k + 1} \cap (1 .. MaxChunks)}
    [] p.op = "CLOSE_FILE" /\ p.f < NFiles -> {Pos("OPEN_FILE", p.f + 1, 0)}
    [] OTHER -> {Pos("END_LST", NFiles, 0)}

ListAt(pc, g, pos) == [pc |-> pc, g |-> g, pos |-> pos, no |-> -1, j |-> 1]
GroupStart(g) == ListAt("get", g, Pos("START_LST", 1, 0))

(* A server thread that has one command, op, numbered cmd and in field no; own says that the data is
   in pData, a buffer of the thread.  freed is history: the thread itself has freed field no. *)
ServerAt(pc, no, op, cmd, own) ==
  [pc |-> pc, no |-> no, op |-> op, cmd |-> cmd, own |-> own, n |-> 1, try |-> 0, freed |-> FALSE]
Idle == ServerAt("pop", -1, "WRITE_FILE", 0, FALSE)

Init ==
  /\ MainInitSys
  /\ lst = [l \in Lists |-> GroupStart(1)]
  /\ m_pDataQue = [c \in Servers |-> <<>>]
  /\ srv = [c \in Servers |-> Idle]
  /\ remote = [c \in Servers |-> [rank |-> 0, open |-> {}, got |-> 0]]
  /\ sent = [c \in Servers |-> 0]
  /\ gaveUp = [c \in Servers |-> FALSE]
  /\ reread = FALSE
  /\ fails = 0

-----------------------------------------------------------------------------
(* MainWork, the thread of list l. *)

GroupOf(l) == Layout[l][lst[l].g]
IsModWrite(l) == GroupOf(l).type = "MOD" /\ lst[l].pos.op = "WRITE_FILE"

MemFor(l) == CASE lst[l].pos.op # "WRITE_FILE" -> "NOT_NEED_MEM"
               [] GroupOf(l).type = "MOD" -> "SUITE"
               [] OTHER -> "BIG"

FieldFor_OneUser(l) ==
  LET p == lst[l].pos IN
    [m_DataF[Head(m_Que)] EXCEPT
       !.m_OPNO = IF p.op = "CLOSE_FILE" THEN @ ELSE l,
       !.m_OperateType = p.op,
       !.m_FreeSymbole = IF p.op = "WRITE_FILE" THEN 1 ELSE GroupOf(l).n,
       !.m_Result = -1,
       !.cmd = Rank(p)]

(* What Work_StartList, Work_OpenFile, ... put in the field they got.  Work_CloseFile does not set
   m_OPNO: it is the one of the field's last use. *)
FieldFor(l) ==
  LET p == lst[l].pos IN
    [m_DataF[Head(m_Que)] EXCEPT
       !.m_OPNO = IF p.op = "CLOSE_FILE" THEN @ ELSE l,
       !.m_OperateType = p.op,
       !.m_FreeSymbole = IF IsModWrite(l) THEN 1 ELSE GroupOf(l).n,
       !.m_Result = -1,
       !.cmd = Rank(p)]

(* The loop around GetAFreeField, and the assignments after it.  The line of a MOD file goes to one
   server of the group, (m_Key / 4) % n; everything else to all of them, from the first on. *)
Work(l) ==
  /\ lst[l].pc = "get"
  /\ GetAFreeField(MemFor(l), FieldFor(l))
  /\ \E j \in IF IsModWrite(l) THEN 1 .. GroupOf(l).n ELSE {1} :
       lst' = [lst EXCEPT ![l].pc = "push", ![l].no = Head(m_Que), ![l].j = j]
  /\ UNCHANGED <<m_pDataQue, srv, remote, sent, gaveUp, reread, fails>>

WorkNoMem(l) ==
  /\ lst[l].pc = "get"
  /\ GetAFreeFieldFails(MemFor(l))
  /\ UNCHANGED <<lst, m_pDataQue, srv, remote, sent, gaveUp, reread, fails>>

(* The next group of the list, or `.Finish`. *)
AfterGroup(l) ==
  IF lst[l].g < Len(Layout[l]) THEN GroupStart(lst[l].g + 1)
  ELSE ListAt("done", lst[l].g, lst[l].pos)

(* Where MainWork is once the command has been pushed to everyone it is for.  bverify is set when
   the group's type is ALL. *)
AfterCommand(l) ==
  LET p == lst[l].pos
      g == lst[l].g IN
    IF p.op = "END_LST" THEN {AfterGroup(l)}
    ELSE IF p.op = "CLOSE_FILE" /\ p.f = NFiles /\ GroupOf(l).type = "ALL"
         THEN {ListAt("drain", g, p)}
    ELSE {ListAt("get", g, q) : q \in Following(p, GroupOf(l).type)}

(* One Push of the loop over the servers. *)
Push(l) ==
  /\ lst[l].pc = "push"
  /\ LET c == <<l, lst[l].g, lst[l].j>> IN
       /\ m_pDataQue' = [m_pDataQue EXCEPT ![c] = Append(@, lst[l].no)]
       /\ sent' = [sent EXCEPT ![c] = @ + (IF lst[l].pos.op = "WRITE_FILE" THEN 1 ELSE 0)]
  /\ IF lst[l].j < GroupOf(l).n /\ ~ IsModWrite(l)
     THEN lst' = [lst EXCEPT ![l].j = @ + 1]
     ELSE \E after \in AfterCommand(l) : lst' = [lst EXCEPT ![l] = after]
  /\ UNCHANGED <<pool, srv, remote, gaveUp, reread, fails>>

Drain_FirstOnly(l) ==
  /\ lst[l].pc = "drain"
  /\ m_pDataQue[<<l, lst[l].g, 1>>] = <<>>
  /\ lst' = [lst EXCEPT ![l].pc = "verify"]
  /\ UNCHANGED <<pool, m_pDataQue, srv, remote, sent, gaveUp, reread, fails>>

(* The loop that waits until the queue of every server of the group is empty, one after the other. *)
Drain(l) ==
  /\ lst[l].pc = "drain"
  /\ m_pDataQue[<<l, lst[l].g, lst[l].j>>] = <<>>
  /\ lst' = IF lst[l].j < GroupOf(l).n THEN [lst EXCEPT ![l].j = @ + 1]
            ELSE [lst EXCEPT ![l].pc = "verify"]
  /\ UNCHANGED <<pool, m_pDataQue, srv, remote, sent, gaveUp, reread, fails>>

(* Work_Verify over connections of its own.  A failure is one of the bounded failures; it resets the
   list's file count and goes on to the next group, with no END_LST for this one. *)
Verify(l) ==
  /\ lst[l].pc = "verify"
  /\ \/ /\ lst' = [lst EXCEPT ![l] = ListAt("get", @.g, Pos("END_LST", NFiles, 0))]
        /\ UNCHANGED <<m_FileNum, fails>>
     \/ /\ fails < MaxFail
        /\ fails' = fails + 1
        /\ m_FileNum' = [m_FileNum EXCEPT ![l] = 0]
        /\ lst' = [lst EXCEPT ![l] = AfterGroup(l)]
  /\ UNCHANGED <<m_Que, m_DataF, memUsed, m_pDataQue, srv, remote, sent, gaveUp, reread>>

ListStep(l) == Work(l) \/ WorkNoMem(l) \/ Push(l) \/ Drain(l) \/ Verify(l)

-----------------------------------------------------------------------------
(* Main_Command, the thread of server c. *)

(* QueEvent::Pop of the thread's queue (module QueEvent), and the operate type read from the field.
   A field that is NOT_OPR is only logged. *)
PopCommand(c) ==
  /\ srv[c].pc = "pop"
  /\ m_pDataQue[c] # <<>>
  /\ m_pDataQue' = [m_pDataQue EXCEPT ![c] = Tail(@)]
  /\ LET no == Head(m_pDataQue[c])
         op == m_DataF[no].m_OperateType
         batched == op = "WRITE_FILE" /\ Group(c).type = "MOD" IN
       \/ /\ op = "NOT_OPR"
          /\ UNCHANGED <<pool, srv>>
       \/ /\ batched
          /\ FreeAField(no)
          /\ srv' = [srv EXCEPT ![c] = ServerAt("more", no, op, m_DataF[no].cmd, TRUE)]
       \/ /\ op # "NOT_OPR" /\ ~ batched
          /\ srv' = [srv EXCEPT ![c] = ServerAt("send", no, op, m_DataF[no].cmd, FALSE)]
          /\ UNCHANGED pool
  /\ UNCHANGED <<lst, remote, sent, gaveUp, reread, fails>>

PopMore_PushesBack(c) ==
  /\ srv[c].pc = "more"
  /\ \/ /\ m_pDataQue[c] = <<>>
        /\ srv' = [srv EXCEPT ![c].pc = "send", ![c].no = -1, ![c].freed = FALSE]
        /\ UNCHANGED <<pool, m_pDataQue>>
     \/ /\ m_pDataQue[c] # <<>>
        /\ LET no == Head(m_pDataQue[c]) IN
             \/ /\ m_DataF[no].m_OperateType # "WRITE_FILE"
                /\ m_pDataQue' = [m_pDataQue EXCEPT ![c] = Append(Tail(@), no)]
                /\ srv' = [srv EXCEPT ![c].pc = "send", ![c].no = no, ![c].freed = FALSE]
                /\ UNCHANGED pool
             \/ /\ m_DataF[no].m_OperateType = "WRITE_FILE"
                /\ m_pDataQue' = [m_pDataQue EXCEPT ![c] = Tail(@)]
                /\ FreeAField(no)
                /\ srv' = [srv EXCEPT ![c].pc = "check", ![c].no = no, ![c].n = @ + 1,
                                      ![c].cmd = m_DataF[no].cmd, ![c].freed = TRUE]
  /\ UNCHANGED <<lst, remote, sent, gaveUp, reread, fails>>

(* The loop that adds further WRITEs to pData.  Each field is freed once it has been copied; the
   first command that is not a WRITE ends the loop and stays in iQueNo. *)
PopMore(c) ==
  /\ srv[c].pc = "more"
  /\ \/ /\ m_pDataQue[c] = <<>>
        /\ srv' = [srv EXCEPT ![c].pc = "send", ![c].no = -1, ![c].freed = FALSE]
        /\ UNCHANGED <<pool, m_pDataQue>>
     \/ /\ m_pDataQue[c] # <<>>
        /\ m_pDataQue' = [m_pDataQue EXCEPT ![c] = Tail(@)]
        /\ LET no == Head(m_pDataQue[c]) IN
             \/ /\ m_DataF[no].m_OperateType # "WRITE_FILE"
                /\ srv' = [srv EXCEPT ![c].pc = "send", ![c].no = no, ![c].freed = FALSE]
                /\ UNCHANGED pool
             \/ /\ m_DataF[no].m_OperateType = "WRITE_FILE"
                /\ FreeAField(no)
                /\ srv' = [srv EXCEPT ![c].pc = "check", ![c].no = no, ![c].n = @ + 1,
                                      ![c].cmd = m_DataF[no].cmd, ![c].freed = TRUE]
  /\ UNCHANGED <<lst, remote, sent, gaveUp, reread, fails>>

(* The `while` of that loop reads the operate type of the field that was just freed. *)
CheckMore(c) ==
  /\ srv[c].pc = "check"
  /\ LET again == /\ m_DataF[srv[c].no].m_OperateType = "WRITE_FILE"
                  /\ srv[c].n - 1 < BatchMax IN
       srv' = [srv EXCEPT ![c].pc = IF again THEN "more" ELSE "send"]
  /\ UNCHANGED <<pool, lst, m_pDataQue, remote, sent, gaveUp, reread, fails>>

(* The server's handler (QSEPSDF_SSWork): a WRITE of a file that is not open is dropped, and
   answered as a success. *)
Execute(c) ==
  LET f == FileOf(srv[c].cmd)
      r == remote[c] IN
    remote' = [remote EXCEPT ![c] =
      [rank |-> srv[c].cmd,
       open |-> CASE srv[c].op = "OPEN_FILE" -> r.open \cup {f}
                  [] srv[c].op = "CLOSE_FILE" -> r.open \ {f}
                  [] OTHER -> r.open,
       got |-> IF srv[c].op = "WRITE_FILE" /\ f \in r.open THEN r.got + srv[c].n ELSE r.got]]

(* The answer carries the operate type and number of the request; SendAData compares them with what
   the field holds by now. *)
AnswerFits(c) ==
  LET field == m_DataF[srv[c].no] IN
    srv[c].own = FALSE => field.m_OperateType = srv[c].op /\ field.m_NO = srv[c].no

Failed_OneTryMore(c) ==
  IF srv[c].op = "WRITE_FILE"
  THEN srv' = [srv EXCEPT ![c].pc = "send"] /\ UNCHANGED gaveUp
  ELSE IF srv[c].try < MaxTry
  THEN srv' = [srv EXCEPT ![c].pc = "send", ![c].try = @ + 1] /\ UNCHANGED gaveUp
  ELSE srv' = [srv EXCEPT ![c].pc = "free"] /\ gaveUp' = [gaveUp EXCEPT ![c] = TRUE]

(* After a send that failed, a WRITE is sent again for ever, anything else MaxTry times in all. *)
Failed(c) ==
  IF srv[c].op = "WRITE_FILE"
  THEN srv' = [srv EXCEPT ![c].pc = "send"] /\ UNCHANGED gaveUp
  ELSE IF srv[c].try + 1 < MaxTry
  THEN srv' = [srv EXCEPT ![c].pc = "send", ![c].try = @ + 1] /\ UNCHANGED gaveUp
  ELSE srv' = [srv EXCEPT ![c].pc = "free"] /\ gaveUp' = [gaveUp EXCEPT ![c] = TRUE]

SetResult(c, r) ==
  /\ m_DataF' = [m_DataF EXCEPT ![srv[c].no].m_Result = r]
  /\ srv' = [srv EXCEPT ![c].pc = "test"]
  /\ UNCHANGED <<m_Que, memUsed, m_FileNum, gaveUp>>

(* SendAData, up to the write of m_Result.  A batch has its m_Result in pData, which is the
   thread's own, so writing and testing it is one step. *)
Send(c) ==
  /\ srv[c].pc = "send"
  /\ Execute(c)
  /\ IF ~ AnswerFits(c) THEN Failed(c) /\ UNCHANGED pool
     ELSE IF srv[c].own THEN srv' = [srv EXCEPT ![c].pc = "after"] /\ UNCHANGED <<pool, gaveUp>>
     ELSE SetResult(c, 0)
  /\ UNCHANGED <<lst, m_pDataQue, sent, reread, fails>>

(* The connection fails before the server has carried the command out, or before its answer is back. *)
SendLost(c) ==
  /\ srv[c].pc = "send"
  /\ fails < MaxFail
  /\ fails' = fails + 1
  /\ Execute(c) \/ UNCHANGED remote
  /\ Failed(c)
  /\ UNCHANGED <<pool, lst, m_pDataQue, sent, reread>>

(* The handler fails, and says so. *)
SendRefused(c) ==
  /\ srv[c].pc = "send"
  /\ ~ srv[c].own /\ AnswerFits(c)
  /\ fails < MaxFail
  /\ fails' = fails + 1
  /\ SetResult(c, -1)
  /\ UNCHANGED <<lst, m_pDataQue, remote, sent, reread>>

(* SendAData, after the write: `if (pData->m_Result < 0)`.  The field is shared by the threads of the group's
   servers, any of which may have written its own result in between; callers see the outcome of the test. *)
Test(c) ==
  /\ srv[c].pc = "test"
  /\ IF m_DataF[srv[c].no].m_Result = 0
     THEN srv' = [srv EXCEPT ![c].pc = "free"] /\ UNCHANGED gaveUp
     ELSE Failed(c)
  /\ UNCHANGED <<pool, lst, m_pDataQue, remote, sent, reread, fails>>

FreeCommand(c) ==
  /\ srv[c].pc = "free"
  /\ FreeAField(srv[c].no)
  /\ srv' = [srv EXCEPT ![c] = Idle]
  /\ UNCHANGED <<lst, m_pDataQue, remote, sent, gaveUp, reread, fails>>

AfterBatch_DropsClose(c) ==
  /\ srv[c].pc = "after"
  /\ srv' = [srv EXCEPT ![c] = Idle]
  /\ UNCHANGED <<pool, lst, m_pDataQue, remote, sent, gaveUp, reread, fails>>

(* After a batch, a CLOSE that ended it is carried out; the field read here may also be one that
   this thread has freed.  m_DataF[-1] is read as no CLOSE. *)
AfterBatch(c) ==
  /\ srv[c].pc = "after"
  /\ LET no == srv[c].no IN
       \/ /\ no # -1
          /\ m_DataF[no].m_OperateType = "CLOSE_FILE"
          /\ srv' = [srv EXCEPT ![c] = ServerAt("send", no, "CLOSE_FILE", m_DataF[no].cmd, FALSE)]
          /\ reread' = (reread \/ srv[c].freed)
       \/ /\ no # -1 => m_DataF[no].m_OperateType # "CLOSE_FILE"
          /\ srv' = [srv EXCEPT ![c] = Idle]
          /\ UNCHANGED reread
  /\ UNCHANGED <<pool, lst, m_pDataQue, remote, sent, gaveUp, fails>>

(* What the thread does of itself, and what a network that works lets it do. *)
ServerStep(c) ==
  \/ PopCommand(c) \/ PopMore(c) \/ CheckMore(c)
  \/ Send(c) \/ Test(c) \/ FreeCommand(c) \/ AfterBatch(c)

-----------------------------------------------------------------------------
(* Every list is finished and every queue is empty: the threads wait for the next list file. *)
Finished ==
  /\ \A l \in Lists : lst[l].pc = "done"
  /\ \A c \in Servers : srv[c].pc = "pop" /\ m_pDataQue[c] = <<>>

Terminating == Finished /\ UNCHANGED vars

Next ==
  \/ \E l \in Lists : ListStep(l)
  \/ \E c \in Servers : ServerStep(c) \/ SendLost(c) \/ SendRefused(c)
  \/ Terminating

Spec == Init /\ [][Next]_vars

(* Every thread keeps running.  No fairness makes a send fail. *)
Fairness ==
  /\ \A l \in Lists : WF_vars(ListStep(l))
  /\ \A c \in Servers : WF_vars(ServerStep(c))

FairSpec == Spec /\ Fairness

-----------------------------------------------------------------------------
Positions == [op : Commands, f : 1 .. NFiles, k : 0 .. MaxChunks]
ListStates == [pc : {"get", "push", "drain", "verify", "done"}, g : 1 .. MaxGroups,
               pos : Positions, no : Fields \cup {-1}, j : Nat \ {0}]
ServerStates == [pc : {"pop", "more", "check", "send", "test", "free", "after"},
                 no : Fields \cup {-1}, op : Commands, cmd : Nat, own : BOOLEAN,
                 n : Nat, try : 0 .. MaxTry - 1, freed : BOOLEAN]
RemoteStates == [rank : Nat, open : SUBSET Int, got : Nat]

(* The types of the variables; that no thread tries a command more than MaxTry times is among them. *)
TypeOK ==
  /\ PoolTypeOK
  /\ lst \in [Lists -> ListStates]
  /\ m_pDataQue \in [Servers -> Seq(Fields)]
  /\ srv \in [Servers -> ServerStates]
  /\ remote \in [Servers -> RemoteStates]
  /\ sent \in [Servers -> Nat]
  /\ gaveUp \in [Servers -> BOOLEAN]
  /\ reread \in BOOLEAN
  /\ fails \in 0 .. MaxFail

Injective(s) == \A i, k \in DOMAIN s : s[i] = s[k] => i = k

QueuedAt(c, no) == \E i \in DOMAIN m_pDataQue[c] : m_pDataQue[c][i] = no

(* The thread has taken field srv[c].no off its queue and not let go of it.  In a batch that is the
   command that ended it, never a WRITE. *)
Sending(c) ==
  IF srv[c].own
  THEN /\ srv[c].pc \in {"send", "after"}
       /\ srv[c].no \in Fields /\ m_DataF[srv[c].no].m_OperateType # "WRITE_FILE"
  ELSE srv[c].pc \in {"send", "test", "free"}

(* The server threads that still have to let go of field no. *)
Holders(no) == {c \in Servers : QueuedAt(c, no) \/ (Sending(c) /\ srv[c].no = no)}

(* The server threads that the list thread which filled field no has still to hand it to. *)
StillToPush(l) == {<<l, lst[l].g, s>> : s \in lst[l].j .. (IF IsModWrite(l) THEN lst[l].j ELSE GroupOf(l).n)}
Pending(no) == UNION {StillToPush(l) : l \in {k \in Lists : lst[k].pc = "push" /\ lst[k].no = no}}

(* An index is in m_Que at most once, and only when no list thread is handing the field out, no
   server thread has it queued and none is sending from it: GetAFreeField cannot overwrite a command
   that somebody still needs. *)
FreeFieldsUnused ==
  /\ Injective(m_Que)
  /\ \A no \in Fields : InQue(no) => Holders(no) = {} /\ Pending(no) = {}

(* m_FreeSymbole of a shared field is the number of server threads that have not let go of it,
   those it has not been handed to yet included.  So the last one, and only the last one, frees it,
   although every thread may finish before the list thread has pushed it to the next. *)
RefCountExact ==
  \A no \in Fields :
    /\ Holders(no) \cap Pending(no) = {}
    /\ m_DataF[no].m_MemType # "SUITE" /\ ~ InQue(no)
         => m_DataF[no].m_FreeSymbole = Cardinality(Holders(no) \cup Pending(no))

(* No field and no memory leaks, whatever fails and whoever gives up: a field that is not free has a
   thread that will free it, and the memory in use is the memory of those fields. *)
NothingLeaks ==
  /\ \A no \in Fields : InQue(no) \/ Holders(no) # {} \/ Pending(no) # {}
  /\ \A m \in {"BIG", "SUITE"} :
       memUsed[m] = Cardinality({no \in Fields : ~ InQue(no) /\ m_DataF[no].m_PData
                                                   /\ m_DataF[no].m_MemType = m})

(* Work_Verify asks the servers for the MD5 of files whose data they have: the queue of every server
   of the group is empty and nothing but the CLOSE of the last file is still on its way. *)
VerifyAfterData ==
  \A l \in Lists : lst[l].pc = "verify" =>
    \A s \in 1 .. GroupOf(l).n :
      LET c == <<l, lst[l].g, s>> IN
        m_pDataQue[c] = <<>> /\ (srv[c].pc = "pop" \/ srv[c].op = "CLOSE_FILE")

(* When the lists are finished, a server whose thread gave up nothing has stored every block of data
   that was queued for it (a block may be stored twice, when only the answer was lost). *)
NothingLost ==
  Finished => \A c \in Servers : gaveUp[c] \/ remote[c].got >= sent[c]

(* A server never carries out a command after a later one of the list: no WRITE of a file after its
   CLOSE, no OPEN after its WRITEs.  True of ALL groups; OrderedUnlessReread is about the others. *)
InOrder == [][\A c \in Servers : remote'[c].rank >= remote[c].rank]_vars

(* The same for MOD groups, however few fields there are and so however soon one is filled again, as long as no
   thread took a field it had freed for its CLOSE (the reads of iQueNo's field in AfterBatch): a field that is
   freed by its last user only, and refilled, is queued behind everything that was queued before. *)
OrderedUnlessReread ==
  [][reread' \/ \A c \in Servers : remote'[c].rank >= remote[c].rank]_vars

(* The field that a thread has freed is another command, which it may take for its own. *)
Rereads ==
  \E c \in Servers : /\ srv[c].freed /\ srv[c].pc \in {"check", "send", "after"}
                     /\ m_DataF[srv[c].no].m_OperateType # "WRITE_FILE"

(* Batching, retries and giving up lose and free no field too much, except while a thread may take one it has
   freed, or once it has: a free field is in nobody's queue or hands, the count of any other is the number of
   threads that still have to let go of it, there is one that will, and the memory in use is that of these
   fields (FreeAField, and the ways out of Main_Command). *)
FieldsKeptUnlessReread == reread \/ Rereads \/ (FreeFieldsUnused /\ RefCountExact /\ NothingLeaks)

(* Every list comes to its end, and every field back to m_Que: the threads that wait for fields or
   for memory are not all waiting for each other. *)
ListsFinish == <>[](Finished /\ Len(m_Que) = QueSize)
=============================================================================
