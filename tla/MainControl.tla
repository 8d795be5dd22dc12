---------------------------- MODULE MainControl ----------------------------
(***************************************************************************)
(* class CQSEPSDF_MainControl: the pool of data fields through which the   *)
(* list threads hand commands to the server threads.  A field is free when *)
(* its index is in m_Que.  m_FreeSymbole counts the server threads that    *)
(* still have to finish with it.  The class also keeps, per list, the      *)
(* number of files whose CLOSE was released (m_LstNO), which is what a     *)
(* restart skips.                                                          *)
(*                                                                         *)
(* Each operator is one call.  A field's contents are abstracted to what   *)
(* the code branches on; cmd stands for the file name, the list name and   *)
(* the data.  Memory is counted in fields, MemCap of them of each kind     *)
(* (module MemManger models the block allocator itself).                   *)
(***************************************************************************)
EXTENDS Integers, Sequences

CONSTANTS
  Lists,     \* the list numbers, 0 .. m_LstNum - 1
  QueSize,   \* iQueSize of main, the number of data fields
  MemCap     \* how many fields the BIG memory, and the SUITE memory, can back

ASSUME ListsAssumption == Lists \subseteq Nat /\ 0 \in Lists
ASSUME QueSizeAssumption == QueSize \in Nat \ {0}
ASSUME MemCapAssumption == MemCap \in Nat \ {0}

VARIABLES
  m_Que,     \* the free indices, in the order FreeAField returned them
  m_DataF,   \* the data fields
  memUsed,   \* fields backed by each kind of memory
  m_FileNum  \* m_LstNO[l].m_FileNum

pool == <<m_Que, m_DataF, memUsed, m_FileNum>>

Fields == 0 .. QueSize - 1
MemTypes == {"NOT_NEED_MEM", "BIG", "SUITE"}
Commands == {"START_LST", "OPEN_FILE", "WRITE_FILE", "CLOSE_FILE", "END_LST"}

(* `new DataField[m_QueSize]` runs no constructor; with the sizes main passes the array is fresh
   zeroed pages, so every m_OPNO starts as 0. *)
NewField ==
  [m_NO |-> 0, m_OPNO |-> 0, m_MemType |-> "NOT_NEED_MEM", m_PData |-> FALSE,
   m_OperateType |-> "NOT_OPR", m_FreeSymbole |-> 0, m_Result |-> 0, cmd |-> 0]

MainInitSys ==
  /\ m_Que = [i \in 1 .. QueSize |-> i - 1]
  /\ m_DataF = [i \in Fields |-> NewField]
  /\ memUsed = [m \in {"BIG", "SUITE"} |-> 0]
  /\ m_FileNum = [l \in Lists |-> 0]

InQue(no) == \E i \in DOMAIN m_Que : m_Que[i] = no

-----------------------------------------------------------------------------
HasMem(mem) == mem # "NOT_NEED_MEM" => memUsed[mem] < MemCap

(* GetAFreeField gave the index at the head of m_Que, and its caller filled the field: what the
   caller does not set keeps the value of the field's last use. *)
GetAFreeField(mem, field) ==
  /\ m_Que # <<>>
  /\ HasMem(mem)
  /\ m_Que' = Tail(m_Que)
  /\ m_DataF' = [m_DataF EXCEPT ![Head(m_Que)] =
                   [field EXCEPT !.m_NO = Head(m_Que), !.m_MemType = mem,
                                 !.m_PData = (mem # "NOT_NEED_MEM")]]
  /\ memUsed' = IF mem = "NOT_NEED_MEM" THEN memUsed ELSE [memUsed EXCEPT ![mem] = @ + 1]
  /\ UNCHANGED m_FileNum

(* No memory (-2): the index goes to the back of m_Que and the caller sleeps and retries.  No
   index (-1) changes nothing. *)
GetAFreeFieldFails(mem) ==
  /\ m_Que # <<>>
  /\ ~ HasMem(mem)
  /\ m_Que' = Append(Tail(m_Que), Head(m_Que))
  /\ m_DataF' = [m_DataF EXCEPT ![Head(m_Que)].m_NO = Head(m_Que),
                                ![Head(m_Que)].m_MemType = mem,
                                ![Head(m_Que)].m_PData = FALSE]
  /\ UNCHANGED <<memUsed, m_FileNum>>

GiveBackMem_Never(no) == UNCHANGED memUsed

GiveBackMem(no) ==
  memUsed' = IF m_DataF[no].m_PData /\ m_DataF[no].m_MemType # "NOT_NEED_MEM"
             THEN [memUsed EXCEPT ![m_DataF[no].m_MemType] = @ - 1]
             ELSE memUsed

(* SUITE fields have one user: neither the lock nor m_FreeSymbole is consulted, and the field keeps
   its m_OperateType. *)
FreeSuite(no) ==
  /\ GiveBackMem(no)
  /\ m_DataF' = [m_DataF EXCEPT ![no].m_PData = FALSE]
  /\ m_Que' = Append(m_Que, no)
  /\ UNCHANGED m_FileNum

(* UpdateLstNO when the last user of a CLOSE leaves, ResetLstNO when that of an END does. *)
CountFile(field) ==
  m_FileNum' = CASE field.m_OperateType = "CLOSE_FILE" -> [m_FileNum EXCEPT ![field.m_OPNO] = @ + 1]
                 [] field.m_OperateType = "END_LST" -> [m_FileNum EXCEPT ![field.m_OPNO] = 0]
                 [] OTHER -> m_FileNum

(* m_OPNO is never reset. *)
ResetField(no) ==
  [m_NO |-> -1, m_OPNO |-> m_DataF[no].m_OPNO, m_MemType |-> "NOT_NEED_MEM", m_PData |-> FALSE,
   m_OperateType |-> "NOT_OPR", m_FreeSymbole |-> 0, m_Result |-> -1, cmd |-> 0]

FreeShared_NoCount(no) ==
  /\ GiveBackMem(no)
  /\ CountFile(m_DataF[no])
  /\ m_DataF' = [m_DataF EXCEPT ![no] = ResetField(no)]
  /\ m_Que' = Append(m_Que, no)

(* Under the field's m_Cri.  Only the last user resets the field. *)
FreeShared(no) ==
  LET n == m_DataF[no].m_FreeSymbole - 1 IN
    \/ /\ n > 0
       /\ m_DataF' = [m_DataF EXCEPT ![no].m_FreeSymbole = n]
       /\ UNCHANGED <<m_Que, memUsed, m_FileNum>>
    \/ /\ n <= 0
       /\ GiveBackMem(no)
       /\ CountFile(m_DataF[no])
       /\ m_DataF' = [m_DataF EXCEPT ![no] = ResetField(no)]
       /\ m_Que' = Append(m_Que, no)

(* A field that was freed has m_NO = -1, and FreeAField would lock m_DataF[-1].m_Cri: the calling
   thread is taken not to return from that. *)
FreeAField(no) ==
  \/ m_DataF[no].m_MemType = "SUITE" /\ FreeSuite(no)
  \/ m_DataF[no].m_MemType # "SUITE" /\ m_DataF[no].m_NO # -1 /\ FreeShared(no)

-----------------------------------------------------------------------------
FieldType ==
  [m_NO : Fields \cup {-1}, m_OPNO : Lists, m_MemType : MemTypes, m_PData : BOOLEAN,
   m_OperateType : Commands \cup {"NOT_OPR"}, m_FreeSymbole : Int, m_Result : {-1, 0}, cmd : Nat]

PoolTypeOK ==
  /\ m_Que \in Seq(Fields)
  /\ m_DataF \in [Fields -> FieldType]
  /\ memUsed \in [{"BIG", "SUITE"} -> Int]
  /\ m_FileNum \in [Lists -> Nat]
=============================================================================
