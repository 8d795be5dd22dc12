--------------------------- MODULE DispatchProofs ---------------------------
(***************************************************************************)
(* Proofs about Dispatch, for any lists, layouts, pool sizes and bounds.   *)
(***************************************************************************)
EXTENDS Dispatch, SequenceTheorems, FiniteSetTheorems, TLAPS

(* TypeOK is not inductive: a step that uses srv[c].no or lst[l].no as the index of a field needs to
   know that it is one where the step can be taken, and a list thread needs to be at a group and a
   server that its list has. *)
GoodList(l, r) ==
  /\ r \in ListStates
  /\ r.g \in 1 .. Len(Layout[l])
  /\ r.j \in 1 .. Layout[l][r.g].n
  /\ r.pc = "push" => r.no \in Fields

GoodServer(r) ==
  /\ r \in ServerStates
  /\ r.pc = "check" => r.no \in Fields
  /\ r.pc \in {"send", "test", "free"} => r.own \/ r.no \in Fields
  /\ r.pc \in {"test", "free"} => ~ r.own
  /\ r.pc \in {"more", "check", "after"} => r.own
  /\ r.own => r.op = "WRITE_FILE"

TypeInv ==
  /\ TypeOK
  /\ \A l \in Lists : GoodList(l, lst[l])
  /\ \A c \in Servers : GoodServer(srv[c])

-----------------------------------------------------------------------------
(* The calls of MainControl keep the types of the pool. *)

LEMMA GetType ==
  ASSUME PoolTypeOK, NEW mem \in MemTypes, NEW field \in FieldType, GetAFreeField(mem, field)
  PROVE  PoolTypeOK' /\ Head(m_Que) \in Fields
<1>1. m_Que \in Seq(Fields) /\ m_Que # <<>>
  BY DEF PoolTypeOK, GetAFreeField
<1>2. Head(m_Que) \in Fields /\ Tail(m_Que) \in Seq(Fields)
  BY <1>1, HeadTailProperties
<1>3. m_DataF' \in [Fields -> FieldType]
  <2>1. [field EXCEPT !.m_NO = Head(m_Que), !.m_MemType = mem, !.m_PData = (mem # "NOT_NEED_MEM")]
          \in FieldType
    BY <1>2 DEF FieldType
  <2> QED
    BY <1>2, <2>1 DEF PoolTypeOK, GetAFreeField
<1>4. memUsed' \in [{"BIG", "SUITE"} -> Int]
  BY DEF PoolTypeOK, GetAFreeField, MemTypes
<1> QED
  BY <1>2, <1>3, <1>4 DEF PoolTypeOK, GetAFreeField

LEMMA GetFailsType ==
  ASSUME PoolTypeOK, NEW mem \in MemTypes, GetAFreeFieldFails(mem)
  PROVE  PoolTypeOK'
<1>1. m_Que \in Seq(Fields) /\ m_Que # <<>>
  BY DEF PoolTypeOK, GetAFreeFieldFails
<1>2. Head(m_Que) \in Fields /\ Tail(m_Que) \in Seq(Fields)
  BY <1>1, HeadTailProperties
<1>3. m_Que' \in Seq(Fields)
  BY <1>2, AppendProperties DEF GetAFreeFieldFails
<1>4. m_DataF' \in [Fields -> FieldType]
  <2>1. m_DataF[Head(m_Que)] \in FieldType
    BY <1>2 DEF PoolTypeOK
  <2>2. [m_DataF[Head(m_Que)] EXCEPT !.m_NO = Head(m_Que), !.m_MemType = mem, !.m_PData = FALSE]
          \in FieldType
    BY <1>2, <2>1 DEF FieldType
  <2>3. m_DataF' = [m_DataF EXCEPT ![Head(m_Que)] =
           [m_DataF[Head(m_Que)] EXCEPT !.m_NO = Head(m_Que), !.m_MemType = mem, !.m_PData = FALSE]]
    BY <1>2 DEF PoolTypeOK, GetAFreeFieldFails, FieldType
  <2> QED
    BY <1>2, <2>2, <2>3 DEF PoolTypeOK
<1> QED
  BY <1>3, <1>4 DEF PoolTypeOK, GetAFreeFieldFails

LEMMA GiveBackType ==
  ASSUME PoolTypeOK, NEW no \in Fields, GiveBackMem(no)
  PROVE  memUsed' \in [{"BIG", "SUITE"} -> Int]
<1>1. m_DataF[no].m_MemType \in MemTypes
  BY DEF PoolTypeOK, FieldType
<1> QED
  BY <1>1 DEF PoolTypeOK, GiveBackMem, MemTypes

LEMMA CountType ==
  ASSUME PoolTypeOK, NEW no \in Fields, CountFile(m_DataF[no])
  PROVE  m_FileNum' \in [Lists -> Nat]
<1>1. m_DataF[no].m_OPNO \in Lists /\ m_FileNum \in [Lists -> Nat]
  BY DEF PoolTypeOK, FieldType
<1>2. CASE m_DataF[no].m_OperateType = "CLOSE_FILE"
  <2>1. \A l \in Lists : m_FileNum[l] + 1 \in Nat
    BY <1>1
  <2>2. m_FileNum' = [l \in Lists |-> IF l = m_DataF[no].m_OPNO THEN m_FileNum[l] + 1 ELSE m_FileNum[l]]
    BY <1>1, <1>2 DEF CountFile
  <2> QED
    BY <1>1, <2>1, <2>2
<1>3. CASE m_DataF[no].m_OperateType = "END_LST"
  <2>1. m_FileNum' = [m_FileNum EXCEPT ![m_DataF[no].m_OPNO] = 0]
    BY <1>3 DEF CountFile
  <2> QED
    BY <1>1, <2>1
<1>4. CASE m_DataF[no].m_OperateType \notin {"CLOSE_FILE", "END_LST"}
  BY <1>1, <1>4 DEF CountFile
<1> QED
  BY <1>2, <1>3, <1>4

LEMMA FreeType ==
  ASSUME PoolTypeOK, NEW no \in Fields, FreeAField(no)
  PROVE  PoolTypeOK'
<1>0. m_DataF[no] \in FieldType /\ m_Que \in Seq(Fields)
  BY DEF PoolTypeOK
<1>f. m_DataF[no].m_FreeSymbole \in Int /\ m_DataF[no].m_OPNO \in Lists
  BY <1>0 DEF FieldType
<1>1. Append(m_Que, no) \in Seq(Fields)
  BY <1>0, AppendProperties
<1>2. CASE FreeSuite(no)
  <2>1. [m_DataF[no] EXCEPT !.m_PData = FALSE] \in FieldType
    BY <1>0 DEF FieldType
  <2>2. m_DataF' = [m_DataF EXCEPT ![no] = [m_DataF[no] EXCEPT !.m_PData = FALSE]]
    BY <1>2 DEF FreeSuite, PoolTypeOK
  <2>3. m_DataF' \in [Fields -> FieldType]
    BY <2>1, <2>2 DEF PoolTypeOK
  <2> QED
    BY <1>1, <1>2, <2>3, GiveBackType DEF FreeSuite, PoolTypeOK
<1>3. CASE FreeShared(no)
  <2>1. CASE m_DataF[no].m_FreeSymbole - 1 > 0
    <3>1. /\ m_DataF' = [m_DataF EXCEPT ![no].m_FreeSymbole = m_DataF[no].m_FreeSymbole - 1]
          /\ UNCHANGED <<m_Que, memUsed, m_FileNum>>
      BY <1>f, <1>3, <2>1 DEF FreeShared
    <3>2. \A k \in Int : [m_DataF[no] EXCEPT !.m_FreeSymbole = k] \in FieldType
      BY <1>0 DEF FieldType
    <3>3. m_DataF[no].m_FreeSymbole - 1 \in Int
      BY <1>f
    <3>4. m_DataF' \in [Fields -> FieldType]
      BY <3>1, <3>2, <3>3 DEF PoolTypeOK
    <3> QED
      BY <3>1, <3>4 DEF PoolTypeOK
  <2>2. CASE ~ (m_DataF[no].m_FreeSymbole - 1 > 0)
    <3>1. /\ GiveBackMem(no) /\ CountFile(m_DataF[no]) /\ m_Que' = Append(m_Que, no)
          /\ m_DataF' = [m_DataF EXCEPT ![no] = ResetField(no)]
      BY <1>f, <1>3, <2>2 DEF FreeShared
    <3>2. ResetField(no) \in FieldType
      BY <1>f DEF ResetField, FieldType, MemTypes
    <3>3. m_DataF' \in [Fields -> FieldType]
      BY <1>f, <3>1, <3>2 DEF PoolTypeOK
    <3> QED
      BY <1>1, <3>1, <3>3, GiveBackType, CountType DEF PoolTypeOK
  <2> QED
    BY <2>1, <2>2
<1> QED
  BY <1>2, <1>3 DEF FreeAField

-----------------------------------------------------------------------------
(* The positions of a list thread, and the servers it pushes to. *)

GroupType == [type : {"MOD", "ALL"}, n : 1 .. MaxServers]

LEMMA LayoutType ==
  ASSUME NEW l \in Lists, NEW g \in 1 .. Len(Layout[l])
  PROVE  Layout[l][g] \in GroupType /\ g \in 1 .. MaxGroups
<1>1. Layout[l] \in Seq(GroupType) /\ Len(Layout[l]) \in 1 .. MaxGroups
  BY LayoutAssumption DEF GroupType
<1>2. Layout[l][g] \in GroupType
  BY <1>1, ElementOfSeq
<1> QED
  BY <1>1, <1>2, BoundsAssumption

LEMMA ServerIn ==
  ASSUME NEW l \in Lists, NEW g \in 1 .. Len(Layout[l]), NEW s \in 1 .. Layout[l][g].n
  PROVE  <<l, g, s>> \in Servers
<1>1. Layout[l][g].n \in 1 .. MaxServers /\ g \in 1 .. MaxGroups
  BY LayoutType DEF GroupType
<1>2. s \in 1 .. MaxServers
  BY <1>1, BoundsAssumption
<1>3. <<l, g, s>> \in Lists \X (1 .. MaxGroups) \X (1 .. MaxServers)
  BY <1>1, <1>2
<1>4. g <= Len(Layout[l]) /\ s <= Layout[l][g].n
  BY <1>1, BoundsAssumption
<1> QED
  BY <1>3, <1>4 DEF Servers

LEMMA RankType ==
  ASSUME NEW p \in Positions
  PROVE  Rank(p) \in Nat
<1> DEFINE first == (p.f - 1) * (MaxChunks + 2) + 2
<1>1. p.f - 1 \in Nat /\ MaxChunks + 2 \in Nat /\ p.k \in Nat /\ p.op \in Commands
  BY BoundsAssumption DEF Positions
<1>2. \A a, b \in Nat : a * b + 2 \in Nat
  OBVIOUS
<1>3. first \in Nat
  BY <1>1, <1>2
<1>4. first + MaxChunks + 1 \in Nat /\ first + MaxChunks + 2 \in Nat /\ first + p.k \in Nat
  BY <1>1, <1>3, BoundsAssumption
<1> HIDE DEF first
<1> QED
  BY <1>1, <1>3, <1>4 DEF Rank, Commands, first

LEMMA FollowingType ==
  ASSUME NEW p \in Positions, NEW type, NEW q \in Following(p, type)
  PROVE  q \in Positions
<1>1. p.f \in 1 .. NFiles /\ p.k \in 0 .. MaxChunks /\ p.op \in Commands
  BY DEF Positions
<1>2. \A op \in Commands, f \in 1 .. NFiles, k \in 0 .. MaxChunks : Pos(op, f, k) \in Positions
  BY DEF Pos, Positions
<1>3. 1 \in 1 .. NFiles /\ NFiles \in 1 .. NFiles /\ 0 \in 0 .. MaxChunks /\ 1 \in 0 .. MaxChunks
  BY BoundsAssumption
<1>4. CASE p.op = "START_LST"
  BY <1>2, <1>3, <1>4 DEF Following, Commands
<1>5. CASE p.op = "OPEN_FILE"
  BY <1>1, <1>2, <1>3, <1>5 DEF Following, Commands
<1>6. CASE p.op = "WRITE_FILE"
  <2>1. \A k \in {p.k + 1} \cap (1 .. MaxChunks) : k \in 0 .. MaxChunks
    BY BoundsAssumption
  <2> QED
    BY <1>1, <1>2, <1>3, <1>6, <2>1 DEF Following, Commands
<1>7. CASE p.op = "CLOSE_FILE" /\ p.f < NFiles
  <2>1. p.f + 1 \in 1 .. NFiles
    BY <1>1, <1>7, BoundsAssumption
  <2> QED
    BY <1>2, <1>3, <1>7, <2>1 DEF Following, Commands
<1>8. CASE p.op = "END_LST" \/ (p.op = "CLOSE_FILE" /\ ~ (p.f < NFiles))
  BY <1>2, <1>3, <1>8 DEF Following, Commands
<1> QED
  BY <1>1, <1>4, <1>5, <1>6, <1>7, <1>8 DEF Commands

-----------------------------------------------------------------------------
(* The states a thread can go to. *)

LEMMA ListUpdate ==
  ASSUME TypeInv, NEW l \in Lists, NEW r, GoodList(l, r), lst' = [lst EXCEPT ![l] = r]
  PROVE  lst' \in [Lists -> ListStates] /\ \A k \in Lists : GoodList(k, lst'[k])
<1>1. lst \in [Lists -> ListStates] /\ r \in ListStates
  BY DEF TypeInv, TypeOK, GoodList
<1>2. \A k \in Lists : lst'[k] = IF k = l THEN r ELSE lst[k]
  BY <1>1
<1>3. \A k \in Lists : GoodList(k, lst[k])
  BY DEF TypeInv
<1>4. lst' \in [Lists -> ListStates]
  BY <1>1
<1>5. \A k \in Lists : GoodList(k, lst'[k])
  BY <1>2, <1>3
<1> QED
  BY <1>4, <1>5

LEMMA ServerUpdate ==
  ASSUME TypeInv, NEW c \in Servers, NEW r, GoodServer(r), srv' = [srv EXCEPT ![c] = r]
  PROVE  srv' \in [Servers -> ServerStates] /\ \A d \in Servers : GoodServer(srv'[d])
<1>1. srv \in [Servers -> ServerStates] /\ r \in ServerStates
  BY DEF TypeInv, TypeOK, GoodServer
<1>2. \A d \in Servers : srv'[d] = IF d = c THEN r ELSE srv[d]
  BY <1>1
<1>3. \A d \in Servers : GoodServer(srv[d])
  BY DEF TypeInv
<1>4. srv' \in [Servers -> ServerStates]
  BY <1>1
<1>5. \A d \in Servers : GoodServer(srv'[d])
  BY <1>2, <1>3
<1> QED
  BY <1>4, <1>5

LEMMA GroupFacts ==
  ASSUME TypeInv, NEW l \in Lists
  PROVE  /\ lst[l] \in ListStates /\ GoodList(l, lst[l])
         /\ <<l, lst[l].g, lst[l].j>> \in Servers
         /\ GroupOf(l).n \in Nat \ {0} /\ lst[l].j \in 1 .. GroupOf(l).n
         /\ GroupOf(l).n = Layout[l][lst[l].g].n
<1>1. lst[l] \in ListStates /\ GoodList(l, lst[l])
  BY DEF TypeInv, TypeOK
<1>2. lst[l].g \in 1 .. Len(Layout[l]) /\ lst[l].j \in 1 .. Layout[l][lst[l].g].n
  BY <1>1 DEF GoodList
<1>3. Layout[l][lst[l].g].n \in 1 .. MaxServers
  BY <1>2, LayoutType DEF GroupType
<1>4. Layout[l][lst[l].g].n \in Nat \ {0}
  BY <1>3, BoundsAssumption
<1> QED
  BY <1>1, <1>2, <1>4, ServerIn DEF GroupOf

LEMMA NextServer ==
  ASSUME TypeInv, NEW l \in Lists, lst[l].j < GroupOf(l).n
  PROVE  lst[l].j + 1 \in 1 .. Layout[l][lst[l].g].n /\ lst[l].j + 1 \in Nat \ {0}
<1>1. /\ GroupOf(l).n \in Nat \ {0} /\ lst[l].j \in 1 .. GroupOf(l).n
      /\ GroupOf(l).n = Layout[l][lst[l].g].n
  BY GroupFacts
<1> QED
  BY <1>1

LEMMA ListAtGood ==
  ASSUME NEW l \in Lists, NEW g \in 1 .. Len(Layout[l]), NEW q \in Positions,
         NEW pc \in {"get", "drain", "verify", "done"}
  PROVE  GoodList(l, ListAt(pc, g, q))
<1>1. Layout[l][g].n \in 1 .. MaxServers /\ g \in 1 .. MaxGroups
  BY LayoutType DEF GroupType
<1>2. 1 \in 1 .. Layout[l][g].n
  BY <1>1, BoundsAssumption
<1> QED
  BY <1>1, <1>2 DEF GoodList, ListAt, ListStates

LEMMA PositionsAtEnds ==
  Pos("START_LST", 1, 0) \in Positions /\ Pos("END_LST", NFiles, 0) \in Positions
BY BoundsAssumption DEF Pos, Positions, Commands

LEMMA AfterGroupGood ==
  ASSUME TypeInv, NEW l \in Lists
  PROVE  GoodList(l, AfterGroup(l))
<1>0. Len(Layout[l]) \in Nat
  BY LayoutAssumption, BoundsAssumption
<1>1. lst[l].g \in 1 .. Len(Layout[l]) /\ lst[l].pos \in Positions
  BY GroupFacts DEF ListStates, GoodList
<1>2. CASE lst[l].g < Len(Layout[l])
  <2>1. lst[l].g + 1 \in 1 .. Len(Layout[l])
    BY <1>0, <1>1, <1>2
  <2> QED
    BY <1>2, <2>1, ListAtGood, PositionsAtEnds DEF AfterGroup, GroupStart
<1>3. CASE ~ (lst[l].g < Len(Layout[l]))
  BY <1>1, <1>3, ListAtGood DEF AfterGroup
<1> QED
  BY <1>2, <1>3

LEMMA AfterCommandGood ==
  ASSUME TypeInv, NEW l \in Lists, NEW r \in AfterCommand(l)
  PROVE  GoodList(l, r)
<1>1. lst[l].g \in 1 .. Len(Layout[l]) /\ lst[l].pos \in Positions
  BY GroupFacts DEF ListStates, GoodList
<1>2. CASE r = AfterGroup(l)
  BY <1>2, AfterGroupGood
<1>3. CASE r = ListAt("drain", lst[l].g, lst[l].pos)
  BY <1>1, <1>3, ListAtGood
<1>4. ASSUME NEW q \in Following(lst[l].pos, GroupOf(l).type), r = ListAt("get", lst[l].g, q)
      PROVE  GoodList(l, r)
  BY <1>1, <1>4, FollowingType, ListAtGood
<1> QED
  BY <1>2, <1>3, <1>4 DEF AfterCommand

-----------------------------------------------------------------------------
(* The steps of a list thread. *)

LEMMA FieldForType ==
  ASSUME TypeInv, NEW l \in Lists, m_Que # <<>>
  PROVE  FieldFor(l) \in FieldType /\ MemFor(l) \in MemTypes
<1>1. Head(m_Que) \in Fields
  BY HeadTailProperties DEF TypeInv, TypeOK, PoolTypeOK
<1> DEFINE old == m_DataF[Head(m_Que)]
           opno == IF lst[l].pos.op = "CLOSE_FILE" THEN old.m_OPNO ELSE l
           users == IF IsModWrite(l) THEN 1 ELSE GroupOf(l).n
<1>2. old \in FieldType
  BY <1>1 DEF TypeInv, TypeOK, PoolTypeOK
<1>3. opno \in Lists
  BY <1>2 DEF FieldType
<1>4. users \in Int
  <2>1. GroupOf(l).n \in Nat \ {0}
    BY GroupFacts
  <2> QED
    BY <2>1
<1>5. lst[l].pos \in Positions /\ lst[l].pos.op \in Commands /\ Rank(lst[l].pos) \in Nat
  BY GroupFacts, RankType DEF ListStates, Positions
<1>6. FieldFor(l) = [old EXCEPT !.m_OPNO = opno, !.m_OperateType = lst[l].pos.op,
                                !.m_FreeSymbole = users, !.m_Result = -1, !.cmd = Rank(lst[l].pos)]
  BY DEF FieldFor
<1> HIDE DEF opno, users, old
<1>7. FieldFor(l) \in FieldType
  BY <1>2, <1>3, <1>4, <1>5, <1>6 DEF FieldType
<1>8. MemFor(l) \in MemTypes
  BY DEF MemFor, MemTypes
<1> QED
  BY <1>7, <1>8

LEMMA WorkType ==
  ASSUME TypeInv, NEW l \in Lists, Work(l)
  PROVE  TypeInv'
<1>1. GetAFreeField(MemFor(l), FieldFor(l)) /\ m_Que # <<>>
  BY DEF Work, GetAFreeField
<1>2. PoolTypeOK' /\ Head(m_Que) \in Fields
  BY <1>1, FieldForType, GetType DEF TypeInv, TypeOK
<1>3. PICK j \in IF IsModWrite(l) THEN 1 .. GroupOf(l).n ELSE {1} :
        lst' = [lst EXCEPT ![l].pc = "push", ![l].no = Head(m_Que), ![l].j = j]
  BY DEF Work
<1> DEFINE r == [lst[l] EXCEPT !.pc = "push", !.no = Head(m_Que), !.j = j]
<1>4. GoodList(l, r)
  <2>1. j \in 1 .. Layout[l][lst[l].g].n
    <3>1. GroupOf(l).n \in Nat \ {0} /\ GroupOf(l).n = Layout[l][lst[l].g].n
      BY GroupFacts
    <3> QED
      BY <1>3, <3>1
  <2>2. j \in Nat \ {0}
    BY <2>1
  <2>3. r \in ListStates /\ r.g = lst[l].g /\ r.j = j /\ r.no = Head(m_Que)
    BY <1>2, <2>2, GroupFacts DEF ListStates
  <2> QED
    BY <1>2, <2>1, <2>3, GroupFacts DEF GoodList
<1>5. lst' = [lst EXCEPT ![l] = r]
  BY <1>3
<1> HIDE DEF r
<1>6. lst' \in [Lists -> ListStates] /\ \A k \in Lists : GoodList(k, lst'[k])
  BY <1>4, <1>5, ListUpdate
<1> QED
  BY <1>2, <1>6 DEF TypeInv, TypeOK, Work

LEMMA WorkNoMemType ==
  ASSUME TypeInv, NEW l \in Lists, WorkNoMem(l)
  PROVE  TypeInv'
<1>1. GetAFreeFieldFails(MemFor(l)) /\ m_Que # <<>>
  BY DEF WorkNoMem, GetAFreeFieldFails
<1>2. PoolTypeOK'
  BY <1>1, FieldForType, GetFailsType DEF TypeInv, TypeOK
<1> QED
  BY <1>2 DEF TypeInv, TypeOK, WorkNoMem

LEMMA PushType ==
  ASSUME TypeInv, NEW l \in Lists, Push(l)
  PROVE  TypeInv'
<1> DEFINE c == <<l, lst[l].g, lst[l].j>>
           blocks == IF lst[l].pos.op = "WRITE_FILE" THEN 1 ELSE 0
<1>1. /\ c \in Servers /\ lst[l].no \in Fields
      /\ m_pDataQue' = [m_pDataQue EXCEPT ![c] = Append(m_pDataQue[c], lst[l].no)]
      /\ sent' = [sent EXCEPT ![c] = sent[c] + blocks]
  BY GroupFacts DEF Push, GoodList
<1>2. m_pDataQue' \in [Servers -> Seq(Fields)]
  <2>1. Append(m_pDataQue[c], lst[l].no) \in Seq(Fields)
    BY <1>1, AppendProperties DEF TypeInv, TypeOK
  <2> QED
    BY <1>1, <2>1 DEF TypeInv, TypeOK
<1>3. sent' \in [Servers -> Nat]
  <2>1. sent[c] + blocks \in Nat
    BY <1>1 DEF TypeInv, TypeOK
  <2> HIDE DEF blocks
  <2> QED
    BY <1>1, <2>1 DEF TypeInv, TypeOK
<1>4. lst' \in [Lists -> ListStates] /\ \A k \in Lists : GoodList(k, lst'[k])
  <2>1. CASE lst[l].j < GroupOf(l).n /\ ~ IsModWrite(l)
    <3> DEFINE r == [lst[l] EXCEPT !.j = lst[l].j + 1]
    <3>1. lst' = [lst EXCEPT ![l] = r]
      BY <2>1 DEF Push
    <3>2. lst[l].j + 1 \in 1 .. Layout[l][lst[l].g].n
      BY <2>1, NextServer
    <3>3. lst[l].j + 1 \in Nat \ {0}
      BY <2>1, NextServer
    <3>4. GoodList(l, r)
      <4>1. /\ r \in ListStates /\ r.g = lst[l].g /\ r.j = lst[l].j + 1
            /\ r.pc = lst[l].pc /\ r.no = lst[l].no
        BY <3>3, GroupFacts DEF ListStates
      <4> QED
        BY <3>2, <4>1, GroupFacts DEF GoodList
    <3> HIDE DEF r
    <3> QED
      BY <3>1, <3>4, ListUpdate
  <2>2. CASE ~ (lst[l].j < GroupOf(l).n /\ ~ IsModWrite(l))
    <3>1. PICK r \in AfterCommand(l) : lst' = [lst EXCEPT ![l] = r]
      BY <2>2 DEF Push
    <3> QED
      BY <3>1, AfterCommandGood, ListUpdate
  <2> QED
    BY <2>1, <2>2
<1> QED
  BY <1>2, <1>3, <1>4 DEF TypeInv, TypeOK, Push, pool, PoolTypeOK

LEMMA DrainType ==
  ASSUME TypeInv, NEW l \in Lists, Drain(l)
  PROVE  TypeInv'
<1>1. lst' \in [Lists -> ListStates] /\ \A k \in Lists : GoodList(k, lst'[k])
  <2>1. CASE lst[l].j < GroupOf(l).n
    <3> DEFINE r == [lst[l] EXCEPT !.j = lst[l].j + 1]
    <3>1. lst' = [lst EXCEPT ![l] = r]
      BY <2>1 DEF Drain
    <3>2. lst[l].j + 1 \in 1 .. Layout[l][lst[l].g].n /\ lst[l].j + 1 \in Nat \ {0}
      BY <2>1, NextServer
    <3>3. /\ r \in ListStates /\ r.g = lst[l].g /\ r.j = lst[l].j + 1
          /\ r.pc = lst[l].pc /\ r.no = lst[l].no
      BY <3>2, GroupFacts DEF ListStates
    <3>4. GoodList(l, r)
      BY <3>2, <3>3, GroupFacts DEF GoodList
    <3> HIDE DEF r
    <3> QED
      BY <3>1, <3>4, ListUpdate
  <2>2. CASE ~ (lst[l].j < GroupOf(l).n)
    <3> DEFINE r == [lst[l] EXCEPT !.pc = "verify"]
    <3>1. lst' = [lst EXCEPT ![l] = r]
      BY <2>2 DEF Drain
    <3>2. /\ r \in ListStates /\ r.g = lst[l].g /\ r.j = lst[l].j
          /\ r.pc = "verify" /\ r.no = lst[l].no
      BY GroupFacts DEF ListStates
    <3>3. GoodList(l, r)
      BY <3>2, GroupFacts DEF GoodList
    <3> HIDE DEF r
    <3> QED
      BY <3>1, <3>3, ListUpdate
  <2> QED
    BY <2>1, <2>2
<1> QED
  BY <1>1 DEF TypeInv, TypeOK, Drain, pool, PoolTypeOK

LEMMA VerifyType ==
  ASSUME TypeInv, NEW l \in Lists, Verify(l)
  PROVE  TypeInv'
<1>1. CASE lst' = [lst EXCEPT ![l] = ListAt("get", lst[l].g, Pos("END_LST", NFiles, 0))]
           /\ UNCHANGED <<m_FileNum, fails>>
  <2>1. GoodList(l, ListAt("get", lst[l].g, Pos("END_LST", NFiles, 0)))
    BY GroupFacts, ListAtGood, PositionsAtEnds DEF GoodList
  <2>2. lst' \in [Lists -> ListStates] /\ \A k \in Lists : GoodList(k, lst'[k])
    BY <1>1, <2>1, ListUpdate
  <2> QED
    BY <1>1, <2>2 DEF TypeInv, TypeOK, Verify, PoolTypeOK
<1>2. CASE /\ fails < MaxFail /\ fails' = fails + 1
           /\ m_FileNum' = [m_FileNum EXCEPT ![l] = 0]
           /\ lst' = [lst EXCEPT ![l] = AfterGroup(l)]
  <2>1. lst' \in [Lists -> ListStates] /\ \A k \in Lists : GoodList(k, lst'[k])
    BY <1>2, AfterGroupGood, ListUpdate
  <2>2. fails' \in 0 .. MaxFail
    BY <1>2, BoundsAssumption DEF TypeInv, TypeOK
  <2>3. m_FileNum' \in [Lists -> Nat]
    BY <1>2 DEF TypeInv, TypeOK, PoolTypeOK
  <2> QED
    BY <2>1, <2>2, <2>3 DEF TypeInv, TypeOK, Verify, PoolTypeOK
<1> QED
  BY <1>1, <1>2 DEF Verify

-----------------------------------------------------------------------------
(* The steps of a server thread. *)

(* What a step of a server thread may leave alone. *)
LEMMA ServerFacts ==
  ASSUME TypeInv, NEW c \in Servers
  PROVE  srv[c] \in ServerStates /\ GoodServer(srv[c]) /\ remote[c] \in RemoteStates
BY DEF TypeInv, TypeOK

LEMMA QueueHead ==
  ASSUME TypeInv, NEW c \in Servers, m_pDataQue[c] # <<>>
  PROVE  /\ Head(m_pDataQue[c]) \in Fields
         /\ [m_pDataQue EXCEPT ![c] = Tail(@)] \in [Servers -> Seq(Fields)]
         /\ m_DataF[Head(m_pDataQue[c])] \in FieldType
<1>1. m_pDataQue[c] \in Seq(Fields)
  BY DEF TypeInv, TypeOK
<1>2. Head(m_pDataQue[c]) \in Fields /\ Tail(m_pDataQue[c]) \in Seq(Fields)
  BY <1>1, HeadTailProperties
<1> QED
  BY <1>2 DEF TypeInv, TypeOK, PoolTypeOK

LEMMA ServerAtGood ==
  ASSUME NEW pc \in {"pop", "more", "send"}, NEW no \in Fields, NEW op \in Commands, NEW cmd \in Nat,
         NEW own \in BOOLEAN, own => op = "WRITE_FILE", pc = "more" => own
  PROVE  GoodServer(ServerAt(pc, no, op, cmd, own))
BY BoundsAssumption DEF GoodServer, ServerAt, ServerStates

LEMMA IdleGood == GoodServer(Idle)
BY BoundsAssumption DEF GoodServer, Idle, ServerAt, ServerStates, Commands

LEMMA PopCommandType ==
  ASSUME TypeInv, NEW c \in Servers, PopCommand(c)
  PROVE  TypeInv'
<1> DEFINE no == Head(m_pDataQue[c])
           op == m_DataF[no].m_OperateType
           batched == op = "WRITE_FILE" /\ Group(c).type = "MOD"
<1>1. no \in Fields /\ m_DataF[no] \in FieldType /\ m_pDataQue' \in [Servers -> Seq(Fields)]
  BY QueueHead DEF PopCommand
<1>2. op \in Commands \cup {"NOT_OPR"} /\ m_DataF[no].cmd \in Nat
  BY <1>1 DEF FieldType
<1>4. CASE op = "NOT_OPR" /\ UNCHANGED <<pool, srv>>
  BY <1>1, <1>4 DEF TypeInv, TypeOK, PopCommand, pool, PoolTypeOK
<1>5. CASE /\ batched
           /\ FreeAField(no)
           /\ srv' = [srv EXCEPT ![c] = ServerAt("more", no, op, m_DataF[no].cmd, TRUE)]
  <2>1. PoolTypeOK'
    BY <1>1, <1>5, FreeType DEF TypeInv, TypeOK
  <2>2. op = "WRITE_FILE" /\ op \in Commands
    BY <1>5 DEF Commands
  <2>3. GoodServer(ServerAt("more", no, op, m_DataF[no].cmd, TRUE))
    BY <1>1, <1>2, <2>2, ServerAtGood
  <2>4. srv' \in [Servers -> ServerStates] /\ \A d \in Servers : GoodServer(srv'[d])
    BY <1>5, <2>3, ServerUpdate
  <2> QED
    BY <1>1, <2>1, <2>4 DEF TypeInv, TypeOK, PopCommand
<1>6. CASE /\ op # "NOT_OPR" /\ ~ batched
           /\ srv' = [srv EXCEPT ![c] = ServerAt("send", no, op, m_DataF[no].cmd, FALSE)]
           /\ UNCHANGED pool
  <2>1. GoodServer(ServerAt("send", no, op, m_DataF[no].cmd, FALSE))
    BY <1>1, <1>2, <1>6, ServerAtGood
  <2>2. srv' \in [Servers -> ServerStates] /\ \A d \in Servers : GoodServer(srv'[d])
    BY <1>6, <2>1, ServerUpdate
  <2> QED
    BY <1>1, <1>6, <2>2 DEF TypeInv, TypeOK, PopCommand, pool, PoolTypeOK
<1> QED
  BY <1>4, <1>5, <1>6 DEF PopCommand

LEMMA PopMoreType ==
  ASSUME TypeInv, NEW c \in Servers, PopMore(c)
  PROVE  TypeInv'
<1> DEFINE no == Head(m_pDataQue[c])
<1>0. /\ srv[c] \in ServerStates /\ srv[c].pc = "more" /\ srv[c].own /\ srv[c].op = "WRITE_FILE"
  BY ServerFacts DEF PopMore, GoodServer
<1>1. \A m \in Fields \cup {-1} : GoodServer([srv[c] EXCEPT !.pc = "send", !.no = m])
  <2>1. ASSUME NEW m \in Fields \cup {-1}
        PROVE  LET r == [srv[c] EXCEPT !.pc = "send", !.no = m] IN
                 r \in ServerStates /\ r.pc = "send" /\ r.own /\ r.op = "WRITE_FILE"
    BY <1>0 DEF ServerStates
  <2> QED
    BY <2>1 DEF GoodServer
<1>2. CASE /\ srv' = [srv EXCEPT ![c].pc = "send", ![c].no = -1]
           /\ UNCHANGED <<pool, m_pDataQue>>
  <2> DEFINE r == [srv[c] EXCEPT !.pc = "send", !.no = -1]
  <2>2. GoodServer(r) /\ srv' = [srv EXCEPT ![c] = r]
    BY <1>1, <1>2
  <2> HIDE DEF r
  <2>1. srv' \in [Servers -> ServerStates] /\ \A d \in Servers : GoodServer(srv'[d])
    BY <2>2, ServerUpdate
  <2> QED
    BY <1>2, <2>1 DEF TypeInv, TypeOK, PopMore, pool, PoolTypeOK
<1>3. ASSUME m_pDataQue[c] # <<>>, m_pDataQue' = [m_pDataQue EXCEPT ![c] = Tail(@)]
      PROVE  /\ no \in Fields /\ m_DataF[no] \in FieldType /\ m_pDataQue' \in [Servers -> Seq(Fields)]
             /\ m_DataF[no].cmd \in Nat
  BY <1>3, QueueHead DEF FieldType
<1>4. CASE /\ m_pDataQue[c] # <<>> /\ m_pDataQue' = [m_pDataQue EXCEPT ![c] = Tail(@)]
           /\ srv' = [srv EXCEPT ![c].pc = "send", ![c].no = no]
           /\ UNCHANGED pool
  <2> DEFINE r == [srv[c] EXCEPT !.pc = "send", !.no = no]
  <2>2. GoodServer(r) /\ srv' = [srv EXCEPT ![c] = r]
    BY <1>1, <1>3, <1>4
  <2> HIDE DEF r
  <2>1. srv' \in [Servers -> ServerStates] /\ \A d \in Servers : GoodServer(srv'[d])
    BY <2>2, ServerUpdate
  <2> QED
    BY <1>3, <1>4, <2>1 DEF TypeInv, TypeOK, PopMore, pool, PoolTypeOK
<1>5. CASE /\ m_pDataQue[c] # <<>> /\ m_pDataQue' = [m_pDataQue EXCEPT ![c] = Tail(@)]
           /\ FreeAField(no)
           /\ srv' = [srv EXCEPT ![c].pc = "check", ![c].no = no, ![c].n = @ + 1,
                                 ![c].cmd = m_DataF[no].cmd]
  <2>1. PoolTypeOK'
    BY <1>3, <1>5, FreeType DEF TypeInv, TypeOK
  <2> DEFINE r == [srv[c] EXCEPT !.pc = "check", !.no = no, !.n = srv[c].n + 1,
                                 !.cmd = m_DataF[no].cmd]
  <2>2. srv[c].n + 1 \in Nat
    BY <1>0 DEF ServerStates
  <2>3. /\ r \in ServerStates /\ r.pc = "check" /\ r.own /\ r.op = "WRITE_FILE" /\ r.no = no
    BY <1>0, <1>3, <1>5, <2>2 DEF ServerStates
  <2>4. GoodServer(r)
    BY <1>3, <1>5, <2>3 DEF GoodServer
  <2>5. srv' = [srv EXCEPT ![c] = r]
    BY <1>5
  <2> HIDE DEF r
  <2>6. srv' \in [Servers -> ServerStates] /\ \A d \in Servers : GoodServer(srv'[d])
    BY <2>4, <2>5, ServerUpdate
  <2> QED
    BY <1>3, <1>5, <2>1, <2>6 DEF TypeInv, TypeOK, PopMore
<1> QED
  BY <1>2, <1>4, <1>5 DEF PopMore

LEMMA CheckMoreType ==
  ASSUME TypeInv, NEW c \in Servers, CheckMore(c)
  PROVE  TypeInv'
<1>1. srv[c] \in ServerStates /\ srv[c].own /\ srv[c].op = "WRITE_FILE" /\ srv[c].no \in Fields
  BY ServerFacts DEF CheckMore, GoodServer
<1>2. PICK pc \in {"more", "send"} : srv' = [srv EXCEPT ![c].pc = pc]
  BY DEF CheckMore
<1> DEFINE r == [srv[c] EXCEPT !.pc = pc]
<1>3. r \in ServerStates /\ r.pc = pc /\ r.own /\ r.op = "WRITE_FILE" /\ r.no = srv[c].no
  BY <1>1 DEF ServerStates
<1>4. GoodServer(r)
  BY <1>1, <1>3 DEF GoodServer
<1>5. srv' = [srv EXCEPT ![c] = r]
  BY <1>2
<1> HIDE DEF r
<1>6. srv' \in [Servers -> ServerStates] /\ \A d \in Servers : GoodServer(srv'[d])
  BY <1>4, <1>5, ServerUpdate
<1> QED
  BY <1>6 DEF TypeInv, TypeOK, CheckMore, pool, PoolTypeOK

LEMMA ExecuteType ==
  ASSUME TypeInv, NEW c \in Servers, Execute(c)
  PROVE  remote' \in [Servers -> RemoteStates]
<1>1. srv[c] \in ServerStates /\ remote[c] \in RemoteStates /\ remote \in [Servers -> RemoteStates]
  BY DEF TypeInv, TypeOK
<1>2. srv[c].cmd \in Nat /\ srv[c].n \in Nat /\ remote[c].open \subseteq Int /\ remote[c].got \in Nat
  BY <1>1 DEF ServerStates, RemoteStates
<1>3. FileOf(srv[c].cmd) \in Int
  <2>1. srv[c].cmd - 2 \in Int /\ MaxChunks + 2 \in Nat \ {0}
    BY <1>2, BoundsAssumption
  <2>2. (srv[c].cmd - 2) \div (MaxChunks + 2) \in Int
    BY <2>1
  <2> QED
    BY <2>2 DEF FileOf
<1>4. remote[c].got + srv[c].n \in Nat
  BY <1>2
<1> DEFINE f == FileOf(srv[c].cmd)
           open == CASE srv[c].op = "OPEN_FILE" -> remote[c].open \cup {f}
                     [] srv[c].op = "CLOSE_FILE" -> remote[c].open \ {f}
                     [] OTHER -> remote[c].open
           got == IF srv[c].op = "WRITE_FILE" /\ f \in remote[c].open
                  THEN remote[c].got + srv[c].n ELSE remote[c].got
<1>5. open \in SUBSET Int /\ got \in Nat
  BY <1>2, <1>3, <1>4
<1>6. remote' = [remote EXCEPT ![c] = [rank |-> srv[c].cmd, open |-> open, got |-> got]]
  BY DEF Execute
<1> HIDE DEF open, got
<1>7. [rank |-> srv[c].cmd, open |-> open, got |-> got] \in RemoteStates
  BY <1>2, <1>5 DEF RemoteStates
<1> QED
  BY <1>1, <1>6, <1>7

LEMMA FailedType ==
  ASSUME TypeInv, NEW c \in Servers, Failed(c), srv[c].pc \in {"send", "test"}
  PROVE  /\ srv' \in [Servers -> ServerStates] /\ \A d \in Servers : GoodServer(srv'[d])
         /\ gaveUp' \in [Servers -> BOOLEAN]
<1>1. srv[c] \in ServerStates /\ GoodServer(srv[c])
  BY ServerFacts
<1>2. srv[c].own \/ srv[c].no \in Fields
  BY <1>1 DEF GoodServer
<1>3. CASE srv' = [srv EXCEPT ![c].pc = "send"] /\ UNCHANGED gaveUp
  <2> DEFINE r == [srv[c] EXCEPT !.pc = "send"]
  <2>1. /\ r \in ServerStates /\ r.pc = "send" /\ r.own = srv[c].own
        /\ r.op = srv[c].op /\ r.no = srv[c].no
    BY <1>1 DEF ServerStates
  <2>2. GoodServer(r)
    BY <1>1, <1>2, <2>1 DEF GoodServer
  <2> QED
    BY <1>3, <2>2, ServerUpdate DEF TypeInv, TypeOK
<1>4. CASE /\ srv[c].op # "WRITE_FILE" /\ srv[c].try + 1 < MaxTry
           /\ srv' = [srv EXCEPT ![c].pc = "send", ![c].try = @ + 1] /\ UNCHANGED gaveUp
  <2> DEFINE r == [srv[c] EXCEPT !.pc = "send", !.try = srv[c].try + 1]
  <2>0. srv[c].try \in 0 .. MaxTry - 1
    BY <1>1 DEF ServerStates
  <2>1. srv[c].try + 1 \in 0 .. MaxTry - 1
    BY <1>4, <2>0, BoundsAssumption
  <2>2. /\ r \in ServerStates /\ r.pc = "send" /\ r.own = srv[c].own
        /\ r.op = srv[c].op /\ r.no = srv[c].no
    BY <1>1, <2>1 DEF ServerStates
  <2>3. GoodServer(r)
    BY <1>1, <1>2, <2>2 DEF GoodServer
  <2>4. srv' = [srv EXCEPT ![c] = r]
    BY <1>4
  <2> HIDE DEF r
  <2> QED
    BY <1>4, <2>3, <2>4, ServerUpdate DEF TypeInv, TypeOK
<1>5. CASE /\ srv[c].op # "WRITE_FILE"
           /\ srv' = [srv EXCEPT ![c].pc = "free"] /\ gaveUp' = [gaveUp EXCEPT ![c] = TRUE]
  <2> DEFINE r == [srv[c] EXCEPT !.pc = "free"]
  <2>1. /\ r \in ServerStates /\ r.pc = "free" /\ r.own = srv[c].own
        /\ r.op = srv[c].op /\ r.no = srv[c].no
    BY <1>1 DEF ServerStates
  <2>2. ~ srv[c].own
    BY <1>1, <1>5 DEF GoodServer
  <2>3. GoodServer(r)
    BY <1>1, <1>2, <2>1, <2>2 DEF GoodServer
  <2>4. gaveUp' \in [Servers -> BOOLEAN]
    BY <1>5 DEF TypeInv, TypeOK
  <2> QED
    BY <1>5, <2>3, <2>4, ServerUpdate
<1> QED
  BY <1>3, <1>4, <1>5 DEF Failed

LEMMA SetResultType ==
  ASSUME TypeInv, NEW c \in Servers, NEW r \in {-1, 0}, SetResult(c, r),
         srv[c].pc = "send", ~ srv[c].own
  PROVE  /\ PoolTypeOK' /\ gaveUp' \in [Servers -> BOOLEAN]
         /\ srv' \in [Servers -> ServerStates] /\ \A d \in Servers : GoodServer(srv'[d])
<1>1. srv[c] \in ServerStates /\ srv[c].no \in Fields
  BY ServerFacts DEF GoodServer
<1>2. m_DataF[srv[c].no] \in FieldType
  BY <1>1 DEF TypeInv, TypeOK, PoolTypeOK
<1>3. [m_DataF[srv[c].no] EXCEPT !.m_Result = r] \in FieldType
  BY <1>2 DEF FieldType
<1>4. m_DataF' = [m_DataF EXCEPT ![srv[c].no] = [m_DataF[srv[c].no] EXCEPT !.m_Result = r]]
  BY DEF SetResult
<1>5. m_DataF' \in [Fields -> FieldType]
  BY <1>1, <1>3, <1>4 DEF TypeInv, TypeOK, PoolTypeOK
<1> DEFINE s == [srv[c] EXCEPT !.pc = "test"]
<1>6. s \in ServerStates /\ s.pc = "test" /\ ~ s.own /\ s.no = srv[c].no
  BY <1>1 DEF ServerStates
<1>7. GoodServer(s) /\ srv' = [srv EXCEPT ![c] = s]
  BY <1>1, <1>6 DEF GoodServer, SetResult
<1> HIDE DEF s
<1>8. srv' \in [Servers -> ServerStates] /\ \A d \in Servers : GoodServer(srv'[d])
  BY <1>7, ServerUpdate
<1> QED
  BY <1>5, <1>8 DEF TypeInv, TypeOK, PoolTypeOK, SetResult

LEMMA SendType ==
  ASSUME TypeInv, NEW c \in Servers, Send(c)
  PROVE  TypeInv'
<1>1. remote' \in [Servers -> RemoteStates]
  BY ExecuteType DEF Send
<1>2. CASE ~ AnswerFits(c) /\ Failed(c) /\ UNCHANGED pool
  <2>1. /\ srv' \in [Servers -> ServerStates] /\ \A d \in Servers : GoodServer(srv'[d])
        /\ gaveUp' \in [Servers -> BOOLEAN]
    BY <1>2, FailedType DEF Send
  <2> QED
    BY <1>1, <1>2, <2>1 DEF TypeInv, TypeOK, Send, pool, PoolTypeOK
<1>3. CASE srv[c].own /\ srv' = [srv EXCEPT ![c].pc = "after"] /\ UNCHANGED <<pool, gaveUp>>
  <2>1. srv[c] \in ServerStates /\ GoodServer(srv[c])
    BY ServerFacts
  <2> DEFINE r == [srv[c] EXCEPT !.pc = "after"]
  <2>2. r \in ServerStates /\ r.pc = "after" /\ r.own /\ r.op = srv[c].op /\ r.no = srv[c].no
    BY <1>3, <2>1 DEF ServerStates
  <2>3. GoodServer(r) /\ srv' = [srv EXCEPT ![c] = r]
    BY <1>3, <2>1, <2>2 DEF GoodServer
  <2> HIDE DEF r
  <2>4. srv' \in [Servers -> ServerStates] /\ \A d \in Servers : GoodServer(srv'[d])
    BY <2>3, ServerUpdate
  <2> QED
    BY <1>1, <1>3, <2>4 DEF TypeInv, TypeOK, Send, pool, PoolTypeOK
<1>4. CASE ~ srv[c].own /\ SetResult(c, 0)
  <2>1. /\ PoolTypeOK' /\ gaveUp' \in [Servers -> BOOLEAN]
        /\ srv' \in [Servers -> ServerStates] /\ \A d \in Servers : GoodServer(srv'[d])
    BY <1>4, SetResultType DEF Send
  <2> QED
    BY <1>1, <2>1 DEF TypeInv, TypeOK, Send
<1> QED
  BY <1>2, <1>3, <1>4 DEF Send

LEMMA SendLostType ==
  ASSUME TypeInv, NEW c \in Servers, SendLost(c)
  PROVE  TypeInv'
<1>1. remote' \in [Servers -> RemoteStates]
  BY ExecuteType DEF SendLost, TypeInv, TypeOK
<1>2. /\ srv' \in [Servers -> ServerStates] /\ \A d \in Servers : GoodServer(srv'[d])
      /\ gaveUp' \in [Servers -> BOOLEAN]
  BY FailedType DEF SendLost
<1>3. fails' \in 0 .. MaxFail
  BY BoundsAssumption DEF SendLost, TypeInv, TypeOK
<1> QED
  BY <1>1, <1>2, <1>3 DEF TypeInv, TypeOK, SendLost, pool, PoolTypeOK

LEMMA SendRefusedType ==
  ASSUME TypeInv, NEW c \in Servers, SendRefused(c)
  PROVE  TypeInv'
<1>1. /\ PoolTypeOK' /\ gaveUp' \in [Servers -> BOOLEAN]
      /\ srv' \in [Servers -> ServerStates] /\ \A d \in Servers : GoodServer(srv'[d])
  BY SetResultType DEF SendRefused
<1>2. fails' \in 0 .. MaxFail
  BY BoundsAssumption DEF SendRefused, TypeInv, TypeOK
<1> QED
  BY <1>1, <1>2 DEF TypeInv, TypeOK, SendRefused

LEMMA TestType ==
  ASSUME TypeInv, NEW c \in Servers, Test(c)
  PROVE  TypeInv'
<1>1. CASE srv' = [srv EXCEPT ![c].pc = "free"] /\ UNCHANGED gaveUp
  <2>1. srv[c] \in ServerStates /\ ~ srv[c].own /\ srv[c].no \in Fields
    BY ServerFacts DEF GoodServer, Test
  <2> DEFINE r == [srv[c] EXCEPT !.pc = "free"]
  <2>2. r \in ServerStates /\ r.pc = "free" /\ ~ r.own /\ r.no = srv[c].no
    BY <2>1 DEF ServerStates
  <2>3. GoodServer(r) /\ srv' = [srv EXCEPT ![c] = r]
    BY <1>1, <2>1, <2>2 DEF GoodServer
  <2> HIDE DEF r
  <2>4. srv' \in [Servers -> ServerStates] /\ \A d \in Servers : GoodServer(srv'[d])
    BY <2>3, ServerUpdate
  <2> QED
    BY <1>1, <2>4 DEF TypeInv, TypeOK, Test, pool, PoolTypeOK
<1>2. CASE Failed(c)
  <2>1. /\ srv' \in [Servers -> ServerStates] /\ \A d \in Servers : GoodServer(srv'[d])
        /\ gaveUp' \in [Servers -> BOOLEAN]
    BY <1>2, FailedType DEF Test
  <2> QED
    BY <2>1 DEF TypeInv, TypeOK, Test, pool, PoolTypeOK
<1> QED
  BY <1>1, <1>2 DEF Test

LEMMA FreeCommandType ==
  ASSUME TypeInv, NEW c \in Servers, FreeCommand(c)
  PROVE  TypeInv'
<1>1. srv[c].no \in Fields
  BY ServerFacts DEF GoodServer, FreeCommand
<1>2. PoolTypeOK'
  BY <1>1, FreeType DEF FreeCommand, TypeInv, TypeOK
<1>3. srv' \in [Servers -> ServerStates] /\ \A d \in Servers : GoodServer(srv'[d])
  BY IdleGood, ServerUpdate DEF FreeCommand
<1> QED
  BY <1>2, <1>3 DEF TypeInv, TypeOK, FreeCommand

LEMMA AfterBatchType ==
  ASSUME TypeInv, NEW c \in Servers, AfterBatch(c)
  PROVE  TypeInv'
<1> DEFINE no == srv[c].no
<1>1. CASE /\ no # -1
           /\ srv' = [srv EXCEPT ![c] = ServerAt("send", no, "CLOSE_FILE", m_DataF[no].cmd, FALSE)]
  <2>1. no \in Fields
    BY <1>1, ServerFacts DEF ServerStates
  <2>2. m_DataF[no].cmd \in Nat /\ "CLOSE_FILE" \in Commands
    BY <2>1 DEF TypeInv, TypeOK, PoolTypeOK, FieldType, Commands
  <2>3. GoodServer(ServerAt("send", no, "CLOSE_FILE", m_DataF[no].cmd, FALSE))
    BY <2>1, <2>2, ServerAtGood
  <2>4. srv' \in [Servers -> ServerStates] /\ \A d \in Servers : GoodServer(srv'[d])
    BY <1>1, <2>3, ServerUpdate
  <2> QED
    BY <2>4 DEF TypeInv, TypeOK, AfterBatch, pool, PoolTypeOK
<1>2. CASE srv' = [srv EXCEPT ![c] = Idle]
  <2>1. srv' \in [Servers -> ServerStates] /\ \A d \in Servers : GoodServer(srv'[d])
    BY <1>2, IdleGood, ServerUpdate
  <2> QED
    BY <2>1 DEF TypeInv, TypeOK, AfterBatch, pool, PoolTypeOK
<1> QED
  BY <1>1, <1>2 DEF AfterBatch

-----------------------------------------------------------------------------
LEMMA TypeInit == Init => TypeInv
<1> SUFFICES ASSUME Init PROVE TypeInv
  OBVIOUS
<1>1. PoolTypeOK
  <2>1. m_Que \in Seq(Fields)
    <3>1. m_Que = [i \in 1 .. QueSize |-> i - 1] /\ \A i \in 1 .. QueSize : i - 1 \in Fields
      BY QueSizeAssumption DEF Init, MainInitSys, Fields
    <3> QED
      BY <3>1, IsASeq, QueSizeAssumption
  <2>2. NewField \in FieldType
    <3>1. 0 \in Fields /\ 0 \in Lists
      BY ListsAssumption, QueSizeAssumption DEF Fields
    <3> QED
      BY <3>1 DEF NewField, FieldType, MemTypes
  <2> QED
    BY <2>1, <2>2 DEF Init, MainInitSys, PoolTypeOK
<1>2. \A l \in Lists : GoodList(l, GroupStart(1))
  <2>1. \A l \in Lists : 1 \in 1 .. Len(Layout[l])
    <3>1. \A l \in Lists : Len(Layout[l]) \in 1 .. MaxGroups
      BY LayoutAssumption
    <3>2. \A n \in 1 .. MaxGroups : 1 \in 1 .. n
      BY BoundsAssumption
    <3> QED
      BY <3>1, <3>2
  <2> QED
    BY <2>1, ListAtGood, PositionsAtEnds DEF GroupStart
<1>3. lst \in [Lists -> ListStates] /\ \A l \in Lists : GoodList(l, lst[l])
  BY <1>2 DEF Init, GoodList
<1>4. srv \in [Servers -> ServerStates] /\ \A c \in Servers : GoodServer(srv[c])
  BY IdleGood DEF Init, GoodServer
<1>5. remote \in [Servers -> RemoteStates] /\ m_pDataQue \in [Servers -> Seq(Fields)]
  <2>1. <<>> \in Seq(Fields)
    BY EmptySeq
  <2> QED
    BY <2>1 DEF Init, RemoteStates
<1>6. sent \in [Servers -> Nat] /\ gaveUp \in [Servers -> BOOLEAN] /\ fails \in 0 .. MaxFail
  BY BoundsAssumption DEF Init
<1>7. reread \in BOOLEAN
  BY DEF Init
<1> QED
  BY <1>1, <1>3, <1>4, <1>5, <1>6, <1>7 DEF TypeInv, TypeOK

LEMMA TypeStep == TypeInv /\ [Next]_vars => TypeInv'
<1> SUFFICES ASSUME TypeInv, [Next]_vars PROVE TypeInv'
  OBVIOUS
<1>1. ASSUME NEW l \in Lists, ListStep(l) PROVE TypeInv'
  BY <1>1, WorkType, WorkNoMemType, PushType, DrainType, VerifyType DEF ListStep
<1>2. ASSUME NEW c \in Servers, ServerStep(c) PROVE TypeInv'
  BY <1>2, PopCommandType, PopMoreType, CheckMoreType, SendType, TestType, FreeCommandType,
     AfterBatchType DEF ServerStep
<1>3. ASSUME NEW c \in Servers, SendLost(c) \/ SendRefused(c) PROVE TypeInv'
  BY <1>3, SendLostType, SendRefusedType
<1>4. CASE UNCHANGED vars
  BY <1>4 DEF TypeInv, TypeOK, PoolTypeOK, vars, pool
<1> QED
  BY <1>1, <1>2, <1>3, <1>4 DEF Next, Terminating

(* In every reachable state, for all numbers of lists, groups, servers, fields and failures, the
   variables have their types; in particular no thread indexes m_DataF out of its bounds, except with
   the -1 that AfterBatch tests for, and no command other than a WRITE is tried more than MaxTry
   times. *)
THEOREM TypeCorrect == Spec => []TypeOK
<1>1. TypeInv => TypeOK
  BY DEF TypeInv
<1> QED
  BY <1>1, TypeInit, TypeStep, PTL DEF Spec

-----------------------------------------------------------------------------
(* The data fields, for layouts whose groups are all of type ALL.  The thread of a server of a MOD group
   reads fields that it has freed (CheckMore, AfterBatch), and may free one a second time; where there is
   no such group, the counts are exact. *)

AllGroups == \A l \in Lists : \A g \in 1 .. Len(Layout[l]) : Layout[l][g].type = "ALL"

(* Server thread c has field no on its queue, or in hand. *)
Uses(c, no) == QueuedAt(c, no) \/ (srv[c].pc # "pop" /\ srv[c].no = no)

(* The list thread that filled field no has still to push it to server thread c. *)
Awaits(c, no) ==
  LET r == lst[c[1]] IN r.pc = "push" /\ r.no = no /\ r.g = c[2] /\ r.j <= c[3]

Users(no) == {c \in Servers : Uses(c, no) \/ Awaits(c, no)}

(* The fields that memory of kind m backs. *)
Backed(m) == {no \in Fields : ~ InQue(no) /\ m_DataF[no].m_PData /\ m_DataF[no].m_MemType = m}

(* A server thread has one command in hand, and it is in a field. *)
OneByOne ==
  /\ \A c \in Servers : ~ srv[c].own /\ srv[c].pc \in {"pop", "send", "test", "free"}
  /\ \A no \in Fields : m_DataF[no].m_MemType # "SUITE"

(* No index is twice in one place, or at a server thread in two ways. *)
OncePlaced ==
  /\ Injective(m_Que)
  /\ \A c \in Servers : Injective(m_pDataQue[c]) /\ (srv[c].pc # "pop" => ~ QueuedAt(c, srv[c].no))
  /\ \A c \in Servers, no \in Fields : ~ (Uses(c, no) /\ Awaits(c, no))

(* A field is free or has users, and m_FreeSymbole is how many. *)
Counted(no) ==
  IF InQue(no) THEN Users(no) = {}
  ELSE /\ Users(no) # {} /\ IsFiniteSet(Users(no))
       /\ m_DataF[no].m_FreeSymbole = Cardinality(Users(no))
       /\ m_DataF[no].m_OperateType \in Commands
       /\ m_DataF[no].m_NO = no

FieldInv ==
  /\ TypeInv
  /\ OneByOne
  /\ OncePlaced
  /\ \A no \in Fields : Counted(no)

MemInv == \A m \in {"BIG", "SUITE"} : memUsed[m] = Cardinality(Backed(m))

-----------------------------------------------------------------------------
(* What Head, Tail and Append do to a sequence whose elements differ. *)

Elem(s, e) == \E i \in DOMAIN s : s[i] = e

LEMMA TailElems ==
  ASSUME NEW S, NEW s \in Seq(S), s # <<>>, Injective(s)
  PROVE  /\ Injective(Tail(s)) /\ Elem(s, Head(s))
         /\ \A e : Elem(Tail(s), e) <=> Elem(s, e) /\ e # Head(s)
<1>1. /\ Tail(s) \in Seq(S) /\ Len(Tail(s)) = Len(s) - 1
      /\ \A i \in 1 .. Len(Tail(s)) : Tail(s)[i] = s[i + 1]
  BY HeadTailProperties
<1>2. DOMAIN s = 1 .. Len(s) /\ DOMAIN Tail(s) = 1 .. Len(s) - 1 /\ Len(s) \in Nat \ {0}
  BY <1>1, LenProperties, EmptySeq
<1>3. Head(s) = s[1] /\ 1 \in DOMAIN s
  BY <1>2
<1>4. \A i \in DOMAIN Tail(s) : Tail(s)[i] = s[i + 1] /\ i + 1 \in DOMAIN s /\ i + 1 # 1
  BY <1>1, <1>2
<1>5. \A i \in DOMAIN s : i # 1 => i - 1 \in DOMAIN Tail(s) /\ Tail(s)[i - 1] = s[i]
  BY <1>1, <1>2
<1>6. Injective(Tail(s))
  <2> SUFFICES ASSUME NEW i \in DOMAIN Tail(s), NEW k \in DOMAIN Tail(s), Tail(s)[i] = Tail(s)[k]
               PROVE  i = k
    BY DEF Injective
  <2>1. s[i + 1] = s[k + 1] /\ i + 1 \in DOMAIN s /\ k + 1 \in DOMAIN s
    BY <1>4
  <2>2. i + 1 = k + 1
    BY <2>1 DEF Injective
  <2> QED
    BY <1>2, <2>2
<1>7. Elem(s, Head(s))
  BY <1>3 DEF Elem
<1>8. ASSUME NEW e PROVE Elem(Tail(s), e) => Elem(s, e) /\ e # Head(s)
  BY <1>3, <1>4 DEF Elem, Injective
<1>9. ASSUME NEW e PROVE Elem(s, e) /\ e # Head(s) => Elem(Tail(s), e)
  BY <1>3, <1>5 DEF Elem
<1> QED
  BY <1>6, <1>7, <1>8, <1>9

LEMMA AppendElems ==
  ASSUME NEW S, NEW s \in Seq(S), NEW x \in S
  PROVE  /\ \A e : Elem(Append(s, x), e) <=> Elem(s, e) \/ e = x
         /\ Injective(s) /\ ~ Elem(s, x) => Injective(Append(s, x))
<1> DEFINE t == Append(s, x)
<1>1. /\ t \in Seq(S) /\ Len(t) = Len(s) + 1 /\ t[Len(s) + 1] = x
      /\ \A i \in 1 .. Len(s) : t[i] = s[i]
  BY AppendProperties
<1>2. DOMAIN s = 1 .. Len(s) /\ DOMAIN t = 1 .. Len(s) + 1 /\ Len(s) \in Nat
  BY <1>1, LenProperties
<1> HIDE DEF t
<1>3. \A i \in DOMAIN t : IF i = Len(s) + 1 THEN t[i] = x ELSE i \in DOMAIN s /\ t[i] = s[i]
  BY <1>1, <1>2
<1>4. \A i \in DOMAIN s : i \in DOMAIN t /\ t[i] = s[i]
  BY <1>1, <1>2
<1>5. Len(s) + 1 \in DOMAIN t
  BY <1>2
<1>6. \A e : Elem(t, e) <=> Elem(s, e) \/ e = x
  BY <1>1, <1>3, <1>4, <1>5 DEF Elem
<1>7. ASSUME Injective(s), ~ Elem(s, x) PROVE Injective(t)
  BY <1>3, <1>7 DEF Elem, Injective
<1> QED
  BY <1>6, <1>7 DEF t

LEMMA InQueElem == \A no : InQue(no) <=> Elem(m_Que, no)
BY DEF InQue, Elem

LEMMA QueuedElem == \A c, no : QueuedAt(c, no) <=> Elem(m_pDataQue[c], no)
BY DEF QueuedAt, Elem

-----------------------------------------------------------------------------
LEMMA ServerParts ==
  ASSUME NEW c \in Servers
  PROVE  /\ c = <<c[1], c[2], c[3]>> /\ c[1] \in Lists /\ c[2] \in 1 .. Len(Layout[c[1]])
         /\ c[3] \in 1 .. Layout[c[1]][c[2]].n /\ c[3] \in Nat \ {0}
<1>1. /\ c \in Lists \X (1 .. MaxGroups) \X (1 .. MaxServers)
      /\ c[2] <= Len(Layout[c[1]]) /\ c[3] <= Layout[c[1]][c[2]].n
  BY DEF Servers
<1>2. c = <<c[1], c[2], c[3]>> /\ c[1] \in Lists /\ c[2] \in 1 .. MaxGroups /\ c[3] \in 1 .. MaxServers
  BY <1>1
<1>3. Len(Layout[c[1]]) \in 1 .. MaxGroups
  BY <1>2, LayoutAssumption
<1>4. c[2] \in 1 .. Len(Layout[c[1]])
  BY <1>1, <1>2, <1>3, BoundsAssumption
<1>5. Layout[c[1]][c[2]].n \in 1 .. MaxServers
  BY <1>2, <1>4, LayoutType DEF GroupType
<1> QED
  BY <1>1, <1>2, <1>4, <1>5, BoundsAssumption

(* The list thread of an ALL group gives every command to every server, and takes no SUITE memory. *)
LEMMA NoModWrite ==
  ASSUME AllGroups, TypeInv, NEW l \in Lists
  PROVE  GroupOf(l).type = "ALL" /\ ~ IsModWrite(l) /\ MemFor(l) \in {"NOT_NEED_MEM", "BIG"}
<1>1. GroupOf(l).type = "ALL"
  BY GroupFacts DEF AllGroups, GoodList, GroupOf
<1> QED
  BY <1>1 DEF IsModWrite, MemFor

(* Pending, as the list threads hold it, is what the server threads await. *)
LEMMA PendingAwaits ==
  ASSUME AllGroups
  PROVE  TypeInv => \A no \in Fields : Pending(no) = {c \in Servers : Awaits(c, no)}
<1> SUFFICES ASSUME TypeInv, NEW no \in Fields
             PROVE  Pending(no) = {c \in Servers : Awaits(c, no)}
  OBVIOUS
<1>1. ASSUME NEW c \in Pending(no) PROVE c \in Servers /\ Awaits(c, no)
  <2>1. PICK l \in Lists : lst[l].pc = "push" /\ lst[l].no = no /\ c \in StillToPush(l)
    BY DEF Pending
  <2>2. PICK s \in lst[l].j .. GroupOf(l).n : c = <<l, lst[l].g, s>>
    BY <2>1, NoModWrite DEF StillToPush
  <2>3. /\ lst[l].g \in 1 .. Len(Layout[l]) /\ lst[l].j \in 1 .. GroupOf(l).n
        /\ GroupOf(l).n \in Nat /\ GroupOf(l).n = Layout[l][lst[l].g].n
    BY GroupFacts DEF GoodList
  <2>4. s \in 1 .. Layout[l][lst[l].g].n /\ lst[l].j <= s
    BY <2>3
  <2>5. c \in Servers
    BY <2>2, <2>3, <2>4, ServerIn
  <2> QED
    BY <2>1, <2>2, <2>4, <2>5 DEF Awaits
<1>2. ASSUME NEW c \in Servers, Awaits(c, no) PROVE c \in Pending(no)
  <2> DEFINE l == c[1]
  <2>1. l \in Lists /\ c = <<l, c[2], c[3]>> /\ c[3] \in Nat /\ c[3] <= Layout[l][c[2]].n
    BY ServerParts
  <2>2. lst[l].pc = "push" /\ lst[l].no = no /\ lst[l].g = c[2] /\ lst[l].j <= c[3]
    BY <1>2 DEF Awaits
  <2> HIDE DEF l
  <2>3. GroupOf(l) = Layout[l][c[2]] /\ lst[l].j \in Nat /\ GroupOf(l).n \in Nat
    <3>1. lst[l].j \in 1 .. GroupOf(l).n /\ GroupOf(l).n \in Nat \ {0}
      BY <2>1, GroupFacts
    <3> QED
      BY <2>2, <3>1 DEF GroupOf
  <2>4. c[3] \in lst[l].j .. GroupOf(l).n
    BY <2>1, <2>2, <2>3
  <2>5. c \in StillToPush(l)
    BY <2>1, <2>2, <2>4, NoModWrite DEF StillToPush
  <2> QED
    BY <2>1, <2>2, <2>5 DEF Pending
<1> QED
  BY <1>1, <1>2

-----------------------------------------------------------------------------
(* A step that hands no field over, out or back. *)

SameUse ==
  /\ \A c \in Servers, no \in Fields : (Uses(c, no) <=> Uses(c, no)') /\ (Awaits(c, no) <=> Awaits(c, no)')

LEMMA SameUsers ==
  ASSUME SameUse, NEW no \in Fields
  PROVE  Users(no)' = Users(no)
BY DEF SameUse, Users

LEMMA CountKept ==
  ASSUME NEW no \in Fields, Counted(no), InQue(no) <=> InQue(no)', Users(no)' = Users(no),
         ~ InQue(no) => /\ m_DataF'[no].m_FreeSymbole = m_DataF[no].m_FreeSymbole
                        /\ m_DataF'[no].m_OperateType = m_DataF[no].m_OperateType
                        /\ m_DataF'[no].m_NO = m_DataF[no].m_NO
  PROVE  Counted(no)'
BY DEF Counted

LEMMA MemKept ==
  ASSUME MemInv, UNCHANGED memUsed,
         \A no \in Fields :
           /\ InQue(no) <=> InQue(no)'
           /\ ~ InQue(no) => /\ m_DataF'[no].m_PData = m_DataF[no].m_PData
                             /\ m_DataF'[no].m_MemType = m_DataF[no].m_MemType
  PROVE  MemInv'
<1>1. \A m \in {"BIG", "SUITE"} : Backed(m)' = Backed(m)
  BY DEF Backed
<1> QED
  BY <1>1 DEF MemInv

(* The thread of server c goes on with the command in its hand; of a field only m_Result changes. *)
LEMMA InHandKept ==
  ASSUME FieldInv, NEW c \in Servers, NEW r, srv' = [srv EXCEPT ![c] = r],
         ~ r.own, r.pc \in {"send", "test", "free"}, r.no = srv[c].no, srv[c].pc # "pop",
         UNCHANGED <<m_Que, memUsed, lst, m_pDataQue>>,
         \A no \in Fields : /\ m_DataF'[no].m_FreeSymbole = m_DataF[no].m_FreeSymbole
                            /\ m_DataF'[no].m_OperateType = m_DataF[no].m_OperateType
                            /\ m_DataF'[no].m_NO = m_DataF[no].m_NO
                            /\ m_DataF'[no].m_PData = m_DataF[no].m_PData
                            /\ m_DataF'[no].m_MemType = m_DataF[no].m_MemType
  PROVE  OneByOne' /\ OncePlaced' /\ (\A no \in Fields : Counted(no)') /\ (MemInv => MemInv')
<1>1. \A d \in Servers : srv'[d] = IF d = c THEN r ELSE srv[d]
  BY DEF FieldInv, TypeInv, TypeOK
<1>2. SameUse
  BY <1>1 DEF SameUse, Uses, QueuedAt, Awaits
<1>3. \A no \in Fields : InQue(no) <=> InQue(no)'
  BY DEF InQue
<1>4. OneByOne'
  BY <1>1 DEF FieldInv, OneByOne
<1>5. OncePlaced'
  BY <1>1, <1>2 DEF FieldInv, OncePlaced, SameUse, QueuedAt
<1>6. \A no \in Fields : Counted(no)'
  BY <1>2, <1>3, SameUsers, CountKept DEF FieldInv
<1>7. MemInv => MemInv'
  BY <1>3, MemKept
<1> QED
  BY <1>4, <1>5, <1>6, <1>7

-----------------------------------------------------------------------------
(* The steps of a server thread. *)

KeepsFields == OneByOne' /\ OncePlaced' /\ (\A no \in Fields : Counted(no)') /\ (MemInv => MemInv')

(* Of the fields only m_Result changes. *)
SameFields ==
  \A no \in Fields : /\ m_DataF'[no].m_FreeSymbole = m_DataF[no].m_FreeSymbole
                     /\ m_DataF'[no].m_OperateType = m_DataF[no].m_OperateType
                     /\ m_DataF'[no].m_NO = m_DataF[no].m_NO
                     /\ m_DataF'[no].m_PData = m_DataF[no].m_PData
                     /\ m_DataF'[no].m_MemType = m_DataF[no].m_MemType
                     /\ m_DataF'[no].cmd = m_DataF[no].cmd

(* The thread of server c still has the command in hand that it had. *)
StillInHand(c) ==
  \E r : /\ srv' = [srv EXCEPT ![c] = r]
         /\ ~ r.own /\ r.pc \in {"send", "test", "free"}
         /\ r.no = srv[c].no /\ r.op = srv[c].op /\ r.cmd = srv[c].cmd

Sends(c) == Send(c) \/ SendLost(c) \/ SendRefused(c) \/ Test(c)

LEMMA SendsEffect ==
  ASSUME FieldInv, NEW c \in Servers, Sends(c)
  PROVE  /\ StillInHand(c) /\ SameFields /\ srv[c].pc \in {"send", "test"} /\ srv[c].no \in Fields
         /\ UNCHANGED <<m_Que, memUsed, lst, m_pDataQue>>
<1>1. /\ srv[c] \in ServerStates /\ srv[c].pc \in {"send", "test"} /\ ~ srv[c].own
      /\ UNCHANGED <<lst, m_pDataQue>>
  BY ServerFacts DEF FieldInv, OneByOne, Sends, Send, SendLost, SendRefused, Test
<1>2. srv[c].no \in Fields
  BY <1>1, ServerFacts DEF FieldInv, GoodServer
<1>3. ASSUME NEW pc \in {"send", "test", "free"}, NEW k, srv' = [srv EXCEPT ![c] = [srv[c] EXCEPT !.pc = pc, !.try = k]]
      PROVE  StillInHand(c)
  <2> DEFINE r == [srv[c] EXCEPT !.pc = pc, !.try = k]
  <2>1. ~ r.own /\ r.pc = pc /\ r.no = srv[c].no /\ r.op = srv[c].op /\ r.cmd = srv[c].cmd
    BY <1>1 DEF ServerStates
  <2>2. srv' = [srv EXCEPT ![c] = r]
    BY <1>3
  <2> HIDE DEF r
  <2> QED
    BY <2>1, <2>2 DEF StillInHand
<1>4. ASSUME NEW pc \in {"send", "test", "free"}, srv' = [srv EXCEPT ![c].pc = pc]
      PROVE  StillInHand(c)
  <2>1. [srv[c] EXCEPT !.pc = pc] = [srv[c] EXCEPT !.pc = pc, !.try = srv[c].try]
    BY <1>1 DEF ServerStates
  <2> QED
    BY <1>3, <1>4, <2>1
<1>5. ASSUME Failed(c) PROVE StillInHand(c)
  BY <1>3, <1>4, <1>5 DEF Failed
<1>6. UNCHANGED pool => SameFields /\ UNCHANGED <<m_Que, memUsed>>
  BY DEF SameFields, pool
<1>7. ASSUME NEW v, SetResult(c, v)
      PROVE  StillInHand(c) /\ SameFields /\ UNCHANGED <<m_Que, memUsed>>
  <2>1. m_DataF[srv[c].no] \in FieldType /\ m_DataF \in [Fields -> FieldType]
    BY <1>2 DEF FieldInv, TypeInv, TypeOK, PoolTypeOK
  <2>2. m_DataF' = [m_DataF EXCEPT ![srv[c].no].m_Result = v]
    BY <1>7 DEF SetResult
  <2>3. SameFields
    BY <1>2, <2>1, <2>2 DEF SameFields, FieldType
  <2> QED
    BY <1>4, <1>7, <2>3 DEF SetResult
<1>8. CASE Send(c)
  BY <1>1, <1>2, <1>5, <1>6, <1>7, <1>8 DEF Send
<1>9. CASE SendLost(c)
  BY <1>1, <1>2, <1>5, <1>6, <1>9 DEF SendLost
<1>10. CASE SendRefused(c)
  BY <1>1, <1>2, <1>7, <1>10 DEF SendRefused
<1>11. CASE Test(c)
  BY <1>1, <1>2, <1>4, <1>5, <1>6, <1>11 DEF Test
<1> QED
  BY <1>8, <1>9, <1>10, <1>11 DEF Sends

LEMMA SendsFields ==
  ASSUME FieldInv, NEW c \in Servers, Sends(c)
  PROVE  KeepsFields
<1>1. /\ StillInHand(c) /\ SameFields /\ srv[c].pc \in {"send", "test"}
      /\ UNCHANGED <<m_Que, memUsed, lst, m_pDataQue>>
  BY SendsEffect
<1>2. PICK r : /\ srv' = [srv EXCEPT ![c] = r] /\ ~ r.own /\ r.pc \in {"send", "test", "free"}
               /\ r.no = srv[c].no
  BY <1>1 DEF StillInHand
<1> QED
  BY <1>1, <1>2, InHandKept DEF SameFields, KeepsFields

(* Pop of a field that has users: its command is one of Commands, and it goes into the thread's hand. *)
LEMMA PopEffect ==
  ASSUME AllGroups, FieldInv, NEW c \in Servers, PopCommand(c)
  PROVE  LET no == Head(m_pDataQue[c]) IN
           /\ no \in Fields /\ ~ InQue(no) /\ m_pDataQue[c] # <<>> /\ srv[c].pc = "pop"
           /\ srv' = [srv EXCEPT ![c] = ServerAt("send", no, m_DataF[no].m_OperateType,
                                                 m_DataF[no].cmd, FALSE)]
           /\ m_pDataQue' = [m_pDataQue EXCEPT ![c] = Tail(@)]
           /\ UNCHANGED <<pool, lst, remote>>
<1> DEFINE no == Head(m_pDataQue[c])
<1>1. m_pDataQue[c] # <<>> /\ m_pDataQue[c] \in Seq(Fields) /\ no \in Fields /\ srv[c].pc = "pop"
  BY QueueHead DEF PopCommand, FieldInv, TypeInv, TypeOK
<1>2. QueuedAt(c, no)
  BY <1>1, TailElems, QueuedElem DEF FieldInv, OncePlaced
<1>3. ~ InQue(no) /\ m_DataF[no].m_OperateType \in Commands
  BY <1>1, <1>2 DEF FieldInv, Counted, Users, Uses
<1>4. m_DataF[no].m_OperateType # "NOT_OPR"
  BY <1>3 DEF Commands
<1>5. Group(c).type = "ALL"
  BY ServerParts DEF AllGroups, Group
<1> QED
  BY <1>1, <1>3, <1>4, <1>5 DEF PopCommand

LEMMA PopFields ==
  ASSUME AllGroups, FieldInv, NEW c \in Servers, PopCommand(c)
  PROVE  KeepsFields
<1> DEFINE no == Head(m_pDataQue[c])
           r == ServerAt("send", no, m_DataF[no].m_OperateType, m_DataF[no].cmd, FALSE)
<1>1. /\ m_pDataQue[c] # <<>> /\ srv[c].pc = "pop" /\ srv' = [srv EXCEPT ![c] = r]
      /\ m_pDataQue' = [m_pDataQue EXCEPT ![c] = Tail(@)] /\ UNCHANGED <<pool, lst>>
      /\ no \in Fields
  BY PopEffect
<1>2. r.pc = "send" /\ r.no = no /\ ~ r.own
  BY DEF ServerAt
<1> HIDE DEF r
<1>3. \A d \in Servers : /\ srv'[d] = IF d = c THEN r ELSE srv[d]
                         /\ m_pDataQue'[d] = IF d = c THEN Tail(m_pDataQue[c]) ELSE m_pDataQue[d]
  BY <1>1 DEF FieldInv, TypeInv, TypeOK
<1>4. m_pDataQue[c] \in Seq(Fields) /\ Injective(m_pDataQue[c])
  BY DEF FieldInv, OncePlaced, TypeInv, TypeOK
<1>5. /\ Injective(Tail(m_pDataQue[c])) /\ Elem(m_pDataQue[c], no)
      /\ \A e : Elem(Tail(m_pDataQue[c]), e) <=> Elem(m_pDataQue[c], e) /\ e # no
  BY <1>1, <1>4, TailElems
<1>6. \A d \in Servers : /\ Injective(m_pDataQue'[d])
                         /\ \A e : QueuedAt(d, e)' <=> QueuedAt(d, e) /\ ~ (d = c /\ e = no)
  <2>1. \A d \in Servers : \A e : QueuedAt(d, e)' <=> Elem(m_pDataQue'[d], e)
    BY DEF QueuedAt, Elem
  <2>2. \A d \in Servers : Injective(m_pDataQue[d])
    BY DEF FieldInv, OncePlaced
  <2> QED
    BY <1>3, <1>5, <2>1, <2>2, QueuedElem
<1>7. QueuedAt(c, no)
  BY <1>5, QueuedElem
<1>8. SameUse
  BY <1>1, <1>2, <1>3, <1>6, <1>7 DEF SameUse, Uses, Awaits
<1>9. \A e \in Fields : InQue(e) <=> InQue(e)'
  BY <1>1 DEF InQue, pool
<1>10. OneByOne'
  BY <1>1, <1>2, <1>3 DEF FieldInv, OneByOne, pool
<1>11. OncePlaced'
  BY <1>1, <1>2, <1>3, <1>6, <1>8 DEF FieldInv, OncePlaced, SameUse, pool
<1>12. \A e \in Fields : Counted(e)'
  BY <1>1, <1>8, <1>9, SameUsers, CountKept DEF FieldInv, pool
<1>13. MemInv => MemInv'
  BY <1>1, <1>9, MemKept DEF pool
<1> QED
  BY <1>10, <1>11, <1>12, <1>13 DEF KeepsFields

(* Whoever lets go of a shared field takes itself off its users, and the last one frees it. *)
LEMMA FreeSharedEffect ==
  ASSUME FieldInv, NEW c \in Servers, NEW no \in Fields, c \in Users(no), FreeAField(no),
         Users(no)' = Users(no) \ {c}
  PROVE  /\ ~ InQue(no) /\ Counted(no)'
         /\ \/ /\ UNCHANGED <<m_Que, memUsed>>
               /\ m_DataF' = [m_DataF EXCEPT ![no].m_FreeSymbole = m_DataF[no].m_FreeSymbole - 1]
            \/ /\ m_Que' = Append(m_Que, no) /\ GiveBackMem(no)
               /\ m_DataF' = [m_DataF EXCEPT ![no] = ResetField(no)]
               /\ Users(no) = {c}
<1>1. ~ InQue(no) /\ IsFiniteSet(Users(no)) /\ m_DataF[no].m_FreeSymbole = Cardinality(Users(no))
  BY DEF FieldInv, Counted
<1>2. /\ IsFiniteSet(Users(no) \ {c}) /\ Cardinality(Users(no) \ {c}) = Cardinality(Users(no)) - 1
      /\ Cardinality(Users(no)) \in Nat /\ Cardinality(Users(no) \ {c}) \in Nat
  BY <1>1, FS_RemoveElement, FS_CardinalityType
<1>3. FreeShared(no)
  BY DEF FreeAField, FieldInv, OneByOne
<1>4. m_DataF \in [Fields -> FieldType] /\ m_DataF[no] \in FieldType /\ m_Que \in Seq(Fields)
  BY DEF FieldInv, TypeInv, TypeOK, PoolTypeOK
<1>5. CASE Cardinality(Users(no)) - 1 > 0
  <2>1. /\ m_DataF' = [m_DataF EXCEPT ![no].m_FreeSymbole = m_DataF[no].m_FreeSymbole - 1]
        /\ UNCHANGED <<m_Que, memUsed>>
    BY <1>1, <1>2, <1>3, <1>5 DEF FreeShared
  <2>2. /\ m_DataF'[no].m_FreeSymbole = m_DataF[no].m_FreeSymbole - 1
        /\ m_DataF'[no].m_OperateType = m_DataF[no].m_OperateType
        /\ m_DataF'[no].m_NO = m_DataF[no].m_NO
    BY <1>4, <2>1 DEF FieldType
  <2>3. ~ InQue(no)'
    BY <1>1, <2>1 DEF InQue
  <2>4. Users(no) \ {c} # {}
    BY <1>2, <1>5, FS_EmptySet
  <2>5. Counted(no)'
    BY <1>1, <1>2, <2>2, <2>3, <2>4 DEF Counted, FieldInv
  <2> QED
    BY <1>1, <2>1, <2>5
<1>6. CASE ~ (Cardinality(Users(no)) - 1 > 0)
  <2>1. /\ m_Que' = Append(m_Que, no) /\ GiveBackMem(no)
        /\ m_DataF' = [m_DataF EXCEPT ![no] = ResetField(no)]
    BY <1>1, <1>2, <1>3, <1>6 DEF FreeShared
  <2>2. Users(no) \ {c} = {}
    BY <1>2, <1>6, FS_EmptySet
  <2>3. InQue(no)'
    BY <1>4, <2>1, AppendElems DEF InQue, Elem
  <2>4. Counted(no)'
    BY <2>2, <2>3 DEF Counted
  <2> QED
    BY <1>1, <2>1, <2>2, <2>4
<1> QED
  BY <1>5, <1>6

(* The memory in use after a field has been let go of, by its last user or not. *)
LEMMA FreeMem ==
  ASSUME TypeInv, MemInv, NEW no \in Fields, ~ InQue(no),
         m_Que' = Append(m_Que, no), GiveBackMem(no),
         m_DataF' = [m_DataF EXCEPT ![no] = ResetField(no)]
  PROVE  MemInv'
<1>1. /\ m_DataF \in [Fields -> FieldType] /\ m_DataF[no] \in FieldType /\ m_Que \in Seq(Fields)
      /\ memUsed \in [{"BIG", "SUITE"} -> Int]
  BY DEF TypeInv, TypeOK, PoolTypeOK
<1>2. \A e \in Fields : InQue(e)' <=> InQue(e) \/ e = no
  BY <1>1, AppendElems DEF InQue, Elem
<1>3. \A e \in Fields : e # no => m_DataF'[e] = m_DataF[e]
  BY <1>1
<1>4. ASSUME NEW m \in {"BIG", "SUITE"} PROVE memUsed'[m] = Cardinality(Backed(m)')
  <2>1. Backed(m)' = Backed(m) \ {no}
    BY <1>2, <1>3 DEF Backed
  <2>2. IsFiniteSet(Backed(m))
    <3>1. IsFiniteSet(Fields)
      BY QueSizeAssumption, FS_Interval DEF Fields
    <3> QED
      BY <3>1, FS_Subset DEF Backed
  <2>3. no \in Backed(m) <=> m_DataF[no].m_PData /\ m_DataF[no].m_MemType = m
    BY DEF Backed
  <2>4. memUsed'[m] = IF no \in Backed(m) THEN memUsed[m] - 1 ELSE memUsed[m]
    BY <1>1, <2>3 DEF GiveBackMem, FieldType, MemTypes
  <2>5. Cardinality(Backed(m) \ {no}) = IF no \in Backed(m) THEN Cardinality(Backed(m)) - 1 ELSE Cardinality(Backed(m))
    BY <2>2, FS_RemoveElement
  <2>6. memUsed[m] = Cardinality(Backed(m))
    BY DEF MemInv
  <2> QED
    BY <2>1, <2>4, <2>5, <2>6
<1> QED
  BY <1>4 DEF MemInv

LEMMA FreeCommandFields ==
  ASSUME FieldInv, NEW c \in Servers, FreeCommand(c)
  PROVE  KeepsFields
<1>0. PICK no \in Fields : no = srv[c].no
  BY ServerFacts DEF FreeCommand, FieldInv, OneByOne, GoodServer
<1>1. /\ srv[c].pc = "free" /\ FreeAField(no) /\ srv' = [srv EXCEPT ![c] = Idle]
      /\ UNCHANGED <<lst, m_pDataQue>>
  BY <1>0 DEF FreeCommand
<1>2. \A d \in Servers : srv'[d] = IF d = c THEN Idle ELSE srv[d]
  BY <1>1 DEF FieldInv, TypeInv, TypeOK
<1>3. Idle.pc = "pop" /\ ~ Idle.own
  BY DEF Idle, ServerAt
<1>4. ~ QueuedAt(c, no) /\ ~ Awaits(c, no) /\ Uses(c, no)
  BY <1>0, <1>1 DEF FieldInv, OncePlaced, Uses
<1>5. \A d \in Servers, e \in Fields :
        /\ Uses(d, e)' <=> Uses(d, e) /\ ~ (d = c /\ e = no)
        /\ Awaits(d, e)' <=> Awaits(d, e)
        /\ QueuedAt(d, e)' <=> QueuedAt(d, e)
  BY <1>0, <1>1, <1>2, <1>3, <1>4 DEF Uses, QueuedAt, Awaits
<1>6. Users(no)' = Users(no) \ {c}
  BY <1>1, <1>4, <1>5 DEF Users
<1>17. ASSUME NEW e \in Fields, e # no PROVE Users(e)' = Users(e)
  BY <1>5, <1>17 DEF Users
<1>7. c \in Users(no)
  BY <1>4 DEF Users
<1>8. /\ ~ InQue(no) /\ Counted(no)'
      /\ \/ /\ UNCHANGED <<m_Que, memUsed>>
            /\ m_DataF' = [m_DataF EXCEPT ![no].m_FreeSymbole = m_DataF[no].m_FreeSymbole - 1]
         \/ /\ m_Que' = Append(m_Que, no) /\ GiveBackMem(no)
            /\ m_DataF' = [m_DataF EXCEPT ![no] = ResetField(no)]
  BY <1>1, <1>6, <1>7, FreeSharedEffect
<1>9. m_DataF \in [Fields -> FieldType] /\ m_DataF[no] \in FieldType /\ m_Que \in Seq(Fields)
  BY <1>1 DEF FieldInv, TypeInv, TypeOK, PoolTypeOK
<1>10. \A e \in Fields : e # no => m_DataF'[e] = m_DataF[e]
  BY <1>8, <1>9
<1>11. /\ m_DataF'[no].m_MemType \in {m_DataF[no].m_MemType, "NOT_NEED_MEM"}
  BY <1>1, <1>8, <1>9 DEF FieldType, ResetField
<1>12. /\ \A e \in Fields : e # no => (InQue(e) <=> InQue(e)')
       /\ Injective(m_Que')
  <2>1. CASE UNCHANGED m_Que
    BY <2>1 DEF InQue, FieldInv, OncePlaced
  <2>2. CASE m_Que' = Append(m_Que, no)
    BY <1>1, <1>8, <1>9, <2>2, AppendElems DEF InQue, Elem, FieldInv, OncePlaced
  <2> QED
    BY <1>8, <2>1, <2>2
<1>13. OneByOne'
  BY <1>2, <1>3, <1>10, <1>11 DEF FieldInv, OneByOne
<1>14. OncePlaced'
  <2>1. \A d \in Servers : Injective(m_pDataQue'[d])
    BY <1>1 DEF FieldInv, OncePlaced
  <2>2. \A d \in Servers : (srv[d].pc # "pop" => ~ QueuedAt(d, srv[d].no))'
    BY <1>1, <1>2, <1>3 DEF FieldInv, OncePlaced, QueuedAt
  <2>3. \A d \in Servers, e \in Fields : ~ (Uses(d, e) /\ Awaits(d, e))'
    BY <1>5 DEF FieldInv, OncePlaced
  <2> QED
    BY <1>12, <2>1, <2>2, <2>3 DEF OncePlaced
<1>15. ASSUME NEW e \in Fields PROVE Counted(e)'
  <2>1. CASE e = no
    BY <1>8, <2>1
  <2>2. CASE e # no
    BY <1>10, <1>12, <1>17, <2>2, CountKept DEF FieldInv
  <2> QED
    BY <2>1, <2>2
<1>16. ASSUME MemInv PROVE MemInv'
  <2>1. CASE /\ UNCHANGED <<m_Que, memUsed>>
             /\ m_DataF' = [m_DataF EXCEPT ![no].m_FreeSymbole = m_DataF[no].m_FreeSymbole - 1]
    <3>1. m_DataF'[no].m_PData = m_DataF[no].m_PData /\ m_DataF'[no].m_MemType = m_DataF[no].m_MemType
      BY <1>1, <1>9, <2>1 DEF FieldType
    <3>2. \A e \in Fields : InQue(e) <=> InQue(e)'
      BY <2>1 DEF InQue
    <3> QED
      BY <1>10, <1>16, <2>1, <3>1, <3>2, MemKept
  <2>2. CASE /\ m_Que' = Append(m_Que, no) /\ GiveBackMem(no)
             /\ m_DataF' = [m_DataF EXCEPT ![no] = ResetField(no)]
    BY <1>1, <1>8, <1>16, <2>2, FreeMem DEF FieldInv
  <2> QED
    BY <1>8, <2>1, <2>2
<1> QED
  BY <1>13, <1>14, <1>15, <1>16 DEF KeepsFields

-----------------------------------------------------------------------------
(* The steps of a list thread. *)

LEMMA AfterCommandPc ==
  ASSUME NEW l \in Lists, NEW r \in AfterCommand(l)
  PROVE  r.pc \in {"get", "drain", "done"}
BY DEF AfterCommand, AfterGroup, GroupStart, ListAt

LEMMA QuietList ==
  ASSUME FieldInv, NEW l \in Lists, NEW r, lst' = [lst EXCEPT ![l] = r],
         lst[l].pc # "push", r.pc # "push",
         UNCHANGED <<m_Que, m_DataF, memUsed, m_pDataQue, srv>>
  PROVE  KeepsFields
<1>1. \A k \in Lists : lst'[k] = IF k = l THEN r ELSE lst[k]
  BY DEF FieldInv, TypeInv, TypeOK
<1>2. SameUse
  BY <1>1, ServerParts DEF SameUse, Uses, QueuedAt, Awaits
<1>3. \A no \in Fields : InQue(no) <=> InQue(no)'
  BY DEF InQue
<1>4. OneByOne'
  BY DEF FieldInv, OneByOne
<1>5. OncePlaced'
  BY <1>2 DEF FieldInv, OncePlaced, SameUse, QueuedAt
<1>6. \A no \in Fields : Counted(no)'
  BY <1>2, <1>3, SameUsers, CountKept DEF FieldInv
<1>7. MemInv => MemInv'
  BY <1>3, MemKept
<1> QED
  BY <1>4, <1>5, <1>6, <1>7 DEF KeepsFields

LEMMA DrainFields ==
  ASSUME FieldInv, NEW l \in Lists, Drain(l)
  PROVE  KeepsFields
<1>1. lst[l] \in ListStates /\ lst[l].pc = "drain"
  BY GroupFacts DEF FieldInv, Drain
<1>2. UNCHANGED <<m_Que, m_DataF, memUsed, m_pDataQue, srv>>
  BY DEF Drain, pool
<1>3. CASE lst' = [lst EXCEPT ![l] = [lst[l] EXCEPT !.j = lst[l].j + 1]]
  <2>1. [lst[l] EXCEPT !.j = lst[l].j + 1].pc # "push"
    BY <1>1 DEF ListStates
  <2> QED
    BY <1>1, <1>2, <1>3, <2>1, QuietList
<1>4. CASE lst' = [lst EXCEPT ![l] = [lst[l] EXCEPT !.pc = "verify"]]
  <2>1. [lst[l] EXCEPT !.pc = "verify"].pc # "push"
    BY <1>1 DEF ListStates
  <2> QED
    BY <1>1, <1>2, <1>4, <2>1, QuietList
<1> QED
  BY <1>3, <1>4 DEF Drain

LEMMA VerifyFields ==
  ASSUME FieldInv, NEW l \in Lists, Verify(l)
  PROVE  KeepsFields
<1>1. PICK r \in {ListAt("get", lst[l].g, Pos("END_LST", NFiles, 0)), AfterGroup(l)} :
        lst' = [lst EXCEPT ![l] = r]
  BY DEF Verify
<1>2. r.pc # "push"
  BY DEF ListAt, AfterGroup, GroupStart
<1>3. lst[l].pc # "push" /\ UNCHANGED <<m_Que, m_DataF, memUsed, m_pDataQue, srv>>
  BY DEF Verify
<1> QED
  BY <1>1, <1>2, <1>3, QuietList

(* One Push: the server thread has the index on its queue and awaits it no longer. *)
LEMMA PushEffect ==
  ASSUME AllGroups, FieldInv, NEW l \in Lists, Push(l)
  PROVE  \E c \in Servers, no \in Fields :
           /\ c = <<l, lst[l].g, lst[l].j>> /\ no = lst[l].no /\ Awaits(c, no)
           /\ m_pDataQue' = [m_pDataQue EXCEPT ![c] = Append(@, no)]
           /\ \E r : /\ lst' = [lst EXCEPT ![l] = r]
                     /\ \/ /\ lst[l].j < GroupOf(l).n
                           /\ r = [lst[l] EXCEPT !.j = lst[l].j + 1]
                        \/ /\ lst[l].j = GroupOf(l).n
                           /\ r \in AfterCommand(l) /\ r.pc # "push"
           /\ UNCHANGED <<pool, srv, remote>>
<1>1. PICK c \in Servers, no \in Fields : c = <<l, lst[l].g, lst[l].j>> /\ no = lst[l].no
  BY GroupFacts DEF GoodList, FieldInv, Push
<1>2. lst[l].j \in 1 .. GroupOf(l).n /\ GroupOf(l).n \in Nat
  BY GroupFacts DEF FieldInv
<1>3. Awaits(c, no)
  BY <1>1, <1>2 DEF Awaits, Push
<1>4. \E r : /\ lst' = [lst EXCEPT ![l] = r]
             /\ \/ lst[l].j < GroupOf(l).n /\ r = [lst[l] EXCEPT !.j = lst[l].j + 1]
                \/ lst[l].j = GroupOf(l).n /\ r \in AfterCommand(l) /\ r.pc # "push"
  <2>1. ~ IsModWrite(l)
    BY NoModWrite DEF FieldInv
  <2>2. CASE lst[l].j < GroupOf(l).n
    BY <2>1, <2>2 DEF Push
  <2>3. CASE ~ (lst[l].j < GroupOf(l).n)
    <3>1. PICK r \in AfterCommand(l) : lst' = [lst EXCEPT ![l] = r]
      BY <2>3 DEF Push
    <3>2. lst[l].j = GroupOf(l).n /\ r.pc # "push"
      BY <1>2, <2>3, AfterCommandPc
    <3> QED
      BY <3>1, <3>2
  <2> QED
    BY <2>2, <2>3
<1> QED
  BY <1>1, <1>3, <1>4 DEF Push

LEMMA PushFields ==
  ASSUME AllGroups, FieldInv, NEW l \in Lists, Push(l)
  PROVE  KeepsFields
<1>1. PICK c \in Servers, no \in Fields :
           /\ c = <<l, lst[l].g, lst[l].j>> /\ no = lst[l].no /\ Awaits(c, no)
           /\ m_pDataQue' = [m_pDataQue EXCEPT ![c] = Append(@, no)]
           /\ \E r : /\ lst' = [lst EXCEPT ![l] = r]
                     /\ \/ lst[l].j < GroupOf(l).n /\ r = [lst[l] EXCEPT !.j = lst[l].j + 1]
                        \/ lst[l].j = GroupOf(l).n /\ r.pc # "push"
           /\ UNCHANGED <<pool, srv>>
  BY PushEffect
<1>2. PICK r : /\ lst' = [lst EXCEPT ![l] = r]
               /\ \/ lst[l].j < GroupOf(l).n /\ r = [lst[l] EXCEPT !.j = lst[l].j + 1]
                  \/ lst[l].j = GroupOf(l).n /\ r.pc # "push"
  BY <1>1
<1>3. /\ \A k \in Lists : lst'[k] = IF k = l THEN r ELSE lst[k]
      /\ \A d \in Servers : m_pDataQue'[d] = IF d = c THEN Append(m_pDataQue[c], no) ELSE m_pDataQue[d]
  BY <1>1, <1>2 DEF FieldInv, TypeInv, TypeOK
<1>4. /\ m_pDataQue[c] \in Seq(Fields) /\ lst[l] \in ListStates /\ lst[l].pc = "push"
      /\ GroupOf(l).n \in Nat /\ lst[l].j \in 1 .. GroupOf(l).n
      /\ GroupOf(l).n = Layout[l][lst[l].g].n
  BY GroupFacts DEF FieldInv, TypeInv, TypeOK, Push
<1>5. ~ Uses(c, no) /\ ~ QueuedAt(c, no)
  BY <1>1 DEF FieldInv, OncePlaced, Uses
<1>6. \A d \in Servers, e \in Fields : QueuedAt(d, e)' <=> QueuedAt(d, e) \/ (d = c /\ e = no)
  <2>1. \A e : Elem(Append(m_pDataQue[c], no), e) <=> Elem(m_pDataQue[c], e) \/ e = no
    BY <1>4, AppendElems
  <2>2. \A d \in Servers : \A e : QueuedAt(d, e)' <=> Elem(m_pDataQue'[d], e)
    BY DEF QueuedAt, Elem
  <2> QED
    BY <1>3, <2>1, <2>2, QueuedElem
<1>7. \A d \in Servers, e \in Fields : Uses(d, e)' <=> Uses(d, e) \/ (d = c /\ e = no)
  BY <1>1, <1>6 DEF Uses
<1>8. \A d \in Servers, e \in Fields : Awaits(d, e)' <=> Awaits(d, e) /\ ~ (d = c /\ e = no)
  <2> SUFFICES ASSUME NEW d \in Servers, NEW e \in Fields
               PROVE  Awaits(d, e)' <=> Awaits(d, e) /\ ~ (d = c /\ e = no)
    OBVIOUS
  <2>1. /\ d = <<d[1], d[2], d[3]>> /\ d[1] \in Lists /\ d[3] \in Nat
        /\ d[3] <= Layout[d[1]][d[2]].n
    <3>1. d[3] \in 1 .. Layout[d[1]][d[2]].n
      BY ServerParts
    <3> QED
      BY <3>1, ServerParts
  <2>2. d = c <=> d[1] = l /\ d[2] = lst[l].g /\ d[3] = lst[l].j
    BY <1>1, <2>1
  <2>3. CASE d[1] # l
    BY <1>3, <2>1, <2>2, <2>3 DEF Awaits
  <2>4. CASE d[1] = l /\ lst[l].j < GroupOf(l).n /\ r = [lst[l] EXCEPT !.j = lst[l].j + 1]
    <3>1. r.pc = lst[l].pc /\ r.no = lst[l].no /\ r.g = lst[l].g /\ r.j = lst[l].j + 1
      BY <1>4, <2>4 DEF ListStates
    <3>2. lst[l].j + 1 <= d[3] <=> lst[l].j <= d[3] /\ d[3] # lst[l].j
      BY <1>4, <2>1
    <3>3. Awaits(d, e)' <=> r.pc = "push" /\ r.no = e /\ r.g = d[2] /\ r.j <= d[3]
      BY <1>3, <2>1, <2>4 DEF Awaits
    <3>4. Awaits(d, e) <=> lst[l].pc = "push" /\ lst[l].no = e /\ lst[l].g = d[2] /\ lst[l].j <= d[3]
      BY <2>4 DEF Awaits
    <3> QED
      BY <1>1, <1>4, <2>2, <2>4, <3>1, <3>2, <3>3, <3>4
  <2>5. CASE d[1] = l /\ lst[l].j = GroupOf(l).n /\ r.pc # "push"
    <3>1. ~ Awaits(d, e)'
      BY <1>3, <2>1, <2>5 DEF Awaits
    <3>2. Awaits(d, e) => d = c /\ e = no
      BY <1>1, <1>4, <2>1, <2>2, <2>5 DEF Awaits
    <3> QED
      BY <3>1, <3>2
  <2> QED
    BY <1>2, <2>3, <2>4, <2>5
<1>9. ASSUME NEW e \in Fields PROVE Users(e)' = Users(e)
  BY <1>1, <1>7, <1>8, <1>9 DEF Users
<1>10. \A e \in Fields : InQue(e) <=> InQue(e)'
  BY <1>1 DEF InQue, pool
<1>11. OneByOne'
  BY <1>1 DEF FieldInv, OneByOne, pool
<1>12. OncePlaced'
  <2>1. \A d \in Servers : Injective(m_pDataQue'[d])
    BY <1>3, <1>4, <1>5, AppendElems, QueuedElem DEF FieldInv, OncePlaced
  <2>2. \A d \in Servers : (srv[d].pc # "pop" => ~ QueuedAt(d, srv[d].no))'
    <3> SUFFICES ASSUME NEW d \in Servers, srv[d].pc # "pop"
                 PROVE  ~ QueuedAt(d, srv[d].no)'
      BY <1>1
    <3>1. srv[d].no \in Fields /\ srv'[d] = srv[d] /\ ~ QueuedAt(d, srv[d].no)
      BY <1>1, ServerFacts DEF FieldInv, OneByOne, OncePlaced, GoodServer
    <3>2. d = c => srv[d].no # no
      BY <1>5 DEF Uses
    <3> QED
      BY <1>6, <3>1, <3>2 DEF QueuedAt
  <2>3. \A d \in Servers, e \in Fields : ~ (Uses(d, e) /\ Awaits(d, e))'
    BY <1>7, <1>8 DEF FieldInv, OncePlaced
  <2> QED
    BY <1>1, <2>1, <2>2, <2>3 DEF FieldInv, OncePlaced, pool
<1>13. \A e \in Fields : Counted(e)'
  BY <1>1, <1>9, <1>10, CountKept DEF FieldInv, pool
<1>14. MemInv => MemInv'
  BY <1>1, <1>10, MemKept DEF pool
<1> QED
  BY <1>11, <1>12, <1>13, <1>14 DEF KeepsFields

(* GetAFreeField takes the index at the head of m_Que, which nobody uses. *)
LEMMA WorkEffect ==
  ASSUME AllGroups, FieldInv, NEW l \in Lists, Work(l)
  PROVE  \E no \in Fields :
           /\ m_Que # <<>> /\ no = Head(m_Que) /\ InQue(no) /\ lst[l].pc = "get"
           /\ m_Que' = Tail(m_Que)
           /\ lst' = [lst EXCEPT ![l] = [lst[l] EXCEPT !.pc = "push", !.no = no, !.j = 1]]
           /\ \A e \in Fields : e # no => m_DataF'[e] = m_DataF[e]
           /\ m_DataF'[no].m_FreeSymbole = GroupOf(l).n
           /\ m_DataF'[no].m_OperateType = lst[l].pos.op
           /\ m_DataF'[no].m_NO = no
           /\ m_DataF'[no].cmd = Rank(lst[l].pos)
           /\ m_DataF'[no].m_MemType = MemFor(l)
           /\ m_DataF'[no].m_PData = (MemFor(l) # "NOT_NEED_MEM")
           /\ memUsed' = IF MemFor(l) = "NOT_NEED_MEM" THEN memUsed ELSE [memUsed EXCEPT ![MemFor(l)] = @ + 1]
           /\ UNCHANGED <<m_pDataQue, srv, remote>>
<1>1. GetAFreeField(MemFor(l), FieldFor(l)) /\ m_Que # <<>> /\ m_Que \in Seq(Fields)
  BY DEF Work, GetAFreeField, FieldInv, TypeInv, TypeOK, PoolTypeOK
<1>2. PICK no \in Fields : no = Head(m_Que) /\ InQue(no)
  BY <1>1, HeadTailProperties, TailElems, InQueElem DEF FieldInv, OncePlaced
<1>3. ~ IsModWrite(l)
  BY NoModWrite DEF FieldInv
<1>4. lst' = [lst EXCEPT ![l] = [lst[l] EXCEPT !.pc = "push", !.no = no, !.j = 1]]
  BY <1>2, <1>3 DEF Work
<1> DEFINE new == [FieldFor(l) EXCEPT !.m_NO = no, !.m_MemType = MemFor(l),
                                      !.m_PData = (MemFor(l) # "NOT_NEED_MEM")]
<1>5. FieldFor(l) \in FieldType
  BY <1>1, FieldForType DEF FieldInv
<1>6. /\ new.m_FreeSymbole = FieldFor(l).m_FreeSymbole /\ new.m_OperateType = FieldFor(l).m_OperateType
      /\ new.cmd = FieldFor(l).cmd /\ new.m_NO = no /\ new.m_MemType = MemFor(l)
      /\ new.m_PData = (MemFor(l) # "NOT_NEED_MEM")
  BY <1>5 DEF FieldType
<1>7. /\ FieldFor(l).m_FreeSymbole = GroupOf(l).n /\ FieldFor(l).m_OperateType = lst[l].pos.op
      /\ FieldFor(l).cmd = Rank(lst[l].pos)
  <2>1. m_DataF[no] \in FieldType
    BY DEF FieldInv, TypeInv, TypeOK, PoolTypeOK
  <2> QED
    BY <1>2, <1>3, <2>1 DEF FieldFor, FieldType
<1>8. m_DataF \in [Fields -> FieldType] /\ m_DataF' = [m_DataF EXCEPT ![no] = new]
  BY <1>1, <1>2 DEF GetAFreeField, FieldInv, TypeInv, TypeOK, PoolTypeOK
<1> HIDE DEF new
<1>9. m_DataF'[no] = new /\ \A e \in Fields : e # no => m_DataF'[e] = m_DataF[e]
  BY <1>8
<1> QED
  BY <1>1, <1>2, <1>4, <1>6, <1>7, <1>9 DEF Work, GetAFreeField

LEMMA GroupServers ==
  ASSUME NEW l \in Lists, NEW g \in 1 .. Len(Layout[l])
  PROVE  LET S == {<<l, g, s>> : s \in 1 .. Layout[l][g].n} IN
           IsFiniteSet(S) /\ Cardinality(S) = Layout[l][g].n /\ S # {}
<1> DEFINE n == Layout[l][g].n
           S == {<<l, g, s>> : s \in 1 .. n}
           f == [s \in 1 .. n |-> <<l, g, s>>]
<1>1. n \in Nat \ {0}
  BY LayoutType, BoundsAssumption DEF GroupType
<1>2. IsFiniteSet(1 .. n) /\ Cardinality(1 .. n) = n
  <2> HIDE DEF n
  <2>1. 1 \in Int /\ n \in Int /\ ~ (1 > n) /\ n - 1 + 1 = n
    BY <1>1
  <2> QED
    BY <2>1, FS_Interval
<1>3. f \in Bijection(1 .. n, S)
  BY DEF Bijection, Injection, Surjection, IsInjective
<1>4. ExistsBijection(1 .. n, S)
  BY <1>3 DEF ExistsBijection
<1>5. <<l, g, 1>> \in S
  BY <1>1
<1> QED
  BY <1>2, <1>4, <1>5, FS_Bijection

LEMMA WorkFields ==
  ASSUME AllGroups, FieldInv, NEW l \in Lists, Work(l)
  PROVE  KeepsFields
<1>1. PICK no \in Fields :
           /\ m_Que # <<>> /\ no = Head(m_Que) /\ InQue(no) /\ lst[l].pc = "get"
           /\ m_Que' = Tail(m_Que)
           /\ lst' = [lst EXCEPT ![l] = [lst[l] EXCEPT !.pc = "push", !.no = no, !.j = 1]]
           /\ \A e \in Fields : e # no => m_DataF'[e] = m_DataF[e]
           /\ m_DataF'[no].m_FreeSymbole = GroupOf(l).n
           /\ m_DataF'[no].m_OperateType = lst[l].pos.op
           /\ m_DataF'[no].m_NO = no
           /\ m_DataF'[no].m_MemType = MemFor(l)
           /\ m_DataF'[no].m_PData = (MemFor(l) # "NOT_NEED_MEM")
           /\ memUsed' = IF MemFor(l) = "NOT_NEED_MEM" THEN memUsed ELSE [memUsed EXCEPT ![MemFor(l)] = @ + 1]
           /\ UNCHANGED <<m_pDataQue, srv>>
  BY WorkEffect
<1> DEFINE r == [lst[l] EXCEPT !.pc = "push", !.no = no, !.j = 1]
<1>2. lst[l] \in ListStates /\ lst[l].g \in 1 .. Len(Layout[l]) /\ lst[l].pos.op \in Commands
  BY GroupFacts DEF FieldInv, GoodList, ListStates, Positions
<1>3. r.pc = "push" /\ r.no = no /\ r.j = 1 /\ r.g = lst[l].g /\ lst' = [lst EXCEPT ![l] = r]
  BY <1>1, <1>2 DEF ListStates
<1> HIDE DEF r
<1>4. \A k \in Lists : lst'[k] = IF k = l THEN r ELSE lst[k]
  BY <1>3 DEF FieldInv, TypeInv, TypeOK
<1>5. \A d \in Servers, e \in Fields : /\ Uses(d, e)' <=> Uses(d, e)
                                       /\ QueuedAt(d, e)' <=> QueuedAt(d, e)
  BY <1>1 DEF Uses, QueuedAt
<1>6. \A d \in Servers, e \in Fields :
        Awaits(d, e)' <=> IF d[1] = l THEN e = no /\ d[2] = lst[l].g ELSE Awaits(d, e)
  <2> SUFFICES ASSUME NEW d \in Servers, NEW e \in Fields
               PROVE  Awaits(d, e)' <=> IF d[1] = l THEN e = no /\ d[2] = lst[l].g ELSE Awaits(d, e)
    OBVIOUS
  <2>1. d[1] \in Lists /\ 1 <= d[3]
    BY ServerParts
  <2> QED
    BY <1>3, <1>4, <2>1 DEF Awaits
<1>7. \A d \in Servers, e \in Fields : d[1] = l => ~ Awaits(d, e)
  BY <1>1 DEF Awaits
<1>8. \A d \in Servers : ~ Uses(d, no) /\ ~ Awaits(d, no)
  BY <1>1 DEF FieldInv, Counted, Users
<1>9. ASSUME NEW e \in Fields, e # no PROVE Users(e)' = Users(e)
  BY <1>5, <1>6, <1>7, <1>9 DEF Users
<1>10. Users(no)' = {<<l, lst[l].g, s>> : s \in 1 .. GroupOf(l).n}
  <2>1. Users(no)' = {d \in Servers : d[1] = l /\ d[2] = lst[l].g}
    BY <1>5, <1>6, <1>8 DEF Users
  <2>2. ASSUME NEW d \in Servers, d[1] = l, d[2] = lst[l].g
        PROVE  d \in {<<l, lst[l].g, s>> : s \in 1 .. GroupOf(l).n}
    BY <2>2, ServerParts DEF GroupOf
  <2>3. ASSUME NEW s \in 1 .. GroupOf(l).n
        PROVE  <<l, lst[l].g, s>> \in Servers
    BY <1>2, <2>3, ServerIn DEF GroupOf
  <2> QED
    BY <2>1, <2>2, <2>3
<1>11. /\ Injective(Tail(m_Que)) /\ \A e \in Fields : InQue(e)' <=> InQue(e) /\ e # no
  <2>1. m_Que \in Seq(Fields) /\ Injective(m_Que)
    BY DEF FieldInv, OncePlaced, TypeInv, TypeOK, PoolTypeOK
  <2>2. /\ Injective(Tail(m_Que))
        /\ \A e : Elem(Tail(m_Que), e) <=> Elem(m_Que, e) /\ e # no
    BY <1>1, <2>1, TailElems
  <2>3. \A e : InQue(e)' <=> Elem(m_Que', e)
    BY DEF InQue, Elem
  <2> QED
    BY <1>1, <2>2, <2>3, InQueElem
<1>12. OneByOne'
  <2>1. MemFor(l) # "SUITE"
    BY NoModWrite DEF FieldInv
  <2> QED
    BY <1>1, <2>1 DEF FieldInv, OneByOne
<1>13. OncePlaced'
  <2>1. \A d \in Servers : (Injective(m_pDataQue[d]) /\ (srv[d].pc # "pop" => ~ QueuedAt(d, srv[d].no)))'
    BY <1>1 DEF FieldInv, OncePlaced, QueuedAt
  <2>2. \A d \in Servers, e \in Fields : ~ (Uses(d, e) /\ Awaits(d, e))'
    BY <1>5, <1>6, <1>8 DEF FieldInv, OncePlaced
  <2> QED
    BY <1>1, <1>11, <2>1, <2>2 DEF OncePlaced
<1>14. ASSUME NEW e \in Fields PROVE Counted(e)'
  <2>1. CASE e # no
    BY <1>1, <1>9, <1>11, <2>1, CountKept DEF FieldInv
  <2>2. CASE e = no
    <3>1. /\ IsFiniteSet(Users(no)') /\ Cardinality(Users(no)') = GroupOf(l).n /\ Users(no)' # {}
      BY <1>2, <1>10, GroupServers DEF GroupOf
    <3> QED
      BY <1>1, <1>2, <1>11, <2>2, <3>1 DEF Counted
  <2> QED
    BY <2>1, <2>2
<1>15. ASSUME MemInv PROVE MemInv'
  <2>1. ASSUME NEW m \in {"BIG", "SUITE"} PROVE memUsed'[m] = Cardinality(Backed(m)')
    <3>1. Backed(m)' = IF m = MemFor(l) THEN Backed(m) \cup {no} ELSE Backed(m)
      <4>1. no \notin Backed(m)
        BY <1>1 DEF Backed
      <4> QED
        BY <1>1, <1>11, <2>1, <4>1 DEF Backed
    <3>2. IsFiniteSet(Backed(m)) /\ no \notin Backed(m)
      <4>1. IsFiniteSet(Fields)
        BY QueSizeAssumption, FS_Interval DEF Fields
      <4> QED
        BY <1>1, <4>1, FS_Subset DEF Backed
    <3>3. Cardinality(Backed(m) \cup {no}) = Cardinality(Backed(m)) + 1
      BY <3>2, FS_AddElement
    <3>4. memUsed[m] = Cardinality(Backed(m)) /\ memUsed \in [{"BIG", "SUITE"} -> Int]
      BY <1>15 DEF MemInv, FieldInv, TypeInv, TypeOK, PoolTypeOK
    <3>5. memUsed'[m] = IF m = MemFor(l) THEN memUsed[m] + 1 ELSE memUsed[m]
      BY <1>1, <2>1, <3>4
    <3> QED
      BY <3>1, <3>3, <3>4, <3>5
  <2> QED
    BY <2>1 DEF MemInv
<1> QED
  BY <1>12, <1>13, <1>14, <1>15 DEF KeepsFields

(* No memory for the field at the head of m_Que: it goes to the back. *)
LEMMA WorkNoMemEffect ==
  ASSUME FieldInv, NEW l \in Lists, WorkNoMem(l)
  PROVE  \E no \in Fields :
           /\ InQue(no) /\ m_Que # <<>> /\ no = Head(m_Que) /\ m_Que' = Append(Tail(m_Que), no)
           /\ \A e \in Fields : e # no => m_DataF'[e] = m_DataF[e]
           /\ m_DataF'[no].m_MemType = MemFor(l)
           /\ UNCHANGED <<memUsed, lst, m_pDataQue, srv, remote>>
<1>1. GetAFreeFieldFails(MemFor(l)) /\ m_Que # <<>> /\ m_Que \in Seq(Fields)
  BY DEF WorkNoMem, GetAFreeFieldFails, FieldInv, TypeInv, TypeOK, PoolTypeOK
<1>2. PICK no \in Fields : no = Head(m_Que) /\ InQue(no)
  BY <1>1, HeadTailProperties, TailElems, InQueElem DEF FieldInv, OncePlaced
<1> DEFINE new == [m_DataF[no] EXCEPT !.m_NO = no, !.m_MemType = MemFor(l), !.m_PData = FALSE]
<1>3. m_DataF \in [Fields -> FieldType] /\ m_DataF[no] \in FieldType
  BY DEF FieldInv, TypeInv, TypeOK, PoolTypeOK
<1>4. m_DataF' = [m_DataF EXCEPT ![no] = new]
  BY <1>1, <1>2, <1>3 DEF GetAFreeFieldFails, FieldType
<1>5. new.m_MemType = MemFor(l)
  BY <1>3 DEF FieldType
<1> HIDE DEF new
<1> QED
  BY <1>1, <1>2, <1>3, <1>4, <1>5 DEF WorkNoMem, GetAFreeFieldFails

LEMMA WorkNoMemFields ==
  ASSUME AllGroups, FieldInv, NEW l \in Lists, WorkNoMem(l)
  PROVE  KeepsFields
<1>1. PICK no \in Fields :
           /\ InQue(no) /\ m_Que # <<>> /\ no = Head(m_Que) /\ m_Que' = Append(Tail(m_Que), no)
           /\ \A e \in Fields : e # no => m_DataF'[e] = m_DataF[e]
           /\ m_DataF'[no].m_MemType = MemFor(l)
           /\ UNCHANGED <<memUsed, lst, m_pDataQue, srv>>
  BY WorkNoMemEffect
<1>2. m_Que \in Seq(Fields) /\ Injective(m_Que)
  BY DEF FieldInv, OncePlaced, TypeInv, TypeOK, PoolTypeOK
<1>3. /\ Tail(m_Que) \in Seq(Fields) /\ Injective(Tail(m_Que))
      /\ \A e : Elem(Tail(m_Que), e) <=> Elem(m_Que, e) /\ e # no
  BY <1>1, <1>2, TailElems, HeadTailProperties
<1>4. /\ Injective(m_Que') /\ \A e : Elem(m_Que', e) <=> (Elem(m_Que, e) /\ e # no) \/ e = no
  BY <1>1, <1>3, AppendElems
<1>5. \A e \in Fields : InQue(e) <=> InQue(e)'
  <2>1. \A e : InQue(e)' <=> Elem(m_Que', e)
    BY DEF InQue, Elem
  <2> QED
    BY <1>1, <1>4, <2>1, InQueElem
<1>6. SameUse
  BY <1>1 DEF SameUse, Uses, QueuedAt, Awaits
<1>7. OneByOne'
  BY <1>1, NoModWrite DEF FieldInv, OneByOne
<1>8. OncePlaced'
  BY <1>1, <1>4, <1>6 DEF FieldInv, OncePlaced, SameUse, QueuedAt
<1>9. \A e \in Fields : Counted(e)'
  BY <1>1, <1>5, <1>6, SameUsers, CountKept DEF FieldInv
<1>10. MemInv => MemInv'
  BY <1>1, <1>5, MemKept
<1> QED
  BY <1>7, <1>8, <1>9, <1>10 DEF KeepsFields

-----------------------------------------------------------------------------
LEMMA FieldInit == Init => FieldInv /\ MemInv
<1> SUFFICES ASSUME Init PROVE FieldInv /\ MemInv
  OBVIOUS
<1>1. /\ m_Que = [i \in 1 .. QueSize |-> i - 1] /\ m_DataF = [i \in Fields |-> NewField]
      /\ memUsed = [m \in {"BIG", "SUITE"} |-> 0]
  BY DEF Init, MainInitSys
<1>2. Injective(m_Que) /\ \A no \in Fields : InQue(no)
  <2>1. Injective(m_Que)
    BY <1>1 DEF Injective
  <2>2. ASSUME NEW no \in Fields PROVE InQue(no)
    <3>1. no + 1 \in 1 .. QueSize /\ (no + 1) - 1 = no
      BY QueSizeAssumption DEF Fields
    <3> QED
      BY <1>1, <3>1 DEF InQue
  <2> QED
    BY <2>1, <2>2
<1>3. /\ \A c \in Servers : srv[c] = Idle /\ m_pDataQue[c] = <<>>
      /\ \A l \in Lists : lst[l].pc = "get"
  BY DEF Init, GroupStart, ListAt
<1>4. Idle.pc = "pop" /\ ~ Idle.own
  BY DEF Idle, ServerAt
<1>5. \A c \in Servers, no \in Fields : ~ Uses(c, no) /\ ~ Awaits(c, no) /\ ~ QueuedAt(c, no)
  BY <1>3, <1>4, ServerParts DEF Uses, QueuedAt, Awaits
<1>6. OneByOne
  BY <1>1, <1>3, <1>4 DEF OneByOne, NewField
<1>7. OncePlaced
  BY <1>2, <1>3, <1>4, <1>5 DEF OncePlaced, Injective
<1>8. \A no \in Fields : Counted(no)
  BY <1>2, <1>5 DEF Counted, Users
<1>9. MemInv
  <2>1. \A m \in {"BIG", "SUITE"} : Backed(m) = {}
    BY <1>2 DEF Backed
  <2> QED
    BY <1>1, <2>1, FS_EmptySet DEF MemInv
<1> QED
  BY <1>6, <1>7, <1>8, <1>9, TypeInit DEF FieldInv

LEMMA FieldStep ==
  ASSUME AllGroups
  PROVE  FieldInv /\ [Next]_vars => FieldInv' /\ (MemInv => MemInv')
<1> SUFFICES ASSUME FieldInv, [Next]_vars PROVE FieldInv' /\ (MemInv => MemInv')
  OBVIOUS
<1>1. TypeInv'
  BY TypeStep DEF FieldInv
<1>2. ASSUME NEW l \in Lists, ListStep(l) PROVE KeepsFields
  BY <1>2, WorkFields, WorkNoMemFields, PushFields, DrainFields, VerifyFields DEF ListStep
<1>3. ASSUME NEW c \in Servers, ServerStep(c) \/ SendLost(c) \/ SendRefused(c) PROVE KeepsFields
  <2>1. srv[c].pc \notin {"more", "check", "after"}
    BY DEF FieldInv, OneByOne
  <2>2. ~ PopMore(c) /\ ~ CheckMore(c) /\ ~ AfterBatch(c)
    BY <2>1 DEF PopMore, CheckMore, AfterBatch
  <2> QED
    BY <1>3, <2>2, PopFields, FreeCommandFields, SendsFields DEF ServerStep, Sends
<1>4. ASSUME UNCHANGED vars PROVE KeepsFields
  <2>1. UNCHANGED <<m_Que, m_DataF, memUsed, lst, m_pDataQue, srv>>
    BY <1>4 DEF vars, pool
  <2>2. SameUse /\ \A no \in Fields : InQue(no) <=> InQue(no)'
    BY <2>1 DEF SameUse, Uses, QueuedAt, Awaits, InQue
  <2>3. OneByOne' /\ OncePlaced'
    BY <2>1, <2>2 DEF FieldInv, OneByOne, OncePlaced, SameUse, QueuedAt
  <2>4. \A no \in Fields : Counted(no)'
    BY <2>1, <2>2, SameUsers, CountKept DEF FieldInv
  <2> QED
    BY <2>1, <2>2, <2>3, <2>4, MemKept DEF KeepsFields
<1>5. KeepsFields
  BY <1>2, <1>3, <1>4 DEF Next, Terminating
<1> QED
  BY <1>1, <1>5 DEF KeepsFields, FieldInv

LEMMA FieldAlways ==
  ASSUME AllGroups
  PROVE  Spec => [](FieldInv /\ MemInv)
BY FieldInit, FieldStep, PTL DEF Spec

(* What the threads hold and are to be handed, in the terms of Dispatch. *)
LEMMA UsersAre ==
  ASSUME AllGroups
  PROVE  FieldInv => \A no \in Fields :
           /\ Holders(no) = {c \in Servers : Uses(c, no)}
           /\ Pending(no) = {c \in Servers : Awaits(c, no)}
           /\ Users(no) = Holders(no) \cup Pending(no)
<1> SUFFICES ASSUME FieldInv, NEW no \in Fields
             PROVE  /\ Holders(no) = {c \in Servers : Uses(c, no)}
                    /\ Pending(no) = {c \in Servers : Awaits(c, no)}
                    /\ Users(no) = Holders(no) \cup Pending(no)
  OBVIOUS
<1>1. Holders(no) = {c \in Servers : Uses(c, no)}
  BY DEF Holders, Uses, Sending, FieldInv, OneByOne
<1>2. Pending(no) = {c \in Servers : Awaits(c, no)}
  BY PendingAwaits DEF FieldInv
<1> QED
  BY <1>1, <1>2 DEF Users

(* In a layout of ALL groups GetAFreeField never overwrites a command that somebody still needs:
   an index that is in m_Que is there once, and no list thread is handing it out, no server thread
   has it queued or is sending from it. *)
THEOREM FreeFieldsAreUnused ==
  ASSUME AllGroups
  PROVE  Spec => []FreeFieldsUnused
<1>1. FieldInv => FreeFieldsUnused
  <2> SUFFICES ASSUME FieldInv PROVE FreeFieldsUnused
    OBVIOUS
  <2>1. \A no \in Fields : InQue(no) => Users(no) = {}
    BY DEF FieldInv, Counted
  <2> QED
    BY <2>1, UsersAre DEF FreeFieldsUnused, FieldInv, OncePlaced
<1> QED
  BY <1>1, FieldAlways, PTL

(* In a layout of ALL groups m_FreeSymbole counts the server threads that have not let go of the
   field, whatever the number of servers, however their threads and the list thread interleave, and
   whatever they fail to send: the last one, and only the last one, frees it. *)
THEOREM RefCountIsExact ==
  ASSUME AllGroups
  PROVE  Spec => []RefCountExact
<1>1. FieldInv => RefCountExact
  <2> SUFFICES ASSUME FieldInv, NEW no \in Fields
               PROVE  /\ Holders(no) \cap Pending(no) = {}
                      /\ ~ InQue(no) => m_DataF[no].m_FreeSymbole = Cardinality(Holders(no) \cup Pending(no))
    BY DEF RefCountExact
  <2>1. Holders(no) \cap Pending(no) = {}
    BY UsersAre DEF FieldInv, OncePlaced
  <2>2. ~ InQue(no) => m_DataF[no].m_FreeSymbole = Cardinality(Users(no))
    BY DEF FieldInv, Counted
  <2>3. Users(no) = Holders(no) \cup Pending(no)
    BY UsersAre
  <2> QED
    BY <2>1, <2>2, <2>3
<1> QED
  BY <1>1, FieldAlways, PTL

(* In a layout of ALL groups nothing leaks: a field that is not free has a thread that will free it,
   and the memory in use, of each kind, is that of those fields. *)
THEOREM FieldsDoNotLeak ==
  ASSUME AllGroups
  PROVE  Spec => []NothingLeaks
<1>1. FieldInv /\ MemInv => NothingLeaks
  <2> SUFFICES ASSUME FieldInv, MemInv PROVE NothingLeaks
    OBVIOUS
  <2>1. \A no \in Fields : InQue(no) \/ Holders(no) # {} \/ Pending(no) # {}
    <3> SUFFICES ASSUME NEW no \in Fields, ~ InQue(no) PROVE Holders(no) # {} \/ Pending(no) # {}
      OBVIOUS
    <3>1. Users(no) # {} /\ Users(no) = Holders(no) \cup Pending(no)
      BY UsersAre DEF FieldInv, Counted
    <3> QED
      BY <3>1
  <2> QED
    BY <2>1 DEF NothingLeaks, MemInv, Backed
<1> QED
  BY <1>1, FieldAlways, PTL

-----------------------------------------------------------------------------
(* The commands of a list, in the order in which a server carries them out. *)

CmdAt(c, i) == m_DataF[m_pDataQue[c][i]].cmd

(* What the server has carried out, what is in hand and what is queued have growing numbers. *)
Chain(c) ==
  /\ srv[c].pc # "pop" => remote[c].rank <= srv[c].cmd
  /\ \A i \in DOMAIN m_pDataQue[c] :
       /\ remote[c].rank < CmdAt(c, i)
       /\ srv[c].pc # "pop" => srv[c].cmd < CmdAt(c, i)
       /\ \A k \in DOMAIN m_pDataQue[c] : i < k => CmdAt(c, i) < CmdAt(c, k)

(* None of them has a number above b. *)
Below(c, b) ==
  /\ remote[c].rank <= b
  /\ srv[c].pc # "pop" => srv[c].cmd <= b
  /\ \A i \in DOMAIN m_pDataQue[c] : CmdAt(c, i) <= b

(* The highest number that a list thread in state r can have given to server thread c. *)
Cap(r, c) ==
  IF r.g < c[2] THEN 0
  ELSE IF r.pc = "get" \/ (r.pc = "push" /\ r.j <= c[3]) THEN Rank(r.pos) - 1
  ELSE Rank(r.pos)

Capped(c) == lst[c[1]].g <= c[2] => Below(c, Cap(lst[c[1]], c))

(* The last command that server thread c was given has operate type op, if it is not done with it. *)
LastIs(c, op) ==
  IF m_pDataQue[c] = <<>> THEN srv[c].pc # "pop" => srv[c].op = op
  ELSE m_DataF[m_pDataQue[c][Len(m_pDataQue[c])]].m_OperateType = op

LastGiven(c) ==
  LET r == lst[c[1]] IN
    r.g = c[2] =>
      /\ r.pc = "push" /\ c[3] < r.j => LastIs(c, r.pos.op)
      /\ r.pc \in {"drain", "verify"} => LastIs(c, "CLOSE_FILE")
      /\ r.pc = "drain" /\ c[3] < r.j => m_pDataQue[c] = <<>>
      /\ r.pc = "verify" => m_pDataQue[c] = <<>>

(* The field being pushed holds the command of the list thread's position; the list thread verifies
   after the CLOSE of the last file. *)
Issued(l) ==
  LET r == lst[l] IN
    /\ r.pc = "push" => /\ m_DataF[r.no].cmd = Rank(r.pos)
                        /\ m_DataF[r.no].m_OperateType = r.pos.op
    /\ r.pc \in {"drain", "verify"} => r.pos.op = "CLOSE_FILE" /\ r.pos.f = NFiles

OrderInv ==
  /\ \A l \in Lists : Issued(l)
  /\ \A c \in Servers : Chain(c) /\ Capped(c) /\ LastGiven(c)

(* The numbers grow along the list. *)
LEMMA RankGrows ==
  ASSUME NEW p \in Positions, NEW type, NEW q \in Following(p, type), p.op # "END_LST"
  PROVE  Rank(p) < Rank(q)
<1> DEFINE w == MaxChunks + 2
           base == (p.f - 1) * w
<1>1. /\ p.f \in Nat /\ p.f - 1 \in Nat /\ p.k \in Nat /\ p.op \in Commands /\ p.k <= MaxChunks
      /\ NFiles \in Nat /\ MaxChunks \in Nat /\ w \in Nat /\ p.f <= NFiles
  BY BoundsAssumption DEF Positions
<1>2. \A a, b \in Nat : a * b \in Nat /\ (a + 1) * b = a * b + b
  OBVIOUS
<1>3. base \in Nat /\ p.f * w = base + w
  <2>1. ((p.f - 1) + 1) * w = (p.f - 1) * w + w
    BY <1>1, <1>2
  <2>2. (p.f - 1) + 1 = p.f
    BY <1>1
  <2> QED
    BY <1>1, <1>2, <2>1, <2>2
<1>4. /\ \A k : Rank(Pos("OPEN_FILE", p.f, k)) = base + 2
      /\ \A k : Rank(Pos("WRITE_FILE", p.f, k)) = base + 2 + k
      /\ \A k : Rank(Pos("CLOSE_FILE", p.f, k)) = base + 2 + MaxChunks + 1
      /\ \A k : Rank(Pos("END_LST", p.f, k)) = base + 2 + MaxChunks + 2
  BY DEF Rank, Pos
<1>5. /\ p.op = "START_LST" => Rank(p) = 1
      /\ p.op = "OPEN_FILE" => Rank(p) = base + 2
      /\ p.op = "WRITE_FILE" => Rank(p) = base + 2 + p.k
      /\ p.op = "CLOSE_FILE" => Rank(p) = base + 2 + MaxChunks + 1
  BY DEF Rank
<1>6. CASE p.op = "START_LST"
  <2>1. q = Pos("OPEN_FILE", 1, 0)
    BY <1>6 DEF Following
  <2>2. Rank(q) = 0 * w + 2
    BY <2>1 DEF Rank, Pos
  <2>3. 0 * w = 0
    BY <1>1
  <2> QED
    BY <1>5, <1>6, <2>2, <2>3
<1>7. CASE p.op = "OPEN_FILE"
  <2>1. q \in {Pos("WRITE_FILE", p.f, 1), Pos("CLOSE_FILE", p.f, 0)}
    BY <1>7 DEF Following
  <2> HIDE DEF base
  <2> QED
    BY <1>1, <1>3, <1>4, <1>5, <1>7, <2>1
<1>8. CASE p.op = "WRITE_FILE"
  <2>1. q \in {Pos("WRITE_FILE", p.f, p.k + 1), Pos("CLOSE_FILE", p.f, 0)}
    BY <1>8 DEF Following
  <2> HIDE DEF base
  <2> QED
    BY <1>1, <1>3, <1>4, <1>5, <1>8, <2>1
<1>9. CASE p.op = "CLOSE_FILE" /\ p.f < NFiles
  <2>1. q = Pos("OPEN_FILE", p.f + 1, 0)
    BY <1>9 DEF Following
  <2>2. \A f : Rank(Pos("OPEN_FILE", f, 0)) = (f - 1) * w + 2
    BY DEF Rank, Pos
  <2>3. (p.f + 1) - 1 = p.f
    BY <1>1
  <2>4. Rank(q) = p.f * w + 2
    BY <2>1, <2>2, <2>3
  <2>5. Rank(q) = base + w + 2
    BY <1>3, <2>4
  <2> HIDE DEF base
  <2> QED
    BY <1>1, <1>3, <1>5, <1>9, <2>5
<1>10. CASE p.op = "CLOSE_FILE" /\ ~ (p.f < NFiles)
  <2>1. q = Pos("END_LST", NFiles, 0) /\ p.f = NFiles
    BY <1>1, <1>10 DEF Following
  <2> HIDE DEF base
  <2> QED
    BY <1>1, <1>3, <1>4, <1>5, <1>10, <2>1
<1> QED
  BY <1>1, <1>6, <1>7, <1>8, <1>9, <1>10 DEF Commands

(* A field keeps its command as long as somebody has it or is to be given it. *)
SameContents ==
  \A no \in Fields : Users(no) # {} /\ Users(no)' # {} =>
    m_DataF'[no].m_OperateType = m_DataF[no].m_OperateType /\ m_DataF'[no].cmd = m_DataF[no].cmd

LEMMA ListContents ==
  ASSUME AllGroups, FieldInv, NEW l \in Lists, ListStep(l)
  PROVE  SameContents
<1>1. CASE UNCHANGED m_DataF
  BY <1>1 DEF SameContents
<1>2. ASSUME NEW no \in Fields, InQue(no), \A e \in Fields : e # no => m_DataF'[e] = m_DataF[e]
      PROVE  SameContents
  BY <1>2 DEF SameContents, FieldInv, Counted
<1>3. CASE Work(l)
  BY <1>2, <1>3, WorkEffect
<1>4. CASE WorkNoMem(l)
  BY <1>2, <1>4, WorkNoMemEffect
<1>5. CASE Push(l) \/ Drain(l) \/ Verify(l)
  BY <1>1, <1>5 DEF Push, Drain, Verify, pool
<1> QED
  BY <1>3, <1>4, <1>5 DEF ListStep

(* What FreeCommand leaves in the fields. *)
LEMMA FreeContents ==
  ASSUME FieldInv, NEW c \in Servers, FreeCommand(c)
  PROVE  SameContents
<1>1. PICK no \in Fields : no = srv[c].no
  BY ServerFacts DEF FreeCommand, FieldInv, OneByOne, GoodServer
<1>2. /\ srv[c].pc = "free" /\ FreeAField(no) /\ srv' = [srv EXCEPT ![c] = Idle]
      /\ UNCHANGED <<lst, m_pDataQue>>
  BY <1>1 DEF FreeCommand
<1>3. \A d \in Servers : srv'[d] = IF d = c THEN Idle ELSE srv[d]
  BY <1>2 DEF FieldInv, TypeInv, TypeOK
<1>4. Idle.pc = "pop"
  BY DEF Idle, ServerAt
<1>5. ~ QueuedAt(c, no) /\ ~ Awaits(c, no) /\ Uses(c, no)
  BY <1>1, <1>2 DEF FieldInv, OncePlaced, Uses
<1>6. \A d \in Servers : /\ Uses(d, no)' <=> Uses(d, no) /\ d # c
                         /\ Awaits(d, no)' <=> Awaits(d, no)
  BY <1>1, <1>2, <1>3, <1>4, <1>5 DEF Uses, QueuedAt, Awaits
<1>7. Users(no)' = Users(no) \ {c} /\ c \in Users(no)
  BY <1>5, <1>6 DEF Users
<1>8. m_DataF \in [Fields -> FieldType] /\ m_DataF[no] \in FieldType
  BY DEF FieldInv, TypeInv, TypeOK, PoolTypeOK
<1>9. CASE m_DataF' = [m_DataF EXCEPT ![no].m_FreeSymbole = m_DataF[no].m_FreeSymbole - 1]
  BY <1>8, <1>9 DEF SameContents, FieldType
<1>10. CASE Users(no) = {c} /\ m_DataF' = [m_DataF EXCEPT ![no] = ResetField(no)]
  <2>1. Users(no)' = {}
    BY <1>7, <1>10
  <2>2. \A e \in Fields : e # no => m_DataF'[e] = m_DataF[e]
    BY <1>8, <1>10
  <2> QED
    BY <2>1, <2>2 DEF SameContents
<1> QED
  BY <1>2, <1>7, <1>9, <1>10, FreeSharedEffect

(* A server thread that is given nothing and takes nothing: it goes on with the command in its hand,
   lets go of it, or has none. *)
Undisturbed(c) ==
  /\ m_pDataQue'[c] = m_pDataQue[c]
  /\ srv'[c].pc # "pop" =>
       srv[c].pc # "pop" /\ srv'[c].cmd = srv[c].cmd /\ srv'[c].op = srv[c].op
  /\ remote'[c].rank # remote[c].rank => srv[c].pc # "pop" /\ remote'[c].rank = srv[c].cmd

LEMMA QueuedContents ==
  ASSUME TypeInv, SameContents, NEW c \in Servers, m_pDataQue'[c] = m_pDataQue[c]
  PROVE  \A i \in DOMAIN m_pDataQue[c] :
           /\ CmdAt(c, i)' = CmdAt(c, i)
           /\ m_DataF'[m_pDataQue[c][i]].m_OperateType = m_DataF[m_pDataQue[c][i]].m_OperateType
<1> SUFFICES ASSUME NEW i \in DOMAIN m_pDataQue[c]
             PROVE  /\ CmdAt(c, i)' = CmdAt(c, i)
                    /\ m_DataF'[m_pDataQue[c][i]].m_OperateType = m_DataF[m_pDataQue[c][i]].m_OperateType
  OBVIOUS
<1>1. PICK no \in Fields : no = m_pDataQue[c][i]
  BY LenProperties, ElementOfSeq DEF TypeInv, TypeOK
<1>2. QueuedAt(c, no) /\ QueuedAt(c, no)'
  BY <1>1 DEF QueuedAt
<1>3. c \in Users(no) /\ c \in Users(no)'
  BY <1>2 DEF Users, Uses
<1> QED
  BY <1>1, <1>3 DEF SameContents, CmdAt

LEMMA NumbersType ==
  ASSUME TypeInv, NEW c \in Servers
  PROVE  /\ remote[c].rank \in Nat /\ srv[c].cmd \in Nat
         /\ \A i \in DOMAIN m_pDataQue[c] : CmdAt(c, i) \in Nat
<1>1. ASSUME NEW i \in DOMAIN m_pDataQue[c] PROVE CmdAt(c, i) \in Nat
  <2>1. m_pDataQue[c][i] \in Fields
    BY LenProperties, ElementOfSeq DEF TypeInv, TypeOK
  <2> QED
    BY <2>1 DEF CmdAt, TypeInv, TypeOK, PoolTypeOK, FieldType
<1>2. remote[c] \in RemoteStates /\ srv[c] \in ServerStates
  BY ServerFacts
<1> QED
  BY <1>1, <1>2 DEF RemoteStates, ServerStates

NumbersTyped ==
  \A c \in Servers : /\ remote[c].rank \in Nat /\ srv[c].cmd \in Nat
                      /\ \A i \in DOMAIN m_pDataQue[c] : CmdAt(c, i) \in Nat

LEMMA NumbersAre == TypeInv => NumbersTyped
BY NumbersType DEF NumbersTyped

LEMMA UndisturbedKeeps ==
  ASSUME TypeInv, SameContents, NEW c \in Servers, Undisturbed(c)
  PROVE  /\ Chain(c) => Chain(c)'
         /\ \A b \in Int : Below(c, b) => Below(c, b)'
         /\ \A op : LastIs(c, op) => LastIs(c, op)'
<1>1. /\ m_pDataQue'[c] = m_pDataQue[c]
      /\ \A i \in DOMAIN m_pDataQue[c] :
           /\ CmdAt(c, i)' = CmdAt(c, i)
           /\ m_DataF'[m_pDataQue[c][i]].m_OperateType = m_DataF[m_pDataQue[c][i]].m_OperateType
  BY QueuedContents DEF Undisturbed
<1>2. /\ remote[c].rank \in Nat /\ srv[c].cmd \in Nat
      /\ \A i \in DOMAIN m_pDataQue[c] : CmdAt(c, i) \in Nat
  BY NumbersType
<1>3. ASSUME Chain(c) PROVE Chain(c)'
  <2>1. srv'[c].pc # "pop" => remote'[c].rank <= srv'[c].cmd
    BY <1>2, <1>3 DEF Chain, Undisturbed
  <2>2. ASSUME NEW i \in DOMAIN m_pDataQue'[c]
        PROVE  /\ remote'[c].rank < CmdAt(c, i)'
               /\ srv'[c].pc # "pop" => srv'[c].cmd < CmdAt(c, i)'
               /\ \A k \in DOMAIN m_pDataQue'[c] : i < k => CmdAt(c, i)' < CmdAt(c, k)'
    BY <1>1, <1>2, <1>3, <2>2 DEF Chain, Undisturbed
  <2> QED
    BY <2>1, <2>2 DEF Chain
<1>4. ASSUME NEW b \in Int, Below(c, b) PROVE Below(c, b)'
  BY <1>1, <1>2, <1>4 DEF Below, Undisturbed
<1>5. ASSUME NEW op, LastIs(c, op) PROVE LastIs(c, op)'
  <2>1. CASE m_pDataQue[c] = <<>>
    BY <1>1, <1>5, <2>1 DEF LastIs, Undisturbed
  <2>2. CASE m_pDataQue[c] # <<>>
    <3>1. Len(m_pDataQue[c]) \in DOMAIN m_pDataQue[c]
      BY <2>2, LenProperties, EmptySeq DEF TypeInv, TypeOK
    <3> QED
      BY <1>1, <1>5, <2>2, <3>1 DEF LastIs
  <2> QED
    BY <2>1, <2>2
<1> QED
  BY <1>3, <1>4, <1>5

LEMMA PopKeeps ==
  ASSUME AllGroups, FieldInv, NEW c \in Servers, PopCommand(c)
  PROVE  /\ Chain(c) => Chain(c)'
         /\ \A b \in Int : Below(c, b) => Below(c, b)'
         /\ \A op : LastIs(c, op) => LastIs(c, op)'
<1> DEFINE q == m_pDataQue[c]
<1>1. PICK no \in Fields : no = Head(q)
  BY PopEffect
<1>2. /\ q # <<>> /\ srv[c].pc = "pop" /\ UNCHANGED <<pool, remote>>
      /\ srv' = [srv EXCEPT ![c] = ServerAt("send", no, m_DataF[no].m_OperateType, m_DataF[no].cmd, FALSE)]
      /\ m_pDataQue' = [m_pDataQue EXCEPT ![c] = Tail(q)]
  BY <1>1, PopEffect
<1>3. q \in Seq(Fields) /\ m_pDataQue'[c] = Tail(q)
  BY <1>2 DEF FieldInv, TypeInv, TypeOK
<1>4. /\ srv'[c].pc = "send" /\ srv'[c].cmd = m_DataF[no].cmd /\ srv'[c].op = m_DataF[no].m_OperateType
  BY <1>2 DEF FieldInv, TypeInv, TypeOK, ServerAt
<1>5. /\ DOMAIN q = 1 .. Len(q) /\ Len(q) \in Nat \ {0} /\ Head(q) = q[1]
      /\ DOMAIN Tail(q) = 1 .. Len(q) - 1 /\ Len(Tail(q)) = Len(q) - 1
      /\ \A i \in 1 .. Len(q) - 1 : Tail(q)[i] = q[i + 1]
  BY <1>2, <1>3, HeadTailProperties, LenProperties, EmptySeq
<1>6. \A i \in DOMAIN m_pDataQue'[c] :
        /\ i + 1 \in DOMAIN q /\ 1 < i + 1 /\ CmdAt(c, i)' = CmdAt(c, i + 1)
        /\ i \in Int
  <2>1. m_DataF' = m_DataF
    BY <1>2 DEF pool
  <2>2. ASSUME NEW i \in DOMAIN m_pDataQue'[c]
        PROVE  i \in 1 .. Len(q) - 1 /\ m_pDataQue'[c][i] = q[i + 1]
    <3> HIDE DEF q
    <3> QED
      BY <1>3, <1>5
  <2>3. \A i \in 1 .. Len(q) - 1 : i + 1 \in DOMAIN q /\ 1 < i + 1 /\ i \in Int
    BY <1>5
  <2> QED
    BY <2>1, <2>2, <2>3 DEF CmdAt
<1>7. /\ remote[c].rank \in Nat /\ srv[c].cmd \in Nat /\ remote'[c].rank = remote[c].rank
      /\ \A i \in DOMAIN q : CmdAt(c, i) \in Nat
  BY <1>2, NumbersType DEF FieldInv
<1>8. 1 \in DOMAIN q /\ srv'[c].cmd = CmdAt(c, 1)
  BY <1>1, <1>4, <1>5 DEF CmdAt
<1>9. ASSUME Chain(c) PROVE Chain(c)'
  <2>1. remote'[c].rank <= srv'[c].cmd
    BY <1>7, <1>8, <1>9 DEF Chain
  <2>2. ASSUME NEW i \in DOMAIN m_pDataQue'[c]
        PROVE  /\ remote'[c].rank < CmdAt(c, i)'
               /\ srv'[c].cmd < CmdAt(c, i)'
    BY <1>6, <1>7, <1>8, <1>9, <2>2 DEF Chain
  <2>3. ASSUME NEW i \in DOMAIN m_pDataQue'[c], NEW k \in DOMAIN m_pDataQue'[c], i < k
        PROVE  CmdAt(c, i)' < CmdAt(c, k)'
    <3>1. i + 1 \in DOMAIN q /\ k + 1 \in DOMAIN q /\ i + 1 < k + 1
      BY <1>6, <2>3
    <3>2. CmdAt(c, i + 1) < CmdAt(c, k + 1)
      BY <1>9, <3>1 DEF Chain
    <3> QED
      BY <1>6, <3>2
  <2> QED
    BY <1>4, <2>1, <2>2, <2>3 DEF Chain
<1>10. ASSUME NEW b \in Int, Below(c, b) PROVE Below(c, b)'
  BY <1>6, <1>7, <1>8, <1>10 DEF Below
<1>11. ASSUME NEW op, LastIs(c, op) PROVE LastIs(c, op)'
  <2>1. m_DataF[q[Len(q)]].m_OperateType = op
    BY <1>2, <1>11 DEF LastIs
  <2>2. CASE Tail(q) = <<>>
    <3>1. Len(q) = 1
      <4>1. Len(Tail(q)) = 0
        BY <2>2, EmptySeq
      <4>2. Len(Tail(q)) = Len(q) - 1 /\ Len(q) \in Nat
        BY <1>5
      <4>3. Len(q) - 1 = 0
        BY <4>1, <4>2, Zenon
      <4> QED
        BY <4>2, <4>3
    <3> QED
      BY <1>1, <1>3, <1>4, <1>5, <2>1, <2>2, <3>1 DEF LastIs
  <2>3. CASE Tail(q) # <<>>
    <3>1. Len(Tail(q)) \in 1 .. Len(q) - 1
      BY <1>2, <1>3, <1>5, <2>3, HeadTailProperties, EmptySeq
    <3>2. Tail(q)[Len(Tail(q))] = q[Len(q)]
      BY <1>5, <3>1
    <3> QED
      BY <1>2, <1>3, <2>1, <2>3, <3>2 DEF LastIs, pool
  <2> QED
    BY <2>2, <2>3
<1> QED
  BY <1>9, <1>10, <1>11

(* A command with a number above all those before it is put on the queue. *)
LEMMA PushKeeps ==
  ASSUME FieldInv, NEW c \in Servers, NEW no \in Fields, NEW b \in Int,
         Chain(c), Below(c, b), b < m_DataF[no].cmd,
         m_pDataQue' = [m_pDataQue EXCEPT ![c] = Append(@, no)], UNCHANGED <<pool, srv, remote>>
  PROVE  Chain(c)' /\ Below(c, m_DataF[no].cmd)' /\ LastIs(c, m_DataF[no].m_OperateType)'
<1> DEFINE q == m_pDataQue[c]
           t == Append(q, no)
<1>1. q \in Seq(Fields) /\ m_pDataQue'[c] = t
  BY DEF FieldInv, TypeInv, TypeOK
<1>2. /\ DOMAIN q = 1 .. Len(q) /\ Len(q) \in Nat /\ DOMAIN t = 1 .. Len(q) + 1 /\ Len(t) = Len(q) + 1
      /\ t[Len(q) + 1] = no /\ t # <<>> /\ \A i \in 1 .. Len(q) : t[i] = q[i]
  <2>1. /\ t \in Seq(Fields) /\ Len(t) = Len(q) + 1 /\ t[Len(q) + 1] = no /\ t # <<>>
        /\ \A i \in 1 .. Len(q) : t[i] = q[i]
    BY <1>1, AppendProperties
  <2> QED
    BY <1>1, <2>1, LenProperties
<1>3. m_DataF[no].cmd \in Nat /\ m_DataF' = m_DataF
  BY DEF FieldInv, TypeInv, TypeOK, PoolTypeOK, FieldType, pool
<1>4. /\ remote[c].rank \in Nat /\ srv[c].cmd \in Nat /\ remote' = remote /\ srv' = srv
      /\ \A i \in DOMAIN q : CmdAt(c, i) \in Nat
  BY NumbersType DEF FieldInv
<1> HIDE DEF t
<1>5. \A i \in DOMAIN m_pDataQue'[c] :
        \/ i \in DOMAIN q /\ CmdAt(c, i)' = CmdAt(c, i) /\ CmdAt(c, i) <= b /\ i <= Len(q)
        \/ i = Len(q) + 1 /\ CmdAt(c, i)' = m_DataF[no].cmd
  BY <1>1, <1>2, <1>3 DEF CmdAt, Below
<1>6. remote[c].rank <= b /\ (srv[c].pc # "pop" => srv[c].cmd <= b)
  BY DEF Below
<1>7. Chain(c)'
  <2>1. ASSUME NEW i \in DOMAIN m_pDataQue'[c]
        PROVE  /\ remote'[c].rank < CmdAt(c, i)'
               /\ srv'[c].pc # "pop" => srv'[c].cmd < CmdAt(c, i)'
    BY <1>3, <1>4, <1>5, <1>6 DEF Chain
  <2>2. ASSUME NEW i \in DOMAIN m_pDataQue'[c], NEW k \in DOMAIN m_pDataQue'[c], i < k
        PROVE  CmdAt(c, i)' < CmdAt(c, k)'
    <3>1. CASE k \in DOMAIN q /\ CmdAt(c, k)' = CmdAt(c, k) /\ k <= Len(q)
      <4>1. i \in DOMAIN q /\ CmdAt(c, i)' = CmdAt(c, i)
        BY <1>2, <1>5, <2>2, <3>1
      <4> QED
        BY <2>2, <3>1, <4>1 DEF Chain
    <3>2. CASE k = Len(q) + 1 /\ CmdAt(c, k)' = m_DataF[no].cmd
      <4>1. i \in DOMAIN q /\ CmdAt(c, i)' = CmdAt(c, i) /\ CmdAt(c, i) <= b
        BY <1>2, <1>5, <2>2, <3>2
      <4> QED
        BY <1>3, <1>4, <3>2, <4>1
    <3> QED
      BY <1>5, <3>1, <3>2
  <2>3. srv'[c].pc # "pop" => remote'[c].rank <= srv'[c].cmd
    BY <1>4 DEF Chain
  <2> QED
    BY <2>1, <2>2, <2>3 DEF Chain
<1>8. Below(c, m_DataF[no].cmd)'
  BY <1>3, <1>4, <1>5, <1>6 DEF Below
<1>9. LastIs(c, m_DataF[no].m_OperateType)'
  BY <1>1, <1>2, <1>3 DEF LastIs
<1> QED
  BY <1>7, <1>8, <1>9

(* What a step that neither gives server thread c a command nor changes its list keeps of it. *)
Kept(c) ==
  /\ Chain(c) => Chain(c)'
  /\ \A b \in Int : Below(c, b) => Below(c, b)'
  /\ \A op : LastIs(c, op) => LastIs(c, op)'
  /\ m_pDataQue[c] = <<>> => m_pDataQue'[c] = <<>>

InPlace(c) == Chain(c) /\ Capped(c) /\ LastGiven(c)

LEMMA CapType ==
  ASSUME TypeInv, NEW c \in Servers, NEW r \in ListStates
  PROVE  Cap(r, c) \in Int /\ Rank(r.pos) \in Nat
<1>1. Rank(r.pos) \in Nat
  BY RankType DEF ListStates
<1> QED
  BY <1>1 DEF Cap

LEMMA InPlaceKept ==
  ASSUME TypeInv, NEW c \in Servers, lst'[c[1]] = lst[c[1]], Kept(c), InPlace(c)
  PROVE  InPlace(c)'
<1>1. c[1] \in Lists /\ lst[c[1]] \in ListStates
  BY ServerParts, GroupFacts
<1>2. Cap(lst[c[1]], c) \in Int
  BY <1>1, CapType
<1>3. Chain(c)'
  BY DEF Kept, InPlace
<1>4. Capped(c)'
  BY <1>2 DEF Kept, InPlace, Capped
<1>5. LastGiven(c)'
  BY DEF Kept, InPlace, LastGiven
<1> QED
  BY <1>3, <1>4, <1>5 DEF InPlace

LEMMA IssuedKept ==
  ASSUME FieldInv, SameContents, NEW l \in Lists, lst'[l] = lst[l], Issued(l)
  PROVE  Issued(l)'
<1>1. CASE lst[l].pc = "push"
  <2>1. PICK c \in Servers, no \in Fields : c = <<l, lst[l].g, lst[l].j>> /\ no = lst[l].no
    BY <1>1, GroupFacts DEF GoodList, FieldInv
  <2>2. lst[l].j <= lst[l].j
    <3>1. lst[l].j \in Nat
      BY GroupFacts DEF FieldInv, ListStates
    <3> QED
      BY <3>1
  <2>3. Awaits(c, no) /\ Awaits(c, no)'
    BY <1>1, <2>1, <2>2 DEF Awaits
  <2>4. c \in Users(no) /\ c \in Users(no)'
    BY <2>3 DEF Users
  <2> QED
    BY <1>1, <2>1, <2>4 DEF Issued, SameContents
<1>2. CASE lst[l].pc # "push"
  BY <1>2 DEF Issued
<1> QED
  BY <1>1, <1>2

LEMMA UndisturbedKept ==
  ASSUME TypeInv, SameContents, NEW c \in Servers, Undisturbed(c)
  PROVE  Kept(c)
BY UndisturbedKeeps DEF Kept, Undisturbed

(* A step of a server thread. *)
LEMMA ServerOrder ==
  ASSUME FieldInv, OrderInv, SameContents, UNCHANGED lst, \A c \in Servers : Kept(c)
  PROVE  OrderInv'
<1>1. \A l \in Lists : Issued(l)'
  BY IssuedKept DEF OrderInv
<1>2. \A c \in Servers : InPlace(c)'
  BY InPlaceKept DEF OrderInv, InPlace, FieldInv
<1> QED
  BY <1>1, <1>2 DEF OrderInv, InPlace

(* A step of list thread l. *)
LEMMA ListOrder ==
  ASSUME FieldInv, OrderInv, SameContents, NEW l \in Lists, NEW r, lst' = [lst EXCEPT ![l] = r],
         UNCHANGED <<srv, remote>>,
         \A c \in Servers : c[1] # l => m_pDataQue'[c] = m_pDataQue[c],
         Issued(l)', \A c \in Servers : c[1] = l => InPlace(c)'
  PROVE  OrderInv'
<1>1. \A k \in Lists : lst'[k] = IF k = l THEN r ELSE lst[k]
  BY DEF FieldInv, TypeInv, TypeOK
<1>2. \A k \in Lists : Issued(k)'
  BY <1>1, IssuedKept DEF OrderInv
<1>3. ASSUME NEW c \in Servers, c[1] # l PROVE InPlace(c)'
  <2>1. Undisturbed(c)
    BY <1>3 DEF Undisturbed
  <2>2. Kept(c)
    BY <2>1, UndisturbedKept DEF FieldInv
  <2>3. lst'[c[1]] = lst[c[1]]
    BY <1>1, <1>3, ServerParts
  <2> QED
    BY <2>2, <2>3, InPlaceKept DEF FieldInv, OrderInv, InPlace
<1>4. \A c \in Servers : InPlace(c)'
  BY <1>3
<1> QED
  BY <1>2, <1>4 DEF OrderInv, InPlace

(* What the invariant says of the servers of list l, in its own terms. *)
LEMMA OwnServer ==
  ASSUME FieldInv, OrderInv, NEW l \in Lists, NEW c \in Servers, c[1] = l
  PROVE  /\ Chain(c) /\ lst[l] \in ListStates /\ Cap(lst[l], c) \in Int /\ Rank(lst[l].pos) \in Nat
         /\ lst[l].g <= c[2] => Below(c, Cap(lst[l], c))
         /\ c[2] \in Nat /\ c[3] \in Nat \ {0} /\ lst[l].g \in Nat /\ lst[l].j \in Nat
<1>1. Chain(c) /\ Capped(c)
  BY DEF OrderInv
<1>2. lst[l] \in ListStates /\ lst[l].g \in 1 .. MaxGroups
  BY GroupFacts DEF FieldInv, ListStates
<1>3. c[2] \in Nat /\ c[3] \in Nat \ {0}
  BY ServerParts, LayoutAssumption, BoundsAssumption
<1>4. lst[l].g \in Nat /\ lst[l].j \in Nat
  BY <1>2, BoundsAssumption DEF ListStates
<1> QED
  BY <1>1, <1>2, <1>3, <1>4, CapType DEF Capped, FieldInv

LEMMA WorkOrder ==
  ASSUME AllGroups, FieldInv, OrderInv, NEW l \in Lists, Work(l)
  PROVE  OrderInv'
<1>1. PICK no \in Fields :
           /\ lst[l].pc = "get"
           /\ lst' = [lst EXCEPT ![l] = [lst[l] EXCEPT !.pc = "push", !.no = no, !.j = 1]]
           /\ m_DataF'[no].m_OperateType = lst[l].pos.op
           /\ m_DataF'[no].cmd = Rank(lst[l].pos)
           /\ UNCHANGED <<m_pDataQue, srv, remote>>
  BY WorkEffect
<1>2. SameContents
  BY ListContents DEF ListStep
<1> DEFINE r == [lst[l] EXCEPT !.pc = "push", !.no = no, !.j = 1]
<1>3. lst[l] \in ListStates /\ lst \in [Lists -> ListStates]
  BY DEF FieldInv, TypeInv, TypeOK
<1>4. r.pc = "push" /\ r.no = no /\ r.j = 1 /\ r.g = lst[l].g /\ r.pos = lst[l].pos /\ lst'[l] = r
  BY <1>1, <1>3 DEF ListStates
<1>5. lst' = [lst EXCEPT ![l] = r]
  BY <1>1
<1> HIDE DEF r
<1>6. Issued(l)'
  BY <1>1, <1>4 DEF Issued
<1>7. ASSUME NEW c \in Servers, c[1] = l PROVE InPlace(c)'
  <2>1. /\ Chain(c) /\ Cap(lst[l], c) \in Int
        /\ lst[l].g <= c[2] => Below(c, Cap(lst[l], c))
        /\ c[3] \in Nat \ {0}
    BY <1>7, OwnServer
  <2>2. Kept(c)
    <3>1. Undisturbed(c)
      BY <1>1 DEF Undisturbed
    <3> QED
      BY <1>2, <3>1, UndisturbedKept DEF FieldInv
  <2>3. Cap(r, c) = Cap(lst[l], c)
    BY <1>1, <1>4, <2>1 DEF Cap
  <2>4. Capped(c)'
    BY <1>4, <1>7, <2>1, <2>2, <2>3 DEF Capped, Kept
  <2>5. LastGiven(c)'
    BY <1>4, <1>7, <2>1 DEF LastGiven
  <2> QED
    BY <2>1, <2>2, <2>4, <2>5 DEF InPlace, Kept
<1> QED
  BY <1>1, <1>2, <1>5, <1>6, <1>7, ListOrder

LEMMA DrainOrder ==
  ASSUME AllGroups, FieldInv, OrderInv, NEW l \in Lists, Drain(l)
  PROVE  OrderInv'
<1>1. SameContents /\ UNCHANGED <<m_pDataQue, srv, remote>>
  BY ListContents DEF ListStep, Drain
<1>2. /\ lst[l] \in ListStates /\ lst \in [Lists -> ListStates] /\ lst[l].pc = "drain"
      /\ lst[l].j \in 1 .. GroupOf(l).n /\ GroupOf(l).n \in Nat /\ lst[l].j \in Nat
      /\ m_pDataQue[<<l, lst[l].g, lst[l].j>>] = <<>>
      /\ GroupOf(l).n = Layout[l][lst[l].g].n
  BY GroupFacts DEF FieldInv, TypeInv, TypeOK, Drain
<1>3. PICK r : /\ lst' = [lst EXCEPT ![l] = r]
               /\ IF lst[l].j < GroupOf(l).n THEN r = [lst[l] EXCEPT !.j = lst[l].j + 1]
                  ELSE r = [lst[l] EXCEPT !.pc = "verify"]
  BY DEF Drain
<1>4. /\ r.g = lst[l].g /\ r.pos = lst[l].pos /\ lst'[l] = r
      /\ \/ r.pc = "drain" /\ r.j = lst[l].j + 1
         \/ r.pc = "verify" /\ lst[l].j = GroupOf(l).n
  BY <1>2, <1>3 DEF ListStates
<1>5. Issued(l)'
  <2>1. Issued(l)
    BY DEF OrderInv
  <2> QED
    BY <1>2, <1>4, <2>1 DEF Issued
<1>6. ASSUME NEW c \in Servers, c[1] = l PROVE InPlace(c)'
  <2>1. /\ Chain(c) /\ Cap(lst[l], c) \in Int
        /\ lst[l].g <= c[2] => Below(c, Cap(lst[l], c))
        /\ c[3] \in Nat \ {0}
    BY <1>6, OwnServer
  <2>2. Kept(c)
    <3>1. Undisturbed(c)
      BY <1>1 DEF Undisturbed
    <3> QED
      BY <1>1, <3>1, UndisturbedKept DEF FieldInv
  <2>3. Cap(r, c) = Cap(lst[l], c)
    BY <1>2, <1>4 DEF Cap
  <2>4. Capped(c)'
    BY <1>4, <1>6, <2>1, <2>2, <2>3 DEF Capped, Kept
  <2>5. LastGiven(c)'
    <3> SUFFICES ASSUME lst[l].g = c[2]
                 PROVE  /\ LastIs(c, "CLOSE_FILE")'
                        /\ r.pc = "drain" /\ c[3] < r.j => m_pDataQue'[c] = <<>>
                        /\ r.pc = "verify" => m_pDataQue'[c] = <<>>
      BY <1>4, <1>6 DEF LastGiven
    <3>1. LastIs(c, "CLOSE_FILE") /\ (c[3] < lst[l].j => m_pDataQue[c] = <<>>)
      BY <1>2, <1>6 DEF OrderInv, LastGiven
    <3>2. c = <<l, lst[l].g, c[3]>> /\ c[3] <= GroupOf(l).n
      <4>1. c[3] \in 1 .. Layout[c[1]][c[2]].n /\ c = <<c[1], c[2], c[3]>>
        BY ServerParts
      <4> QED
        BY <1>2, <1>6, <4>1
    <3>3. c[3] <= lst[l].j => m_pDataQue[c] = <<>>
      BY <1>2, <2>1, <3>1, <3>2
    <3> QED
      BY <1>1, <1>2, <1>4, <2>1, <2>2, <3>1, <3>2, <3>3 DEF Kept
  <2> QED
    BY <2>1, <2>2, <2>4, <2>5 DEF InPlace, Kept
<1> QED
  BY <1>1, <1>3, <1>5, <1>6, ListOrder

(* Going on to the next group, or to the end, after everything in the group has been given out. *)
LEMMA AfterGroupOrder ==
  ASSUME FieldInv, NEW l \in Lists, NEW c \in Servers, c[1] = l,
         lst'[l] = AfterGroup(l), Chain(c)',
         NEW b \in Int, b = Rank(lst[l].pos),
         c[2] = lst[l].g => Below(c, b)', lst[l].g < c[2] => Below(c, 0)'
  PROVE  InPlace(c)'
<1>1. /\ lst[l].g \in 1 .. MaxGroups /\ c[2] \in 1 .. MaxGroups /\ MaxGroups \in Nat
  <2>1. c[2] \in 1 .. MaxGroups
    BY DEF Servers
  <2> QED
    BY <2>1, GroupFacts, BoundsAssumption DEF FieldInv, ListStates
<1>2. CASE lst[l].g < Len(Layout[l])
  <2>1. /\ lst'[l].pc = "get" /\ lst'[l].g = lst[l].g + 1 /\ lst'[l].pos = Pos("START_LST", 1, 0)
    BY <1>2 DEF AfterGroup, GroupStart, ListAt
  <2>2. Rank(Pos("START_LST", 1, 0)) = 1
    BY DEF Rank, Pos
  <2>3. lst'[l].g <= c[2] => lst[l].g < c[2] /\ Cap(lst'[l], c) = 0
    BY <1>1, <2>1, <2>2 DEF Cap
  <2> QED
    BY <2>1, <2>3 DEF InPlace, Capped, LastGiven
<1>3. CASE ~ (lst[l].g < Len(Layout[l]))
  <2>1. lst'[l].pc = "done" /\ lst'[l].g = lst[l].g /\ lst'[l].pos = lst[l].pos
    BY <1>3 DEF AfterGroup, ListAt
  <2>2. Cap(lst'[l], c) = IF lst[l].g < c[2] THEN 0 ELSE Rank(lst[l].pos)
    BY <2>1 DEF Cap
  <2> QED
    BY <1>1, <2>1, <2>2 DEF InPlace, Capped, LastGiven
<1> QED
  BY <1>2, <1>3

LEMMA NoneIssued ==
  ASSUME NEW l \in Lists, lst'[l].pc \in {"get", "done"}
  PROVE  Issued(l)'
BY DEF Issued

(* The next command of the same group, after everything up to the last has been given out. *)
LEMMA NextCommandOrder ==
  ASSUME FieldInv, NEW l \in Lists, NEW c \in Servers, c[1] = l,
         NEW type, NEW q \in Following(lst[l].pos, type), lst[l].pos.op # "END_LST",
         lst'[l] = ListAt("get", lst[l].g, q), TypeInv', Chain(c)',
         NEW b \in Int, b = Rank(lst[l].pos),
         c[2] = lst[l].g => Below(c, b)', lst[l].g < c[2] => Below(c, 0)'
  PROVE  InPlace(c)'
<1>1. lst[l].pos \in Positions /\ lst[l].g \in 1 .. MaxGroups /\ c[2] \in 1 .. MaxGroups /\ MaxGroups \in Nat
  <2>1. c[2] \in 1 .. MaxGroups
    BY DEF Servers
  <2> QED
    BY <2>1, GroupFacts, BoundsAssumption DEF FieldInv, ListStates
<1>2. Rank(lst[l].pos) \in Nat /\ Rank(q) \in Nat /\ Rank(lst[l].pos) < Rank(q)
  BY <1>1, FollowingType, RankType, RankGrows
<1>3. lst'[l].pc = "get" /\ lst'[l].g = lst[l].g /\ lst'[l].pos = q
  BY DEF ListAt
<1>4. Cap(lst'[l], c) = IF lst[l].g < c[2] THEN 0 ELSE Rank(q) - 1
  BY <1>3 DEF Cap
<1>5. ASSUME NEW d \in Int, d = Rank(q) - 1, c[2] = lst[l].g PROVE Below(c, d)'
  <2>1. b <= d /\ Below(c, b)'
    BY <1>2, <1>5
  <2>2. NumbersTyped'
    BY NumbersAre, PTL
  <2> QED
    BY <2>1, <2>2 DEF Below, NumbersTyped
<1>6. PICK d \in Int : d = Rank(q) - 1
  BY <1>2
<1>7. PICK e \in Int : e = Cap(lst'[l], c)
  BY <1>4, <1>6
<1>8. lst[l].g <= c[2] => Below(c, e)'
  <2>1. CASE c[2] = lst[l].g
    <3>1. e = d
      BY <1>1, <1>4, <1>6, <1>7, <2>1
    <3> QED
      BY <1>5, <1>6, <2>1, <3>1
  <2>2. CASE lst[l].g < c[2]
    <3>1. e = 0
      BY <1>4, <1>7, <2>2
    <3> QED
      BY <2>2, <3>1
  <2> QED
    BY <1>1, <2>1, <2>2
<1>9. Capped(c)'
  BY <1>3, <1>7, <1>8 DEF Capped, Below
<1> QED
  BY <1>3, <1>9 DEF InPlace, LastGiven

LEMMA VerifyOrder ==
  ASSUME AllGroups, FieldInv, FieldInv', OrderInv, NEW l \in Lists, Verify(l)
  PROVE  OrderInv'
<1>1. SameContents /\ UNCHANGED <<m_pDataQue, srv, remote>> /\ lst[l].pc = "verify"
  BY ListContents DEF ListStep, Verify
<1>2. PICK r \in {ListAt("get", lst[l].g, Pos("END_LST", NFiles, 0)), AfterGroup(l)} :
        lst' = [lst EXCEPT ![l] = r]
  BY DEF Verify
<1>3. lst'[l] = r /\ lst[l].pos.op = "CLOSE_FILE" /\ lst[l].pos.f = NFiles
  BY <1>1, <1>2 DEF FieldInv, TypeInv, TypeOK, OrderInv, Issued
<1>4. Issued(l)'
  BY <1>3, NoneIssued DEF ListAt, AfterGroup, GroupStart
<1>5. ASSUME NEW c \in Servers, c[1] = l PROVE InPlace(c)'
  <2>1. /\ Chain(c) /\ Cap(lst[l], c) \in Int /\ Rank(lst[l].pos) \in Nat
        /\ lst[l].g <= c[2] => Below(c, Cap(lst[l], c))
        /\ c[2] \in Nat /\ lst[l].g \in Nat
    BY <1>5, OwnServer
  <2>2. Kept(c)
    <3>1. Undisturbed(c)
      BY <1>1 DEF Undisturbed
    <3> QED
      BY <1>1, <3>1, UndisturbedKept DEF FieldInv
  <2>3. Cap(lst[l], c) = IF lst[l].g < c[2] THEN 0 ELSE Rank(lst[l].pos)
    BY <1>1 DEF Cap
  <2>4. /\ Chain(c)'
        /\ c[2] = lst[l].g => Below(c, Rank(lst[l].pos))
        /\ lst[l].g < c[2] => Below(c, 0)
    BY <2>1, <2>2, <2>3 DEF Kept
  <2>5. /\ \A b \in Int : Below(c, b) => Below(c, b)'
    BY <2>2 DEF Kept
  <2>6. PICK b \in Int : b = Rank(lst[l].pos)
    BY <2>1
  <2>7. (c[2] = lst[l].g => Below(c, b)') /\ (lst[l].g < c[2] => Below(c, 0)')
    BY <2>4, <2>5, <2>6
  <2>8. CASE r = AfterGroup(l)
    BY <1>3, <1>5, <2>4, <2>6, <2>7, <2>8, AfterGroupOrder
  <2>9. CASE r = ListAt("get", lst[l].g, Pos("END_LST", NFiles, 0))
    <3>1. NFiles \in Nat /\ ~ (NFiles < NFiles)
      BY BoundsAssumption
    <3>2. Pos("END_LST", NFiles, 0) \in Following(lst[l].pos, "ALL")
      BY <1>3, <3>1 DEF Following
    <3> QED
      BY <1>3, <1>5, <2>4, <2>6, <2>7, <2>9, <3>2, NextCommandOrder DEF FieldInv
  <2> QED
    BY <2>8, <2>9
<1> QED
  BY <1>1, <1>2, <1>4, <1>5, ListOrder

(* After a Push, what has been given to the servers of the list, up to the one pushed to and after. *)
LEMMA PushGiven ==
  ASSUME AllGroups, FieldInv, OrderInv, NEW l \in Lists, Push(l), NEW c \in Servers, c[1] = l,
         NEW b \in Int, b = Rank(lst[l].pos), NEW op, op = lst[l].pos.op
  PROVE  /\ Chain(c)'
         /\ lst[l].g < c[2] => Below(c, 0)'
         /\ lst[l].g = c[2] /\ c[3] <= lst[l].j => Below(c, b)' /\ LastIs(c, op)'
         /\ lst[l].g = c[2] /\ lst[l].j < c[3] => Below(c, b - 1)'
<1>1. PICK to \in Servers, no \in Fields :
           /\ to = <<l, lst[l].g, lst[l].j>> /\ no = lst[l].no
           /\ m_pDataQue' = [m_pDataQue EXCEPT ![to] = Append(@, no)]
           /\ UNCHANGED <<pool, srv, remote>>
  BY PushEffect
<1>2. /\ Chain(c) /\ Cap(lst[l], c) \in Int
      /\ lst[l].g <= c[2] => Below(c, Cap(lst[l], c))
      /\ c[2] \in Nat /\ c[3] \in Nat \ {0} /\ lst[l].g \in Nat /\ lst[l].j \in Nat
  BY OwnServer
<1>3. lst[l].pc = "push" /\ m_DataF[no].cmd = b /\ m_DataF[no].m_OperateType = op
  BY <1>1 DEF OrderInv, Issued, Push
<1>4. c = to <=> c[2] = lst[l].g /\ c[3] = lst[l].j
  BY <1>1, ServerParts
<1>5. Cap(lst[l], c) = IF lst[l].g < c[2] THEN 0 ELSE IF lst[l].j <= c[3] THEN b - 1 ELSE b
  BY <1>3 DEF Cap
<1>6. CASE c = to
  <2>1. Cap(lst[l], c) = b - 1 /\ c[2] = lst[l].g /\ c[3] = lst[l].j
    BY <1>2, <1>4, <1>5, <1>6
  <2>2. Below(c, b - 1)
    BY <1>2, <2>1
  <2>3. b - 1 \in Int /\ b - 1 < m_DataF[no].cmd
    BY <1>3
  <2>4. Chain(c)' /\ Below(c, m_DataF[no].cmd)' /\ LastIs(c, m_DataF[no].m_OperateType)'
    BY <1>1, <1>2, <1>6, <2>2, <2>3, PushKeeps
  <2>5. m_DataF' = m_DataF
    BY <1>1 DEF pool
  <2>6. Below(c, b)' /\ LastIs(c, op)'
    BY <1>3, <2>4, <2>5 DEF Below, LastIs
  <2> QED
    BY <1>2, <2>1, <2>4, <2>6
<1>7. CASE c # to
  <2>1. Kept(c)
    <3>1. Undisturbed(c)
      BY <1>1, <1>7 DEF Undisturbed, FieldInv, TypeInv, TypeOK
    <3> QED
      BY <3>1, UndisturbedKept, ListContents DEF ListStep, FieldInv
  <2>2. lst[l].g < c[2] => Below(c, 0)'
    BY <1>2, <1>5, <2>1 DEF Kept
  <2>3. ASSUME lst[l].g = c[2], c[3] <= lst[l].j PROVE Below(c, b)' /\ LastIs(c, op)'
    <3>1. c[3] < lst[l].j
      BY <1>2, <1>4, <1>7, <2>3
    <3>2. Below(c, b) /\ LastIs(c, op)
      BY <1>2, <1>3, <1>5, <2>3, <3>1 DEF OrderInv, LastGiven
    <3> QED
      BY <2>1, <3>2 DEF Kept
  <2>4. ASSUME lst[l].g = c[2], lst[l].j < c[3] PROVE Below(c, b - 1)'
    <3>1. Below(c, b - 1) /\ b - 1 \in Int
      BY <1>2, <1>5, <2>4
    <3> QED
      BY <2>1, <3>1 DEF Kept
  <2> QED
    BY <1>2, <2>1, <2>2, <2>3, <2>4 DEF Kept
<1> QED
  BY <1>6, <1>7

LEMMA PushOrder ==
  ASSUME AllGroups, FieldInv, FieldInv', OrderInv, NEW l \in Lists, Push(l)
  PROVE  OrderInv'
<1>0. PICK to \in Servers, no \in Fields :
           /\ to = <<l, lst[l].g, lst[l].j>> /\ no = lst[l].no
           /\ m_pDataQue' = [m_pDataQue EXCEPT ![to] = Append(@, no)]
           /\ \E r : /\ lst' = [lst EXCEPT ![l] = r]
                     /\ \/ lst[l].j < GroupOf(l).n /\ r = [lst[l] EXCEPT !.j = lst[l].j + 1]
                        \/ lst[l].j = GroupOf(l).n /\ r \in AfterCommand(l) /\ r.pc # "push"
           /\ UNCHANGED <<pool, srv, remote>>
  BY PushEffect
<1>1. PICK r :
           /\ to = <<l, lst[l].g, lst[l].j>> /\ no = lst[l].no
           /\ m_pDataQue' = [m_pDataQue EXCEPT ![to] = Append(@, no)]
           /\ lst' = [lst EXCEPT ![l] = r]
           /\ \/ lst[l].j < GroupOf(l).n /\ r = [lst[l] EXCEPT !.j = lst[l].j + 1]
              \/ lst[l].j = GroupOf(l).n /\ r \in AfterCommand(l) /\ r.pc # "push"
           /\ UNCHANGED <<pool, srv, remote>>
  BY <1>0
<1>2. SameContents
  BY ListContents DEF ListStep
<1>3. /\ lst[l] \in ListStates /\ lst'[l] = r /\ lst[l].pc = "push" /\ GroupOf(l).n \in Nat
      /\ lst[l].j \in Nat
  BY <1>1, GroupFacts DEF FieldInv, TypeInv, TypeOK, Push, ListStates
<1>4. PICK b, op : b \in Int /\ b = Rank(lst[l].pos) /\ op = lst[l].pos.op
  BY <1>3, RankType DEF ListStates
<1>5. \A c \in Servers : c[1] = l =>
         /\ Chain(c)'
         /\ lst[l].g < c[2] => Below(c, 0)'
         /\ lst[l].g = c[2] /\ c[3] <= lst[l].j => Below(c, b)' /\ LastIs(c, op)'
         /\ lst[l].g = c[2] /\ lst[l].j < c[3] => Below(c, b - 1)'
         /\ c[2] \in Nat /\ c[3] \in Nat \ {0} /\ lst[l].g \in Nat
         /\ lst[l].g = c[2] => c[3] <= GroupOf(l).n
  <2> SUFFICES ASSUME NEW c \in Servers, c[1] = l
               PROVE  /\ c[2] \in Nat /\ c[3] \in Nat \ {0} /\ lst[l].g \in Nat
                      /\ lst[l].g = c[2] => c[3] <= GroupOf(l).n
    BY <1>4, PushGiven
  <2>1. c[3] \in 1 .. Layout[c[1]][c[2]].n
    BY ServerParts
  <2> QED
    BY <2>1, OwnServer DEF GroupOf
<1>8. \A c \in Servers : c[1] # l => m_pDataQue'[c] = m_pDataQue[c]
  BY <1>1 DEF FieldInv, TypeInv, TypeOK
<1>6. CASE lst[l].j < GroupOf(l).n /\ r = [lst[l] EXCEPT !.j = lst[l].j + 1]
  <2>1. r.pc = "push" /\ r.no = lst[l].no /\ r.g = lst[l].g /\ r.pos = lst[l].pos /\ r.j = lst[l].j + 1
    BY <1>3, <1>6 DEF ListStates
  <2>2. Issued(l)'
    BY <1>1, <1>3, <2>1 DEF OrderInv, Issued, pool
  <2>3. ASSUME NEW c \in Servers, c[1] = l PROVE InPlace(c)'
    <3>1. Cap(r, c) = IF lst[l].g < c[2] THEN 0 ELSE IF lst[l].j + 1 <= c[3] THEN b - 1 ELSE b
      BY <1>4, <2>1 DEF Cap
    <3>2. PICK e \in Int : e = Cap(r, c)
      BY <1>4, <3>1
    <3>3. c[3] <= lst[l].j \/ (lst[l].j < c[3] /\ lst[l].j + 1 <= c[3])
      BY <1>3, <1>5, <2>3
    <3>4. lst[l].g <= c[2] => Below(c, e)'
      <4>1. CASE lst[l].g < c[2]
        <5>1. e = 0
          BY <3>1, <3>2, <4>1
        <5> QED
          BY <1>5, <2>3, <4>1, <5>1
      <4>2. CASE lst[l].g = c[2] /\ c[3] <= lst[l].j
        <5>1. e = b
          BY <1>3, <1>5, <2>3, <3>1, <3>2, <4>2
        <5> QED
          BY <1>5, <2>3, <4>2, <5>1
      <4>3. CASE lst[l].g = c[2] /\ lst[l].j < c[3] /\ lst[l].j + 1 <= c[3]
        <5>1. e = b - 1
          BY <1>5, <2>3, <3>1, <3>2, <4>3
        <5> QED
          BY <1>5, <2>3, <4>3, <5>1
      <4> QED
        BY <1>5, <2>3, <3>3, <4>1, <4>2, <4>3
    <3>5. Capped(c)'
      BY <1>3, <2>1, <2>3, <3>2, <3>4 DEF Capped, Below
    <3>6. LastGiven(c)'
      <4>1. c[3] < r.j => c[3] <= lst[l].j
        BY <1>3, <1>5, <2>1, <2>3
      <4>2. lst[l].g = c[2] /\ c[3] < r.j => LastIs(c, op)'
        BY <1>5, <2>3, <4>1
      <4> QED
        BY <1>3, <1>4, <2>1, <2>3, <4>2 DEF LastGiven, LastIs
    <3> QED
      BY <1>5, <2>3, <3>5, <3>6 DEF InPlace
  <2> QED
    BY <1>1, <1>2, <1>8, <2>2, <2>3, ListOrder
<1>7. CASE lst[l].j = GroupOf(l).n /\ r \in AfterCommand(l) /\ r.pc # "push"
  <2>1. \A c \in Servers : c[1] = l =>
          /\ Chain(c)' /\ (lst[l].g < c[2] => Below(c, 0)')
          /\ c[2] = lst[l].g => Below(c, b)' /\ LastIs(c, op)'
    BY <1>5, <1>7
  <2>2. CASE r = AfterGroup(l)
    <3>1. Issued(l)'
      BY <1>3, <2>2, NoneIssued DEF AfterGroup, GroupStart, ListAt
    <3>2. \A c \in Servers : c[1] = l => InPlace(c)'
      BY <1>3, <1>4, <2>1, <2>2, AfterGroupOrder
    <3> QED
      BY <1>1, <1>2, <1>8, <3>1, <3>2, ListOrder
  <2>3. CASE /\ r = ListAt("drain", lst[l].g, lst[l].pos)
             /\ lst[l].pos.op = "CLOSE_FILE" /\ lst[l].pos.f = NFiles
    <3>1. r.pc = "drain" /\ r.g = lst[l].g /\ r.pos = lst[l].pos /\ r.j = 1
      BY <2>3 DEF ListAt
    <3>2. Issued(l)'
      BY <1>3, <2>3, <3>1 DEF Issued
    <3>3. ASSUME NEW c \in Servers, c[1] = l PROVE InPlace(c)'
      <4>1. Cap(r, c) = IF lst[l].g < c[2] THEN 0 ELSE b
        BY <1>4, <3>1 DEF Cap
      <4>2. PICK e \in Int : e = Cap(r, c)
        BY <1>4, <4>1
      <4>3. lst[l].g <= c[2] => Below(c, e)'
        <5>1. CASE lst[l].g < c[2]
          <6>1. e = 0
            BY <4>1, <4>2, <5>1
          <6> QED
            BY <2>1, <3>3, <5>1, <6>1
        <5>2. CASE lst[l].g = c[2]
          <6>1. e = b
            BY <1>5, <3>3, <4>1, <4>2, <5>2
          <6> QED
            BY <2>1, <3>3, <5>2, <6>1
        <5> QED
          BY <1>5, <3>3, <5>1, <5>2
      <4>4. Capped(c)'
        BY <1>3, <3>1, <3>3, <4>2, <4>3 DEF Capped, Below
      <4>5. LastGiven(c)'
        <5>1. op = "CLOSE_FILE" /\ ~ (c[3] < 1)
          BY <1>4, <1>5, <2>3, <3>3
        <5> QED
          BY <1>3, <2>1, <3>1, <3>3, <5>1 DEF LastGiven
      <4> QED
        BY <2>1, <3>3, <4>4, <4>5 DEF InPlace
    <3> QED
      BY <1>1, <1>2, <1>8, <3>2, <3>3, ListOrder
  <2>4. ASSUME NEW q \in Following(lst[l].pos, GroupOf(l).type), lst[l].pos.op # "END_LST",
               r = ListAt("get", lst[l].g, q)
        PROVE  OrderInv'
    <3>1. Issued(l)'
      BY <1>3, <2>4, NoneIssued DEF ListAt
    <3>2. \A c \in Servers : c[1] = l => InPlace(c)'
      BY <1>3, <1>4, <2>1, <2>4, NextCommandOrder DEF FieldInv
    <3> QED
      BY <1>1, <1>2, <1>8, <3>1, <3>2, ListOrder
  <2> QED
    BY <1>7, <2>2, <2>3, <2>4 DEF AfterCommand
<1> QED
  BY <1>1, <1>6, <1>7

LEMMA PopOrder ==
  ASSUME AllGroups, FieldInv, OrderInv, NEW c \in Servers, PopCommand(c)
  PROVE  OrderInv'
<1>1. PICK no \in Fields : no = Head(m_pDataQue[c])
  BY PopEffect
<1>2. /\ m_pDataQue[c] # <<>> /\ UNCHANGED <<pool, lst, remote>>
      /\ srv' = [srv EXCEPT ![c] = ServerAt("send", no, m_DataF[no].m_OperateType, m_DataF[no].cmd, FALSE)]
      /\ m_pDataQue' = [m_pDataQue EXCEPT ![c] = Tail(m_pDataQue[c])]
  BY <1>1, PopEffect
<1>3. SameContents
  BY <1>2 DEF SameContents, pool
<1>4. Kept(c)
  BY <1>2, PopKeeps DEF Kept
<1>5. ASSUME NEW d \in Servers, d # c PROVE Kept(d)
  <2>1. Undisturbed(d)
    BY <1>2, <1>5 DEF Undisturbed, FieldInv, TypeInv, TypeOK
  <2> QED
    BY <1>3, <2>1, UndisturbedKept DEF FieldInv
<1> QED
  BY <1>2, <1>3, <1>4, <1>5, ServerOrder

(* What the server carries out is the command in the thread's hand. *)
LEMMA SendsRemote ==
  ASSUME FieldInv, NEW c \in Servers, Sends(c), NEW d \in Servers
  PROVE  remote'[d].rank # remote[d].rank => d = c /\ remote'[d].rank = srv[c].cmd
<1>1. CASE UNCHANGED remote
  BY <1>1
<1>2. CASE Execute(c)
  <2>1. remote \in [Servers -> RemoteStates]
    BY DEF FieldInv, TypeInv, TypeOK
  <2> DEFINE new == [rank |-> srv[c].cmd,
                     open |-> CASE srv[c].op = "OPEN_FILE" -> remote[c].open \cup {FileOf(srv[c].cmd)}
                                [] srv[c].op = "CLOSE_FILE" -> remote[c].open \ {FileOf(srv[c].cmd)}
                                [] OTHER -> remote[c].open,
                     got |-> IF srv[c].op = "WRITE_FILE" /\ FileOf(srv[c].cmd) \in remote[c].open
                             THEN remote[c].got + srv[c].n ELSE remote[c].got]
  <2>2. remote' = [remote EXCEPT ![c] = new]
    BY <1>2 DEF Execute
  <2>3. new.rank = srv[c].cmd
    OBVIOUS
  <2> HIDE DEF new
  <2> QED
    BY <2>1, <2>2, <2>3
<1> QED
  BY <1>1, <1>2 DEF Sends, Send, SendLost, SendRefused, Test

LEMMA SendsOrder ==
  ASSUME FieldInv, OrderInv, NEW c \in Servers, Sends(c)
  PROVE  OrderInv'
<1>1. /\ StillInHand(c) /\ SameFields /\ srv[c].pc \in {"send", "test"}
      /\ UNCHANGED <<lst, m_pDataQue>>
  BY SendsEffect
<1>2. SameContents
  BY <1>1 DEF SameContents, SameFields
<1>3. PICK r : /\ srv' = [srv EXCEPT ![c] = r] /\ r.op = srv[c].op /\ r.cmd = srv[c].cmd
  BY <1>1 DEF StillInHand
<1>4. ASSUME NEW d \in Servers PROVE Kept(d)
  <2>1. Undisturbed(d)
    BY <1>1, <1>3, SendsRemote DEF Undisturbed, FieldInv, TypeInv, TypeOK
  <2> QED
    BY <1>2, <2>1, UndisturbedKept DEF FieldInv
<1> QED
  BY <1>1, <1>2, <1>4, ServerOrder

LEMMA FreeCommandOrder ==
  ASSUME FieldInv, OrderInv, NEW c \in Servers, FreeCommand(c)
  PROVE  OrderInv'
<1>1. srv' = [srv EXCEPT ![c] = Idle] /\ UNCHANGED <<lst, m_pDataQue, remote>> /\ Idle.pc = "pop"
  BY DEF FreeCommand, Idle, ServerAt
<1>2. SameContents
  BY FreeContents
<1>3. ASSUME NEW d \in Servers PROVE Kept(d)
  <2>1. Undisturbed(d)
    BY <1>1 DEF Undisturbed, FieldInv, TypeInv, TypeOK
  <2> QED
    BY <1>2, <2>1, UndisturbedKept DEF FieldInv
<1> QED
  BY <1>1, <1>2, <1>3, ServerOrder

LEMMA WorkNoMemOrder ==
  ASSUME AllGroups, FieldInv, OrderInv, NEW l \in Lists, WorkNoMem(l)
  PROVE  OrderInv'
<1>1. UNCHANGED <<lst, m_pDataQue, srv, remote>> /\ SameContents
  BY WorkNoMemEffect, ListContents DEF ListStep
<1>2. ASSUME NEW d \in Servers PROVE Kept(d)
  <2>1. Undisturbed(d)
    BY <1>1 DEF Undisturbed
  <2> QED
    BY <1>1, <2>1, UndisturbedKept DEF FieldInv
<1> QED
  BY <1>1, <1>2, ServerOrder

LEMMA OrderInit == Init => OrderInv
<1> SUFFICES ASSUME Init PROVE OrderInv
  OBVIOUS
<1>1. /\ \A c \in Servers : srv[c].pc = "pop" /\ m_pDataQue[c] = <<>> /\ remote[c].rank = 0
      /\ \A l \in Lists : lst[l].pc = "get" /\ lst[l].g = 1 /\ lst[l].pos = Pos("START_LST", 1, 0)
  BY DEF Init, GroupStart, ListAt, Idle, ServerAt
<1>2. Rank(Pos("START_LST", 1, 0)) = 1
  BY DEF Rank, Pos
<1>3. \A l \in Lists : Issued(l)
  BY <1>1 DEF Issued
<1>4. ASSUME NEW c \in Servers PROVE Chain(c) /\ Capped(c) /\ LastGiven(c)
  <2>1. c[1] \in Lists
    BY ServerParts
  <2>2. Cap(lst[c[1]], c) = 0
    BY <1>1, <1>2, <2>1 DEF Cap
  <2> QED
    BY <1>1, <2>1, <2>2 DEF Chain, Capped, Below, LastGiven
<1> QED
  BY <1>3, <1>4 DEF OrderInv

LEMMA OrderStep ==
  ASSUME AllGroups
  PROVE  FieldInv /\ FieldInv' /\ OrderInv /\ [Next]_vars => OrderInv'
<1> SUFFICES ASSUME FieldInv, FieldInv', OrderInv, [Next]_vars PROVE OrderInv'
  OBVIOUS
<1>1. ASSUME NEW l \in Lists, ListStep(l) PROVE OrderInv'
  BY <1>1, WorkOrder, WorkNoMemOrder, PushOrder, DrainOrder, VerifyOrder DEF ListStep
<1>2. ASSUME NEW c \in Servers, ServerStep(c) \/ SendLost(c) \/ SendRefused(c) PROVE OrderInv'
  <2>1. srv[c].pc \notin {"more", "check", "after"}
    BY DEF FieldInv, OneByOne
  <2>2. ~ PopMore(c) /\ ~ CheckMore(c) /\ ~ AfterBatch(c)
    BY <2>1 DEF PopMore, CheckMore, AfterBatch
  <2> QED
    BY <1>2, <2>2, PopOrder, FreeCommandOrder, SendsOrder DEF ServerStep, Sends
<1>3. CASE UNCHANGED vars
  <2>1. UNCHANGED <<lst, m_pDataQue, srv, remote, m_DataF>> /\ SameContents
    BY <1>3 DEF vars, pool, SameContents
  <2>2. ASSUME NEW d \in Servers PROVE Kept(d)
    <3>1. Undisturbed(d)
      BY <2>1 DEF Undisturbed
    <3> QED
      BY <2>1, <3>1, UndisturbedKept DEF FieldInv
  <2> QED
    BY <2>1, <2>2, ServerOrder
<1> QED
  BY <1>1, <1>2, <1>3 DEF Next, Terminating

LEMMA OrderAlways ==
  ASSUME AllGroups
  PROVE  Spec => [](FieldInv /\ OrderInv)
<1>1. Init => FieldInv /\ OrderInv
  BY FieldInit, OrderInit
<1>2. FieldInv /\ OrderInv /\ [Next]_vars => FieldInv' /\ OrderInv'
  BY FieldStep, OrderStep
<1> QED
  BY <1>1, <1>2, PTL DEF Spec

(* In a layout of ALL groups Work_Verify asks the servers of a group for MD5s only when each of
   them has been sent all the data of the list: its queue is empty, and its thread is idle or busy
   with a CLOSE.  Drain looks at one queue after the other, and a queue it has seen empty stays so. *)
THEOREM VerifiesAfterData ==
  ASSUME AllGroups
  PROVE  Spec => []VerifyAfterData
<1>1. FieldInv /\ OrderInv => VerifyAfterData
  <2> SUFFICES ASSUME FieldInv, OrderInv, NEW l \in Lists, lst[l].pc = "verify",
                      NEW s \in 1 .. GroupOf(l).n
               PROVE  LET c == <<l, lst[l].g, s>> IN
                        m_pDataQue[c] = <<>> /\ (srv[c].pc = "pop" \/ srv[c].op = "CLOSE_FILE")
    BY DEF VerifyAfterData
  <2>1. lst[l].g \in 1 .. Len(Layout[l]) /\ GroupOf(l).n = Layout[l][lst[l].g].n
    BY GroupFacts DEF FieldInv, GoodList
  <2>2. PICK c \in Servers : c = <<l, lst[l].g, s>>
    BY <2>1, ServerIn
  <2>3. m_pDataQue[c] = <<>> /\ LastIs(c, "CLOSE_FILE")
    BY <2>2 DEF OrderInv, LastGiven
  <2> QED
    BY <2>2, <2>3 DEF LastIs
<1> QED
  BY <1>1, OrderAlways, PTL

(* In a layout of ALL groups a server never carries out a command after a later one of the list,
   however often a command is sent again and whatever its thread gives up. *)
THEOREM CarriedOutInOrder ==
  ASSUME AllGroups
  PROVE  Spec => InOrder
<1>1. FieldInv /\ OrderInv /\ [Next]_vars => [\A c \in Servers : remote'[c].rank >= remote[c].rank]_vars
  <2> SUFFICES ASSUME FieldInv, OrderInv, Next, NEW d \in Servers
               PROVE  remote'[d].rank >= remote[d].rank
    OBVIOUS
  <2>1. remote[d].rank \in Nat /\ srv[d].cmd \in Nat
    BY NumbersType DEF FieldInv
  <2>2. CASE UNCHANGED remote
    BY <2>1, <2>2
  <2>3. ASSUME NEW c \in Servers, Sends(c) PROVE remote'[d].rank >= remote[d].rank
    <3>1. srv[c].pc # "pop"
      BY <2>3 DEF Sends, Send, SendLost, SendRefused, Test
    <3>2. Chain(d)
      BY DEF OrderInv
    <3> QED
      BY <2>1, <2>3, <3>1, <3>2, SendsRemote DEF Chain
  <2>4. ASSUME NEW l \in Lists, ListStep(l) PROVE UNCHANGED remote
    BY <2>4 DEF ListStep, Work, WorkNoMem, Push, Drain, Verify
  <2>5. ASSUME NEW c \in Servers, ServerStep(c) \/ SendLost(c) \/ SendRefused(c)
        PROVE  Sends(c) \/ UNCHANGED remote
    BY <2>5 DEF ServerStep, Sends, PopCommand, PopMore, CheckMore, FreeCommand, AfterBatch
  <2> QED
    BY <2>2, <2>3, <2>4, <2>5 DEF Next, Terminating, vars
<1> QED
  BY <1>1, OrderAlways, PTL DEF InOrder, Spec

=============================================================================
