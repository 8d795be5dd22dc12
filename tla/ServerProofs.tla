---------------------------- MODULE ServerProofs ----------------------------
(***************************************************************************)
(* Proofs about ServerWork, for every number of files, blocks, slots, md5  *)
(* threads, losses and restarts: the types, that a slot of g_QueFile has   *)
(* exactly one owner at any time, that every CLOSE is hashed once, that a  *)
(* check rejects only what is damaged, and that what it installs is whole. *)
(*                                                                         *)
(* Types and owners need each other: that an md5 thread finds a name in    *)
(* its slot (part of TypeOK) holds because nobody writes a slot that       *)
(* another owns (OneOwner), and the owners are counted in well-typed       *)
(* rings.  What the files hold is followed block by block in two ways:     *)
(* OrderlyInv when checks and transfers begin in order, LossfreeInv when   *)
(* no answer is lost.                                                      *)
(***************************************************************************)
EXTENDS ServerWork, FiniteSetTheorems, FunctionTheorems, SequenceTheorems, TLAPS

(* What a FILE* writes to exists: the server only renames what it has open. *)
OpenFilesExist ==
  \A f \in Files : m_mapNameFile[f] # Closed =>
    /\ m_mapNameFile[f].to = "df" => df[f] \in Contents
    /\ m_mapNameFile[f].to = "final" => final[f] \in Contents

(* A request that takes several steps is still the one its client waits for. *)
RequestPending ==
  /\ work.op \in {"slot", "push"} => IsClose /\ work.f = sender.f
  /\ work.op = "built" => Verifying /\ work.f = ver.at /\ df[work.f] \in Contents

(* A slot on its way to an md5 thread has a name in it. *)
NamesGiven ==
  \A s \in Slots :
    (Waiting(s) \/ InHand(s) \/ \E t \in Threads : th[t].st = "name" /\ th[t].slot = s)
      => g_QueFile[s] \in Files

(* TypeOK by the part of the system it is about. *)
DiskType ==
  /\ df \in [Files -> Contents \cup {NoFile}]
  /\ md5 \in [Files -> Contents \cup {NoFile, Empty}]
  /\ final \in [Files -> Contents \cup {NoFile}]
  /\ m_mapNameFile \in [Files -> [to : {"df", "final"}, buf : Contents] \cup {Closed}]
SlotsType ==
  /\ g_FilePos \in Seq(Slots) /\ g_WorkPos \in Seq(Slots)
  /\ g_QueFile \in [Slots -> Files \cup {NoFile}]
ThreadsType ==
  /\ th \in [Threads -> ThreadStates]
  /\ \A t \in Threads : th[t].st \notin {"pop", "name"} => th[t].f \in Files
ClientType ==
  /\ sender \in [f : 1 .. NFiles + 1, i : 0 .. MaxChunks + 1, try : 0 .. MaxTry - 1]
  /\ ver \in [at : 0 .. NFiles + 1, bad : BOOLEAN]
  /\ run \in 1 .. MaxRuns
  /\ unread \in BOOLEAN /\ early \in BOOLEAN /\ leftover \in BOOLEAN
BoundsType ==
  /\ lost \in 0 .. MaxLost /\ restarts \in 0 .. MaxRestarts
  /\ owed \in [Files -> Int]

Inv ==
  /\ DiskType /\ SlotsType /\ ThreadsType /\ ClientType /\ BoundsType
  /\ work \in WorkStates
  /\ OpenFilesExist /\ RequestPending /\ NamesGiven /\ OneOwner

-----------------------------------------------------------------------------
(* Rings of slots. *)

Has(q, s) == \E k \in DOMAIN q : q[k] = s

LEMMA AppendHas ==
  ASSUME NEW q \in Seq(Slots), NEW s \in Slots
  PROVE  /\ Append(q, s) \in Seq(Slots)
         /\ \A x : Has(Append(q, s), x) <=> Has(q, x) \/ x = s
         /\ NoRepeats(q) /\ ~ Has(q, s) => NoRepeats(Append(q, s))
<1> DEFINE r == Append(q, s)
<1>1. /\ r \in Seq(Slots) /\ DOMAIN q = 1 .. Len(q) /\ DOMAIN r = 1 .. Len(q) + 1 /\ Len(q) \in Nat
      /\ \A k \in 1 .. Len(q) : r[k] = q[k]
      /\ r[Len(q) + 1] = s
  OBVIOUS
<1> HIDE DEF r
<1>2. \A x : Has(r, x) <=> Has(q, x) \/ x = s
  BY <1>1 DEF Has
<1>3. NoRepeats(q) /\ ~ Has(q, s) => NoRepeats(r)
  BY <1>1 DEF Has, NoRepeats
<1> QED BY <1>1, <1>2, <1>3 DEF r

LEMMA TailHas ==
  ASSUME NEW q \in Seq(Slots), q # <<>>
  PROVE  /\ Head(q) \in Slots /\ Tail(q) \in Seq(Slots) /\ Has(q, Head(q))
         /\ \A x : Has(q, x) <=> Has(Tail(q), x) \/ x = Head(q)
         /\ NoRepeats(q) => NoRepeats(Tail(q)) /\ ~ Has(Tail(q), Head(q))
<1> DEFINE r == Tail(q)
<1>1. /\ r \in Seq(Slots) /\ Len(q) \in Nat /\ Len(q) > 0
      /\ DOMAIN q = 1 .. Len(q) /\ DOMAIN r = 1 .. Len(q) - 1
      /\ \A k \in 1 .. Len(q) - 1 : r[k] = q[k + 1]
      /\ Head(q) = q[1] /\ q[1] \in Slots
  OBVIOUS
<1> HIDE DEF r
<1>2. Has(q, Head(q))
  BY <1>1 DEF Has
<1>3. ASSUME NEW x
      PROVE  Has(q, x) <=> Has(r, x) \/ x = Head(q)
  <2>1. ASSUME NEW k \in DOMAIN q, q[k] = x, k # 1
        PROVE  Has(r, x)
    <3>1. k - 1 \in DOMAIN r /\ r[k - 1] = x
      BY <1>1, <2>1
    <3> QED BY <3>1 DEF Has
  <2>2. ASSUME NEW k \in DOMAIN r, r[k] = x
        PROVE  Has(q, x)
    <3>1. k + 1 \in DOMAIN q /\ q[k + 1] = x
      BY <1>1, <2>2
    <3> QED BY <3>1 DEF Has
  <2> QED BY <1>1, <1>2, <2>1, <2>2 DEF Has
<1>4. ASSUME NoRepeats(q)
      PROVE  NoRepeats(r) /\ ~ Has(r, Head(q))
  <2>1. ASSUME NEW i \in DOMAIN r, NEW j \in DOMAIN r, r[i] = r[j]
        PROVE  i = j
    <3>1. i + 1 \in DOMAIN q /\ j + 1 \in DOMAIN q /\ q[i + 1] = q[j + 1]
      BY <1>1, <2>1
    <3>2. i + 1 = j + 1
      BY <1>4, <3>1 DEF NoRepeats
    <3> QED BY <1>1, <3>2
  <2>2. ASSUME NEW k \in DOMAIN r, r[k] = Head(q)
        PROVE  FALSE
    <3>1. k + 1 \in DOMAIN q /\ 1 \in DOMAIN q /\ q[k + 1] = q[1]
      BY <1>1, <2>2
    <3>2. k + 1 = 1
      BY <1>4, <3>1 DEF NoRepeats
    <3> QED BY <1>1, <3>2
  <2> QED BY <2>1, <2>2 DEF NoRepeats, Has
<1> QED BY <1>1, <1>2, <1>3, <1>4 DEF r

-----------------------------------------------------------------------------
(* The slots. *)

SlotInv == SlotsType /\ ThreadsType /\ work \in WorkStates /\ NamesGiven /\ OneOwner

LEMMA OwnersAsRings ==
  ASSUME NEW s
  PROVE  (Waiting(s) <=> Has(g_WorkPos, s)) /\ (Available(s) <=> Has(g_FilePos, s))
BY DEF Waiting, Available, Has

(* A step that moves no slot, and lets no thread expect a name it was not given, keeps the owners. *)
LEMMA SlotsKept ==
  ASSUME SlotInv, UNCHANGED slots,
         \A s \in Slots : InHand(s)' <=> InHand(s),
         \A t \in Threads : /\ HasSlot(t)' <=> HasSlot(t)
                            /\ HasSlot(t) => th'[t].slot = th[t].slot
                            /\ th'[t].st = "name" => th[t].st = "name"
  PROVE  SlotsType' /\ NamesGiven' /\ OneOwner'
<1>1. SlotsType'
  BY DEF SlotInv, SlotsType, slots
<1>2. \A s \in Slots : /\ Waiting(s)' <=> Waiting(s)
                       /\ Available(s)' <=> Available(s)
                       /\ Taken(s)' <=> Taken(s)
  BY DEF Waiting, Available, Taken, slots
<1>3. OneOwner'
  <2>1. NoRepeats(g_FilePos)' /\ NoRepeats(g_WorkPos)'
    BY DEF SlotInv, OneOwner, slots, NoRepeats
  <2>2. \A t, u \in Threads : HasSlot(t)' /\ HasSlot(u)' /\ th'[t].slot = th'[u].slot => t = u
    BY DEF SlotInv, OneOwner
  <2> QED BY <1>2, <2>1, <2>2 DEF SlotInv, OneOwner
<1>4. NamesGiven'
  <2> SUFFICES ASSUME NEW s \in Slots,
                      (Waiting(s) \/ InHand(s) \/ \E t \in Threads : th[t].st = "name" /\ th[t].slot = s)'
               PROVE  g_QueFile[s] \in Files
    BY DEF NamesGiven, slots
  <2>1. ASSUME NEW t \in Threads, th'[t].st = "name", th'[t].slot = s
        PROVE  th[t].st = "name" /\ th[t].slot = s
    BY <2>1 DEF HasSlot
  <2> QED BY <1>2, <2>1 DEF SlotInv, NamesGiven
<1> QED BY <1>1, <1>3, <1>4

(* CLOSE: from the ring of free slots into the server thread's hand. *)
LEMMA SlotToHand ==
  ASSUME SlotInv, CloseTakesSlot, work.f \in Files
  PROVE  SlotInv'
<1> DEFINE h == Head(g_FilePos)
<1>1. /\ h \in Slots /\ Tail(g_FilePos) \in Seq(Slots) /\ Has(g_FilePos, h)
      /\ \A x : Has(g_FilePos, x) <=> Has(Tail(g_FilePos), x) \/ x = h
      /\ NoRepeats(Tail(g_FilePos)) /\ ~ Has(Tail(g_FilePos), h)
  BY TailHas DEF SlotInv, SlotsType, OneOwner, CloseTakesSlot
<1>2. Available(h) /\ ~ Waiting(h) /\ ~ Taken(h)
  BY <1>1 DEF SlotInv, OneOwner, Available, Has
<1> HIDE DEF h
<1>3. /\ g_FilePos' = Tail(g_FilePos) /\ g_WorkPos' = g_WorkPos /\ th' = th
      /\ g_QueFile' = [g_QueFile EXCEPT ![h] = work.f]
      /\ work' = [work EXCEPT !.op = "push", !.slot = h] /\ work.op = "slot"
  BY DEF CloseTakesSlot, h
<1>4. SlotsType' /\ ThreadsType' /\ (work \in WorkStates)'
  BY <1>1, <1>3 DEF SlotInv, SlotsType, ThreadsType, WorkStates
<1>5. work'.op = "push" /\ work'.slot = h
  BY <1>3 DEF SlotInv, WorkStates
<1>6. \A s \in Slots : /\ Available(s)' <=> Available(s) /\ s # h
                       /\ Waiting(s)' <=> Waiting(s)
                       /\ InHand(s)' <=> s = h
                       /\ Taken(s)' <=> Taken(s)
                       /\ ~ InHand(s)
  <2> TAKE s \in Slots
  <2>1. Available(s)' <=> Available(s) /\ s # h
    BY <1>1, <1>3 DEF Available, Has
  <2> QED BY <1>3, <1>5, <2>1 DEF Waiting, InHand, Taken, HasSlot
<1>7. OneOwner'
  <2>1. NoRepeats(g_FilePos)' /\ NoRepeats(g_WorkPos)'
    BY <1>1, <1>3 DEF SlotInv, OneOwner, NoRepeats
  <2>2. \A t, u \in Threads : HasSlot(t)' /\ HasSlot(u)' /\ th'[t].slot = th'[u].slot => t = u
    BY <1>3 DEF SlotInv, OneOwner, HasSlot
  <2> QED BY <1>2, <1>6, <2>1, <2>2 DEF SlotInv, OneOwner
<1>8. NamesGiven'
  <2> SUFFICES ASSUME NEW s \in Slots,
                      (Waiting(s) \/ InHand(s) \/ \E t \in Threads : th[t].st = "name" /\ th[t].slot = s)'
               PROVE  g_QueFile'[s] \in Files
    BY DEF NamesGiven
  <2>1. CASE s = h
    BY <1>3, <2>1 DEF SlotInv, SlotsType
  <2>2. CASE s # h
    BY <1>3, <1>6, <2>2 DEF SlotInv, SlotsType, NamesGiven
  <2> QED BY <2>1, <2>2
<1> QED BY <1>4, <1>7, <1>8 DEF SlotInv

(* CLOSE: from the hand into the ring of jobs. *)
LEMMA HandToWork ==
  ASSUME SlotInv, ClosePushesSlot
  PROVE  SlotInv'
<1> DEFINE h == work.slot
<1>0. h \in Slots /\ InHand(h) /\ work.op = "push"
  BY DEF SlotInv, WorkStates, ClosePushesSlot, InHand
<1>1. ~ Waiting(h) /\ ~ Taken(h) /\ ~ Available(h) /\ ~ Has(g_WorkPos, h)
  BY <1>0, OwnersAsRings DEF SlotInv, OneOwner
<1>2. /\ Append(g_WorkPos, h) \in Seq(Slots)
      /\ \A x : Has(Append(g_WorkPos, h), x) <=> Has(g_WorkPos, x) \/ x = h
      /\ NoRepeats(Append(g_WorkPos, h))
  BY <1>0, <1>1, AppendHas DEF SlotInv, SlotsType, OneOwner
<1>3. /\ g_FilePos' = g_FilePos /\ g_WorkPos' = Append(g_WorkPos, h) /\ th' = th
      /\ g_QueFile' = g_QueFile /\ work' = Free
  BY DEF ClosePushesSlot
<1>4. \A s \in Slots : InHand(s) <=> s = h
  BY <1>0 DEF InHand
<1> HIDE DEF h
<1>5. SlotsType' /\ ThreadsType' /\ (work \in WorkStates)'
  BY <1>2, <1>3, MaxFileNumAssumption
  DEF SlotInv, SlotsType, ThreadsType, WorkStates, Free, WorkAt, Slots, Contents
<1>6. \A s \in Slots : /\ Available(s)' <=> Available(s)
                       /\ Waiting(s)' <=> Waiting(s) \/ s = h
                       /\ ~ InHand(s)'
                       /\ Taken(s)' <=> Taken(s)
  <2> TAKE s \in Slots
  <2>1. Waiting(s)' <=> Waiting(s) \/ s = h
    BY <1>2, <1>3 DEF Waiting, Has
  <2> QED BY <1>3, <2>1 DEF Available, InHand, Taken, HasSlot, Free, WorkAt
<1>7. OneOwner'
  <2>1. NoRepeats(g_FilePos)' /\ NoRepeats(g_WorkPos)'
    BY <1>2, <1>3 DEF SlotInv, OneOwner, NoRepeats
  <2>2. \A t, u \in Threads : HasSlot(t)' /\ HasSlot(u)' /\ th'[t].slot = th'[u].slot => t = u
    BY <1>3 DEF SlotInv, OneOwner, HasSlot
  <2> QED BY <1>1, <1>4, <1>6, <2>1, <2>2 DEF SlotInv, OneOwner
<1>8. NamesGiven'
  BY <1>0, <1>3, <1>6 DEF SlotInv, NamesGiven
<1> QED BY <1>5, <1>7, <1>8 DEF SlotInv

(* ThreadMd5: from the ring of jobs to a thread. *)
LEMMA WorkToThread ==
  ASSUME SlotInv, NEW t \in Threads, Take(t), UNCHANGED work
  PROVE  SlotInv'
<1> DEFINE h == Head(g_WorkPos)
<1>1. /\ h \in Slots /\ Tail(g_WorkPos) \in Seq(Slots) /\ Has(g_WorkPos, h)
      /\ \A x : Has(g_WorkPos, x) <=> Has(Tail(g_WorkPos), x) \/ x = h
      /\ NoRepeats(Tail(g_WorkPos)) /\ ~ Has(Tail(g_WorkPos), h)
  BY TailHas DEF SlotInv, SlotsType, OneOwner, Take
<1>2. Waiting(h) /\ ~ Available(h) /\ ~ InHand(h) /\ ~ Taken(h)
  BY <1>1 DEF SlotInv, OneOwner, Waiting, Has
<1> HIDE DEF h
<1>3. /\ g_WorkPos' = Tail(g_WorkPos) /\ g_FilePos' = g_FilePos /\ g_QueFile' = g_QueFile
      /\ th' = [th EXCEPT ![t] = ThreadAt("name", h, NoFile, <<>>)]
      /\ th[t].st = "pop" /\ work' = work
  BY DEF Take, h
<1>4. SlotsType' /\ ThreadsType' /\ (work \in WorkStates)'
  BY <1>1, <1>3 DEF SlotInv, SlotsType, ThreadsType, ThreadStates, ThreadAt, Contents
<1>5. /\ th'[t].st = "name" /\ th'[t].slot = h
      /\ \A u \in Threads : u # t => th'[u] = th[u]
  BY <1>3 DEF SlotInv, ThreadsType, ThreadAt
<1>6. \A s \in Slots : /\ Available(s)' <=> Available(s)
                       /\ Waiting(s)' <=> Waiting(s) /\ s # h
                       /\ InHand(s)' <=> InHand(s)
                       /\ Taken(s)' <=> Taken(s) \/ s = h
  <2> TAKE s \in Slots
  <2>1. Waiting(s)' <=> Waiting(s) /\ s # h
    BY <1>1, <1>3 DEF Waiting, Has
  <2>2. Taken(s)' <=> Taken(s) \/ s = h
    BY <1>3, <1>5 DEF Taken, HasSlot
  <2> QED BY <1>3, <2>1, <2>2 DEF Available, InHand
<1>7. OneOwner'
  <2>1. NoRepeats(g_FilePos)' /\ NoRepeats(g_WorkPos)'
    BY <1>1, <1>3 DEF SlotInv, OneOwner, NoRepeats
  <2>2. ASSUME NEW u \in Threads, NEW v \in Threads,
               HasSlot(u)', HasSlot(v)', th'[u].slot = th'[v].slot
        PROVE  u = v
    BY <1>2, <1>5, <2>2 DEF SlotInv, OneOwner, HasSlot, Taken
  <2> QED BY <1>2, <1>6, <2>1, <2>2 DEF SlotInv, OneOwner
<1>8. NamesGiven'
  BY <1>2, <1>3, <1>5, <1>6 DEF SlotInv, NamesGiven
<1> QED BY <1>4, <1>7, <1>8 DEF SlotInv

(* ThreadMd5: from the thread back to the ring of free slots. *)
LEMMA ThreadToFree ==
  ASSUME SlotInv, NEW t \in Threads, ReturnSlot(t), UNCHANGED work
  PROVE  SlotInv'
<1> DEFINE h == th[t].slot
<1>0. h \in Slots /\ HasSlot(t) /\ Taken(h) /\ th[t].st = "return" /\ th[t].f \in Files
  BY DEF SlotInv, ThreadsType, ThreadStates, ReturnSlot, HasSlot, Taken
<1>1. ~ Waiting(h) /\ ~ InHand(h) /\ ~ Available(h) /\ ~ Has(g_FilePos, h)
  BY <1>0, OwnersAsRings DEF SlotInv, OneOwner
<1>2. /\ Append(g_FilePos, h) \in Seq(Slots)
      /\ \A x : Has(Append(g_FilePos, h), x) <=> Has(g_FilePos, x) \/ x = h
      /\ NoRepeats(Append(g_FilePos, h))
  BY <1>0, <1>1, AppendHas DEF SlotInv, SlotsType, OneOwner
<1>3. /\ g_FilePos' = Append(g_FilePos, h) /\ g_WorkPos' = g_WorkPos /\ g_QueFile' = g_QueFile
      /\ th' = [th EXCEPT ![t] = ThreadAt("read", 0, th[t].f, <<>>)] /\ work' = work
  BY DEF ReturnSlot
<1>4. \A u \in Threads : HasSlot(u) /\ th[u].slot = h => u = t
  BY <1>0 DEF SlotInv, OneOwner
<1> HIDE DEF h
<1>5. SlotsType' /\ ThreadsType' /\ (work \in WorkStates)'
  <2>1. 0 \in Slots
    BY MaxFileNumAssumption DEF Slots
  <2> QED
    BY <1>0, <1>2, <1>3, <2>1 DEF SlotInv, SlotsType, ThreadsType, ThreadStates, ThreadAt, Contents
<1>6. /\ th'[t].st = "read" /\ \A u \in Threads : u # t => th'[u] = th[u]
  BY <1>3 DEF SlotInv, ThreadsType, ThreadAt
<1>7. \A s \in Slots : /\ Available(s)' <=> Available(s) \/ s = h
                       /\ Waiting(s)' <=> Waiting(s)
                       /\ InHand(s)' <=> InHand(s)
                       /\ Taken(s)' <=> Taken(s) /\ s # h
  <2> TAKE s \in Slots
  <2>1. Available(s)' <=> Available(s) \/ s = h
    BY <1>2, <1>3 DEF Available, Has
  <2>2. Taken(s)' <=> Taken(s) /\ s # h
    BY <1>0, <1>3, <1>4, <1>6 DEF Taken, HasSlot, h
  <2> QED BY <1>3, <2>1, <2>2 DEF Waiting, InHand
<1>8. OneOwner'
  <2>1. NoRepeats(g_FilePos)' /\ NoRepeats(g_WorkPos)'
    BY <1>2, <1>3 DEF SlotInv, OneOwner, NoRepeats
  <2>2. ASSUME NEW u \in Threads, NEW v \in Threads,
               HasSlot(u)', HasSlot(v)', th'[u].slot = th'[v].slot
        PROVE  u = v
    BY <1>6, <2>2 DEF SlotInv, OneOwner, HasSlot
  <2> QED BY <1>1, <1>7, <2>1, <2>2 DEF SlotInv, OneOwner
<1>9. NamesGiven'
  BY <1>3, <1>6, <1>7 DEF SlotInv, NamesGiven
<1> QED BY <1>5, <1>8, <1>9 DEF SlotInv

(* A process that starts owns every slot as a free one. *)
LEMMA SlotsStart == SlotsInit /\ work = Free => SlotInv
<1> SUFFICES ASSUME SlotsInit, work = Free PROVE SlotInv
  OBVIOUS
<1>1. 0 \in Slots /\ MaxFileNum \in Nat
  BY MaxFileNumAssumption DEF Slots
<1>2. /\ g_FilePos \in Seq(Slots) /\ DOMAIN g_FilePos = 1 .. MaxFileNum
      /\ \A k \in 1 .. MaxFileNum : g_FilePos[k] = k - 1
  BY <1>1 DEF SlotsInit, Slots
<1>3. /\ g_WorkPos = <<>> /\ work.op = "free"
      /\ \A t \in Threads : th[t] = Resting
  BY DEF SlotsInit, Free, WorkAt
<1>4. SlotsType /\ ThreadsType /\ work \in WorkStates
  <2>1. SlotsType
    BY <1>2 DEF SlotsInit, SlotsType
  <2>2. ThreadsType
    BY <1>1 DEF SlotsInit, ThreadsType, ThreadStates, Resting, ThreadAt, Contents
  <2>3. work \in WorkStates
    BY <1>1 DEF WorkStates, Free, WorkAt, Contents
  <2> QED BY <2>1, <2>2, <2>3
<1>5. \A s \in Slots : Available(s) /\ ~ Waiting(s) /\ ~ InHand(s) /\ ~ Taken(s)
  <2> TAKE s \in Slots
  <2>1. PICK k \in 1 .. MaxFileNum : k - 1 = s
    <3>1. s \in Int /\ 0 <= s /\ s <= MaxFileNum - 1
      BY <1>1 DEF Slots
    <3>2. s + 1 \in 1 .. MaxFileNum
      BY <1>1, <3>1
    <3>3. (s + 1) - 1 = s
      BY <3>1
    <3> QED BY <3>2, <3>3
  <2>2. k \in DOMAIN g_FilePos /\ g_FilePos[k] = s
    BY <1>2, <2>1
  <2>3. Available(s)
    BY <2>2, Zenon DEF Available
  <2> QED BY <1>3, <2>3 DEF Waiting, InHand, Taken, HasSlot, Resting, ThreadAt
<1>6. OneOwner
  <2>1. NoRepeats(g_FilePos) /\ NoRepeats(g_WorkPos)
    BY <1>2, <1>3 DEF NoRepeats
  <2> QED BY <1>3, <1>5, <2>1 DEF OneOwner, HasSlot, Resting, ThreadAt
<1>7. NamesGiven
  BY <1>3, <1>5 DEF NamesGiven, Resting, ThreadAt
<1> QED BY <1>4, <1>6, <1>7 DEF SlotInv

-----------------------------------------------------------------------------
(* The md5 threads. *)

MdFileType == md5 \in [Files -> Contents \cup {NoFile, Empty}]
DfType == df \in [Files -> Contents \cup {NoFile}]

(* A name that is removed sends at most writing threads to rest. *)
LEMMA RemoveKeeps ==
  ASSUME SlotInv, MdFileType, NEW f \in Files, RemoveMd5(f), UNCHANGED slots,
         work' \in WorkStates, \A s \in Slots : InHand(s)' <=> InHand(s)
  PROVE  SlotInv' /\ MdFileType'
<1>1. \A t \in Threads : \/ th'[t] = th[t]
                         \/ th[t].st = "write" /\ th'[t] = Resting
  BY DEF RemoveMd5
<1>2. MdFileType'
  BY DEF RemoveMd5, MdFileType
<1>3. ThreadsType'
  <2>1. 0 \in Slots
    BY MaxFileNumAssumption DEF Slots
  <2>2. Resting \in ThreadStates /\ Resting.st = "pop"
    BY <2>1 DEF Resting, ThreadAt, ThreadStates, Contents
  <2>3. th' \in [Threads -> ThreadStates]
    BY <2>2 DEF RemoveMd5, SlotInv, ThreadsType
  <2> QED BY <1>1, <2>2, <2>3 DEF SlotInv, ThreadsType
<1>4. \A t \in Threads : /\ HasSlot(t)' <=> HasSlot(t)
                         /\ HasSlot(t) => th'[t].slot = th[t].slot
                         /\ th'[t].st = "name" => th[t].st = "name"
  BY <1>1 DEF HasSlot, Resting, ThreadAt
<1>5. SlotsType' /\ NamesGiven' /\ OneOwner'
  BY <1>4, SlotsKept
<1> QED BY <1>2, <1>3, <1>5 DEF SlotInv

(* Every step of ThreadMd5 keeps the slots and the .md5 files well typed. *)
LEMMA ThreadKeeps ==
  ASSUME SlotInv, DfType, MdFileType, NEW t \in Threads, ThreadStep(t), UNCHANGED work
  PROVE  SlotInv' /\ MdFileType' /\ UNCHANGED <<df, final>>
<1>0. /\ 0 \in Slots /\ th[t] \in ThreadStates
      /\ th[t].st \notin {"pop", "name"} => th[t].f \in Files
      /\ \A s \in Slots : InHand(s)' <=> InHand(s)
  BY MaxFileNumAssumption DEF Slots, SlotInv, ThreadsType, InHand
<1>1. ASSUME NEW x \in ThreadStates, th' = [th EXCEPT ![t] = x], UNCHANGED slots,
             x.st \notin {"pop", "name"} => x.f \in Files,
             HasSlot(t) => x.st \in {"name", "return"} /\ x.slot = th[t].slot,
             ~ HasSlot(t) => x.st \notin {"name", "return"},
             x.st = "name" => th[t].st = "name"
      PROVE  SlotInv'
  <2>1. th'[t] = x /\ \A u \in Threads : u # t => th'[u] = th[u]
    BY <1>1 DEF SlotInv, ThreadsType
  <2>2. ThreadsType' /\ work' \in WorkStates
    BY <1>1, <2>1 DEF SlotInv, ThreadsType
  <2>3. \A u \in Threads : /\ HasSlot(u)' <=> HasSlot(u)
                           /\ HasSlot(u) => th'[u].slot = th[u].slot
                           /\ th'[u].st = "name" => th[u].st = "name"
    BY <1>1, <2>1 DEF HasSlot
  <2>4. SlotsType' /\ NamesGiven' /\ OneOwner'
    BY <1>0, <1>1, <2>3, SlotsKept
  <2> QED BY <2>2, <2>4 DEF SlotInv
<1>2. CASE Take(t)
  BY <1>2, WorkToThread DEF Take, disk, MdFileType
<1>3. CASE CopyName(t)
  <2> DEFINE x == [th[t] EXCEPT !.st = "return", !.f = g_QueFile[th[t].slot]]
  <2>1. th[t].st = "name" /\ th[t].slot \in Slots /\ HasSlot(t)
    BY <1>0, <1>3 DEF CopyName, ThreadStates, HasSlot
  <2>2. g_QueFile[th[t].slot] \in Files
    BY <2>1 DEF SlotInv, NamesGiven
  <2>3. th' = [th EXCEPT ![t] = x]
    BY <1>3 DEF CopyName, SlotInv, ThreadsType
  <2>4. x \in ThreadStates /\ x.st = "return" /\ x.f \in Files /\ x.slot = th[t].slot
    BY <1>0, <2>2 DEF ThreadStates
  <2> HIDE DEF x
  <2>5. SlotInv'
    BY <1>1, <1>3, <2>1, <2>3, <2>4 DEF CopyName
  <2> QED BY <1>3, <2>5 DEF CopyName, disk, MdFileType
<1>4. CASE ReturnSlot(t)
  BY <1>4, ThreadToFree DEF ReturnSlot, disk, MdFileType
<1>5. CASE ReadFile(t)
  <2> DEFINE x == IF df[th[t].f] = NoFile THEN Resting ELSE ThreadAt("open", 0, th[t].f, df[th[t].f])
  <2>1. th[t].st = "read" /\ th[t].f \in Files /\ ~ HasSlot(t)
    BY <1>0, <1>5 DEF ReadFile, HasSlot
  <2>2. x \in ThreadStates /\ x.st \in {"pop", "open"} /\ (x.st = "open" => x.f \in Files)
    BY <1>0, <2>1 DEF ThreadStates, DfType, Resting, ThreadAt, Contents
  <2>3. th' = [th EXCEPT ![t] = x] /\ UNCHANGED <<disk, slots>>
    BY <1>5 DEF ReadFile
  <2> HIDE DEF x
  <2>4. SlotInv'
    BY <1>1, <2>1, <2>2, <2>3
  <2> QED BY <2>3, <2>4 DEF disk, MdFileType
<1>6. CASE OpenMd5(t)
  <2> DEFINE x == [th[t] EXCEPT !.st = "write"]
  <2>1. th[t].st = "open" /\ th[t].f \in Files /\ ~ HasSlot(t)
    BY <1>0, <1>6 DEF OpenMd5, HasSlot
  <2>2. x \in ThreadStates /\ x.st = "write" /\ x.f \in Files
    BY <1>0, <2>1 DEF ThreadStates
  <2>3. th' = [th EXCEPT ![t] = x] /\ UNCHANGED <<df, final, slots>>
    BY <1>6 DEF OpenMd5, SlotInv, ThreadsType
  <2> HIDE DEF x
  <2>4. SlotInv'
    BY <1>1, <2>1, <2>2, <2>3
  <2>5. MdFileType'
    BY <1>6, <2>1 DEF OpenMd5, MdFileType
  <2> QED BY <2>3, <2>4, <2>5
<1>7. CASE WriteMd5(t)
  <2>1. th[t].st = "write" /\ th[t].f \in Files /\ th[t].hash \in Contents /\ ~ HasSlot(t)
    BY <1>0, <1>7 DEF WriteMd5, HasSlot, ThreadStates
  <2>2. Resting \in ThreadStates /\ Resting.st = "pop"
    BY <1>0 DEF ThreadStates, Resting, ThreadAt, Contents
  <2>3. th' = [th EXCEPT ![t] = Resting] /\ UNCHANGED <<df, final, slots>>
    BY <1>7 DEF WriteMd5
  <2>4. SlotInv'
    BY <1>1, <2>1, <2>2, <2>3
  <2>5. MdFileType'
    BY <1>7, <2>1 DEF WriteMd5, MdFileType
  <2> QED BY <2>3, <2>4, <2>5
<1> QED BY <1>2, <1>3, <1>4, <1>5, <1>6, <1>7 DEF ThreadStep

-----------------------------------------------------------------------------
(* The files. *)

FilePointers == [to : {"df", "final"}, buf : Contents]
DiskInv == DiskType /\ OpenFilesExist

LEMMA ContentsGrow ==
  /\ <<>> \in Contents
  /\ \A a, b \in Contents : a \o b \in Contents
  /\ \A r \in 1 .. MaxRuns, c \in 0 .. MaxChunks, a \in Contents :
       <<<<r, c>>>> \in Contents /\ Append(a, <<r, c>>) \in Contents
<1> DEFINE Blocks == (1 .. MaxRuns) \X (0 .. MaxChunks)
<1>1. \A r \in 1 .. MaxRuns, c \in 0 .. MaxChunks : <<r, c>> \in Blocks
  OBVIOUS
<1>2. Contents = Seq(Blocks)
  BY DEF Contents
<1> HIDE DEF Blocks
<1>3. \A x \in Blocks, a \in Seq(Blocks) : <<x>> \in Seq(Blocks) /\ Append(a, x) \in Seq(Blocks)
  OBVIOUS
<1>4. \A a, b \in Seq(Blocks) : a \o b \in Seq(Blocks)
  OBVIOUS
<1> QED BY <1>1, <1>2, <1>3, <1>4

(* What is written out is what was buffered, and then data. *)
LEMMA WritesOut ==
  ASSUME DiskInv, NEW f \in Files, NEW data \in Contents, WriteOut(f, data)
  PROVE  \E all \in Contents :
           /\ WriteFile(f, all)
           /\ all = IF m_mapNameFile[f] = Closed THEN data ELSE m_mapNameFile[f].buf \o data
<1> DEFINE old == m_mapNameFile[f]
           all == IF old = Closed THEN data ELSE old.buf \o data
<1>1. old # Closed => old.buf \in Contents
  BY DEF DiskInv, DiskType
<1>2. WriteFile(f, all)
  BY DEF WriteOut
<1>3. all \in Contents
  <2> HIDE DEF old
  <2> QED BY <1>1, ContentsGrow
<1> QED BY <1>2, <1>3

(* What is written goes to a file that exists, under the name it has now. *)
LEMMA WriteKeeps ==
  ASSUME DiskInv, NEW f \in Files, NEW data \in Contents, WriteFile(f, data), MdFileType',
         NEW fp \in FilePointers \cup {Closed}, m_mapNameFile' = [m_mapNameFile EXCEPT ![f] = fp],
         fp # Closed => m_mapNameFile[f] # Closed /\ fp.to = m_mapNameFile[f].to
  PROVE  DiskInv'
<1> DEFINE old == m_mapNameFile[f]
<1>1. old \in FilePointers \cup {Closed}
  BY DEF DiskInv, DiskType, FilePointers
<1>2. /\ old # Closed /\ old.to = "df" => df[f] \o data \in Contents
      /\ old # Closed /\ old.to = "final" => final[f] \o data \in Contents
  <2>1. /\ old # Closed /\ old.to = "df" => df[f] \in Contents
        /\ old # Closed /\ old.to = "final" => final[f] \in Contents
    BY DEF DiskInv, OpenFilesExist
  <2> HIDE DEF old
  <2> QED BY <2>1, ContentsGrow
<1>3. /\ df' = IF old # Closed /\ old.to = "df" THEN [df EXCEPT ![f] = df[f] \o data] ELSE df
      /\ final' = IF old # Closed /\ old.to = "final"
                    THEN [final EXCEPT ![f] = final[f] \o data] ELSE final
  BY DEF WriteFile, DiskInv, DiskType
<1>4. /\ m_mapNameFile'[f] = fp
      /\ \A g \in Files : g # f => m_mapNameFile'[g] = m_mapNameFile[g]
  BY DEF DiskInv, DiskType
<1>5. DiskType'
  <2>1. m_mapNameFile' \in [Files -> FilePointers \cup {Closed}]
    BY DEF DiskInv, DiskType, FilePointers
  <2> HIDE DEF old
  <2>2. df' \in [Files -> Contents \cup {NoFile}] /\ final' \in [Files -> Contents \cup {NoFile}]
    BY <1>2, <1>3 DEF DiskInv, DiskType
  <2> QED BY <2>1, <2>2 DEF DiskInv, DiskType, FilePointers, MdFileType
<1>6. ASSUME NEW g \in Files, m_mapNameFile'[g] # Closed
      PROVE  /\ m_mapNameFile'[g].to = "df" => df'[g] \in Contents
             /\ m_mapNameFile'[g].to = "final" => final'[g] \in Contents
  <2>1. CASE g = f
    <3>1. old # Closed /\ fp.to = old.to /\ m_mapNameFile'[g].to = old.to
      BY <1>4, <1>6, <2>1
    <3> HIDE DEF old
    <3> QED BY <1>2, <1>3, <2>1, <3>1 DEF DiskInv, DiskType
  <2>2. CASE g # f
    <3>1. df'[g] = df[g] /\ final'[g] = final[g] /\ m_mapNameFile'[g] = m_mapNameFile[g]
      BY <1>3, <1>4, <2>2 DEF DiskInv, DiskType
    <3> QED BY <1>6, <3>1 DEF DiskInv, OpenFilesExist
  <2> QED BY <2>1, <2>2
<1> QED BY <1>5, <1>6 DEF DiskInv, OpenFilesExist

(* OPEN: the FILE* the file still has is closed, then the .df is made anew. *)
LEMMA ReopenKeeps ==
  ASSUME DiskInv, NEW f \in Files, Reopen(f), MdFileType'
  PROVE  DiskInv'
<1> DEFINE fp == [to |-> "df", buf |-> <<>>]
           old == m_mapNameFile[f]
<1>0. fp \in FilePointers /\ fp.to = "df" /\ <<>> \in Contents
  BY ContentsGrow DEF FilePointers
<1>1. /\ df' = [df EXCEPT ![f] = <<>>]
      /\ m_mapNameFile' = [m_mapNameFile EXCEPT ![f] = fp]
      /\ final' = IF old # Closed /\ old.to = "final"
                    THEN [final EXCEPT ![f] = final[f] \o old.buf] ELSE final
  BY DEF Reopen, DiskInv, DiskType
<1>2. old # Closed /\ old.to = "final" => final[f] \o old.buf \in Contents
  <2>1. old # Closed => old.buf \in Contents
    BY DEF DiskInv, DiskType
  <2>2. old # Closed /\ old.to = "final" => final[f] \in Contents
    BY DEF DiskInv, OpenFilesExist
  <2> HIDE DEF old
  <2> QED BY <2>1, <2>2, ContentsGrow
<1> HIDE DEF old, fp
<1>3. DiskType'
  BY <1>0, <1>1, <1>2 DEF DiskInv, DiskType, MdFileType, FilePointers
<1>4. ASSUME NEW g \in Files, m_mapNameFile'[g] # Closed
      PROVE  /\ m_mapNameFile'[g].to = "df" => df'[g] \in Contents
             /\ m_mapNameFile'[g].to = "final" => final'[g] \in Contents
  <2>1. CASE g = f
    BY <1>0, <1>1, <2>1 DEF DiskInv, DiskType
  <2>2. CASE g # f
    <3>1. df'[g] = df[g] /\ final'[g] = final[g] /\ m_mapNameFile'[g] = m_mapNameFile[g]
      BY <1>1, <2>2 DEF DiskInv, DiskType
    <3> QED BY <1>4, <3>1 DEF DiskInv, OpenFilesExist
  <2> QED BY <2>1, <2>2
<1> QED BY <1>3, <1>4 DEF DiskInv, OpenFilesExist

(* A file that exists is renamed, and its FILE* with it. *)
LEMMA InstallKeeps ==
  ASSUME DiskInv, NEW f \in Files, df[f] \in Contents, Install(f), MdFileType'
  PROVE  DiskInv'
<1> DEFINE old == m_mapNameFile[f]
           fp == IF old = Closed THEN old ELSE [old EXCEPT !.to = "final"]
<1>1. /\ df' = [df EXCEPT ![f] = NoFile]
      /\ final' = [final EXCEPT ![f] = df[f]]
      /\ m_mapNameFile' = [m_mapNameFile EXCEPT ![f] = fp]
  BY DEF Install, DiskInv, DiskType
<1>2. fp \in FilePointers \cup {Closed} /\ (fp # Closed => fp.to = "final")
  BY DEF DiskInv, DiskType, FilePointers
<1> HIDE DEF fp, old
<1>3. DiskType'
  BY <1>1, <1>2 DEF DiskInv, DiskType, MdFileType, FilePointers
<1>4. ASSUME NEW g \in Files, m_mapNameFile'[g] # Closed
      PROVE  /\ m_mapNameFile'[g].to = "df" => df'[g] \in Contents
             /\ m_mapNameFile'[g].to = "final" => final'[g] \in Contents
  <2>1. CASE g = f
    BY <1>1, <1>2, <1>4, <2>1 DEF DiskInv, DiskType
  <2>2. CASE g # f
    <3>1. df'[g] = df[g] /\ final'[g] = final[g] /\ m_mapNameFile'[g] = m_mapNameFile[g]
      BY <1>1, <2>2 DEF DiskInv, DiskType
    <3> QED BY <1>4, <3>1 DEF DiskInv, OpenFilesExist
  <2> QED BY <2>1, <2>2
<1> QED BY <1>3, <1>4 DEF DiskInv, OpenFilesExist

(* A step that touches no .df, no renamed file and no FILE*. *)
LEMMA DiskKept ==
  ASSUME DiskInv, UNCHANGED <<df, final, m_mapNameFile>>, MdFileType'
  PROVE  DiskInv'
BY DEF DiskInv, DiskType, OpenFilesExist, MdFileType

-----------------------------------------------------------------------------
(* The clients. *)

LostType == lost \in 0 .. MaxLost /\ restarts \in 0 .. MaxRestarts

LEMMA NextRequest ==
  ASSUME ClientType, ~ SenderDone
  PROVE  \A s \in {Next1(sender), Again(sender)} :
           s \in [f : 1 .. NFiles + 1, i : 0 .. MaxChunks + 1, try : 0 .. MaxTry - 1]
<1> DEFINE Requests == [f : 1 .. NFiles + 1, i : 0 .. MaxChunks + 1, try : 0 .. MaxTry - 1]
<1>1. /\ NFiles \in Nat /\ MaxChunks \in Nat /\ MaxTry \in Nat \ {0}
      /\ sender \in Requests /\ sender.f \in 1 .. NFiles
  BY ServerWorkAssumption DEF ClientType, SenderDone
<1>2. sender.f \in Nat /\ sender.i \in 0 .. MaxChunks + 1 /\ sender.try \in 0 .. MaxTry - 1
  BY <1>1
<1>3. Next1(sender) \in Requests
  <2>1. CASE sender.i <= MaxChunks
    <3>1. sender.i + 1 \in 0 .. MaxChunks + 1 /\ 0 \in 0 .. MaxTry - 1
      BY <1>1, <1>2, <2>1
    <3> QED BY <1>1, <2>1, <3>1 DEF Next1
  <2>2. CASE ~ (sender.i <= MaxChunks)
    <3>1. sender.f + 1 \in 1 .. NFiles + 1 /\ 0 \in 0 .. MaxChunks + 1 /\ 0 \in 0 .. MaxTry - 1
      BY <1>1
    <3> QED BY <2>2, <3>1 DEF Next1
  <2> QED BY <2>1, <2>2
<1>4. Again(sender) \in Requests
  <2>1. sender.try + 1 < MaxTry => [sender EXCEPT !.try = @ + 1] \in Requests
    <3> SUFFICES ASSUME sender.try + 1 < MaxTry PROVE [sender EXCEPT !.try = @ + 1] \in Requests
      OBVIOUS
    <3>1. sender.try + 1 \in 0 .. MaxTry - 1
      BY <1>1, <1>2
    <3> QED BY <1>1, <3>1
  <2> QED BY <1>1, <1>3, <2>1 DEF Again
<1> QED BY <1>3, <1>4

LEMMA LoseKeeps == ASSUME LostType, Lose, UNCHANGED restarts PROVE LostType'
BY ServerWorkAssumption DEF LostType, Lose

LEMMA SenderKeeps ==
  ASSUME ClientType, LostType, ~ SenderDone, AnswerSender
  PROVE  ClientType' /\ LostType'
BY NextRequest, LoseKeeps DEF AnswerSender, ClientType, LostType

LEMMA FailSenderKeeps ==
  ASSUME ClientType, LostType, ~ SenderDone, FailSender
  PROVE  ClientType' /\ LostType'
BY NextRequest, LoseKeeps DEF FailSender, ClientType

LEMMA VerTypes ==
  ASSUME ClientType, Verifying
  PROVE  /\ [ver EXCEPT !.at = @ + 1] \in [at : 0 .. NFiles + 1, bad : BOOLEAN]
         /\ [ver EXCEPT !.bad = TRUE] \in [at : 0 .. NFiles + 1, bad : BOOLEAN]
<1>1. ver.at + 1 \in 0 .. NFiles + 1
  BY ServerWorkAssumption DEF ClientType, Verifying
<1> QED BY <1>1 DEF ClientType

LEMMA VerifyKeeps ==
  ASSUME ClientType, LostType, Verifying, NEW good \in BOOLEAN, AnswerVerify(good)
  PROVE  ClientType' /\ LostType'
<1>1. LostType'
  BY LoseKeeps DEF AnswerVerify, LostType
<1>2. ver' \in [at : 0 .. NFiles + 1, bad : BOOLEAN]
  BY VerTypes DEF AnswerVerify, ClientType
<1> QED BY <1>1, <1>2 DEF AnswerVerify, ClientType

LEMMA FailVerifyKeeps ==
  ASSUME ClientType, LostType, NEW v \in [at : 0 .. NFiles + 1, bad : BOOLEAN], FailVerify(v)
  PROVE  ClientType' /\ LostType'
BY LoseKeeps DEF FailVerify, ClientType

-----------------------------------------------------------------------------
(* Inv holds in every state. *)

OwedType == owed \in [Files -> Int]

LEMMA InvParts ==
  /\ Inv <=> DiskInv /\ SlotInv /\ ClientType /\ LostType /\ OwedType /\ RequestPending
  /\ Inv' <=> (DiskInv /\ SlotInv /\ ClientType /\ LostType /\ OwedType /\ RequestPending)'
BY DEF Inv, DiskInv, SlotInv, LostType, OwedType, BoundsType

LEMMA InitInv == Init => Inv
<1> SUFFICES ASSUME Init PROVE Inv
  OBVIOUS
<1>1. SlotInv
  BY SlotsStart DEF Init
<1>2. DiskInv
  BY DEF Init, DiskInv, DiskType, OpenFilesExist
<1>3. ClientType /\ LostType /\ OwedType
  <2>1. /\ 1 \in 1 .. NFiles + 1 /\ 0 \in 0 .. MaxChunks + 1 /\ 0 \in 0 .. MaxTry - 1
        /\ 0 \in 0 .. NFiles + 1 /\ 1 \in 1 .. MaxRuns /\ 0 \in 0 .. MaxLost /\ 0 \in 0 .. MaxRestarts
    BY ServerWorkAssumption
  <2>2. sender \in [f : 1 .. NFiles + 1, i : 0 .. MaxChunks + 1, try : 0 .. MaxTry - 1]
    BY <2>1 DEF Init, First
  <2>3. ver \in [at : 0 .. NFiles + 1, bad : BOOLEAN]
    BY <2>1 DEF Init
  <2>4. owed \in [Files -> Int]
    BY DEF Init
  <2> QED BY <2>1, <2>2, <2>3, <2>4 DEF Init, ClientType, LostType, OwedType
<1>4. RequestPending
  BY DEF Init, RequestPending, Free, WorkAt
<1> QED BY <1>1, <1>2, <1>3, <1>4, InvParts

(* A step at the end of which the server thread is free, or that leaves it and the clients alone. *)
LEMMA NothingPending == ASSUME work' = Free PROVE RequestPending'
BY DEF RequestPending, Free, WorkAt

LEMMA FreeHand == ASSUME work.op # "push", work'.op # "push" PROVE \A s \in Slots : InHand(s)' <=> InHand(s)
BY DEF InHand

LEMMA FreeIsTyped == Free \in WorkStates /\ Free.op = "free"
BY MaxFileNumAssumption DEF Free, WorkAt, WorkStates, Slots, Contents

(* The server thread, its request still the same, and the clients wait. *)
LEMMA PendingKept ==
  ASSUME RequestPending, UNCHANGED <<sender, ver, work, df>>
  PROVE  RequestPending'
BY DEF RequestPending, IsClose, SenderDone, Verifying

(* OPEN and WRITE. *)
LEMMA OpenStep == ASSUME Inv, OpenAFile PROVE Inv'
<1> USE DEF OpenAFile
<1>1. /\ DiskInv /\ SlotInv /\ ClientType /\ LostType /\ OwedType /\ MdFileType
      /\ work = Free /\ work' = Free /\ ~ SenderDone /\ sender.f \in Files
  <2>1. DiskInv /\ SlotInv /\ ClientType /\ LostType /\ OwedType
    BY InvParts
  <2>2. work = Free /\ work' = Free /\ ~ SenderDone
    BY DEF IsOpen
  <2>3. sender.f \in Files
    BY <2>1, <2>2, ServerWorkAssumption DEF SenderDone, ClientType
  <2> QED BY <2>1, <2>2, <2>3 DEF DiskInv, DiskType, MdFileType
<1>2. SlotInv' /\ MdFileType'
  BY <1>1, RemoveKeeps, FreeIsTyped DEF InHand
<1>3. DiskInv'
  BY <1>1, <1>2, ReopenKeeps
<1>4. ClientType' /\ LostType'
  BY <1>1, SenderKeeps
<1>5. RequestPending'
  BY <1>1, NothingPending
<1> QED BY <1>1, <1>2, <1>3, <1>4, <1>5, InvParts DEF OwedType

(* fopen fails: the FILE* the file had is closed, and there is no new one. *)
LEMMA OpenFailsStep == ASSUME Inv, OpenAFileFails PROVE Inv'
<1> USE DEF OpenAFileFails
<1>1. /\ DiskInv /\ SlotInv /\ ClientType /\ LostType /\ OwedType /\ MdFileType
      /\ work = Free /\ work' = Free /\ ~ SenderDone /\ sender.f \in Files
  <2>1. DiskInv /\ SlotInv /\ ClientType /\ LostType /\ OwedType
    BY InvParts
  <2>2. work = Free /\ work' = Free /\ ~ SenderDone
    BY DEF IsOpen
  <2>3. sender.f \in Files
    BY <2>1, <2>2, ServerWorkAssumption DEF SenderDone, ClientType
  <2> QED BY <2>1, <2>2, <2>3 DEF DiskInv, DiskType, MdFileType
<1>2. SlotInv' /\ MdFileType'
  BY <1>1, RemoveKeeps, FreeIsTyped DEF InHand
<1>3. PICK all \in Contents : WriteFile(sender.f, all)
  BY <1>1, WritesOut, ContentsGrow
<1>4. DiskInv'
  BY <1>1, <1>2, <1>3, WriteKeeps
<1>5. ClientType' /\ LostType'
  BY <1>1, FailSenderKeeps
<1>6. RequestPending'
  BY <1>1, NothingPending
<1> QED BY <1>1, <1>2, <1>4, <1>5, <1>6, InvParts DEF OwedType

(* What is left of the buffer and of a block when fwrite falls short. *)
LEMMA TornIsContents ==
  ASSUME ClientType, NEW buf \in Contents, NEW n \in 0 .. Len(buf), NEW torn \in {<<>>, <<<<run, 0>>>>}
  PROVE  SubSeq(buf, 1, n) \o torn \in Contents
<1>1. torn \in Contents
  <2>1. run \in 1 .. MaxRuns /\ 0 \in 0 .. MaxChunks
    BY ServerWorkAssumption DEF ClientType
  <2> QED BY <2>1, ContentsGrow
<1>2. SubSeq(buf, 1, n) \in Contents
  BY DEF Contents
<1> QED BY <1>1, <1>2, ContentsGrow

LEMMA WriteStep == ASSUME Inv, WriteToFile PROVE Inv'
<1> DEFINE f == sender.f
           block == <<run, sender.i>>
           old == m_mapNameFile[f]
<1>1. /\ DiskInv /\ SlotInv /\ ClientType /\ LostType /\ OwedType /\ MdFileType
      /\ work = Free /\ work' = Free /\ ~ SenderDone /\ f \in Files
  <2>1. DiskInv /\ SlotInv /\ ClientType /\ LostType /\ OwedType
    BY InvParts
  <2>2. work = Free /\ work' = Free /\ ~ SenderDone
    BY DEF WriteToFile, IsWrite
  <2>3. f \in Files
    BY <2>1, <2>2, ServerWorkAssumption DEF SenderDone, ClientType
  <2> QED BY <2>1, <2>2, <2>3 DEF DiskInv, DiskType, MdFileType
<1>2. UNCHANGED <<md5, slots, th, work, owed>> /\ AnswerSender
  BY DEF WriteToFile
<1>3. SlotInv' /\ MdFileType'
  <2>1. SlotsType' /\ NamesGiven' /\ OneOwner'
    BY <1>1, <1>2, SlotsKept DEF InHand, HasSlot
  <2> QED BY <1>1, <1>2, <2>1 DEF SlotInv, ThreadsType, MdFileType
<1>4. <<block>> \in Contents /\ \A a \in Contents : Append(a, block) \in Contents
  <2>1. run \in 1 .. MaxRuns /\ sender.i \in 0 .. MaxChunks
    BY <1>1, ServerWorkAssumption DEF ClientType, WriteToFile, IsWrite
  <2> QED BY <2>1, ContentsGrow
<1>5. old \in FilePointers \cup {Closed}
  BY <1>1 DEF DiskInv, DiskType, FilePointers
<1>6. DiskInv'
  <2>1. CASE UNCHANGED <<df, final, m_mapNameFile>>
    BY <1>1, <1>3, <2>1, DiskKept
  <2>2. CASE /\ old # Closed /\ UNCHANGED <<df, final>>
             /\ m_mapNameFile' = [m_mapNameFile EXCEPT ![f].buf = Append(@, block)]
    <3> DEFINE fp == [old EXCEPT !.buf = Append(old.buf, block)]
    <3>1. m_mapNameFile' = [m_mapNameFile EXCEPT ![f] = fp]
      BY <1>1, <2>2 DEF DiskInv, DiskType
    <3>2. fp \in FilePointers /\ fp.to = old.to
      BY <1>4, <1>5, <2>2 DEF FilePointers
    <3> HIDE DEF fp, old, block, f
    <3>3. m_mapNameFile' \in [Files -> FilePointers \cup {Closed}]
      BY <1>1, <3>1, <3>2 DEF DiskInv, DiskType, FilePointers
    <3>4. ASSUME NEW g \in Files, m_mapNameFile'[g] # Closed
          PROVE  m_mapNameFile[g] # Closed /\ m_mapNameFile'[g].to = m_mapNameFile[g].to
      BY <1>1, <2>2, <3>1, <3>2, <3>4 DEF DiskInv, DiskType, old
    <3> QED BY <1>1, <1>3, <2>2, <3>3, <3>4
            DEF DiskInv, DiskType, OpenFilesExist, MdFileType, FilePointers
  <2>3. CASE /\ old # Closed /\ WriteOut(f, <<block>>)
             /\ m_mapNameFile' = [m_mapNameFile EXCEPT ![f].buf = <<>>]
    <3> DEFINE fp == [old EXCEPT !.buf = <<>>]
    <3>1. m_mapNameFile' = [m_mapNameFile EXCEPT ![f] = fp]
      BY <1>1, <2>3 DEF DiskInv, DiskType
    <3>2. fp \in FilePointers /\ fp.to = old.to
      BY <1>5, <2>3, ContentsGrow DEF FilePointers
    <3> HIDE DEF fp, block, f
    <3>3. PICK all \in Contents : WriteFile(f, all)
      BY <1>1, <1>4, <2>3, WritesOut
    <3> QED BY <1>1, <1>3, <2>3, <3>1, <3>2, <3>3, WriteKeeps
  <2> QED BY <2>1, <2>2, <2>3 DEF WriteToFile
<1>7. ClientType' /\ LostType'
  BY <1>1, <1>2, SenderKeeps
<1>8. RequestPending'
  BY <1>1, NothingPending
<1> QED BY <1>1, <1>2, <1>3, <1>6, <1>7, <1>8, InvParts DEF OwedType

(* fwrite falls short: a part of what it had to write is in the file, or nothing. *)
LEMMA WriteFailsStep == ASSUME Inv, WriteToFileFails PROVE Inv'
<1> DEFINE f == sender.f
           old == m_mapNameFile[f]
<1>1. /\ DiskInv /\ SlotInv /\ ClientType /\ LostType /\ OwedType /\ MdFileType
      /\ work = Free /\ work' = Free /\ ~ SenderDone /\ f \in Files
  <2>1. DiskInv /\ SlotInv /\ ClientType /\ LostType /\ OwedType
    BY InvParts
  <2>2. work = Free /\ work' = Free /\ ~ SenderDone
    BY DEF WriteToFileFails, IsWrite
  <2>3. f \in Files
    BY <2>1, <2>2, ServerWorkAssumption DEF SenderDone, ClientType
  <2> QED BY <2>1, <2>2, <2>3 DEF DiskInv, DiskType, MdFileType
<1>2. UNCHANGED <<md5, slots, th, work, owed>> /\ FailSender
  BY DEF WriteToFileFails
<1>3. SlotInv' /\ MdFileType'
  <2>1. SlotsType' /\ NamesGiven' /\ OneOwner'
    BY <1>1, <1>2, SlotsKept DEF InHand, HasSlot
  <2> QED BY <1>1, <1>2, <2>1 DEF SlotInv, ThreadsType, MdFileType
<1>4. DiskInv'
  <2>1. CASE UNCHANGED <<df, final, m_mapNameFile>>
    BY <1>1, <1>3, <2>1, DiskKept
  <2>2. ASSUME NEW n \in 0 .. Len(old.buf), NEW torn \in {<<>>, <<<<run, 0>>>>}, old # Closed,
               WriteFile(f, SubSeq(old.buf, 1, n) \o torn),
               m_mapNameFile' = [m_mapNameFile EXCEPT ![f].buf = <<>>]
        PROVE  DiskInv'
    <3> DEFINE fp == [old EXCEPT !.buf = <<>>]
               data == SubSeq(old.buf, 1, n) \o torn
    <3>1. m_mapNameFile' = [m_mapNameFile EXCEPT ![f] = fp]
      BY <1>1, <2>2 DEF DiskInv, DiskType
    <3>2. old \in FilePointers
      BY <1>1, <2>2 DEF DiskInv, DiskType, FilePointers
    <3>3. fp \in FilePointers /\ fp.to = old.to
      BY <3>2, ContentsGrow DEF FilePointers
    <3>4. data \in Contents
      BY <1>1, <2>2, <3>2, TornIsContents DEF FilePointers
    <3>5. WriteFile(f, data)
      BY <2>2
    <3> HIDE DEF fp, data, f
    <3> QED BY <1>1, <1>3, <2>2, <3>1, <3>3, <3>4, <3>5, WriteKeeps
  <2> QED BY <2>1, <2>2 DEF WriteToFileFails
<1>5. ClientType' /\ LostType'
  BY <1>1, <1>2, FailSenderKeeps
<1>6. RequestPending'
  BY <1>1, NothingPending
<1> QED BY <1>1, <1>2, <1>3, <1>4, <1>5, <1>6, InvParts DEF OwedType

(* CLOSE. *)
LEMMA CloseStep == ASSUME Inv, CloseAFile \/ CloseTakesSlot \/ ClosePushesSlot PROVE Inv'
<1>1. /\ DiskInv /\ SlotInv /\ ClientType /\ LostType /\ OwedType /\ MdFileType /\ RequestPending
      /\ work \in WorkStates
  BY InvParts DEF DiskInv, DiskType, MdFileType, SlotInv
<1>2. IsClose => sender.f \in Files /\ ~ SenderDone
  BY <1>1, ServerWorkAssumption DEF ClientType, SenderDone, IsClose
<1>3. CASE CloseAFile
  <2>1. sender.f \in Files /\ work = Free /\ work' = WorkAt("slot", 0, sender.f, <<>>) /\ IsClose
    BY <1>2, <1>3 DEF CloseAFile
  <2>2. DiskInv'
    <3>1. PICK all \in Contents : WriteFile(sender.f, all)
      BY <1>1, <1>3, <2>1, WritesOut, ContentsGrow DEF CloseAFile
    <3>2. MdFileType'
      BY <1>1, <1>3 DEF CloseAFile, MdFileType
    <3> QED BY <1>1, <1>3, <2>1, <3>1, <3>2, WriteKeeps DEF CloseAFile
  <2>3. work' \in WorkStates /\ work'.op = "slot" /\ work'.f = sender.f
    BY <2>1, MaxFileNumAssumption DEF WorkAt, WorkStates, Slots, Contents
  <2>4. \A s \in Slots : InHand(s)' <=> InHand(s)
    BY <2>1, <2>3, FreeHand, FreeIsTyped
  <2>5. SlotInv'
    <3>1. UNCHANGED <<slots, th>>
      BY <1>3 DEF CloseAFile
    <3>2. SlotsType' /\ NamesGiven' /\ OneOwner'
      BY <1>1, <2>4, <3>1, SlotsKept DEF HasSlot
    <3> QED BY <1>1, <2>3, <3>1, <3>2 DEF SlotInv, ThreadsType
  <2>6. ClientType' /\ LostType' /\ OwedType'
    BY <1>1, <1>3 DEF CloseAFile, client, bounds, ClientType, LostType, OwedType
  <2>7. RequestPending'
    BY <1>3, <2>1, <2>3 DEF CloseAFile, client, RequestPending, IsClose, SenderDone
  <2> QED BY <2>2, <2>5, <2>6, <2>7, InvParts
<1>4. CASE CloseTakesSlot
  <2>1. work.op = "slot" /\ work.f = sender.f /\ IsClose /\ work.f \in Files
    BY <1>1, <1>2, <1>4 DEF CloseTakesSlot, RequestPending
  <2>2. SlotInv'
    BY <1>1, <1>4, <2>1, SlotToHand
  <2>3. DiskInv'
    BY <1>1, <1>4, DiskKept DEF CloseTakesSlot, disk, MdFileType
  <2>4. ClientType' /\ LostType' /\ OwedType'
    BY <1>1, <1>4 DEF CloseTakesSlot, client, bounds, ClientType, LostType, OwedType
  <2>5. work'.op = "push" /\ work'.f = work.f
    BY <1>1, <1>4 DEF CloseTakesSlot, WorkStates
  <2>6. RequestPending'
    BY <1>4, <2>1, <2>5 DEF CloseTakesSlot, client, RequestPending, IsClose, SenderDone
  <2> QED BY <2>2, <2>3, <2>4, <2>6, InvParts
<1>5. CASE ClosePushesSlot
  <2>1. work.op = "push" /\ work.f = sender.f /\ IsClose /\ work.f \in Files /\ ~ SenderDone
    BY <1>1, <1>2, <1>5 DEF ClosePushesSlot, RequestPending
  <2>2. SlotInv'
    BY <1>1, <1>5, HandToWork
  <2>3. DiskInv'
    BY <1>1, <1>5, DiskKept DEF ClosePushesSlot, disk, MdFileType
  <2>4. ClientType' /\ LostType'
    BY <1>1, <1>5, <2>1, SenderKeeps DEF ClosePushesSlot
  <2>5. OwedType'
    BY <1>1, <1>5, <2>1 DEF ClosePushesSlot, OwedType
  <2>6. RequestPending'
    BY <1>5, NothingPending DEF ClosePushesSlot
  <2> QED BY <2>2, <2>3, <2>4, <2>5, <2>6, InvParts
<1> QED BY <1>3, <1>4, <1>5

(* CHECK_MD5. *)
LEMMA InstallFailsStep ==
  ASSUME Inv, NEW f \in Files, InstallFails(f), Verifying, UNCHANGED <<slots, owed>>,
         work' = Free, work.op # "push"
  PROVE  Inv'
<1>1. /\ DiskInv /\ SlotInv /\ ClientType /\ LostType /\ OwedType /\ MdFileType
  BY InvParts DEF DiskInv, DiskType, MdFileType
<1>2. ClientType' /\ LostType'
  BY <1>1, VerTypes, FailVerifyKeeps DEF InstallFails
<1>3. \A s \in Slots : InHand(s)' <=> InHand(s)
  BY FreeHand, FreeIsTyped
<1>4. SlotInv' /\ MdFileType'
  BY <1>1, <1>3, RemoveKeeps, FreeIsTyped DEF InstallFails
<1>5. DiskInv'
  BY <1>1, <1>4, DiskKept DEF InstallFails
<1> QED BY <1>1, <1>2, <1>4, <1>5, NothingPending, InvParts DEF OwedType

LEMMA CheckStep ==
  ASSUME Inv, CheckMD5 \/ CheckMD5Fails \/ CheckMD5NoFile \/ CheckMD5Builds \/ CheckMD5Compares
  PROVE  Inv'
<1>1. /\ DiskInv /\ SlotInv /\ ClientType /\ LostType /\ OwedType /\ MdFileType /\ RequestPending
      /\ work \in WorkStates
  BY InvParts DEF DiskInv, DiskType, MdFileType, SlotInv
<1>2. /\ Verifying => ver.at \in Files /\ (df[ver.at] # NoFile => df[ver.at] \in Contents)
      /\ Free \in WorkStates /\ Free.op = "free"
  BY <1>1, ServerWorkAssumption, FreeIsTyped DEF Verifying, DiskInv, DiskType
<1>3. CASE CheckMD5 /\ AnswerVerify(md5[ver.at] = Empty \/ Good(md5[ver.at]))
           /\ IF Good(md5[ver.at]) THEN Install(ver.at) ELSE Keep
  <2> DEFINE f == ver.at
             good == md5[f] = Empty \/ Good(md5[f])
  <2>1. /\ work = Free /\ work' = Free /\ Verifying /\ UNCHANGED <<slots, owed>> /\ f \in Files
        /\ df[f] \in Contents /\ AnswerVerify(good) /\ good \in BOOLEAN
    BY <1>2, <1>3 DEF CheckMD5
  <2>2. ClientType' /\ LostType' /\ OwedType' /\ RequestPending'
    <3> HIDE DEF good
    <3> QED BY <1>1, <2>1, VerifyKeeps, NothingPending DEF OwedType
  <2>3. CASE Install(f)
    <3>1. SlotInv' /\ MdFileType'
      BY <1>1, <1>2, <2>1, <2>3, RemoveKeeps DEF Install, InHand
    <3>2. DiskInv'
      BY <1>1, <2>1, <2>3, <3>1, InstallKeeps
    <3> QED BY <2>2, <3>1, <3>2, InvParts
  <2>4. CASE Keep
    <3>1. SlotsType' /\ NamesGiven' /\ OneOwner'
      BY <1>1, <2>1, <2>4, SlotsKept DEF Keep, InHand, HasSlot
    <3>2. SlotInv'
      BY <1>1, <2>1, <2>4, <3>1 DEF SlotInv, ThreadsType, Keep
    <3>3. DiskInv'
      BY <1>1, <2>4, DiskKept DEF Keep, disk, MdFileType
    <3> QED BY <2>2, <3>2, <3>3, InvParts
  <2> QED BY <1>3, <2>3, <2>4
<1>4. CASE CheckMD5NoFile
  <2>1. Verifying /\ work = Free /\ UNCHANGED <<disk, slots, th, m_mapNameFile, work, owed>>
    BY <1>4 DEF CheckMD5NoFile
  <2>2. PICK looksLikeDir \in BOOLEAN : AnswerVerify(~looksLikeDir)
    BY <1>4 DEF CheckMD5NoFile
  <2>3. ClientType' /\ LostType'
    BY <1>1, <2>1, <2>2, VerifyKeeps
  <2>4. SlotsType' /\ NamesGiven' /\ OneOwner'
    BY <1>1, <2>1, SlotsKept DEF InHand, HasSlot
  <2>5. SlotInv' /\ OwedType' /\ RequestPending'
    BY <1>1, <2>1, <2>4, NothingPending DEF SlotInv, ThreadsType, OwedType
  <2>6. DiskInv'
    BY <1>1, <2>1, DiskKept DEF disk, MdFileType
  <2> QED BY <2>3, <2>5, <2>6, InvParts
<1>5. CASE CheckMD5Builds
  <2>1. /\ Verifying /\ work = Free /\ UNCHANGED <<df, final, slots, th, m_mapNameFile, client, bounds, owed>>
        /\ work' = WorkAt("built", 0, ver.at, df[ver.at])
        /\ md5' = [md5 EXCEPT ![ver.at] = Empty]
        /\ ver.at \in Files /\ df[ver.at] \in Contents
    BY <1>2, <1>5 DEF CheckMD5Builds
  <2>2. work' \in WorkStates /\ work'.op = "built" /\ work'.f = ver.at
    BY <2>1, MaxFileNumAssumption DEF WorkAt, WorkStates, Slots
  <2>3. SlotsType' /\ NamesGiven' /\ OneOwner'
    BY <1>1, <1>2, <2>1, <2>2, SlotsKept DEF InHand, HasSlot
  <2>4. SlotInv'
    BY <1>1, <2>1, <2>2, <2>3 DEF SlotInv, ThreadsType
  <2>5. DiskInv'
    BY <1>1, <2>1, DiskKept DEF MdFileType
  <2>6. ClientType' /\ LostType' /\ OwedType'
    BY <1>1, <2>1 DEF client, bounds, ClientType, LostType, OwedType
  <2>7. RequestPending'
    BY <2>1, <2>2 DEF client, RequestPending, Verifying
  <2> QED BY <2>4, <2>5, <2>6, <2>7, InvParts
<1>6. CASE /\ CheckMD5Compares /\ AnswerVerify(Good(work.hash))
           /\ IF Good(work.hash) THEN Install(work.f)
              ELSE /\ md5' = [md5 EXCEPT ![work.f] = work.hash]
                   /\ UNCHANGED <<df, final, th, m_mapNameFile>>
  <2> DEFINE f == work.f
             good == Good(work.hash)
  <2>1. /\ work.op = "built" /\ work' = Free /\ Verifying /\ UNCHANGED <<slots, owed>> /\ f \in Files
        /\ df[f] \in Contents /\ AnswerVerify(good) /\ good \in BOOLEAN /\ work.hash \in Contents
    BY <1>1, <1>2, <1>6 DEF CheckMD5Compares, RequestPending, WorkStates, Good
  <2>2. ClientType' /\ LostType' /\ OwedType' /\ RequestPending'
    <3> HIDE DEF good
    <3> QED BY <1>1, <2>1, VerifyKeeps, NothingPending DEF OwedType
  <2>3. \A s \in Slots : InHand(s)' <=> InHand(s)
    BY <1>2, <2>1, FreeHand
  <2>4. CASE Install(f)
    <3>1. SlotInv' /\ MdFileType'
      BY <1>1, <1>2, <2>1, <2>3, <2>4, RemoveKeeps DEF Install
    <3>2. DiskInv'
      BY <1>1, <2>1, <2>4, <3>1, InstallKeeps
    <3> QED BY <2>2, <3>1, <3>2, InvParts
  <2>5. CASE md5' = [md5 EXCEPT ![f] = work.hash] /\ UNCHANGED <<df, final, th, m_mapNameFile>>
    <3>1. SlotsType' /\ NamesGiven' /\ OneOwner'
      BY <1>1, <2>1, <2>3, <2>5, SlotsKept DEF HasSlot
    <3>2. SlotInv'
      BY <1>1, <1>2, <2>1, <2>5, <3>1 DEF SlotInv, ThreadsType
    <3>3. DiskInv'
      BY <1>1, <2>1, <2>5, DiskKept DEF MdFileType
    <3> QED BY <2>2, <3>2, <3>3, InvParts
  <2> QED BY <1>6, <2>4, <2>5
<1>7. CASE CheckMD5Fails
  <2>1. Verifying /\ work = Free /\ UNCHANGED <<disk, slots, th, m_mapNameFile, work, owed>>
    BY <1>7 DEF CheckMD5Fails
  <2>2. ClientType' /\ LostType'
    BY <1>1, <1>7, VerTypes, FailVerifyKeeps DEF CheckMD5Fails
  <2>3. SlotsType' /\ NamesGiven' /\ OneOwner'
    BY <1>1, <2>1, SlotsKept DEF InHand, HasSlot
  <2>4. SlotInv' /\ OwedType' /\ RequestPending'
    BY <1>1, <2>1, <2>3, NothingPending DEF SlotInv, ThreadsType, OwedType
  <2>5. DiskInv'
    BY <1>1, <2>1, DiskKept DEF disk, MdFileType
  <2> QED BY <2>2, <2>4, <2>5, InvParts
<1>8. CASE CheckMD5 /\ InstallFails(ver.at)
  BY <1>2, <1>8, InstallFailsStep DEF CheckMD5
<1>9. CASE CheckMD5Compares /\ InstallFails(work.f)
  <2>1. Verifying /\ work.f = ver.at /\ work.op = "built"
    BY <1>1, <1>9 DEF CheckMD5Compares, RequestPending
  <2> QED BY <1>2, <1>9, <2>1, InstallFailsStep DEF CheckMD5Compares
<1>10. CASE CheckMD5
  BY <1>3, <1>8, <1>10 DEF CheckMD5
<1>11. CASE CheckMD5Compares
  BY <1>6, <1>9, <1>11 DEF CheckMD5Compares
<1> QED BY <1>4, <1>5, <1>7, <1>10, <1>11

(* A step of an md5 thread; the clients' and the server thread's states stay. *)
LEMMA Md5Keeps == ASSUME Inv, NEW t \in Threads, Md5Step(t) PROVE Inv'
<1>1. /\ DiskInv /\ SlotInv /\ ClientType /\ LostType /\ OwedType /\ MdFileType /\ DfType
      /\ RequestPending
  BY InvParts DEF DiskInv, DiskType, MdFileType, DfType
<1>2. /\ ThreadStep(t) /\ UNCHANGED <<m_mapNameFile, work, client, bounds>>
      /\ owed' = IF th[t].st = "name" THEN [owed EXCEPT ![g_QueFile[th[t].slot]] = @ - 1] ELSE owed
  BY DEF Md5Step
<1>3. SlotInv' /\ MdFileType' /\ UNCHANGED <<df, final>>
  BY <1>1, <1>2, ThreadKeeps
<1>4. DiskInv'
  BY <1>1, <1>2, <1>3, DiskKept
<1>5. ClientType' /\ LostType'
  BY <1>1, <1>2 DEF client, bounds, ClientType, LostType
<1>6. OwedType'
  <2>1. CASE th[t].st = "name"
    <3>1. th[t].slot \in Slots
      BY <1>1 DEF SlotInv, ThreadsType, ThreadStates
    <3>2. g_QueFile[th[t].slot] \in Files
      BY <1>1, <2>1, <3>1 DEF SlotInv, NamesGiven
    <3> QED BY <1>1, <1>2, <2>1, <3>2 DEF OwedType
  <2>2. CASE th[t].st # "name"
    BY <1>1, <1>2, <2>2 DEF OwedType
  <2> QED BY <2>1, <2>2
<1>7. RequestPending'
  BY <1>1, <1>2, <1>3, PendingKept DEF client
<1> QED BY <1>3, <1>4, <1>5, <1>6, <1>7, InvParts

(* The steps of the clients, and the death of the server process. *)
LEMMA ClientStep == ASSUME Inv, StartVerify \/ NextTransfer \/ RequestLost PROVE Inv'
<1>1. /\ DiskInv /\ SlotInv /\ ClientType /\ LostType /\ OwedType /\ MdFileType /\ RequestPending
  BY InvParts DEF DiskInv, DiskType, MdFileType
<1>2. UNCHANGED <<disk, slots, th, m_mapNameFile, work, owed>>
  BY DEF StartVerify, NextTransfer, RequestLost
<1>3. SlotInv'
  <2>1. SlotsType' /\ NamesGiven' /\ OneOwner'
    BY <1>1, <1>2, SlotsKept DEF InHand, HasSlot
  <2> QED BY <1>1, <1>2, <2>1 DEF SlotInv, ThreadsType
<1>4. DiskInv' /\ OwedType'
  BY <1>1, <1>2, DiskKept DEF disk, MdFileType, OwedType
<1>5. CASE StartVerify
  <2>1. ver' = [ver EXCEPT !.at = 1] /\ 1 \in 0 .. NFiles + 1 /\ ver.at = 0
    BY <1>5, ServerWorkAssumption DEF StartVerify
  <2>2. ClientType' /\ LostType'
    BY <1>1, <1>5, <2>1 DEF StartVerify, ClientType, LostType, bounds
  <2>3. RequestPending'
    BY <1>1, <1>2, <1>5, <2>1, ServerWorkAssumption
    DEF StartVerify, RequestPending, IsClose, SenderDone, Verifying
  <2> QED BY <1>3, <1>4, <2>2, <2>3, InvParts
<1>6. CASE NextTransfer
  <2>1. First \in [f : 1 .. NFiles + 1, i : 0 .. MaxChunks + 1, try : 0 .. MaxTry - 1]
    BY ServerWorkAssumption DEF First
  <2>2. [at |-> 0, bad |-> FALSE] \in [at : 0 .. NFiles + 1, bad : BOOLEAN]
    BY ServerWorkAssumption
  <2>3. run + 1 \in 1 .. MaxRuns
    BY <1>1, <1>6, ServerWorkAssumption DEF ClientType, NextTransfer
  <2>4. leftover' \in BOOLEAN
    BY <1>1, <1>6 DEF NextTransfer
  <2>5. ClientType' /\ LostType'
    BY <1>1, <1>6, <2>1, <2>2, <2>3, <2>4 DEF NextTransfer, ClientType, LostType, bounds
  <2>6. RequestPending'
    BY <1>6, NothingPending DEF NextTransfer
  <2> QED BY <1>3, <1>4, <2>5, <2>6, InvParts
<1>7. CASE RequestLost
  <2>1. ClientType' /\ LostType'
    BY <1>1, <1>7, NextRequest, LoseKeeps DEF RequestLost, ClientType, LostType
  <2>2. RequestPending'
    BY <1>7, NothingPending DEF RequestLost
  <2> QED BY <1>3, <1>4, <2>1, <2>2, InvParts
<1> QED BY <1>5, <1>6, <1>7

LEMMA RestartStep == ASSUME Inv, Restart PROVE Inv'
<1>1. DiskInv /\ SlotInv /\ ClientType /\ LostType /\ OwedType /\ MdFileType
  BY InvParts DEF DiskInv, DiskType, MdFileType
<1>2. SlotsInit' /\ work' = Free
  BY DEF Restart, SlotsInit
<1>3. SlotInv'
  <2>1. (SlotsInit /\ work = Free => SlotInv)'
    BY SlotsStart, PTL
  <2> QED BY <1>2, <2>1 DEF Free, WorkAt
<1>4. DiskInv'
  BY <1>1 DEF Restart, disk, DiskInv, DiskType, OpenFilesExist
<1>5. ClientType' /\ OwedType'
  BY <1>1, NextRequest DEF Restart, ClientType, OwedType
<1>6. LostType'
  BY <1>1, ServerWorkAssumption DEF Restart, LostType
<1>7. RequestPending'
  BY <1>2, NothingPending
<1> QED BY <1>3, <1>4, <1>5, <1>6, <1>7, InvParts

LEMMA InvNext == ASSUME Inv, [Next]_vars PROVE Inv'
<1>1. CASE UNCHANGED vars
  <2>1. DiskInv /\ SlotInv /\ ClientType /\ LostType /\ OwedType /\ MdFileType /\ RequestPending
    BY InvParts DEF DiskInv, DiskType, MdFileType
  <2>2. UNCHANGED <<disk, slots, th, m_mapNameFile, work, client, bounds, owed>>
    BY <1>1 DEF vars
  <2>3. SlotsType' /\ NamesGiven' /\ OneOwner'
    BY <2>1, <2>2, SlotsKept DEF InHand, HasSlot
  <2>4. SlotInv'
    BY <2>1, <2>2, <2>3 DEF SlotInv, ThreadsType
  <2>5. DiskInv' /\ OwedType'
    BY <2>1, <2>2, DiskKept DEF disk, MdFileType, OwedType
  <2>6. ClientType' /\ LostType' /\ RequestPending'
    BY <2>1, <2>2, PendingKept DEF disk, client, bounds, ClientType, LostType
  <2> QED BY <2>4, <2>5, <2>6, InvParts
<1>2. CASE StartVerify \/ NextTransfer \/ RequestLost
  BY <1>2, ClientStep
<1>3. CASE WorkStep
  BY <1>3, OpenStep, OpenFailsStep, WriteStep, WriteFailsStep, CloseStep, CheckStep DEF WorkStep
<1>4. CASE \E t \in Threads : Md5Step(t)
  BY <1>4, Md5Keeps
<1>5. CASE Restart
  BY <1>5, RestartStep
<1> QED BY <1>1, <1>2, <1>3, <1>4, <1>5 DEF Next, Terminating

(* Every reachable state satisfies Inv, whatever is lost and however often the server restarts. *)
THEOREM Inductive == Spec => []Inv
<1>1. Inv /\ [Next]_vars => Inv'
  BY InvNext
<1> QED BY InitInv, <1>1, PTL DEF Spec

(* Every variable keeps to its type; in particular an md5 thread always finds the name of a file in
   the slot it took (ThreadMd5::run), and what is written or renamed exists (QSEPSDF_SSWork). *)
THEOREM TypeCorrect == Spec => []TypeOK
<1>1. Inv => TypeOK
  BY DEF Inv, DiskType, SlotsType, ThreadsType, ClientType, BoundsType, TypeOK
<1> QED BY Inductive, <1>1, PTL

(* A slot of g_QueFile has one owner at any time and none is ever lost, between CloseAFile, the two
   rings and any number of md5 threads (QSEPSDF_SSWork.cpp, ThreadMd5.cpp). *)
THEOREM OneOwnerCorrect == Spec => []OneOwner
<1>1. Inv => OneOwner
  BY DEF Inv
<1> QED BY Inductive, <1>1, PTL

-----------------------------------------------------------------------------
(* The names handed over and not copied yet. *)

NamesIn(q, names, f) == {i \in DOMAIN q : names[q[i]] = f}
Awaiting(f) == {t \in Threads : th[t].st = "name" /\ g_QueFile[th[t].slot] = f}
Outstanding(f) == Cardinality(NamesIn(g_WorkPos, g_QueFile, f)) + Cardinality(Awaiting(f))

LEMMA JobsAsOutstanding ==
  /\ JobsMatch <=> \A f \in Files : owed[f] = Outstanding(f)
  /\ JobsMatch' <=> \A f \in Files : owed'[f] = Outstanding(f)'
BY DEF JobsMatch, Outstanding, NamesIn, Awaiting

LEMMA NamesAreFinite ==
  ASSUME NEW q \in Seq(Slots), NEW names, NEW f
  PROVE  /\ NamesIn(q, names, f) \in SUBSET (1 .. Len(q))
         /\ IsFiniteSet(NamesIn(q, names, f))
         /\ Cardinality(NamesIn(q, names, f)) \in Nat
<1>1. DOMAIN q = 1 .. Len(q) /\ Len(q) \in Nat
  OBVIOUS
<1>2. IsFiniteSet(1 .. Len(q))
  BY <1>1, FS_Interval
<1>3. NamesIn(q, names, f) \in SUBSET (1 .. Len(q))
  BY <1>1 DEF NamesIn
<1> QED BY <1>2, <1>3, FS_Subset, FS_CardinalityType

LEMMA AwaitingIsFinite ==
  ASSUME NEW f PROVE IsFiniteSet(Awaiting(f)) /\ Cardinality(Awaiting(f)) \in Nat
<1>1. Awaiting(f) \in SUBSET Threads
  BY DEF Awaiting
<1> QED BY <1>1, ThreadsAssumption, FS_Subset, FS_CardinalityType

LEMMA AppendNames ==
  ASSUME NEW q \in Seq(Slots), NEW s \in Slots, NEW names, NEW f
  PROVE  Cardinality(NamesIn(Append(q, s), names, f)) =
           Cardinality(NamesIn(q, names, f)) + IF names[s] = f THEN 1 ELSE 0
<1> DEFINE r == Append(q, s)
           new == Len(q) + 1
           N == NamesIn(q, names, f)
<1>1. /\ DOMAIN q = 1 .. Len(q) /\ DOMAIN r = 1 .. new /\ Len(q) \in Nat
      /\ \A k \in 1 .. Len(q) : r[k] = q[k]
      /\ r[new] = s
  OBVIOUS
<1>2. N \in SUBSET (1 .. Len(q)) /\ IsFiniteSet(N) /\ Cardinality(N) \in Nat
  BY NamesAreFinite
<1>3. new \notin N
  BY <1>1, <1>2
<1>4. CASE names[s] = f
  <2>1. NamesIn(r, names, f) = N \cup {new}
    BY <1>1, <1>4 DEF NamesIn
  <2> HIDE DEF r, new, N
  <2> QED BY <1>2, <1>3, <1>4, <2>1, FS_AddElement DEF r, N
<1>5. CASE names[s] # f
  <2>1. NamesIn(r, names, f) = N
    BY <1>1, <1>5 DEF NamesIn
  <2> QED BY <1>2, <1>5, <2>1
<1> QED BY <1>4, <1>5

LEMMA TailNames ==
  ASSUME NEW q \in Seq(Slots), q # <<>>, NEW names, NEW f
  PROVE  Cardinality(NamesIn(q, names, f)) =
           Cardinality(NamesIn(Tail(q), names, f)) + IF names[Head(q)] = f THEN 1 ELSE 0
<1> DEFINE r == Tail(q)
           N == NamesIn(q, names, f)
           R == NamesIn(r, names, f)
           later == N \ {1}
           shift == [k \in R |-> k + 1]
<1>1. /\ r \in Seq(Slots) /\ Len(q) \in Nat /\ Len(q) > 0
      /\ DOMAIN q = 1 .. Len(q) /\ DOMAIN r = 1 .. Len(q) - 1
      /\ \A k \in 1 .. Len(q) - 1 : r[k] = q[k + 1]
      /\ Head(q) = q[1]
  OBVIOUS
<1>2. /\ N \in SUBSET (1 .. Len(q)) /\ IsFiniteSet(N) /\ Cardinality(N) \in Nat
      /\ IsFiniteSet(R) /\ Cardinality(R) \in Nat
  BY <1>1, NamesAreFinite
<1> HIDE DEF r
<1>3. R \subseteq Nat /\ shift \in [R -> later]
  <2>1. ASSUME NEW k \in R
        PROVE  k \in Nat /\ k + 1 \in later
    <3>1. k \in 1 .. Len(q) - 1 /\ names[r[k]] = f
      BY <1>1 DEF NamesIn
    <3>2. k \in Nat /\ k + 1 \in 1 .. Len(q) /\ k + 1 # 1
      BY <1>1, <3>1
    <3>3. names[q[k + 1]] = f
      BY <1>1, <3>1
    <3> QED BY <1>1, <3>2, <3>3 DEF NamesIn
  <2> QED BY <2>1
<1>4. ASSUME NEW a \in R, NEW b \in R, shift[a] = shift[b]
      PROVE  a = b
  BY <1>3, <1>4
<1>5. ASSUME NEW j \in later
      PROVE  \E k \in R : shift[k] = j
  <2>1. j \in 1 .. Len(q) /\ j # 1 /\ names[q[j]] = f
    BY <1>1 DEF NamesIn
  <2>2. j - 1 \in 1 .. Len(q) - 1 /\ (j - 1) + 1 = j
    BY <1>1, <2>1
  <2>3. names[r[j - 1]] = f
    BY <1>1, <2>1, <2>2
  <2>4. j - 1 \in R
    BY <1>1, <2>2, <2>3 DEF NamesIn
  <2> QED BY <2>2, <2>4
<1>6. Cardinality(later) = Cardinality(R)
  <2> HIDE DEF shift, R, later
  <2>1. shift \in Bijection(R, later)
    BY <1>3, <1>4, <1>5, Fun_IsBij
  <2>2. ExistsBijection(R, later)
    BY <2>1 DEF ExistsBijection
  <2> QED BY <1>2, <2>2, FS_Bijection
<1>7. 1 \in N <=> names[Head(q)] = f
  BY <1>1 DEF NamesIn
<1> HIDE DEF N, R
<1>8. Cardinality(later) = IF 1 \in N THEN Cardinality(N) - 1 ELSE Cardinality(N)
  BY <1>2, FS_RemoveElement
<1> HIDE DEF later
<1> QED BY <1>2, <1>6, <1>7, <1>8 DEF r, N, R

(* A step that hands no name over and copies none. *)
LEMMA JobsKept ==
  ASSUME JobsMatch, UNCHANGED <<owed, g_WorkPos>>,
         \A i \in DOMAIN g_WorkPos : g_QueFile'[g_WorkPos[i]] = g_QueFile[g_WorkPos[i]],
         \A t \in Threads :
           /\ th'[t].st = "name" <=> th[t].st = "name"
           /\ th[t].st = "name" => /\ th'[t].slot = th[t].slot
                                   /\ g_QueFile'[th[t].slot] = g_QueFile[th[t].slot]
  PROVE  JobsMatch'
<1> SUFFICES ASSUME NEW f \in Files PROVE owed'[f] = Outstanding(f)'
  BY JobsAsOutstanding
<1>1. NamesIn(g_WorkPos, g_QueFile, f)' = NamesIn(g_WorkPos, g_QueFile, f)
  BY DEF NamesIn
<1>2. Awaiting(f)' = Awaiting(f)
  BY DEF Awaiting
<1> QED BY <1>1, <1>2, JobsAsOutstanding DEF Outstanding

(* CLOSE hands a name over. *)
LEMMA JobHandedOver ==
  ASSUME JobsMatch, SlotInv, OwedType, ClosePushesSlot, work.f \in Files,
         g_QueFile[work.slot] = work.f
  PROVE  JobsMatch'
<1> SUFFICES ASSUME NEW f \in Files PROVE owed'[f] = Outstanding(f)'
  BY JobsAsOutstanding
<1>1. /\ work.slot \in Slots /\ g_WorkPos \in Seq(Slots)
      /\ g_WorkPos' = Append(g_WorkPos, work.slot) /\ g_QueFile' = g_QueFile /\ th' = th
      /\ owed' = [owed EXCEPT ![work.f] = @ + 1]
  BY DEF SlotInv, SlotsType, WorkStates, ClosePushesSlot
<1> DEFINE before == Cardinality(NamesIn(g_WorkPos, g_QueFile, f))
           after == Cardinality(NamesIn(g_WorkPos, g_QueFile, f))'
           copied == Cardinality(Awaiting(f))
<1>2. after = before + IF work.f = f THEN 1 ELSE 0
  BY <1>1, AppendNames
<1>3. Cardinality(Awaiting(f))' = copied
  BY <1>1 DEF Awaiting
<1>4. before \in Nat /\ copied \in Nat
  BY <1>1, NamesAreFinite, AwaitingIsFinite
<1>5. owed[f] = before + copied /\ Outstanding(f)' = after + copied
  BY <1>3, JobsAsOutstanding DEF Outstanding
<1>6. owed'[f] = owed[f] + IF work.f = f THEN 1 ELSE 0
  BY <1>1 DEF OwedType
<1> HIDE DEF before, after, copied
<1> QED BY <1>2, <1>4, <1>5, <1>6

(* An md5 thread that takes or copies a name is one more, or one less, that awaits it. *)
LEMMA AwaitingChanges ==
  ASSUME NEW t \in Threads, NEW f, ThreadsType, UNCHANGED g_QueFile,
         \A u \in Threads : u # t => th'[u] = th[u]
  PROVE  /\ th[t].st # "name" /\ th'[t].st = "name" =>
              Cardinality(Awaiting(f))' =
                Cardinality(Awaiting(f)) + IF g_QueFile[th'[t].slot] = f THEN 1 ELSE 0
         /\ th[t].st = "name" /\ th'[t].st # "name" =>
              Cardinality(Awaiting(f))' =
                Cardinality(Awaiting(f)) - IF g_QueFile[th[t].slot] = f THEN 1 ELSE 0
<1> DEFINE A == Awaiting(f)
           B == Awaiting(f)'
<1>1. IsFiniteSet(A) /\ Cardinality(A) \in Nat
  BY AwaitingIsFinite
<1>2. ASSUME th[t].st # "name", th'[t].st = "name"
      PROVE  Cardinality(B) = Cardinality(A) + IF g_QueFile[th'[t].slot] = f THEN 1 ELSE 0
  <2>1. t \notin A
    BY <1>2 DEF Awaiting
  <2>2. /\ g_QueFile[th'[t].slot] = f => B = A \cup {t}
        /\ g_QueFile[th'[t].slot] # f => B = A
    BY <1>2 DEF Awaiting
  <2> HIDE DEF A, B
  <2>3. Cardinality(A \cup {t}) = IF t \in A THEN Cardinality(A) ELSE Cardinality(A) + 1
    BY <1>1, FS_AddElement
  <2>4. CASE g_QueFile[th'[t].slot] = f
    BY <2>1, <2>2, <2>3, <2>4
  <2>5. CASE g_QueFile[th'[t].slot] # f
    BY <1>1, <2>2, <2>5
  <2> QED BY <2>4, <2>5
<1>3. ASSUME th[t].st = "name", th'[t].st # "name"
      PROVE  Cardinality(B) = Cardinality(A) - IF g_QueFile[th[t].slot] = f THEN 1 ELSE 0
  <2>1. t \in A <=> g_QueFile[th[t].slot] = f
    BY <1>3 DEF Awaiting
  <2>2. B = A \ {t}
    BY <1>3 DEF Awaiting
  <2> HIDE DEF A, B
  <2>3. Cardinality(A \ {t}) = IF t \in A THEN Cardinality(A) - 1 ELSE Cardinality(A)
    BY <1>1, FS_RemoveElement
  <2> QED BY <1>1, <2>1, <2>2, <2>3
<1> QED BY <1>2, <1>3

LEMMA JobTaken ==
  ASSUME JobsMatch, SlotInv, NEW t \in Threads, Take(t), UNCHANGED owed
  PROVE  JobsMatch'
<1> SUFFICES ASSUME NEW f \in Files PROVE owed'[f] = Outstanding(f)'
  BY JobsAsOutstanding
<1>1. /\ g_WorkPos \in Seq(Slots) /\ g_WorkPos # <<>> /\ g_WorkPos' = Tail(g_WorkPos)
      /\ g_QueFile' = g_QueFile /\ ThreadsType
      /\ th[t].st = "pop" /\ th' = [th EXCEPT ![t] = ThreadAt("name", Head(g_WorkPos), NoFile, <<>>)]
  BY DEF SlotInv, SlotsType, Take
<1>2. /\ th'[t].st = "name" /\ th'[t].slot = Head(g_WorkPos) /\ th[t].st # "name"
      /\ \A u \in Threads : u # t => th'[u] = th[u]
  BY <1>1 DEF ThreadsType, ThreadAt
<1> DEFINE one == IF g_QueFile[Head(g_WorkPos)] = f THEN 1 ELSE 0
           before == Cardinality(NamesIn(g_WorkPos, g_QueFile, f))
           after == Cardinality(NamesIn(g_WorkPos, g_QueFile, f))'
           awaiting == Cardinality(Awaiting(f))
           awaited == Cardinality(Awaiting(f))'
<1>3. before = Cardinality(NamesIn(Tail(g_WorkPos), g_QueFile, f)) + one
  BY <1>1, TailNames
<1>4. after = Cardinality(NamesIn(Tail(g_WorkPos), g_QueFile, f))
  BY <1>1
<1>5. Tail(g_WorkPos) \in Seq(Slots)
  BY <1>1
<1>6. after \in Nat /\ awaiting \in Nat
  BY <1>4, <1>5, NamesAreFinite, AwaitingIsFinite
<1>7. awaited = awaiting + one
  BY <1>1, <1>2, AwaitingChanges
<1>8. owed[f] = before + awaiting /\ Outstanding(f)' = after + awaited
  BY JobsAsOutstanding DEF Outstanding
<1>9. one \in {0, 1}
  OBVIOUS
<1> HIDE DEF one, before, after, awaiting, awaited
<1> QED BY <1>3, <1>4, <1>6, <1>7, <1>8, <1>9

LEMMA JobCopied ==
  ASSUME JobsMatch, SlotInv, OwedType, NEW t \in Threads, CopyName(t),
         owed' = [owed EXCEPT ![g_QueFile[th[t].slot]] = @ - 1]
  PROVE  JobsMatch'
<1> SUFFICES ASSUME NEW f \in Files PROVE owed'[f] = Outstanding(f)'
  BY JobsAsOutstanding
<1>1. /\ ThreadsType /\ g_WorkPos \in Seq(Slots) /\ UNCHANGED <<g_WorkPos, g_QueFile>>
      /\ th[t].st = "name" /\ th'[t].st # "name" /\ \A u \in Threads : u # t => th'[u] = th[u]
  BY DEF SlotInv, SlotsType, ThreadsType, CopyName, slots, ThreadStates
<1> DEFINE one == IF g_QueFile[th[t].slot] = f THEN 1 ELSE 0
           waiting == Cardinality(NamesIn(g_WorkPos, g_QueFile, f))
           awaiting == Cardinality(Awaiting(f))
           awaited == Cardinality(Awaiting(f))'
<1>2. NamesIn(g_WorkPos, g_QueFile, f)' = NamesIn(g_WorkPos, g_QueFile, f)
  BY <1>1
<1>3. awaited = awaiting - one
  BY <1>1, AwaitingChanges
<1>4. waiting \in Nat /\ awaiting \in Nat
  BY <1>1, NamesAreFinite, AwaitingIsFinite
<1>5. owed[f] = waiting + awaiting /\ Outstanding(f)' = waiting + awaited
  BY <1>2, JobsAsOutstanding DEF Outstanding
<1>6. owed'[f] = owed[f] - one
  BY DEF OwedType
<1>7. one \in {0, 1}
  OBVIOUS
<1> HIDE DEF one, waiting, awaiting, awaited
<1> QED BY <1>3, <1>4, <1>5, <1>6, <1>7

(* A process that starts has nothing handed over. *)
LEMMA NoJobs ==
  /\ SlotsInit /\ owed = [f \in Files |-> 0] => JobsMatch
  /\ SlotsInit' /\ owed' = [f \in Files |-> 0] => JobsMatch'
<1>1. ASSUME SlotsInit, owed = [f \in Files |-> 0]
      PROVE  JobsMatch
  <2> SUFFICES ASSUME NEW f \in Files PROVE owed[f] = Outstanding(f)
    BY JobsAsOutstanding
  <2>1. NamesIn(g_WorkPos, g_QueFile, f) = {} /\ Awaiting(f) = {}
    BY <1>1 DEF SlotsInit, NamesIn, Awaiting, Resting, ThreadAt
  <2> QED BY <1>1, <2>1, FS_EmptySet DEF Outstanding
<1>2. SlotsInit /\ owed = [f \in Files |-> 0] => JobsMatch
  BY <1>1
<1>3. (SlotsInit /\ owed = [f \in Files |-> 0] => JobsMatch)'
  BY <1>2, PTL
<1> QED BY <1>2, <1>3

(* The name the server thread has in hand is the one it wrote. *)
HandNamed == work.op = "push" => g_QueFile[work.slot] = work.f
JobsInv == JobsMatch /\ HandNamed

LEMMA CloseJobs ==
  ASSUME Inv, JobsInv, CloseAFile \/ CloseTakesSlot \/ ClosePushesSlot
  PROVE  JobsInv'
<1>1. SlotInv /\ OwedType /\ ClientType /\ RequestPending
  BY InvParts
<1>2. CASE CloseAFile
  <2>1. UNCHANGED <<owed, slots, th>> /\ work' = WorkAt("slot", 0, sender.f, <<>>)
    BY <1>2 DEF CloseAFile
  <2>2. JobsMatch'
    BY <2>1, JobsKept DEF JobsInv, slots
  <2> QED BY <2>1, <2>2 DEF JobsInv, HandNamed, WorkAt
<1>3. CASE CloseTakesSlot
  <2> DEFINE h == Head(g_FilePos)
  <2>1. /\ g_FilePos \in Seq(Slots) /\ g_FilePos # <<>> /\ g_QueFile \in [Slots -> Files \cup {NoFile}]
        /\ UNCHANGED <<owed, g_WorkPos, th>> /\ g_QueFile' = [g_QueFile EXCEPT ![h] = work.f]
        /\ work' = [work EXCEPT !.op = "push", !.slot = h]
    BY <1>1, <1>3 DEF SlotInv, SlotsType, CloseTakesSlot
  <2>2. h \in Slots /\ Available(h)
    BY <2>1, TailHas, OwnersAsRings
  <2>3. ~ Waiting(h) /\ ~ Taken(h)
    BY <1>1, <2>2 DEF SlotInv, OneOwner
  <2> HIDE DEF h
  <2>4. \A s \in Slots : s # h => g_QueFile'[s] = g_QueFile[s]
    BY <2>1
  <2>5. \A i \in DOMAIN g_WorkPos : g_WorkPos[i] # h /\ g_WorkPos[i] \in Slots
    BY <1>1, <2>3 DEF Waiting, SlotInv, SlotsType
  <2>6. \A t \in Threads : th[t].st = "name" => th[t].slot # h /\ th[t].slot \in Slots
    BY <1>1, <2>3 DEF Taken, HasSlot, SlotInv, ThreadsType, ThreadStates
  <2>7. JobsMatch'
    BY <2>1, <2>4, <2>5, <2>6, JobsKept DEF JobsInv
  <2>8. HandNamed'
    BY <1>1, <2>1, <2>2 DEF HandNamed, SlotInv, WorkStates
  <2> QED BY <2>7, <2>8 DEF JobsInv
<1>4. CASE ClosePushesSlot
  <2>1. work.op = "push" /\ work' = Free
    BY <1>4 DEF ClosePushesSlot
  <2>2. work.f \in Files
    BY <1>1, <2>1, ServerWorkAssumption DEF RequestPending, IsClose, SenderDone, ClientType
  <2>3. JobsMatch'
    BY <1>1, <1>4, <2>1, <2>2, JobHandedOver DEF JobsInv, HandNamed
  <2> QED BY <2>1, <2>3 DEF JobsInv, HandNamed, Free, WorkAt
<1> QED BY <1>2, <1>3, <1>4

LEMMA Md5Jobs == ASSUME Inv, JobsInv, NEW t \in Threads, Md5Step(t) PROVE JobsInv'
<1>1. SlotInv /\ OwedType
  BY InvParts
<1>2. /\ ThreadStep(t) /\ UNCHANGED work
      /\ owed' = IF th[t].st = "name" THEN [owed EXCEPT ![g_QueFile[th[t].slot]] = @ - 1] ELSE owed
  BY DEF Md5Step
<1>3. CASE Take(t)
  <2>1. UNCHANGED <<owed, g_QueFile>>
    BY <1>2, <1>3 DEF Take
  <2> QED BY <1>1, <1>2, <1>3, <2>1, JobTaken DEF JobsInv, HandNamed
<1>4. CASE CopyName(t)
  <2>1. owed' = [owed EXCEPT ![g_QueFile[th[t].slot]] = @ - 1] /\ UNCHANGED g_QueFile
    BY <1>2, <1>4 DEF CopyName, slots
  <2> QED BY <1>1, <1>2, <1>4, <2>1, JobCopied DEF JobsInv, HandNamed
<1>5. CASE ReturnSlot(t) \/ ReadFile(t) \/ OpenMd5(t) \/ WriteMd5(t)
  <2>1. th[t].st # "name" /\ UNCHANGED <<owed, g_WorkPos, g_QueFile>>
    BY <1>2, <1>5 DEF ReturnSlot, ReadFile, OpenMd5, WriteMd5, slots
  <2>2. th'[t].st # "name" /\ \A u \in Threads : u # t => th'[u] = th[u]
    <3>1. th \in [Threads -> ThreadStates]
      BY <1>1 DEF SlotInv, ThreadsType
    <3>2. CASE ReturnSlot(t)
      BY <3>1, <3>2 DEF ReturnSlot, ThreadAt
    <3>3. CASE ReadFile(t)
      BY <3>1, <3>3 DEF ReadFile, ThreadAt, Resting
    <3>4. CASE OpenMd5(t)
      BY <3>1, <3>4 DEF OpenMd5, ThreadStates
    <3>5. CASE WriteMd5(t)
      BY <3>1, <3>5 DEF WriteMd5, ThreadAt, Resting
    <3> QED BY <1>5, <3>2, <3>3, <3>4, <3>5
  <2>3. JobsMatch'
    BY <2>1, <2>2, JobsKept DEF JobsInv
  <2> QED BY <1>2, <2>1, <2>3 DEF JobsInv, HandNamed
<1> QED BY <1>2, <1>3, <1>4, <1>5 DEF ThreadStep

(* The steps that leave the two rings alone and write no name. *)
LEMMA OtherJobs ==
  ASSUME JobsInv, UNCHANGED <<owed, g_WorkPos, g_QueFile>>, work' = work \/ work'.op # "push",
         \A t \in Threads : \/ th'[t] = th[t]
                            \/ th[t].st = "write" /\ th'[t] = Resting
  PROVE  JobsInv'
<1>1. \A t \in Threads : /\ th'[t].st = "name" <=> th[t].st = "name"
                         /\ th[t].st = "name" => th'[t].slot = th[t].slot
  BY DEF Resting, ThreadAt
<1>2. JobsMatch'
  BY <1>1, JobsKept DEF JobsInv
<1> QED BY <1>2 DEF JobsInv, HandNamed

LEMMA JobsNext == ASSUME Inv, JobsInv, [Next]_vars PROVE JobsInv'
<1>1. CASE UNCHANGED vars
  BY <1>1, OtherJobs DEF vars, slots
<1>2. CASE StartVerify \/ NextTransfer \/ RequestLost
  BY <1>2, OtherJobs DEF StartVerify, NextTransfer, RequestLost, slots
<1>3. CASE OpenAFile \/ OpenAFileFails \/ WriteToFile \/ WriteToFileFails
  BY <1>3, OtherJobs DEF OpenAFile, OpenAFileFails, WriteToFile, WriteToFileFails, RemoveMd5, slots
<1>4. CASE CloseAFile \/ CloseTakesSlot \/ ClosePushesSlot
  BY <1>4, CloseJobs
<1>5. CASE CheckMD5 \/ CheckMD5Fails \/ CheckMD5NoFile \/ CheckMD5Builds \/ CheckMD5Compares
  <2>1. /\ UNCHANGED <<owed, slots>>
        /\ work' = work \/ work'.op # "push"
        /\ UNCHANGED th \/ RemoveMd5(ver.at) \/ RemoveMd5(work.f)
    BY <1>5 DEF CheckMD5, CheckMD5Fails, CheckMD5NoFile, CheckMD5Builds, CheckMD5Compares,
                Install, InstallFails, Keep, WorkAt, Free
  <2> QED BY <2>1, OtherJobs DEF RemoveMd5, slots
<1>6. CASE \E t \in Threads : Md5Step(t)
  BY <1>6, Md5Jobs
<1>7. CASE Restart
  <2>1. SlotsInit' /\ owed' = [f \in Files |-> 0] /\ work' = Free
    BY <1>7 DEF Restart, SlotsInit
  <2> QED BY <2>1, NoJobs DEF JobsInv, HandNamed, Free, WorkAt
<1> QED BY <1>1, <1>2, <1>3, <1>4, <1>5, <1>6, <1>7 DEF Next, WorkStep, Terminating

LEMMA JobsStart == Init => JobsInv
BY NoJobs DEF Init, JobsInv, HandNamed, Free, WorkAt

(* A file is hashed as often as its CLOSE was handed over, whatever is lost, however many md5 threads
   share the rings and however often the server restarts (QSEPSDF_SSWork::CloseAFile, ThreadMd5::run). *)
THEOREM EveryCloseIsHashed == Spec => []JobsMatch
<1>1. Init => JobsInv
  BY JobsStart
<1>2. Inv /\ JobsInv /\ [Next]_vars => JobsInv'
  BY JobsNext
<1>3. JobsInv => JobsMatch
  BY DEF JobsInv
<1> QED BY Inductive, <1>1, <1>2, <1>3, PTL DEF Spec

-----------------------------------------------------------------------------
(* What the files hold: blocks of the versions sent so far. *)

Sent(r) == Seq((1 .. r) \X (0 .. MaxChunks))
Part(r, k) == [c \in 1 .. k |-> <<r, c>>]

LEMMA SentGrows ==
  ASSUME NEW r \in Nat
  PROVE  /\ <<>> \in Sent(r)
         /\ \A a, b \in Sent(r) : a \o b \in Sent(r)
         /\ \A a \in Sent(r), c \in 0 .. MaxChunks :
              r > 0 => Append(a, <<r, c>>) \in Sent(r) /\ <<<<r, c>>>> \in Sent(r)
         /\ \A s \in Nat : s <= r => Sent(s) \subseteq Sent(r)
         /\ r <= MaxRuns => Sent(r) \subseteq Contents
<1> DEFINE B(n) == (1 .. n) \X (0 .. MaxChunks)
<1>1. \A s \in Nat : s <= r => B(s) \subseteq B(r)
  OBVIOUS
<1>2. r <= MaxRuns => B(r) \subseteq B(MaxRuns)
  BY ServerWorkAssumption
<1>3. r > 0 => \A c \in 0 .. MaxChunks : <<r, c>> \in B(r)
  OBVIOUS
<1>4. \A n : Sent(n) = Seq(B(n))
  BY DEF Sent
<1>5. Contents = Seq(B(MaxRuns))
  BY DEF Contents
<1> HIDE DEF B
<1>6. \A S, T : S \subseteq T => Seq(S) \subseteq Seq(T)
  OBVIOUS
<1>7. \A S : \A x \in S, a \in Seq(S) : Append(a, x) \in Seq(S) /\ <<x>> \in Seq(S)
  OBVIOUS
<1>8. \A S : \A a, b \in Seq(S) : a \o b \in Seq(S)
  OBVIOUS
<1>9. <<>> \in Sent(r)
  BY <1>4, EmptySeq
<1>10. \A a, b \in Sent(r) : a \o b \in Sent(r)
  BY <1>4, <1>8
<1>11. \A a \in Sent(r), c \in 0 .. MaxChunks :
         r > 0 => Append(a, <<r, c>>) \in Sent(r) /\ <<<<r, c>>>> \in Sent(r)
  BY <1>3, <1>4, <1>7
<1>12. \A s \in Nat : s <= r => Sent(s) \subseteq Sent(r)
  BY <1>1, <1>4, <1>6
<1>13. r <= MaxRuns => Sent(r) \subseteq Contents
  BY <1>2, <1>4, <1>5, <1>6
<1> QED BY <1>9, <1>10, <1>11, <1>12, <1>13

(* A version is not among what was sent before it. *)
LEMMA WholeIsNew ==
  ASSUME NEW r \in Nat, r > 0
  PROVE  /\ Whole(r) = Part(r, MaxChunks)
         /\ Whole(r) \in Sent(r)
         /\ \A s \in Nat : s < r => Whole(r) \notin Sent(s) /\ Whole(r) # Whole(s)
<1>1. MaxChunks \in Nat \ {0} /\ 1 \in 1 .. MaxChunks
  BY ServerWorkAssumption
<1>2. Whole(r) = Part(r, MaxChunks)
  BY DEF Whole, Part
<1>3. Whole(r) \in Sent(r)
  BY <1>1 DEF Whole, Sent
<1>4. ASSUME NEW s \in Nat, s < r
      PROVE  Whole(r) \notin Sent(s) /\ Whole(r) # Whole(s)
  <2>1. Whole(r)[1] = <<r, 1>> /\ DOMAIN Whole(r) = 1 .. MaxChunks
    BY <1>1 DEF Whole
  <2>2. Whole(s)[1] = <<s, 1>>
    BY <1>1 DEF Whole
  <2>3. ASSUME Whole(r) \in Sent(s)
        PROVE  FALSE
    <3>1. \A x \in Sent(s) : \A k \in DOMAIN x : x[k] \in (1 .. s) \X (0 .. MaxChunks)
      BY DEF Sent
    <3>2. <<r, 1>> \in (1 .. s) \X (0 .. MaxChunks)
      BY <1>1, <2>1, <2>3, <3>1
    <3> QED BY <1>4, <3>2
  <2>4. <<r, 1>> # <<s, 1>>
    BY <1>4
  <2> QED BY <2>1, <2>2, <2>3, <2>4
<1> QED BY <1>2, <1>3, <1>4

(* A part of a version grows by its next block, and nothing follows the version itself. *)
LEMMA PartsGrow ==
  ASSUME NEW r \in Nat, r > 0, NEW k \in 0 .. MaxChunks
  PROVE  /\ Part(r, 0) = <<>>
         /\ Part(r, k) \in Sent(r) /\ Len(Part(r, k)) = k
         /\ k < MaxChunks => Part(r, k) \o <<<<r, k + 1>>>> = Part(r, k + 1)
<1> DEFINE B == (1 .. r) \X (0 .. MaxChunks)
<1>1. MaxChunks \in Nat /\ k \in Nat /\ k <= MaxChunks
  BY ServerWorkAssumption
<1>2. ASSUME NEW n \in 0 .. MaxChunks
      PROVE  Part(r, n) \in Seq(B) /\ Len(Part(r, n)) = n /\ \A i \in 1 .. n : Part(r, n)[i] = <<r, i>>
  BY <1>1 DEF Part
<1>3. Part(r, 0) = <<>>
  BY DEF Part
<1>4. ASSUME k < MaxChunks
      PROVE  Part(r, k) \o <<<<r, k + 1>>>> = Part(r, k + 1)
  <2> DEFINE a == Part(r, k)
             b == Part(r, k + 1)
             x == <<r, k + 1>>
  <2>1. k + 1 \in 0 .. MaxChunks /\ x \in B
    BY <1>1, <1>4
  <2>2. /\ a \in Seq(B) /\ Len(a) = k /\ \A i \in 1 .. k : a[i] = <<r, i>>
        /\ b \in Seq(B) /\ Len(b) = k + 1 /\ \A i \in 1 .. k + 1 : b[i] = <<r, i>>
    BY <1>2, <2>1
  <2>3. b[k + 1] = x
    BY <1>1, <2>2
  <2> HIDE DEF a, b, x, B
  <2>4. <<x>> \in Seq(B) /\ Len(<<x>>) = 1 /\ <<x>>[1] = x
    BY <2>1
  <2>5. /\ a \o <<x>> \in Seq(B) /\ Len(a \o <<x>>) = k + 1
        /\ \A i \in 1 .. k + 1 : (a \o <<x>>)[i] = IF i <= k THEN a[i] ELSE <<x>>[i - k]
    BY <2>2, <2>4, ConcatProperties
  <2> DEFINE c == a \o <<x>>
             last == <<x>>
  <2>6. /\ c \in Seq(B) /\ Len(c) = k + 1 /\ last[1] = x
        /\ \A i \in 1 .. k + 1 : c[i] = IF i <= k THEN a[i] ELSE last[i - k]
    BY <2>4, <2>5
  <2> HIDE DEF c, last
  <2>7. ASSUME NEW i \in 1 .. k + 1
        PROVE  c[i] = b[i]
    <3>1. CASE i <= k
      <4>1. i \in 1 .. k
        BY <1>1, <3>1
      <4>2. a[i] = <<r, i>> /\ b[i] = <<r, i>>
        BY <2>2, <4>1
      <4> QED BY <2>6, <3>1, <4>2
    <3>2. CASE i = k + 1
      <4>1. i - k = 1 /\ ~ (i <= k)
        BY <1>1, <3>2
      <4> QED BY <2>3, <2>6, <3>2, <4>1
    <3> QED BY <1>1, <3>1, <3>2
  <2>8. c = b
    BY <2>2, <2>6, <2>7, SeqEqual
  <2> QED BY <2>8 DEF a, b, c, x
<1> QED BY <1>2, <1>3, <1>4 DEF Sent
-----------------------------------------------------------------------------
(* What the steps do to the files. *)

Same(g) ==
  df'[g] = df[g] /\ md5'[g] = md5[g] /\ final'[g] = final[g] /\ m_mapNameFile'[g] = m_mapNameFile[g]
Others(f) == \A g \in Files : g # f => Same(g)
FewerThreads == \A t \in Threads : th'[t] = th[t] \/ (th[t].st = "write" /\ th'[t] = Resting)

(* data is written out to the name f's FILE* has. *)
Written(f, data) ==
  /\ m_mapNameFile[f].to = "df" => df'[f] = df[f] \o data /\ final'[f] = final[f]
  /\ m_mapNameFile[f].to = "final" => df'[f] = df[f] /\ final'[f] = final[f] \o data

LEMMA ContentsJoin ==
  /\ \A a, b, c \in Contents : (a \o b) \o c = a \o (b \o c)
  /\ \A a \in Contents : a \o <<>> = a
<1> DEFINE B == (1 .. MaxRuns) \X (0 .. MaxChunks)
<1>1. Contents = Seq(B)
  BY DEF Contents
<1> HIDE DEF B
<1> QED BY <1>1, ConcatAssociative, ConcatEmptySeq

LEMMA OpenEffect ==
  ASSUME DiskInv, OpenAFile, sender.f \in Files
  PROVE  /\ Others(sender.f) /\ FewerThreads
         /\ df'[sender.f] = <<>> /\ md5'[sender.f] = NoFile
         /\ m_mapNameFile'[sender.f] = [to |-> "df", buf |-> <<>>]
         /\ m_mapNameFile[sender.f] = Closed \/ m_mapNameFile[sender.f].to = "df"
              => final'[sender.f] = final[sender.f]
BY DEF OpenAFile, RemoveMd5, Reopen, Others, Same, FewerThreads, DiskInv, DiskType

LEMMA FileWritten ==
  ASSUME DiskInv, NEW f \in Files, NEW data, WriteFile(f, data)
  PROVE  /\ \A g \in Files : g # f => df'[g] = df[g] /\ final'[g] = final[g]
         /\ m_mapNameFile[f] = Closed => df'[f] = df[f] /\ final'[f] = final[f]
         /\ m_mapNameFile[f] # Closed => Written(f, data)
BY DEF WriteFile, Written, DiskInv, DiskType

LEMMA WriteEffect ==
  ASSUME DiskInv, ClientType, WriteToFile, sender.f \in Files
  PROVE  LET f == sender.f
             old == m_mapNameFile[f]
             new == m_mapNameFile'[f]
             block == <<run, sender.i>>
         IN /\ Others(f) /\ md5' = md5 /\ th' = th
            /\ \/ old = Closed /\ Same(f)
               \/ /\ old # Closed /\ new.to = old.to /\ new.buf = Append(old.buf, block)
                  /\ df'[f] = df[f] /\ final'[f] = final[f]
               \/ old # Closed /\ new.to = old.to /\ new.buf = <<>> /\ Written(f, old.buf \o <<block>>)
<1> DEFINE f == sender.f
           old == m_mapNameFile[f]
           block == <<run, sender.i>>
<1>1. /\ md5' = md5 /\ th' = th
      /\ \/ /\ old = Closed
            /\ UNCHANGED <<df, final, m_mapNameFile>>
         \/ /\ old # Closed
            /\ m_mapNameFile' = [m_mapNameFile EXCEPT ![f].buf = Append(@, block)]
            /\ UNCHANGED <<df, final>>
         \/ /\ old # Closed
            /\ WriteOut(f, <<block>>)
            /\ m_mapNameFile' = [m_mapNameFile EXCEPT ![f].buf = <<>>]
  BY DEF WriteToFile
<1>2. CASE old = Closed /\ UNCHANGED <<df, final, m_mapNameFile>>
  BY <1>1, <1>2 DEF Others, Same
<1>3. CASE /\ old # Closed /\ UNCHANGED <<df, final>>
           /\ m_mapNameFile' = [m_mapNameFile EXCEPT ![f].buf = Append(@, block)]
  BY <1>1, <1>3 DEF Others, Same, DiskInv, DiskType
<1>4. CASE /\ old # Closed /\ WriteOut(f, <<block>>)
           /\ m_mapNameFile' = [m_mapNameFile EXCEPT ![f].buf = <<>>]
  <2>1. WriteFile(f, old.buf \o <<block>>)
    BY <1>4 DEF WriteOut
  <2>2. /\ \A g \in Files : g # f => df'[g] = df[g] /\ final'[g] = final[g]
        /\ Written(f, old.buf \o <<block>>)
    BY <1>4, <2>1, FileWritten
  <2>3. Others(f) /\ m_mapNameFile'[f].to = old.to /\ m_mapNameFile'[f].buf = <<>>
    BY <1>1, <1>4, <2>2 DEF Others, Same, DiskInv, DiskType
  <2> QED BY <1>1, <1>4, <2>2, <2>3
<1> QED BY <1>1, <1>2, <1>3, <1>4

LEMMA WriteFailsEffect ==
  ASSUME DiskInv, WriteToFileFails, sender.f \in Files
  PROVE  LET f == sender.f
             old == m_mapNameFile[f]
             new == m_mapNameFile'[f]
         IN /\ Others(f) /\ md5' = md5 /\ th' = th /\ old # Closed
            /\ \/ Same(f)
               \/ /\ new.to = old.to /\ new.buf = <<>>
                  /\ \E n \in 0 .. Len(old.buf), torn \in {<<>>, <<<<run, 0>>>>} :
                       Written(f, SubSeq(old.buf, 1, n) \o torn)
<1> DEFINE f == sender.f
           old == m_mapNameFile[f]
<1>1. md5' = md5 /\ th' = th /\ old # Closed
  BY DEF WriteToFileFails
<1>2. CASE UNCHANGED <<df, final, m_mapNameFile>>
  BY <1>1, <1>2 DEF Others, Same
<1>3. CASE /\ \E n \in 0 .. Len(old.buf), torn \in {<<>>, <<<<run, 0>>>>} :
                WriteFile(f, SubSeq(old.buf, 1, n) \o torn)
           /\ m_mapNameFile' = [m_mapNameFile EXCEPT ![f].buf = <<>>]
  <2>1. PICK n \in 0 .. Len(old.buf), torn \in {<<>>, <<<<run, 0>>>>} :
               WriteFile(f, SubSeq(old.buf, 1, n) \o torn)
    BY <1>3
  <2>2. /\ \A g \in Files : g # f => df'[g] = df[g] /\ final'[g] = final[g]
        /\ Written(f, SubSeq(old.buf, 1, n) \o torn)
    BY <1>1, <2>1, FileWritten
  <2>3. old \in FilePointers /\ m_mapNameFile' = [m_mapNameFile EXCEPT ![f] = [old EXCEPT !.buf = <<>>]]
    BY <1>1, <1>3 DEF DiskInv, DiskType, FilePointers
  <2>4. m_mapNameFile'[f] = [old EXCEPT !.buf = <<>>]
    BY <2>3 DEF DiskInv, DiskType
  <2>5. m_mapNameFile'[f].to = old.to /\ m_mapNameFile'[f].buf = <<>>
    BY <2>3, <2>4 DEF FilePointers
  <2>6. Others(f)
    BY <1>1, <2>2, <2>3 DEF Others, Same, DiskInv, DiskType
  <2> QED BY <1>1, <2>2, <2>5, <2>6
<1> QED BY <1>2, <1>3 DEF WriteToFileFails

(* The FILE* of f is closed: what it had buffered is written. *)
LEMMA ClosedEffect ==
  ASSUME DiskInv, NEW f \in Files, WriteOut(f, <<>>), m_mapNameFile' = [m_mapNameFile EXCEPT ![f] = Closed]
  PROVE  /\ \A g \in Files : g # f => /\ df'[g] = df[g] /\ final'[g] = final[g]
                                     /\ m_mapNameFile'[g] = m_mapNameFile[g]
         /\ m_mapNameFile'[f] = Closed
         /\ m_mapNameFile[f] = Closed => df'[f] = df[f] /\ final'[f] = final[f]
         /\ m_mapNameFile[f] # Closed => Written(f, m_mapNameFile[f].buf)
<1> DEFINE old == m_mapNameFile[f]
<1>1. old # Closed => old.buf \o <<>> = old.buf
  BY ContentsJoin DEF DiskInv, DiskType
<1>2. WriteFile(f, IF old = Closed THEN <<>> ELSE old.buf \o <<>>)
  BY DEF WriteOut
<1>3. /\ m_mapNameFile'[f] = Closed
      /\ \A g \in Files : g # f => m_mapNameFile'[g] = m_mapNameFile[g]
  BY DEF DiskInv, DiskType
<1>4. /\ \A g \in Files : g # f => df'[g] = df[g] /\ final'[g] = final[g]
      /\ old = Closed => df'[f] = df[f] /\ final'[f] = final[f]
  BY <1>2, FileWritten
<1>5. old # Closed => Written(f, old.buf)
  BY <1>1, <1>2, FileWritten
<1> QED BY <1>3, <1>4, <1>5

LEMMA CloseEffect ==
  ASSUME DiskInv, CloseAFile, sender.f \in Files
  PROVE  LET f == sender.f
         IN /\ Others(f) /\ md5' = md5 /\ th' = th /\ m_mapNameFile'[f] = Closed
            /\ m_mapNameFile[f] = Closed => df'[f] = df[f] /\ final'[f] = final[f]
            /\ m_mapNameFile[f] # Closed => Written(f, m_mapNameFile[f].buf)
BY ClosedEffect DEF CloseAFile, Others, Same

LEMMA OpenFailsEffect ==
  ASSUME DiskInv, OpenAFileFails, sender.f \in Files
  PROVE  LET f == sender.f
         IN /\ Others(f) /\ FewerThreads /\ md5'[f] = NoFile /\ m_mapNameFile'[f] = Closed
            /\ m_mapNameFile[f] = Closed => df'[f] = df[f] /\ final'[f] = final[f]
            /\ m_mapNameFile[f] # Closed => Written(f, m_mapNameFile[f].buf)
<1>1. FewerThreads /\ md5' = [md5 EXCEPT ![sender.f] = NoFile]
  BY DEF OpenAFileFails, RemoveMd5, FewerThreads
<1>2. md5'[sender.f] = NoFile /\ \A g \in Files : g # sender.f => md5'[g] = md5[g]
  BY <1>1 DEF DiskInv, DiskType
<1> QED BY <1>1, <1>2, ClosedEffect DEF OpenAFileFails, Others, Same

LEMMA InstallEffect ==
  ASSUME DiskInv, MdFileType, NEW f \in Files, Install(f)
  PROVE  /\ Others(f) /\ FewerThreads
         /\ df'[f] = NoFile /\ md5'[f] = NoFile /\ final'[f] = df[f]
         /\ m_mapNameFile[f] = Closed => m_mapNameFile'[f] = Closed
         /\ m_mapNameFile[f] # Closed =>
              m_mapNameFile'[f].to = "final" /\ m_mapNameFile'[f].buf = m_mapNameFile[f].buf
BY DEF Install, RemoveMd5, Others, Same, FewerThreads, DiskInv, DiskType, MdFileType

(* What a step of an md5 thread does to the hashes: none (it takes, copies, returns or rests), it reads
   the .df, it makes the .md5 empty, or it writes it. *)
Hashing(t, f) == th[t].st \in {"open", "write"} /\ th[t].f = f

LEMMA ThreadEffect ==
  ASSUME SlotInv, MdFileType, NEW t \in Threads, ThreadStep(t)
  PROVE  /\ UNCHANGED <<df, final>> /\ \A u \in Threads : u # t => th'[u] = th[u]
         /\ \/ th'[t].st \notin {"open", "write"} /\ md5' = md5
            \/ /\ th[t].st = "read" /\ Hashing(t, th[t].f)' /\ th'[t].f = th[t].f
               /\ th'[t].hash = df[th[t].f] /\ df[th[t].f] # NoFile /\ md5' = md5
            \/ /\ Hashing(t, th[t].f) /\ th'[t].st = "write"
               /\ th'[t].f = th[t].f /\ th'[t].hash = th[t].hash
               /\ md5' = [md5 EXCEPT ![th[t].f] = Empty]
            \/ /\ Hashing(t, th[t].f) /\ th'[t] = Resting
               /\ md5' = [md5 EXCEPT ![th[t].f] = th[t].hash]
<1>1. th \in [Threads -> ThreadStates]
  BY DEF SlotInv, ThreadsType
<1>2. CASE Take(t)
  BY <1>1, <1>2 DEF Take, ThreadAt, disk
<1>3. CASE CopyName(t)
  BY <1>1, <1>3 DEF CopyName, ThreadStates, disk
<1>4. CASE ReturnSlot(t)
  BY <1>1, <1>4 DEF ReturnSlot, ThreadAt, disk
<1>5. CASE ReadFile(t)
  BY <1>1, <1>5 DEF ReadFile, ThreadAt, Resting, disk, Hashing
<1>6. CASE OpenMd5(t)
  BY <1>1, <1>6 DEF OpenMd5, ThreadStates, Hashing
<1>7. CASE WriteMd5(t)
  BY <1>1, <1>7 DEF WriteMd5, ThreadStates, Hashing
<1> QED BY <1>2, <1>3, <1>4, <1>5, <1>6, <1>7 DEF ThreadStep
-----------------------------------------------------------------------------
(* Nothing holds a block of a version that is still to come; what the server thread hashed for a check
   is still what the file holds; and a CLOSE that waits for a slot has closed its file. *)

SentFile(f) ==
  /\ df[f] \in Sent(run) \cup {NoFile}
  /\ md5[f] \in Sent(run) \cup {NoFile, Empty}
  /\ m_mapNameFile[f] # Closed => m_mapNameFile[f].buf \in Sent(run)
SentHashes == \A t \in Threads : th[t].st \in {"open", "write"} => th[t].hash \in Sent(run)
BuiltFits == work.op = "built" => work.hash = df[work.f]
HandedClosed == work.op \in {"slot", "push"} => m_mapNameFile[work.f] = Closed

SentInv == (\A f \in Files : SentFile(f)) /\ SentHashes /\ BuiltFits /\ HandedClosed

LEMMA RunFacts ==
  ASSUME ClientType
  PROVE  /\ run \in Nat /\ run > 0 /\ run <= MaxRuns /\ run - 1 \in Nat /\ run \in 1 .. MaxRuns
         /\ NoFile \notin Sent(run) /\ Empty \notin Sent(run) /\ NoFile # Empty
         /\ Sent(run - 1) \subseteq Sent(run) /\ Sent(run) \subseteq Contents
         /\ Sent(run) \subseteq Sent(run + 1) /\ <<>> \in Sent(run)
         /\ \A i \in 0 .. MaxChunks : <<<<run, i>>>> \in Sent(run)
         /\ \A a \in Sent(run), i \in 0 .. MaxChunks : Append(a, <<run, i>>) \in Sent(run)
         /\ \A a, b \in Sent(run) : a \o b \in Sent(run)
         /\ Whole(run) \in Sent(run) /\ Whole(run) \notin Sent(run - 1)
         /\ Whole(run + 1) \notin Sent(run)
<1>1. run \in Nat /\ run > 0 /\ run <= MaxRuns /\ run \in 1 .. MaxRuns /\ MaxRuns \in Nat
  BY ServerWorkAssumption DEF ClientType
<1>2. run - 1 \in Nat /\ run + 1 \in Nat /\ run - 1 < run /\ run < run + 1 /\ run - 1 <= run
      /\ run <= run + 1 /\ run + 1 > 0
  BY <1>1
<1>3. Sent(run) \subseteq Contents /\ Sent(run - 1) \subseteq Sent(run) /\ <<>> \in Sent(run)
  BY <1>1, <1>2, SentGrows
<1>4. Sent(run) \subseteq Sent(run + 1)
  BY <1>1, <1>2, SentGrows
<1>5. /\ \A a \in Sent(run), i \in 0 .. MaxChunks :
           Append(a, <<run, i>>) \in Sent(run) /\ <<<<run, i>>>> \in Sent(run)
      /\ \A a, b \in Sent(run) : a \o b \in Sent(run)
  BY <1>1, SentGrows
<1>6. Whole(run) \in Sent(run) /\ Whole(run) \notin Sent(run - 1)
  BY <1>1, <1>2, WholeIsNew
<1>7. Whole(run + 1) \notin Sent(run)
  BY <1>1, <1>2, WholeIsNew
<1> QED BY <1>1, <1>2, <1>3, <1>4, <1>5, <1>6, <1>7, ContentsAssumption

LEMMA SentSame ==
  ASSUME ClientType, NEW g \in Files, SentFile(g), Same(g), run' = run \/ run' = run + 1
  PROVE  SentFile(g)'
<1>1. Sent(run) \subseteq Sent(run) /\ Sent(run) \subseteq Sent(run + 1)
  BY RunFacts
<1> DEFINE before == Sent(run)
           after == Sent(run')
<1>2. before \subseteq after
  BY <1>1
<1>3. /\ df[g] \in before \cup {NoFile} /\ md5[g] \in before \cup {NoFile, Empty}
      /\ m_mapNameFile[g] # Closed => m_mapNameFile[g].buf \in before
  BY DEF SentFile
<1>4. SentFile(g)' <=> /\ df'[g] \in after \cup {NoFile} /\ md5'[g] \in after \cup {NoFile, Empty}
                       /\ m_mapNameFile'[g] # Closed => m_mapNameFile'[g].buf \in after
  BY DEF SentFile, Sent
<1> HIDE DEF before, after
<1> QED BY <1>2, <1>3, <1>4 DEF Same

LEMMA SentFewer ==
  ASSUME SentHashes, FewerThreads, run' = run PROVE SentHashes'
<1>1. Sent(run)' = Sent(run)
  BY DEF Sent
<1> HIDE DEF Sent
<1> QED BY <1>1 DEF SentHashes, FewerThreads, Resting, ThreadAt
LEMMA SentNew ==
  ASSUME NEW f \in Files, run' = run,
         df'[f] \in Sent(run) \cup {NoFile}, md5'[f] \in Sent(run) \cup {NoFile, Empty},
         m_mapNameFile'[f] # Closed => m_mapNameFile'[f].buf \in Sent(run)
  PROVE  SentFile(f)'
<1>1. Sent(run)' = Sent(run)
  BY DEF Sent
<1> QED BY <1>1 DEF SentFile

LEMMA FreeFits == ASSUME work' = Free PROVE BuiltFits' /\ HandedClosed'
BY DEF BuiltFits, HandedClosed, Free, WorkAt

(* What is written are blocks sent so far. *)
LEMMA SentWritten ==
  ASSUME DiskInv, ClientType, NEW f \in Files, SentFile(f), m_mapNameFile[f] # Closed,
         NEW data \in Sent(run), Written(f, data)
  PROVE  df'[f] \in Sent(run) \cup {NoFile}
<1> DEFINE old == m_mapNameFile[f]
<1>1. old.to \in {"df", "final"}
  BY DEF DiskInv, DiskType
<1>2. CASE old.to = "df"
  <2>1. df[f] \in Sent(run)
    BY <1>2, RunFacts, ContentsAssumption DEF SentFile, DiskInv, OpenFilesExist
  <2>2. df'[f] = df[f] \o data
    BY <1>2 DEF Written
  <2> QED BY <2>1, <2>2, RunFacts
<1>3. CASE old.to = "final"
  BY <1>3 DEF Written, SentFile
<1> QED BY <1>1, <1>2, <1>3

LEMMA SentServed ==
  ASSUME Inv, SentInv, OpenAFile \/ OpenAFileFails \/ WriteToFile \/ WriteToFileFails \/ CloseAFile
  PROVE  SentInv'
<1>0. /\ DiskInv /\ ClientType /\ work = Free /\ sender.f \in Files /\ run' = run
  <2>1. ~ SenderDone /\ work = Free /\ run' = run
    BY DEF OpenAFile, OpenAFileFails, WriteToFile, WriteToFileFails, CloseAFile, IsOpen, IsWrite, IsClose,
           AnswerSender, FailSender, client
  <2> QED BY <2>1, InvParts, ServerWorkAssumption DEF ClientType, SenderDone
<1> PICK f \in Files : f = sender.f
  BY <1>0
<1>1. DiskInv /\ ClientType /\ work = Free /\ sender.f \in Files /\ sender.f = f /\ run' = run
  BY <1>0
<1>2. SentFile(f) /\ SentHashes /\ \A g \in Files : SentFile(g)
  BY <1>1 DEF SentInv
<1>3. ASSUME Others(f), SentFile(f)'
      PROVE  \A g \in Files : SentFile(g)'
  BY <1>1, <1>2, <1>3, SentSame DEF Others
<1>4. <<>> \in Sent(run)
  BY <1>1, RunFacts
<1>5. CASE OpenAFile
  <2>1. SentFile(f)'
    BY <1>1, <1>4, <1>5, OpenEffect, SentNew
  <2>2. Others(f) /\ FewerThreads
    BY <1>1, <1>5, OpenEffect
  <2>3. SentHashes'
    BY <1>1, <1>2, <2>2, SentFewer
  <2>4. work' = Free
    BY <1>1, <1>5 DEF OpenAFile
  <2> QED BY <1>3, <2>1, <2>2, <2>3, <2>4, FreeFits DEF SentInv
<1>6. CASE WriteToFile
  <2> DEFINE old == m_mapNameFile[f]
             new == m_mapNameFile'[f]
             block == <<run, sender.i>>
  <2>1. /\ Others(f) /\ md5' = md5 /\ th' = th
        /\ \/ old = Closed /\ Same(f)
           \/ /\ old # Closed /\ new.to = old.to /\ new.buf = Append(old.buf, block)
              /\ df'[f] = df[f] /\ final'[f] = final[f]
           \/ old # Closed /\ new.to = old.to /\ new.buf = <<>> /\ Written(f, old.buf \o <<block>>)
    BY <1>1, <1>6, WriteEffect
  <2>2. sender.i \in 0 .. MaxChunks
    BY <1>6, ServerWorkAssumption DEF WriteToFile, IsWrite
  <2>3. ASSUME old = Closed, Same(f)
        PROVE  SentFile(f)'
    BY <1>1, <1>2, <2>3, SentSame
  <2>4. ASSUME old # Closed, new.buf = Append(old.buf, block), df'[f] = df[f]
        PROVE  SentFile(f)'
    <3>0. md5'[f] \in Sent(run) \cup {NoFile, Empty} /\ df'[f] \in Sent(run) \cup {NoFile}
      BY <1>2, <2>1, <2>4 DEF SentFile
    <3>1. Append(old.buf, block) \in Sent(run)
      BY <1>1, <1>2, <2>2, <2>4, RunFacts DEF SentFile
    <3>2. m_mapNameFile'[f].buf \in Sent(run)
      BY <2>4, <3>1
    <3> QED BY <1>1, <3>0, <3>2, SentNew
  <2>5. ASSUME old # Closed, new.buf = <<>>, Written(f, old.buf \o <<block>>)
        PROVE  SentFile(f)'
    <3>1. old.buf \o <<block>> \in Sent(run)
      BY <1>1, <1>2, <2>2, <2>5, RunFacts DEF SentFile
    <3> DEFINE data == old.buf \o <<block>>
    <3>2. data \in Sent(run) /\ Written(f, data)
      BY <2>5, <3>1
    <3> HIDE DEF data
    <3>5. df'[f] \in Sent(run) \cup {NoFile}
      BY <1>1, <1>2, <2>5, <3>2, SentWritten
    <3>6. md5'[f] \in Sent(run) \cup {NoFile, Empty} /\ m_mapNameFile'[f].buf \in Sent(run)
      BY <1>2, <1>4, <2>1, <2>5 DEF SentFile, new
    <3> QED BY <1>1, <3>5, <3>6, SentNew
  <2>6. SentFile(f)'
    BY <2>1, <2>3, <2>4, <2>5
  <2>7. FewerThreads
    BY <2>1 DEF FewerThreads
  <2>8. SentHashes'
    BY <1>1, <1>2, <2>7, SentFewer
  <2>9. work' = Free
    BY <1>1, <1>6 DEF WriteToFile
  <2> QED BY <1>3, <2>1, <2>6, <2>8, <2>9, FreeFits DEF SentInv
<1>7. CASE CloseAFile
  <2> DEFINE old == m_mapNameFile[f]
  <2>1. /\ Others(f) /\ md5' = md5 /\ th' = th /\ m_mapNameFile'[f] = Closed
        /\ old = Closed => df'[f] = df[f] /\ final'[f] = final[f]
        /\ old # Closed => Written(f, old.buf)
    BY <1>1, <1>7, CloseEffect
  <2>2. df'[f] \in Sent(run) \cup {NoFile}
    <3>1. old # Closed => old.buf \in Sent(run)
      BY <1>2 DEF SentFile
    <3>2. CASE old = Closed
      BY <1>2, <2>1, <3>2 DEF SentFile
    <3>3. CASE old # Closed
      BY <1>1, <1>2, <2>1, <3>1, <3>3, SentWritten
    <3> QED BY <3>2, <3>3
  <2>3. SentFile(f)'
    BY <1>1, <1>2, <2>1, <2>2, SentNew DEF SentFile
  <2>4. FewerThreads
    BY <2>1 DEF FewerThreads
  <2>5. SentHashes'
    BY <1>1, <1>2, <2>4, SentFewer
  <2>6. work'.op = "slot" /\ work'.f = f
    BY <1>1, <1>7 DEF CloseAFile, WorkAt
  <2>7. BuiltFits' /\ HandedClosed'
    BY <2>1, <2>6 DEF BuiltFits, HandedClosed
  <2> QED BY <1>3, <2>1, <2>3, <2>5, <2>7 DEF SentInv
<1>8. CASE OpenAFileFails
  <2> DEFINE old == m_mapNameFile[f]
  <2>1. /\ Others(f) /\ FewerThreads /\ md5'[f] = NoFile /\ m_mapNameFile'[f] = Closed
        /\ old = Closed => df'[f] = df[f] /\ final'[f] = final[f]
        /\ old # Closed => Written(f, old.buf)
    BY <1>1, <1>8, OpenFailsEffect
  <2>2. df'[f] \in Sent(run) \cup {NoFile}
    <3>1. old # Closed => old.buf \in Sent(run)
      BY <1>2 DEF SentFile
    <3>2. CASE old = Closed
      BY <1>2, <2>1, <3>2 DEF SentFile
    <3>3. CASE old # Closed
      BY <1>1, <1>2, <2>1, <3>1, <3>3, SentWritten
    <3> QED BY <3>2, <3>3
  <2>3. SentFile(f)'
    BY <1>1, <2>1, <2>2, SentNew
  <2>4. SentHashes'
    BY <1>1, <1>2, <2>1, SentFewer
  <2>5. work' = Free
    BY <1>1, <1>8 DEF OpenAFileFails
  <2> QED BY <1>3, <2>1, <2>3, <2>4, <2>5, FreeFits DEF SentInv
<1>9. CASE WriteToFileFails
  <2> DEFINE old == m_mapNameFile[f]
             new == m_mapNameFile'[f]
  <2>1. /\ Others(f) /\ md5' = md5 /\ th' = th /\ old # Closed
        /\ \/ Same(f)
           \/ /\ new.to = old.to /\ new.buf = <<>>
              /\ \E n \in 0 .. Len(old.buf), torn \in {<<>>, <<<<run, 0>>>>} :
                   Written(f, SubSeq(old.buf, 1, n) \o torn)
    BY <1>1, <1>9, WriteFailsEffect
  <2>2. ASSUME new.buf = <<>>, NEW n \in 0 .. Len(old.buf), NEW torn \in {<<>>, <<<<run, 0>>>>},
               Written(f, SubSeq(old.buf, 1, n) \o torn)
        PROVE  SentFile(f)'
    <3> DEFINE data == SubSeq(old.buf, 1, n) \o torn
    <3>1. torn \in Sent(run) /\ old.buf \in Sent(run)
      <4>1. 0 \in 0 .. MaxChunks
        BY ServerWorkAssumption
      <4> QED BY <1>1, <1>2, <1>4, <2>1, <4>1, RunFacts DEF SentFile
    <3>2. SubSeq(old.buf, 1, n) \in Sent(run)
      BY <3>1 DEF Sent
    <3>3. data \in Sent(run) /\ Written(f, data)
      BY <1>1, <2>2, <3>1, <3>2, RunFacts
    <3> HIDE DEF data
    <3>4. df'[f] \in Sent(run) \cup {NoFile}
      BY <1>1, <1>2, <2>1, <3>3, SentWritten
    <3>5. md5'[f] \in Sent(run) \cup {NoFile, Empty} /\ m_mapNameFile'[f].buf \in Sent(run)
      BY <1>2, <1>4, <2>1, <2>2 DEF SentFile
    <3> QED BY <1>1, <3>4, <3>5, SentNew
  <2>3. SentFile(f)'
    <3>1. CASE Same(f)
      BY <1>1, <1>2, <3>1, SentSame
    <3> QED BY <2>1, <2>2, <3>1
  <2>4. FewerThreads
    BY <2>1 DEF FewerThreads
  <2>5. SentHashes'
    BY <1>1, <1>2, <2>4, SentFewer
  <2>6. work' = Free
    BY <1>1, <1>9 DEF WriteToFileFails
  <2> QED BY <1>3, <2>1, <2>3, <2>5, <2>6, FreeFits DEF SentInv
<1> QED BY <1>5, <1>6, <1>7, <1>8, <1>9

(* A step that leaves the files and the md5 threads alone. *)
LEMMA SentIdle ==
  ASSUME ClientType, SentInv, UNCHANGED <<disk, m_mapNameFile, th>>, run' = run \/ run' = run + 1,
         \/ work' = work \/ work' = Free
         \/ work.op = "slot" /\ work'.op = "push" /\ work'.f = work.f
  PROVE  SentInv'
<1>1. ASSUME NEW g \in Files PROVE SentFile(g)'
  <2>1. Same(g) /\ SentFile(g)
    BY DEF Same, disk, SentInv
  <2> QED BY <2>1, SentSame
<1>2. SentHashes'
  <2>1. Sent(run) \subseteq Sent(run) /\ Sent(run) \subseteq Sent(run + 1)
    BY RunFacts
  <2>2. Sent(run) \subseteq Sent(run)'
    BY <2>1 DEF Sent
  <2> HIDE DEF Sent
  <2> QED BY <2>2 DEF SentInv, SentHashes
<1>3. BuiltFits' /\ HandedClosed'
  <2>1. CASE work' = work
    BY <2>1 DEF SentInv, BuiltFits, HandedClosed, disk
  <2>2. CASE work' = Free
    BY <2>2, FreeFits
  <2>3. CASE work.op = "slot" /\ work'.op = "push" /\ work'.f = work.f
    BY <2>3 DEF SentInv, BuiltFits, HandedClosed
  <2> QED BY <2>1, <2>2, <2>3
<1> QED BY <1>1, <1>2, <1>3 DEF SentInv

LEMMA SentInstalled ==
  ASSUME Inv, SentInv, NEW f \in Files, Install(f), work' = Free, run' = run
  PROVE  SentInv'
<1>1. DiskInv /\ MdFileType /\ ClientType
  BY InvParts DEF DiskInv, DiskType, MdFileType
<1>2. /\ Others(f) /\ FewerThreads /\ df'[f] = NoFile /\ md5'[f] = NoFile
      /\ m_mapNameFile'[f] # Closed => /\ m_mapNameFile[f] # Closed
                                       /\ m_mapNameFile'[f].buf = m_mapNameFile[f].buf
  BY <1>1, InstallEffect
<1>3. SentFile(f)'
  BY <1>2, SentNew DEF SentInv, SentFile
<1>4. \A g \in Files : SentFile(g)'
  BY <1>1, <1>2, <1>3, SentSame DEF SentInv, Others
<1>5. SentHashes'
  BY <1>2, SentFewer DEF SentInv
<1> QED BY <1>4, <1>5, FreeFits DEF SentInv

LEMMA SentNotInstalled ==
  ASSUME Inv, SentInv, NEW f \in Files, InstallFails(f), work' = Free
  PROVE  SentInv'
<1>1. DiskInv /\ ClientType
  BY InvParts
<1>2. /\ Others(f) /\ FewerThreads /\ run' = run /\ df'[f] = df[f] /\ md5'[f] = NoFile
      /\ m_mapNameFile'[f] = m_mapNameFile[f]
  BY <1>1 DEF InstallFails, FailVerify, RemoveMd5, Others, Same, FewerThreads, DiskInv, DiskType
<1>3. SentFile(f)'
  BY <1>2, SentNew DEF SentInv, SentFile
<1>4. \A g \in Files : SentFile(g)'
  BY <1>1, <1>2, <1>3, SentSame DEF SentInv, Others
<1>5. SentHashes'
  BY <1>2, SentFewer DEF SentInv
<1> QED BY <1>4, <1>5, FreeFits DEF SentInv

LEMMA SentChecked ==
  ASSUME Inv, SentInv,
         CheckMD5 \/ CheckMD5Fails \/ CheckMD5NoFile \/ CheckMD5Builds \/ CheckMD5Compares
  PROVE  SentInv'
<1>1. DiskInv /\ MdFileType /\ ClientType /\ RequestPending /\ work \in WorkStates
  BY InvParts DEF DiskInv, DiskType, MdFileType, SlotInv
<1>2. Verifying => ver.at \in Files
  BY ServerWorkAssumption DEF Verifying
<1>3. CASE CheckMD5
  <2>1. /\ ver.at \in Files /\ work' = Free /\ work = Free /\ run' = run
        /\ Install(ver.at) \/ InstallFails(ver.at) \/ Keep
    BY <1>2, <1>3 DEF CheckMD5, AnswerVerify, InstallFails, FailVerify
  <2> PICK f \in Files : f = ver.at
    BY <2>1
  <2>2. Install(f) \/ InstallFails(f) \/ Keep
    BY <2>1
  <2> QED BY <1>1, <2>1, <2>2, SentInstalled, SentNotInstalled, SentIdle DEF Keep
<1>4. CASE CheckMD5NoFile \/ CheckMD5Fails
  <2>1. UNCHANGED <<disk, m_mapNameFile, th, work, run>>
    BY <1>4 DEF CheckMD5NoFile, CheckMD5Fails, AnswerVerify, FailVerify
  <2> QED BY <1>1, <2>1, SentIdle
<1>5. CASE CheckMD5Builds
  <2>1. /\ ver.at \in Files /\ df[ver.at] # NoFile /\ UNCHANGED <<df, final, th, m_mapNameFile, run>>
        /\ work' = WorkAt("built", 0, ver.at, df[ver.at]) /\ md5' = [md5 EXCEPT ![ver.at] = Empty]
    BY <1>2, <1>5 DEF CheckMD5Builds, client
  <2> PICK f \in Files : f = ver.at
    BY <2>1
  <2>2. SentFile(f)'
    BY <1>1, <2>1, SentNew DEF SentInv, SentFile, MdFileType
  <2>3. ASSUME NEW g \in Files, g # f PROVE SentFile(g)'
    <3>1. Same(g) /\ SentFile(g)
      BY <1>1, <2>1, <2>3 DEF Same, SentInv, MdFileType
    <3> QED BY <1>1, <2>1, <3>1, SentSame
  <2>4. SentHashes'
    BY <2>1, SentFewer DEF SentInv, FewerThreads
  <2>5. BuiltFits' /\ HandedClosed'
    BY <2>1 DEF BuiltFits, HandedClosed, WorkAt
  <2> QED BY <2>2, <2>3, <2>4, <2>5 DEF SentInv
<1>6. CASE CheckMD5Compares
  <2>1. /\ work.op = "built" /\ work.f = ver.at /\ work' = Free /\ run' = run /\ work.f \in Files
        /\ \/ Install(work.f) \/ InstallFails(work.f)
           \/ md5' = [md5 EXCEPT ![work.f] = work.hash] /\ UNCHANGED <<df, final, th, m_mapNameFile>>
    BY <1>1, <1>2, <1>6 DEF CheckMD5Compares, AnswerVerify, InstallFails, FailVerify, RequestPending
  <2> PICK f \in Files : f = work.f
    BY <2>1
  <2>2. CASE Install(f)
    BY <2>1, <2>2, SentInstalled
  <2>4. CASE InstallFails(f)
    BY <2>1, <2>4, SentNotInstalled
  <2>3. CASE md5' = [md5 EXCEPT ![f] = work.hash] /\ UNCHANGED <<df, final, th, m_mapNameFile>>
    <3>1. SentFile(f)'
      <4>1. work.hash = df[f] /\ work.hash \in Contents
        BY <1>1, <2>1 DEF SentInv, BuiltFits, WorkStates
      <4>2. work.hash \in Sent(run)
        BY <4>1, ContentsAssumption DEF SentInv, SentFile
      <4> QED BY <1>1, <2>1, <2>3, <4>2, SentNew DEF SentInv, SentFile, MdFileType
    <3>2. ASSUME NEW g \in Files, g # f PROVE SentFile(g)'
      <4>1. Same(g) /\ SentFile(g)
        BY <1>1, <2>3, <3>2 DEF Same, SentInv, MdFileType
      <4> QED BY <1>1, <2>1, <4>1, SentSame
    <3>3. SentHashes'
      BY <2>1, <2>3, SentFewer DEF SentInv, FewerThreads
    <3> QED BY <2>1, <3>1, <3>2, <3>3, FreeFits DEF SentInv
  <2> QED BY <2>1, <2>2, <2>3, <2>4
<1> QED BY <1>3, <1>4, <1>5, <1>6

LEMMA SentMd5 == ASSUME Inv, SentInv, NEW t \in Threads, Md5Step(t) PROVE SentInv'
<1>1. SlotInv /\ DiskInv /\ MdFileType /\ ClientType
  BY InvParts DEF DiskInv, DiskType, MdFileType
<1>2. ThreadStep(t) /\ UNCHANGED <<m_mapNameFile, work, run>>
  BY DEF Md5Step, client
<1>3. /\ UNCHANGED <<df, final>> /\ \A u \in Threads : u # t => th'[u] = th[u]
      /\ \/ th'[t].st \notin {"open", "write"} /\ md5' = md5
         \/ /\ th[t].st = "read" /\ Hashing(t, th[t].f)' /\ th'[t].f = th[t].f
            /\ th'[t].hash = df[th[t].f] /\ df[th[t].f] # NoFile /\ md5' = md5
         \/ /\ Hashing(t, th[t].f) /\ th'[t].st = "write"
            /\ th'[t].f = th[t].f /\ th'[t].hash = th[t].hash
            /\ md5' = [md5 EXCEPT ![th[t].f] = Empty]
         \/ /\ Hashing(t, th[t].f) /\ th'[t] = Resting
            /\ md5' = [md5 EXCEPT ![th[t].f] = th[t].hash]
  BY <1>1, <1>2, ThreadEffect
<1>4. th[t].st \notin {"pop", "name"} => th[t].f \in Files
  BY <1>1 DEF SlotInv, ThreadsType
<1>5. th[t].st \in {"open", "write"} => th[t].hash \in Sent(run)
  BY DEF SentInv, SentHashes
<1>6. th[t].st = "read" /\ df[th[t].f] # NoFile => df[th[t].f] \in Sent(run)
  BY <1>4 DEF SentInv, SentFile
<1>7. Sent(run)' = Sent(run)
  BY <1>2 DEF Sent
<1>8. SentHashes'
  <2>1. th'[t].st \in {"open", "write"} => th'[t].hash \in Sent(run)
    BY <1>3, <1>5, <1>6 DEF Hashing, Resting, ThreadAt
  <2> HIDE DEF Sent
  <2> QED BY <1>3, <1>7, <2>1 DEF SentInv, SentHashes
<1>9. \A g \in Files : md5'[g] \in Sent(run) \cup {NoFile, Empty}
  BY <1>1, <1>3, <1>5 DEF MdFileType, Hashing, SentInv, SentFile
<1>10. ASSUME NEW g \in Files PROVE SentFile(g)'
  BY <1>2, <1>3, <1>9, SentNew DEF SentInv, SentFile
<1>11. BuiltFits' /\ HandedClosed'
  BY <1>2, <1>3 DEF SentInv, BuiltFits, HandedClosed
<1> QED BY <1>8, <1>10, <1>11 DEF SentInv

LEMMA SentNext == ASSUME Inv, SentInv, [Next]_vars PROVE SentInv'
<1>1. ClientType /\ work \in WorkStates
  BY InvParts DEF SlotInv
<1>2. CASE UNCHANGED vars
  BY <1>1, <1>2, SentIdle DEF vars, client
<1>3. CASE StartVerify \/ NextTransfer \/ RequestLost
  <2>1. UNCHANGED <<disk, m_mapNameFile, th, work>> /\ (run' = run \/ run' = run + 1)
    BY <1>3 DEF StartVerify, NextTransfer, RequestLost
  <2> QED BY <1>1, <2>1, SentIdle
<1>4. CASE OpenAFile \/ OpenAFileFails \/ WriteToFile \/ WriteToFileFails \/ CloseAFile
  BY <1>4, SentServed
<1>5. CASE CloseTakesSlot
  <2>1. /\ UNCHANGED <<disk, m_mapNameFile, th, run>>
        /\ work.op = "slot" /\ work'.op = "push" /\ work'.f = work.f
    BY <1>1, <1>5 DEF CloseTakesSlot, client, WorkStates
  <2> QED BY <1>1, <2>1, SentIdle
<1>6. CASE ClosePushesSlot
  <2>1. UNCHANGED <<disk, m_mapNameFile, th, run>> /\ work' = Free
    BY <1>6 DEF ClosePushesSlot, AnswerSender
  <2> QED BY <1>1, <2>1, SentIdle
<1>7. CASE CheckMD5 \/ CheckMD5Fails \/ CheckMD5NoFile \/ CheckMD5Builds \/ CheckMD5Compares
  BY <1>7, SentChecked
<1>8. CASE \E t \in Threads : Md5Step(t)
  BY <1>8, SentMd5
<1>9. CASE Restart
  <2>1. /\ UNCHANGED <<disk, run>> /\ work' = Free
        /\ m_mapNameFile' = [f \in Files |-> Closed] /\ th' = [t \in Threads |-> Resting]
    BY <1>9 DEF Restart
  <2>2. \A g \in Files : SentFile(g)'
    BY <2>1, SentNew DEF disk, SentInv, SentFile
  <2>3. SentHashes'
    BY <2>1 DEF SentHashes, Resting, ThreadAt
  <2> QED BY <2>1, <2>2, <2>3, FreeFits DEF SentInv
<1> QED BY <1>2, <1>3, <1>4, <1>5, <1>6, <1>7, <1>8, <1>9 DEF Next, WorkStep, Terminating

LEMMA SentStart == Init => SentInv
BY DEF Init, SlotsInit, SentInv, SentFile, SentHashes, BuiltFits, HandedClosed, Resting, ThreadAt,
       Free, WorkAt
-----------------------------------------------------------------------------
(* The jobs of a file: its CLOSE in the server thread's hand, its name waiting or being copied, an md5
   thread that works on it.  Only a CLOSE makes one. *)

Closing(f) == work.op \in {"slot", "push"} /\ work.f = f
Named(f) == \E s \in Slots : Waiting(s) /\ g_QueFile[s] = f
Copying(f) == \E t \in Threads : th[t].st = "name" /\ g_QueFile[th[t].slot] = f
Working(f) == \E t \in Threads : th[t].st \notin {"pop", "name"} /\ th[t].f = f
JobFor(f) == Closing(f) \/ Named(f) \/ Copying(f) \/ Working(f)

LEMMA JobsStay ==
  ASSUME NEW f, JobFor(f)', UNCHANGED <<g_WorkPos, g_QueFile>>, FewerThreads,
         Closing(f)' => Closing(f)
  PROVE  JobFor(f)
<1>1. Named(f)' => Named(f)
  BY DEF Named, Waiting
<1>2. Copying(f)' => Copying(f)
  BY DEF Copying, FewerThreads, Resting, ThreadAt
<1>3. Working(f)' => Working(f)
  BY DEF Working, FewerThreads, Resting, ThreadAt
<1> QED BY <1>1, <1>2, <1>3 DEF JobFor

LEMMA JobsOfThread ==
  ASSUME SlotInv, NEW t \in Threads, ThreadStep(t), UNCHANGED work, NEW f, JobFor(f)'
  PROVE  JobFor(f)
<1>1. th \in [Threads -> ThreadStates] /\ g_WorkPos \in Seq(Slots)
  BY DEF SlotInv, ThreadsType, SlotsType
<1>2. Closing(f)' => Closing(f)
  BY DEF Closing
<1>3. UNCHANGED g_QueFile
  BY DEF ThreadStep, Take, CopyName, ReturnSlot, ReadFile, OpenMd5, WriteMd5, slots
<1>4. CASE Take(t)
  <2> DEFINE h == Head(g_WorkPos)
  <2>1. /\ g_WorkPos # <<>> /\ g_WorkPos' = Tail(g_WorkPos)
        /\ th' = [th EXCEPT ![t] = ThreadAt("name", h, NoFile, <<>>)]
    BY <1>4 DEF Take
  <2>2. h \in Slots /\ \A x : Has(g_WorkPos, x) <=> Has(Tail(g_WorkPos), x) \/ x = h
    BY <1>1, <2>1, TailHas
  <2>3. \A s \in Slots : Waiting(s)' => Waiting(s)
    BY <2>1, <2>2 DEF Waiting, Has
  <2>4. Named(f)' => Named(f)
    BY <1>3, <2>3 DEF Named
  <2>5. Waiting(h)
    BY <2>2, OwnersAsRings
  <2> HIDE DEF h
  <2>6. th'[t].st = "name" /\ th'[t].slot = h /\ \A u \in Threads : u # t => th'[u] = th[u]
    BY <1>1, <2>1 DEF ThreadAt
  <2>7. Copying(f)' => Copying(f) \/ Named(f)
    BY <1>3, <2>2, <2>5, <2>6 DEF Copying, Named
  <2>8. Working(f)' => Working(f)
    BY <2>6 DEF Working
  <2> QED BY <1>2, <2>4, <2>7, <2>8 DEF JobFor
<1>5. CASE ~ Take(t)
  <2>1. UNCHANGED g_WorkPos
    BY <1>5 DEF ThreadStep, CopyName, ReturnSlot, ReadFile, OpenMd5, WriteMd5, slots
  <2>2. Named(f)' => Named(f)
    BY <1>3, <2>1 DEF Named, Waiting
  <2>3. \A u \in Threads : u # t => th'[u] = th[u]
    BY <1>1, <1>5 DEF ThreadStep, CopyName, ReturnSlot, ReadFile, OpenMd5, WriteMd5
  <2>4. CASE CopyName(t)
    <3>1. th[t].st = "name" /\ th'[t].st = "return" /\ th'[t].f = g_QueFile[th[t].slot]
      BY <1>1, <2>4 DEF CopyName, ThreadStates
    <3>2. Copying(f)' => Copying(f)
      BY <1>3, <2>3, <3>1 DEF Copying
    <3>3. Working(f)' => Working(f) \/ Copying(f)
      BY <2>3, <3>1 DEF Working, Copying
    <3> QED BY <1>2, <2>2, <3>2, <3>3 DEF JobFor
  <2>5. CASE ~ CopyName(t)
    <3>1. /\ th[t].st \notin {"pop", "name"} /\ th'[t].st # "name"
          /\ th'[t].st # "pop" => th'[t].f = th[t].f
      <4>1. CASE ReturnSlot(t)
        BY <1>1, <4>1 DEF ReturnSlot, ThreadAt
      <4>2. CASE ReadFile(t)
        BY <1>1, <4>2 DEF ReadFile, ThreadAt, Resting
      <4>3. CASE OpenMd5(t)
        BY <1>1, <4>3 DEF OpenMd5, ThreadStates
      <4>4. CASE WriteMd5(t)
        BY <1>1, <4>4 DEF WriteMd5, ThreadAt, Resting
      <4> QED BY <1>5, <2>5, <4>1, <4>2, <4>3, <4>4 DEF ThreadStep
    <3>2. Copying(f)' => Copying(f)
      BY <1>3, <2>3, <3>1 DEF Copying
    <3>3. Working(f)' => Working(f)
      BY <2>3, <3>1 DEF Working
    <3> QED BY <1>2, <2>2, <3>2, <3>3 DEF JobFor
  <2> QED BY <2>4, <2>5
<1> QED BY <1>4, <1>5

LEMMA JobsOfClose ==
  ASSUME Inv, JobsInv, CloseTakesSlot \/ ClosePushesSlot, NEW f, JobFor(f)'
  PROVE  JobFor(f)
<1>1. SlotInv /\ work \in WorkStates /\ g_WorkPos \in Seq(Slots) /\ g_QueFile \in [Slots -> Files \cup {NoFile}]
  BY InvParts DEF SlotInv, SlotsType
<1>2. Working(f)' => Working(f)
  BY DEF Working, CloseTakesSlot, ClosePushesSlot
<1>3. CASE CloseTakesSlot
  <2> DEFINE h == Head(g_FilePos)
  <2>1. /\ g_FilePos \in Seq(Slots) /\ g_FilePos # <<>> /\ UNCHANGED <<g_WorkPos, th>>
        /\ g_QueFile' = [g_QueFile EXCEPT ![h] = work.f]
        /\ work.op = "slot" /\ work'.op = "push" /\ work'.f = work.f
    BY <1>1, <1>3 DEF SlotInv, SlotsType, CloseTakesSlot, WorkStates
  <2>2. h \in Slots /\ Available(h)
    BY <2>1, TailHas, OwnersAsRings
  <2>3. ~ Waiting(h) /\ ~ Taken(h)
    BY <1>1, <2>2 DEF SlotInv, OneOwner
  <2> HIDE DEF h
  <2>4. \A s \in Slots : s # h => g_QueFile'[s] = g_QueFile[s]
    BY <1>1, <2>1
  <2>5. Named(f)' => Named(f)
    BY <2>1, <2>3, <2>4 DEF Named, Waiting
  <2>6. \A t \in Threads : th[t].st = "name" => th[t].slot # h /\ th[t].slot \in Slots
    BY <1>1, <2>3 DEF Taken, HasSlot, SlotInv, ThreadsType, ThreadStates
  <2>7. Copying(f)' => Copying(f)
    BY <2>1, <2>4, <2>6 DEF Copying
  <2>8. Closing(f)' => Closing(f)
    BY <2>1 DEF Closing
  <2> QED BY <1>2, <2>5, <2>7, <2>8 DEF JobFor
<1>4. CASE ClosePushesSlot
  <2>1. /\ g_WorkPos' = Append(g_WorkPos, work.slot) /\ UNCHANGED <<g_QueFile, th>> /\ work' = Free
        /\ work.op = "push" /\ work.slot \in Slots /\ g_QueFile[work.slot] = work.f
    BY <1>1, <1>4 DEF ClosePushesSlot, WorkStates, JobsInv, HandNamed
  <2>2. \A x : Has(Append(g_WorkPos, work.slot), x) <=> Has(g_WorkPos, x) \/ x = work.slot
    BY <1>1, <2>1, AppendHas
  <2>3. \A s \in Slots : Waiting(s)' => Waiting(s) \/ s = work.slot
    BY <2>1, <2>2 DEF Waiting, Has
  <2>4. Named(f)' => Named(f) \/ Closing(f)
    BY <2>1, <2>3 DEF Named, Closing
  <2>5. Copying(f)' => Copying(f)
    BY <2>1 DEF Copying
  <2>6. ~ Closing(f)'
    BY <2>1 DEF Closing, Free, WorkAt
  <2> QED BY <1>2, <2>4, <2>5, <2>6 DEF JobFor
<1> QED BY <1>3, <1>4
-----------------------------------------------------------------------------
(* The sender only goes forward, and a check begins when only the last CLOSE can be left. *)

Passed(f) == sender.f > f \/ (sender.f = f /\ sender.i = MaxChunks + 1)
SenderMoves == sender' = sender \/ (~ SenderDone /\ sender' \in {Next1(sender), Again(sender)})
VerifiesLate ==
  /\ ver.at > 0 => SenderDone \/ (IsClose /\ sender.f = NFiles)
  /\ ver.bad => ver.at \in Files

LEMMA SenderForward ==
  ASSUME ClientType, SenderMoves
  PROVE  /\ \A f \in Files : Passed(f) => Passed(f)'
         /\ SenderDone => SenderDone'
         /\ IsClose /\ sender.f = NFiles => SenderDone' \/ (IsClose' /\ sender'.f = NFiles)
<1>1. /\ sender \in [f : 1 .. NFiles + 1, i : 0 .. MaxChunks + 1, try : 0 .. MaxTry - 1]
      /\ NFiles \in Nat /\ MaxChunks \in Nat /\ MaxTry \in Nat \ {0} /\ Files = 1 .. NFiles
  BY ServerWorkAssumption DEF ClientType
<1>2. /\ sender.f \in Nat /\ sender.i \in Nat /\ sender.f <= NFiles + 1 /\ sender.i <= MaxChunks + 1
  BY <1>1
<1>3. /\ Next1(sender).f = IF sender.i <= MaxChunks THEN sender.f ELSE sender.f + 1
      /\ Next1(sender).i = IF sender.i <= MaxChunks THEN sender.i + 1 ELSE 0
  BY <1>1 DEF Next1
<1>4. \/ Again(sender).f = sender.f /\ Again(sender).i = sender.i
      \/ Again(sender) = Next1(sender)
  BY <1>1 DEF Again
<1>5. \/ sender'.f = sender.f /\ sender'.i = sender.i
      \/ /\ ~ SenderDone
         /\ sender'.f = IF sender.i <= MaxChunks THEN sender.f ELSE sender.f + 1
         /\ sender'.i = IF sender.i <= MaxChunks THEN sender.i + 1 ELSE 0
  BY <1>3, <1>4 DEF SenderMoves
<1>6. \A f \in Files : Passed(f) => Passed(f)'
  BY <1>1, <1>2, <1>5 DEF Passed
<1>7. SenderDone => SenderDone'
  BY <1>5 DEF SenderDone
<1>8. IsClose /\ sender.f = NFiles => SenderDone' \/ (IsClose' /\ sender'.f = NFiles)
  BY <1>1, <1>2, <1>5 DEF IsClose, SenderDone
<1> QED BY <1>6, <1>7, <1>8

(* A check is answered, or the machine fails it. *)
Verified ==
  /\ UNCHANGED <<sender, run, early, leftover>>
  /\ \/ \E good \in BOOLEAN : AnswerVerify(good)
     \/ FailVerify([ver EXCEPT !.at = @ + 1]) \/ FailVerify([ver EXCEPT !.bad = TRUE])

(* What a step does to the clients. *)
LEMMA ClientMoves ==
  ASSUME Inv, [Next]_vars
  PROVE  \/ NextTransfer \/ StartVerify
         \/ SenderMoves /\ UNCHANGED <<ver, run, unread, early, leftover>>
         \/ Verifying /\ Verified
<1>1. CASE UNCHANGED vars
  BY <1>1 DEF vars, client, SenderMoves
<1>2. CASE RequestLost
  BY <1>2 DEF RequestLost, SenderMoves
<1>3. CASE OpenAFile \/ WriteToFile
  BY <1>3 DEF OpenAFile, WriteToFile, IsOpen, IsWrite, AnswerSender, SenderMoves
<1>10. CASE OpenAFileFails \/ WriteToFileFails
  BY <1>10 DEF OpenAFileFails, WriteToFileFails, IsOpen, IsWrite, FailSender, SenderMoves
<1>4. CASE CloseAFile \/ CloseTakesSlot \/ CheckMD5Builds
  BY <1>4 DEF CloseAFile, CloseTakesSlot, CheckMD5Builds, client, SenderMoves
<1>5. CASE CheckMD5 \/ CheckMD5Fails \/ CheckMD5NoFile
  <2>1. CASE CheckMD5
    <3>1. \/ \E good \in BOOLEAN : AnswerVerify(good)
          \/ FailVerify([ver EXCEPT !.at = @ + 1])
      BY <2>1 DEF CheckMD5, InstallFails, Good
    <3> QED BY <2>1, <3>1 DEF CheckMD5, Verified, AnswerVerify, FailVerify
  <2>2. CASE CheckMD5Fails
    BY <2>2 DEF CheckMD5Fails, Verified, FailVerify
  <2>3. CASE CheckMD5NoFile
    BY <2>3 DEF CheckMD5NoFile, Verified, AnswerVerify
  <2> QED BY <1>5, <2>1, <2>2, <2>3
<1>6. CASE \E t \in Threads : Md5Step(t)
  BY <1>6 DEF Md5Step, client, SenderMoves
<1>7. CASE Restart
  BY <1>7 DEF Restart, SenderMoves
<1>8. CASE ClosePushesSlot
  BY <1>8, InvParts DEF RequestPending, ClosePushesSlot, IsClose, AnswerSender, SenderMoves
<1>9. CASE CheckMD5Compares
  <2>1. Verifying
    BY <1>9, InvParts DEF RequestPending, CheckMD5Compares
  <2>2. \/ \E good \in BOOLEAN : AnswerVerify(good)
        \/ FailVerify([ver EXCEPT !.at = @ + 1])
    BY <1>9 DEF CheckMD5Compares, InstallFails, Good
  <2> QED BY <2>1, <2>2 DEF Verified, AnswerVerify, FailVerify
<1> QED BY <1>1, <1>2, <1>3, <1>4, <1>5, <1>6, <1>7, <1>8, <1>9, <1>10
        DEF Next, WorkStep, Terminating

LEMMA VerifiesLateNext ==
  ASSUME Inv, VerifiesLate, [Next]_vars
  PROVE  VerifiesLate'
<1>1. ClientType /\ ver.at \in Nat
  BY InvParts DEF ClientType
<1>2. CASE NextTransfer
  BY <1>2 DEF NextTransfer, VerifiesLate
<1>3. CASE StartVerify
  <2>1. ver' = [ver EXCEPT !.at = 1] /\ ver.at = 0 /\ UNCHANGED sender
    BY <1>3 DEF StartVerify
  <2>2. ~ ver'.bad
    BY <1>1, <2>1, ServerWorkAssumption DEF VerifiesLate, ClientType
  <2> QED BY <1>3, <2>1, <2>2 DEF StartVerify, VerifiesLate, IsClose, SenderDone
<1>4. CASE SenderMoves /\ UNCHANGED <<ver, run, unread, early, leftover>>
  BY <1>1, <1>4, SenderForward DEF VerifiesLate
<1>5. CASE Verifying /\ Verified
  <2>0. ver.at > 0 /\ ver.at \in 1 .. NFiles /\ ver \in [at : 0 .. NFiles + 1, bad : BOOLEAN]
    BY <1>1, <1>5, ServerWorkAssumption DEF Verifying, ClientType
  <2>2. ver' \in {ver, [ver EXCEPT !.at = @ + 1], [ver EXCEPT !.bad = TRUE]} /\ ~ ver.bad
    BY <1>5 DEF Verifying, Verified, AnswerVerify, FailVerify
  <2>1. ver.at > 0 /\ ver'.at > 0 /\ (ver'.bad => ver'.at \in Files)
    BY <2>0, <2>2, ServerWorkAssumption
  <2> QED BY <1>5, <2>1 DEF VerifiesLate, Verified, IsClose, SenderDone
<1> QED BY <1>2, <1>3, <1>4, <1>5, ClientMoves

-----------------------------------------------------------------------------
(* What is under its own name, when each check began with all files closed and each transfer with the
   md5 threads at rest. *)

Installed(f) == final[f] = NoFile \/ \E r \in 1 .. run : final[f] = Whole(r)

(* The .md5 is that of the .df, or both are left over from an earlier transfer. *)
HashFits(f) ==
  \/ df[f] = NoFile \/ md5[f] \in {NoFile, Empty, df[f]}
  \/ df[f] \in Sent(run - 1) /\ md5[f] \in Sent(run - 1)

OrderlyFile(f) ==
  /\ JobFor(f) => m_mapNameFile[f] = Closed /\ Passed(f)
  /\ m_mapNameFile[f] # Closed => m_mapNameFile[f].to = "df" /\ md5[f] = NoFile /\ ver.at = 0
  /\ \A t \in Threads : Hashing(t, f) => df[f] = NoFile \/ df[f] = th[t].hash
  /\ HashFits(f)
  /\ Installed(f)
  /\ final[f] = Whole(run) => df[f] = NoFile /\ (ver.at > f \/ (ver.at = f /\ lost > 0))
  /\ ver.bad /\ ~ unread /\ ver.at = f => df[f] # Whole(run) /\ (final[f] = Whole(run) => lost > 0)
OrderlyInv == Orderly => \A f \in Files : OrderlyFile(f)

(* A step that writes to no file f, but perhaps its .md5. *)
LEMMA OrderlyKept ==
  ASSUME ClientType, ClientType', LostType, LostType', NEW f \in Files, OrderlyFile(f), run' = run,
         df'[f] = df[f], final'[f] = final[f], lost' >= lost,
         m_mapNameFile'[f] = m_mapNameFile[f] \/ m_mapNameFile'[f] = Closed,
         md5'[f] = md5[f] \/ (m_mapNameFile[f] = Closed /\ HashFits(f)'),
         JobFor(f)' => JobFor(f), Passed(f) => Passed(f)',
         ver'.at = ver.at \/ (m_mapNameFile[f] = Closed /\ ver'.at >= ver.at),
         \A t \in Threads : Hashing(t, f)' =>
           th'[t].hash = df[f] \/ (Hashing(t, f) /\ th'[t].hash = th[t].hash),
         ver'.bad /\ ~ unread' /\ ver'.at = f =>
           \/ ver.bad /\ ~ unread /\ ver.at = f
           \/ df[f] # Whole(run) /\ (final[f] = Whole(run) => lost' > 0)
  PROVE  OrderlyFile(f)'
<1>1. /\ ver.at \in Nat /\ ver'.at \in Nat /\ lost \in Nat /\ lost' \in Nat /\ f \in Nat
  BY ServerWorkAssumption DEF ClientType, LostType
<1>2. JobFor(f)' => m_mapNameFile'[f] = Closed /\ Passed(f)'
  BY DEF OrderlyFile
<1>3. m_mapNameFile'[f] # Closed =>
        m_mapNameFile'[f].to = "df" /\ md5'[f] = NoFile /\ ver'.at = 0
  BY DEF OrderlyFile
<1>4. \A t \in Threads : Hashing(t, f)' => df'[f] = NoFile \/ df'[f] = th'[t].hash
  BY DEF OrderlyFile
<1>5. HashFits(f)'
  BY DEF OrderlyFile, HashFits, Sent
<1>6. Installed(f)'
  BY DEF OrderlyFile, Installed
<1>7. final'[f] = Whole(run) => df'[f] = NoFile /\ (ver'.at > f \/ (ver'.at = f /\ lost' > 0))
  BY <1>1 DEF OrderlyFile
<1>8. ver'.bad /\ ~ unread' /\ ver'.at = f => df'[f] # Whole(run) /\ (final'[f] = Whole(run) => lost' > 0)
  BY <1>1 DEF OrderlyFile
<1> QED BY <1>2, <1>3, <1>4, <1>5, <1>6, <1>7, <1>8 DEF OrderlyFile
FilesInv == SentInv /\ JobsInv /\ VerifiesLate

(* What the server thread does for the sender. *)
LEMMA OrderlyServed ==
  ASSUME Inv, Inv', FilesInv, \A g \in Files : OrderlyFile(g),
         OpenAFile \/ OpenAFileFails \/ WriteToFile \/ WriteToFileFails \/ CloseAFile
  PROVE  \A g \in Files : OrderlyFile(g)'
<1>1. /\ ClientType /\ ClientType' /\ LostType /\ LostType' /\ DiskInv /\ MdFileType
      /\ lost \in Nat /\ lost' \in Nat /\ ver.at \in Nat /\ SentInv /\ VerifiesLate
  BY InvParts DEF ClientType, LostType, DiskInv, DiskType, MdFileType, FilesInv
<1>2. /\ ~ SenderDone /\ sender.f \in Files /\ work = Free
      /\ UNCHANGED <<ver, run, unread, g_WorkPos, g_QueFile>> /\ lost' >= lost /\ SenderMoves
  <2>1. ~ SenderDone /\ work = Free /\ UNCHANGED <<ver, run, unread, g_WorkPos, g_QueFile>>
    BY DEF OpenAFile, OpenAFileFails, WriteToFile, WriteToFileFails, CloseAFile, IsOpen, IsWrite, IsClose,
           AnswerSender, FailSender, client, slots
  <2>2. sender.f \in Files
    BY <1>1, <2>1, ServerWorkAssumption DEF ClientType, SenderDone
  <2>3. lost' >= lost /\ SenderMoves
    BY <1>1, <2>1 DEF OpenAFile, OpenAFileFails, WriteToFile, WriteToFileFails, CloseAFile, AnswerSender,
                      FailSender, Lose, SenderMoves, client, bounds
  <2> QED BY <2>1, <2>2, <2>3
<1> PICK f \in Files : f = sender.f
  BY <1>2
<1>3. f \in Nat /\ f > 0 /\ MaxChunks \in Nat /\ MaxChunks > 0
  BY ServerWorkAssumption
<1>4. \A g \in Files : Passed(g) => Passed(g)'
  BY <1>1, <1>2, SenderForward
<1>5. ASSUME NEW g \in Files, Same(g), FewerThreads, JobFor(g)' => JobFor(g)
      PROVE  OrderlyFile(g)'
  <2>1. \A t \in Threads : Hashing(t, g)' => Hashing(t, g) /\ th'[t].hash = th[t].hash
    BY <1>5 DEF FewerThreads, Hashing, Resting, ThreadAt
  <2>2. OrderlyFile(g)
    OBVIOUS
  <2> QED BY <1>1, <1>2, <1>4, <1>5, <2>1, <2>2, OrderlyKept DEF Same
<1>6. IsOpen \/ IsWrite => ~ Passed(f) /\ ~ JobFor(f) /\ ver.at = 0
  <2>1. IsOpen \/ IsWrite => ~ Passed(f)
    BY <1>1, <1>3 DEF IsOpen, IsWrite, Passed, ClientType
  <2>2. IsOpen \/ IsWrite => ver.at = 0
    BY <1>1, <1>2, <1>3 DEF IsOpen, IsWrite, IsClose, VerifiesLate
  <2> QED BY <2>1, <2>2 DEF OrderlyFile
<1>7. ASSUME work' = Free, FewerThreads, NEW g \in Files, JobFor(g)'
      PROVE  JobFor(g)
  BY <1>2, <1>7, JobsStay DEF Closing, Free, WorkAt
<1>8. CASE OpenAFile
  <2>1. /\ Others(f) /\ FewerThreads /\ df'[f] = <<>> /\ md5'[f] = NoFile
        /\ m_mapNameFile'[f] = [to |-> "df", buf |-> <<>>]
        /\ m_mapNameFile[f] = Closed \/ m_mapNameFile[f].to = "df" => final'[f] = final[f]
    BY <1>1, <1>2, <1>8, OpenEffect
  <2>2. work' = Free /\ IsOpen
    BY <1>2, <1>8 DEF OpenAFile
  <2>3. \A g \in Files : g # f => OrderlyFile(g)'
    BY <1>5, <1>7, <2>1, <2>2 DEF Others
  <2>4. ~ JobFor(f)' /\ ver'.at = 0
    BY <1>2, <1>6, <1>7, <2>1, <2>2
  <2>5. final'[f] = final[f]
    BY <2>1 DEF OrderlyFile
  <2>6. \A t \in Threads : ~ Hashing(t, f)'
    BY <2>4 DEF JobFor, Working, Hashing
  <2>7. HashFits(f)' /\ Installed(f)' /\ m_mapNameFile'[f].to = "df"
    BY <1>2, <2>1, <2>5 DEF HashFits, OrderlyFile, Installed
  <2>8. final[f] # Whole(run)
    BY <1>3, <1>6, <2>2 DEF OrderlyFile
  <2>9. OrderlyFile(f)'
    BY <1>2, <1>3, <2>1, <2>4, <2>5, <2>6, <2>7, <2>8 DEF OrderlyFile
  <2> QED BY <2>3, <2>9
<1>9. CASE WriteToFile
  <2> DEFINE old == m_mapNameFile[f]
             new == m_mapNameFile'[f]
             block == <<run, sender.i>>
  <2>1. /\ Others(f) /\ md5' = md5 /\ th' = th
        /\ \/ old = Closed /\ Same(f)
           \/ /\ old # Closed /\ new.to = old.to /\ new.buf = Append(old.buf, block)
              /\ df'[f] = df[f] /\ final'[f] = final[f]
           \/ old # Closed /\ new.to = old.to /\ new.buf = <<>> /\ Written(f, old.buf \o <<block>>)
    BY <1>1, <1>2, <1>9, WriteEffect
  <2>2. work' = Free /\ IsWrite /\ FewerThreads
    BY <1>2, <1>9, <2>1 DEF WriteToFile, FewerThreads
  <2>3. \A g \in Files : g # f => OrderlyFile(g)'
    BY <1>5, <1>7, <2>1, <2>2 DEF Others
  <2>4. ASSUME old # Closed
        PROVE  OrderlyFile(f)'
    <3>1. ~ JobFor(f)' /\ ver'.at = 0
      BY <1>2, <1>6, <1>7, <2>2
    <3>2. old.to = "df" /\ md5[f] = NoFile
      BY <2>4 DEF OrderlyFile
    <3>3. final'[f] = final[f] /\ md5'[f] = NoFile /\ new.to = "df"
      BY <2>1, <2>4, <3>2 DEF Written
    <3>4. \A t \in Threads : ~ Hashing(t, f)'
      BY <3>1 DEF JobFor, Working, Hashing
    <3>5. HashFits(f)' /\ Installed(f)'
      BY <1>2, <3>3 DEF HashFits, OrderlyFile, Installed
    <3>6. final[f] # Whole(run)
      BY <1>3, <1>6, <2>2 DEF OrderlyFile
    <3> QED BY <1>2, <1>3, <3>1, <3>3, <3>4, <3>5, <3>6 DEF OrderlyFile
  <2>5. OrderlyFile(f)'
    <3>1. CASE old = Closed
      BY <1>5, <1>7, <2>1, <2>2, <3>1
    <3> QED BY <2>4, <3>1
  <2> QED BY <2>3, <2>5
<1>10. CASE CloseAFile
  <2> DEFINE old == m_mapNameFile[f]
  <2>1. /\ Others(f) /\ md5' = md5 /\ th' = th /\ m_mapNameFile'[f] = Closed
        /\ old = Closed => df'[f] = df[f] /\ final'[f] = final[f]
        /\ old # Closed => Written(f, old.buf)
    BY <1>1, <1>2, <1>10, CloseEffect
  <2>2. FewerThreads /\ Passed(f)' /\ work'.op = "slot" /\ work'.f = f
    BY <1>10, <2>1 DEF CloseAFile, FewerThreads, Passed, IsClose, client, WorkAt
  <2>3. ASSUME NEW g \in Files, g # f
        PROVE  OrderlyFile(g)'
    <3>1. Closing(g)' => Closing(g)
      BY <2>2, <2>3 DEF Closing
    <3>2. JobFor(g)' => JobFor(g)
      BY <1>2, <2>2, <3>1, JobsStay
    <3> QED BY <1>5, <2>1, <2>2, <2>3, <3>2 DEF Others
  <2>4. final'[f] = final[f]
    BY <2>1 DEF OrderlyFile, Written
  <2>5. \A t \in Threads : Hashing(t, f)' => df'[f] = NoFile \/ df'[f] = th'[t].hash
    <3>1. \A t \in Threads : Hashing(t, f) => JobFor(f)
      BY DEF Hashing, JobFor, Working
    <3> QED BY <2>1, <3>1 DEF OrderlyFile, Hashing
  <2>6. HashFits(f)'
    <3>1. CASE old = Closed
      BY <1>2, <2>1, <3>1 DEF OrderlyFile, HashFits, Sent
    <3>2. CASE old # Closed
      BY <2>1, <3>2 DEF OrderlyFile, HashFits
    <3> QED BY <3>1, <3>2
  <2>7. Installed(f)'
    BY <1>2, <2>4 DEF OrderlyFile, Installed
  <2>8. old # Closed => ver.at = 0 /\ final[f] # Whole(run)
    BY <1>3 DEF OrderlyFile
  <2>9. /\ final'[f] = Whole(run) => df'[f] = NoFile /\ (ver'.at > f \/ (ver'.at = f /\ lost' > 0))
        /\ ver'.bad /\ ~ unread' /\ ver'.at = f =>
             df'[f] # Whole(run) /\ (final'[f] = Whole(run) => lost' > 0)
    BY <1>1, <1>2, <1>3, <2>1, <2>4, <2>8 DEF OrderlyFile
  <2>10. OrderlyFile(f)'
    BY <1>2, <2>1, <2>2, <2>5, <2>6, <2>7, <2>9 DEF OrderlyFile
  <2> QED BY <2>3, <2>10
<1>11. CASE OpenAFileFails
  <2> DEFINE old == m_mapNameFile[f]
  <2>1. /\ Others(f) /\ FewerThreads /\ md5'[f] = NoFile /\ m_mapNameFile'[f] = Closed
        /\ old = Closed => df'[f] = df[f] /\ final'[f] = final[f]
        /\ old # Closed => Written(f, old.buf)
    BY <1>1, <1>2, <1>11, OpenFailsEffect
  <2>2. work' = Free /\ IsOpen
    BY <1>2, <1>11 DEF OpenAFileFails
  <2>3. \A g \in Files : g # f => OrderlyFile(g)'
    BY <1>5, <1>7, <2>1, <2>2 DEF Others
  <2>4. ~ JobFor(f)' /\ ver'.at = 0
    BY <1>2, <1>6, <1>7, <2>1, <2>2
  <2>5. final'[f] = final[f]
    BY <2>1 DEF OrderlyFile, Written
  <2>6. \A t \in Threads : ~ Hashing(t, f)'
    BY <2>4 DEF JobFor, Working, Hashing
  <2>7. HashFits(f)' /\ Installed(f)'
    BY <1>2, <2>1, <2>5 DEF HashFits, OrderlyFile, Installed
  <2>8. final[f] # Whole(run)
    BY <1>3, <1>6, <2>2 DEF OrderlyFile
  <2>9. OrderlyFile(f)'
    BY <1>2, <1>3, <2>1, <2>4, <2>5, <2>6, <2>7, <2>8 DEF OrderlyFile
  <2> QED BY <2>3, <2>9
<1>12. CASE WriteToFileFails
  <2> DEFINE old == m_mapNameFile[f]
             new == m_mapNameFile'[f]
  <2>1. /\ Others(f) /\ md5' = md5 /\ th' = th /\ old # Closed
        /\ \/ Same(f)
           \/ /\ new.to = old.to /\ new.buf = <<>>
              /\ \E n \in 0 .. Len(old.buf), torn \in {<<>>, <<<<run, 0>>>>} :
                   Written(f, SubSeq(old.buf, 1, n) \o torn)
    BY <1>1, <1>2, <1>12, WriteFailsEffect
  <2>2. work' = Free /\ IsWrite /\ FewerThreads
    BY <1>2, <1>12, <2>1 DEF WriteToFileFails, FewerThreads
  <2>3. \A g \in Files : g # f => OrderlyFile(g)'
    BY <1>5, <1>7, <2>1, <2>2 DEF Others
  <2>4. CASE Same(f)
    <3>1. OrderlyFile(f)'
      BY <1>5, <1>7, <2>2, <2>4
    <3> QED BY <2>3, <3>1
  <2>5. ASSUME new.to = old.to, NEW data, Written(f, data)
        PROVE  OrderlyFile(f)'
    <3>1. ~ JobFor(f)' /\ ver'.at = 0
      BY <1>2, <1>6, <1>7, <2>2
    <3>2. old.to = "df" /\ md5[f] = NoFile
      BY <2>1 DEF OrderlyFile
    <3>3. final'[f] = final[f] /\ md5'[f] = NoFile /\ new.to = "df"
      BY <2>1, <2>5, <3>2 DEF Written
    <3>4. \A t \in Threads : ~ Hashing(t, f)'
      BY <3>1 DEF JobFor, Working, Hashing
    <3>5. HashFits(f)' /\ Installed(f)'
      BY <1>2, <3>3 DEF HashFits, OrderlyFile, Installed
    <3>6. final[f] # Whole(run)
      BY <1>3, <1>6, <2>2 DEF OrderlyFile
    <3> QED BY <1>2, <1>3, <3>1, <3>3, <3>4, <3>5, <3>6 DEF OrderlyFile
  <2> QED BY <2>1, <2>3, <2>4, <2>5
<1> QED BY <1>8, <1>9, <1>10, <1>11, <1>12

(* A step that leaves the files and the hashes alone, and no check or transfer begins. *)
LEMMA OrderlyIdle ==
  ASSUME Inv, Inv', \A g \in Files : OrderlyFile(g), UNCHANGED <<disk, m_mapNameFile, th, ver, run, unread>>,
         SenderMoves, lost' >= lost, \A g \in Files : JobFor(g)' => JobFor(g)
  PROVE  \A g \in Files : OrderlyFile(g)'
<1>1. ClientType /\ ClientType' /\ LostType /\ LostType'
  BY InvParts
<1>2. \A g \in Files : Passed(g) => Passed(g)'
  BY <1>1, SenderForward
<1>3. ASSUME NEW g \in Files
      PROVE  OrderlyFile(g)'
  <2>1. OrderlyFile(g) /\ Same(g) /\ \A t \in Threads : Hashing(t, g)' => Hashing(t, g) /\ th'[t] = th[t]
    BY DEF Same, disk, Hashing
  <2> QED BY <1>1, <1>2, <2>1, OrderlyKept DEF Same
<1> QED BY <1>3

(* The server thread answers a check and leaves the files alone. *)
LEMMA OrderlyAnswered ==
  ASSUME Inv, Inv', \A g \in Files : OrderlyFile(g), UNCHANGED <<disk, m_mapNameFile, th, slots>>,
         work' = Free, Verifying, NEW good \in BOOLEAN, AnswerVerify(good),
         ~ good => /\ df[ver.at] # Whole(run)
                   /\ final[ver.at] = Whole(run) => lost > 0
  PROVE  \A g \in Files : OrderlyFile(g)'
<1>0. ClientType /\ ClientType' /\ LostType /\ LostType'
  BY InvParts
<1>1. /\ ClientType /\ ClientType' /\ LostType /\ LostType' /\ lost \in Nat /\ lost' \in Nat
      /\ ver.at \in Nat /\ ver.at > 0 /\ ~ ver.bad
  BY <1>0, ServerWorkAssumption DEF LostType, Verifying
<1>2. UNCHANGED <<sender, run>> /\ lost' >= lost
  BY <1>1 DEF AnswerVerify, Lose
<1>3. /\ ver'.at >= ver.at
      /\ ver'.bad => ~ good /\ ver'.at = ver.at
  BY <1>1 DEF AnswerVerify, ClientType
<1>4. \A g \in Files : m_mapNameFile[g] = Closed
  BY <1>1 DEF OrderlyFile
<1>5. ASSUME NEW g \in Files
      PROVE  OrderlyFile(g)'
  <2>1. OrderlyFile(g) /\ Same(g) /\ \A t \in Threads : Hashing(t, g)' => Hashing(t, g) /\ th'[t] = th[t]
    BY DEF Same, disk, Hashing
  <2>2. JobFor(g)' => JobFor(g)
    BY JobsStay DEF slots, FewerThreads, Closing, Free, WorkAt
  <2>3. Passed(g) => Passed(g)'
    BY <1>2 DEF Passed
  <2>4. ver'.bad /\ ver'.at = g => df[g] # Whole(run) /\ (final[g] = Whole(run) => lost' > 0)
    BY <1>1, <1>2, <1>3
  <2> QED BY <1>1, <1>2, <1>3, <1>4, <2>1, <2>2, <2>3, <2>4, OrderlyKept DEF Same
<1> QED BY <1>5

(* A check that succeeds installs a whole file. *)
LEMMA OrderlyInstalled ==
  ASSUME Inv, Inv', \A g \in Files : OrderlyFile(g), UNCHANGED slots, work' = Free, Verifying,
         AnswerVerify(TRUE), Install(ver.at), df[ver.at] = Whole(run), df[ver.at] # NoFile
  PROVE  \A g \in Files : OrderlyFile(g)'
<1>0. ClientType /\ ClientType' /\ LostType /\ LostType' /\ DiskInv /\ MdFileType
  BY InvParts DEF DiskInv, DiskType, MdFileType
<1>1. /\ ClientType /\ ClientType' /\ LostType /\ LostType' /\ lost \in Nat /\ lost' \in Nat
      /\ ver.at \in Nat /\ ver.at > 0 /\ ver.at \in Files /\ ~ ver.bad /\ DiskInv /\ MdFileType
  BY <1>0, ServerWorkAssumption DEF LostType, Verifying
<1>2. UNCHANGED <<sender, run>> /\ lost' >= lost
  BY <1>1 DEF AnswerVerify, Lose
<1>3. /\ ver'.at = ver.at + 1 \/ (ver'.at = ver.at /\ lost' > 0)
      /\ ~ ver'.bad
  BY <1>1 DEF AnswerVerify, ClientType, Lose
<1>4. \A g \in Files : m_mapNameFile[g] = Closed
  BY <1>1 DEF OrderlyFile
<1> PICK f \in Files : f = ver.at
  BY <1>1
<1>5. /\ Others(f) /\ FewerThreads /\ df'[f] = NoFile /\ md5'[f] = NoFile /\ final'[f] = df[f]
      /\ m_mapNameFile'[f] = Closed
  BY <1>1, <1>4, InstallEffect
<1>6. ASSUME NEW g \in Files
      PROVE  /\ JobFor(g)' => JobFor(g)
             /\ Passed(g) => Passed(g)'
             /\ \A t \in Threads : Hashing(t, g)' => Hashing(t, g) /\ th'[t].hash = th[t].hash
  <2>1. JobFor(g)' => JobFor(g)
    BY <1>5, JobsStay DEF slots, Closing, Free, WorkAt
  <2>2. \A t \in Threads : Hashing(t, g)' => Hashing(t, g) /\ th'[t].hash = th[t].hash
    BY <1>5 DEF FewerThreads, Hashing, Resting, ThreadAt
  <2> QED BY <1>2, <2>1, <2>2 DEF Passed
<1>7. ASSUME NEW g \in Files, g # f
      PROVE  OrderlyFile(g)'
  <2>1. OrderlyFile(g) /\ Same(g)
    BY <1>5, <1>7 DEF Others
  <2>2. ver'.at >= ver.at
    BY <1>1, <1>3
  <2> QED BY <1>1, <1>2, <1>3, <1>4, <1>6, <2>1, <2>2, OrderlyKept DEF Same
<1>8. OrderlyFile(f)'
  <2>1. Installed(f)'
    BY <1>1, <1>2, <1>5, RunFacts DEF Installed
  <2>2. JobFor(f)' => Passed(f)'
    BY <1>6 DEF OrderlyFile
  <2>3. ver'.at > f \/ (ver'.at = f /\ lost' > 0)
    BY <1>1, <1>3
  <2> QED BY <1>3, <1>5, <2>1, <2>2, <2>3 DEF OrderlyFile, HashFits
<1> QED BY <1>7, <1>8

(* The machine fails a check: nothing is renamed, and at most a .md5 goes. *)
LEMMA OrderlyFailed ==
  ASSUME Inv, Inv', \A g \in Files : OrderlyFile(g), UNCHANGED <<df, final, m_mapNameFile, slots>>,
         \A g \in Files : md5'[g] \in {md5[g], NoFile}, FewerThreads, work' = Free, Verifying,
         NEW v \in [at : 0 .. NFiles + 1, bad : BOOLEAN], v.at >= ver.at, FailVerify(v)
  PROVE  \A g \in Files : OrderlyFile(g)'
<1>0. ClientType /\ ClientType' /\ LostType /\ LostType'
  BY InvParts
<1>1. /\ ClientType /\ ClientType' /\ LostType /\ LostType' /\ lost \in Nat /\ lost' \in Nat
      /\ ver.at \in Nat /\ ver.at > 0 /\ ~ ver.bad
  BY <1>0, ServerWorkAssumption DEF LostType, Verifying
<1>2. UNCHANGED <<sender, run>> /\ lost' >= lost
  BY <1>1 DEF FailVerify, Lose
<1>3. /\ ver'.at >= ver.at
      /\ ver'.bad => unread'
  BY <1>1 DEF FailVerify
<1>4. \A g \in Files : m_mapNameFile[g] = Closed
  BY <1>1 DEF OrderlyFile
<1>5. ASSUME NEW g \in Files
      PROVE  OrderlyFile(g)'
  <2>1. OrderlyFile(g) /\ \A t \in Threads : Hashing(t, g)' => Hashing(t, g) /\ th'[t] = th[t]
    BY DEF Hashing, FewerThreads, Resting, ThreadAt
  <2>2. JobFor(g)' => JobFor(g)
    BY JobsStay DEF slots, Closing, Free, WorkAt
  <2>3. Passed(g) => Passed(g)'
    BY <1>2 DEF Passed
  <2>4. md5'[g] = md5[g] \/ (m_mapNameFile[g] = Closed /\ HashFits(g)')
    BY <1>4 DEF HashFits
  <2> QED BY <1>1, <1>2, <1>3, <1>4, <2>1, <2>2, <2>3, <2>4, OrderlyKept
<1> QED BY <1>5

(* The machine fails the rename of a check that succeeded. *)
LEMMA OrderlyNotInstalled ==
  ASSUME Inv, Inv', \A g \in Files : OrderlyFile(g), UNCHANGED slots, work' = Free, Verifying,
         NEW f \in Files, InstallFails(f)
  PROVE  \A g \in Files : OrderlyFile(g)'
<1>1. FewerThreads /\ \A g \in Files : md5'[g] \in {md5[g], NoFile}
  BY InvParts DEF InstallFails, RemoveMd5, FewerThreads, DiskInv, DiskType
<1>2. PICK v \in [at : 0 .. NFiles + 1, bad : BOOLEAN] : v.at >= ver.at /\ FailVerify(v)
  <2>1. [ver EXCEPT !.at = @ + 1].at >= ver.at
    BY InvParts, ServerWorkAssumption DEF ClientType, Verifying
  <2> QED BY <2>1, InvParts, VerTypes DEF InstallFails
<1> QED BY <1>1, <1>2, OrderlyFailed DEF InstallFails

LEMMA OrderlyChecked ==
  ASSUME Inv, Inv', FilesInv, \A g \in Files : OrderlyFile(g),
         CheckMD5 \/ CheckMD5Fails \/ CheckMD5NoFile \/ CheckMD5Builds \/ CheckMD5Compares
  PROVE  \A g \in Files : OrderlyFile(g)'
<1>1. /\ ClientType /\ ClientType' /\ LostType /\ LostType' /\ DiskInv /\ MdFileType /\ RequestPending
      /\ work \in WorkStates /\ SentInv
  BY InvParts DEF DiskInv, DiskType, MdFileType, SlotInv, FilesInv
<1>2. Verifying => ver.at \in Files /\ ver.at \in Nat /\ ver.at > 0
  BY ServerWorkAssumption DEF Verifying
<1>3. Verifying => \A g \in Files : m_mapNameFile[g] = Closed
  BY <1>2 DEF OrderlyFile
<1>4. CASE CheckMD5 /\ ~ InstallFails(ver.at)
  <2>1. /\ Verifying /\ work = Free /\ work' = Free /\ UNCHANGED slots
        /\ df[ver.at] # NoFile /\ md5[ver.at] # NoFile
        /\ IF Good(md5[ver.at]) THEN Install(ver.at) ELSE Keep
        /\ AnswerVerify(md5[ver.at] = Empty \/ Good(md5[ver.at]))
    BY <1>4 DEF CheckMD5
  <2> PICK f \in Files : f = ver.at
    BY <1>2, <2>1
  <2>2. OrderlyFile(f) /\ df[f] # NoFile /\ md5[f] # NoFile
    BY <2>1
  <2>3. Whole(run) # NoFile /\ Whole(run) # Empty /\ Whole(run) \notin Sent(run - 1)
    BY <1>1, RunFacts
  <2>4. CASE Good(md5[f])
    <3>1. df[f] = Whole(run)
      BY <2>2, <2>3, <2>4 DEF OrderlyFile, HashFits, Good
    <3>2. AnswerVerify(TRUE)
      <4>1. (md5[ver.at] = Empty \/ Good(md5[ver.at])) = TRUE
        BY <2>4 DEF Good
      <4> QED BY <2>1, <4>1
    <3> QED BY <2>1, <2>2, <2>4, <3>1, <3>2, OrderlyInstalled
  <2>5. CASE ~ Good(md5[f])
    <3>1. UNCHANGED <<disk, m_mapNameFile, th, slots>>
      BY <2>1, <2>5 DEF Keep
    <3>2. PICK good \in BOOLEAN : good = (md5[f] = Empty \/ Good(md5[f]))
      BY DEF Good
    <3>3. AnswerVerify(good)
      BY <2>1, <3>2
    <3>4. ~ good => df[f] # Whole(run) /\ final[f] # Whole(run)
      BY <2>2, <2>3, <3>2 DEF OrderlyFile, HashFits, Good
    <3> QED BY <2>1, <3>1, <3>3, <3>4, OrderlyAnswered
  <2> QED BY <2>4, <2>5
<1>5. CASE CheckMD5NoFile
  <2>1. /\ Verifying /\ work' = Free /\ df[ver.at] = NoFile
        /\ UNCHANGED <<disk, slots, th, m_mapNameFile>>
    BY <1>5 DEF CheckMD5NoFile
  <2>2. PICK looksLikeDir \in BOOLEAN : AnswerVerify(~ looksLikeDir)
    BY <1>5 DEF CheckMD5NoFile
  <2>3. PICK good \in BOOLEAN : good = ~ looksLikeDir
    OBVIOUS
  <2>4. AnswerVerify(good)
    BY <2>2, <2>3
  <2>5. df[ver.at] # Whole(run) /\ (final[ver.at] = Whole(run) => lost > 0)
    BY <1>1, <1>2, <2>1, RunFacts DEF OrderlyFile
  <2> QED BY <2>1, <2>4, <2>5, OrderlyAnswered
<1>6. CASE CheckMD5Builds
  <2>1. /\ Verifying /\ UNCHANGED <<df, final, slots, th, m_mapNameFile, client, bounds>>
        /\ work' = WorkAt("built", 0, ver.at, df[ver.at]) /\ md5' = [md5 EXCEPT ![ver.at] = Empty]
    BY <1>6 DEF CheckMD5Builds
  <2>2. UNCHANGED <<sender, ver, run, unread, lost>> /\ lost \in Nat
    BY <1>1, <2>1 DEF client, bounds, LostType
  <2>3. ASSUME NEW g \in Files
        PROVE  OrderlyFile(g)'
    <3>1. JobFor(g)' => JobFor(g)
      BY <2>1, JobsStay DEF slots, FewerThreads, Closing, WorkAt
    <3>2. md5'[g] = md5[g] \/ HashFits(g)'
      BY <1>1, <1>2, <2>1 DEF MdFileType, HashFits
    <3>3. \A t \in Threads : Hashing(t, g)' => Hashing(t, g) /\ th'[t] = th[t]
      BY <2>1 DEF Hashing
    <3>4. OrderlyFile(g) /\ m_mapNameFile[g] = Closed /\ (Passed(g) => Passed(g)') /\ lost' >= lost
      BY <1>3, <2>1, <2>2 DEF Passed
    <3> QED BY <1>1, <2>1, <2>2, <3>1, <3>2, <3>3, <3>4, OrderlyKept
  <2> QED BY <2>3
<1>7. CASE CheckMD5Compares /\ ~ InstallFails(work.f)
  <2>1. /\ work.op = "built" /\ work.f = ver.at /\ work' = Free /\ Verifying /\ UNCHANGED slots
        /\ df[ver.at] \in Contents /\ work.hash = df[ver.at]
        /\ IF Good(work.hash) THEN Install(work.f)
           ELSE md5' = [md5 EXCEPT ![work.f] = work.hash] /\ UNCHANGED <<df, final, th, m_mapNameFile>>
        /\ AnswerVerify(Good(work.hash))
    BY <1>1, <1>7 DEF CheckMD5Compares, RequestPending, SentInv, BuiltFits
  <2>2. CASE Good(work.hash)
    <3>1. AnswerVerify(TRUE)
      <4>1. Good(work.hash) = TRUE
        BY <2>2 DEF Good
      <4> QED BY <2>1, <4>1
    <3>2. Install(ver.at) /\ df[ver.at] = Whole(run) /\ df[ver.at] # NoFile
      BY <2>1, <2>2, ContentsAssumption DEF Good
    <3> QED BY <2>1, <3>1, <3>2, OrderlyInstalled
  <2>3. CASE ~ Good(work.hash)
    <3>1. /\ md5' = [md5 EXCEPT ![ver.at] = df[ver.at]] /\ UNCHANGED <<df, final, th, m_mapNameFile>>
          /\ df[ver.at] # Whole(run)
      BY <2>1, <2>3 DEF Good
    <3>2. AnswerVerify(FALSE)
      <4>1. Good(work.hash) = FALSE
        BY <2>3 DEF Good
      <4> QED BY <2>1, <4>1
    <3>3. final[ver.at] # Whole(run)
      BY <1>2, <2>1, ContentsAssumption DEF OrderlyFile
    <3>4. UNCHANGED <<sender, run>> /\ lost' >= lost /\ lost \in Nat /\ lost' \in Nat /\ ver'.at = ver.at
      BY <1>1, <3>2 DEF AnswerVerify, Lose, LostType, ClientType
    <3>5. ASSUME NEW g \in Files
          PROVE  OrderlyFile(g)'
      <4>1. JobFor(g)' => JobFor(g)
        BY <2>1, <3>1, JobsStay DEF slots, FewerThreads, Closing, Free, WorkAt
      <4>2. md5'[g] = md5[g] \/ HashFits(g)'
        BY <1>1, <1>2, <2>1, <3>1 DEF MdFileType, HashFits
      <4>3. \A t \in Threads : Hashing(t, g)' => Hashing(t, g) /\ th'[t] = th[t]
        BY <3>1 DEF Hashing
      <4>4. OrderlyFile(g) /\ m_mapNameFile[g] = Closed /\ (Passed(g) => Passed(g)')
        BY <1>3, <2>1, <3>4 DEF Passed
      <4>5. ver'.at = g => df[g] # Whole(run) /\ (final[g] = Whole(run) => lost' > 0)
        BY <3>1, <3>3, <3>4
      <4> QED BY <1>1, <3>1, <3>4, <4>1, <4>2, <4>3, <4>4, <4>5, OrderlyKept
    <3> QED BY <3>5
  <2> QED BY <2>2, <2>3
<1>8. CASE CheckMD5Fails
  <2>1. /\ UNCHANGED <<disk, slots, th, m_mapNameFile>> /\ work' = Free /\ Verifying
        /\ FailVerify([ver EXCEPT !.bad = TRUE])
    BY <1>8 DEF CheckMD5Fails
  <2>2. FewerThreads /\ \A g \in Files : md5'[g] \in {md5[g], NoFile}
    BY <2>1 DEF disk, FewerThreads
  <2>3. PICK v \in [at : 0 .. NFiles + 1, bad : BOOLEAN] : v.at >= ver.at /\ FailVerify(v)
    <3>1. [ver EXCEPT !.bad = TRUE].at >= ver.at
      BY <1>1, <2>1, ServerWorkAssumption DEF ClientType, Verifying
    <3> QED BY <1>1, <2>1, <3>1, VerTypes
  <2> QED BY <2>1, <2>2, <2>3, OrderlyFailed DEF disk
<1>9. CASE CheckMD5 /\ InstallFails(ver.at)
  BY <1>2, <1>9, OrderlyNotInstalled DEF CheckMD5
<1>10. CASE CheckMD5Compares /\ InstallFails(work.f)
  <2>1. Verifying /\ work.f \in Files
    BY <1>1, <1>2, <1>10 DEF CheckMD5Compares, RequestPending
  <2> QED BY <1>10, <2>1, OrderlyNotInstalled DEF CheckMD5Compares
<1> QED BY <1>4, <1>5, <1>6, <1>7, <1>8, <1>9, <1>10

LEMMA OrderlyMd5 ==
  ASSUME Inv, Inv', FilesInv, \A g \in Files : OrderlyFile(g), NEW t \in Threads, Md5Step(t)
  PROVE  \A g \in Files : OrderlyFile(g)'
<1>0. /\ ClientType /\ ClientType' /\ LostType /\ LostType' /\ MdFileType /\ SlotInv
  BY InvParts DEF DiskInv, DiskType, MdFileType
<1>1. /\ ThreadStep(t) /\ UNCHANGED <<m_mapNameFile, work, sender, ver, run, unread, lost>> /\ lost \in Nat
  BY <1>0 DEF Md5Step, client, bounds, LostType
<1>2. /\ UNCHANGED <<df, final>> /\ \A u \in Threads : u # t => th'[u] = th[u]
      /\ \/ th'[t].st \notin {"open", "write"} /\ md5' = md5
         \/ /\ th[t].st = "read" /\ Hashing(t, th[t].f)' /\ th'[t].f = th[t].f
            /\ th'[t].hash = df[th[t].f] /\ df[th[t].f] # NoFile /\ md5' = md5
         \/ /\ Hashing(t, th[t].f) /\ th'[t].st = "write"
            /\ th'[t].f = th[t].f /\ th'[t].hash = th[t].hash
            /\ md5' = [md5 EXCEPT ![th[t].f] = Empty]
         \/ /\ Hashing(t, th[t].f) /\ th'[t] = Resting
            /\ md5' = [md5 EXCEPT ![th[t].f] = th[t].hash]
  BY <1>0, <1>1, ThreadEffect
<1>3. ASSUME NEW g \in Files
      PROVE  OrderlyFile(g)'
  <2>1. OrderlyFile(g) /\ (JobFor(g)' => JobFor(g)) /\ (Passed(g) => Passed(g)')
    BY <1>0, <1>1, JobsOfThread DEF Passed
  <2>2. \A u \in Threads : Hashing(u, g)' =>
          th'[u].hash = df[g] \/ (Hashing(u, g) /\ th'[u].hash = th[u].hash)
    BY <1>2 DEF Hashing, Resting, ThreadAt
  <2>3. Hashing(t, g) => m_mapNameFile[g] = Closed /\ (df[g] = NoFile \/ df[g] = th[t].hash)
    BY <2>1 DEF OrderlyFile, JobFor, Working, Hashing
  <2>4. md5'[g] = md5[g] \/ (Hashing(t, g) /\ md5'[g] \in {Empty, th[t].hash})
    BY <1>0, <1>2 DEF MdFileType, Hashing
  <2>5. md5'[g] = md5[g] \/ (m_mapNameFile[g] = Closed /\ HashFits(g)')
    BY <1>2, <2>3, <2>4 DEF HashFits
  <2> QED BY <1>0, <1>1, <1>2, <2>1, <2>2, <2>5, OrderlyKept
<1> QED BY <1>3

(* A check begins.  It is orderly only if every file is closed. *)
LEMMA OrderlyBegins ==
  ASSUME Inv, Inv', FilesInv, \A g \in Files : OrderlyFile(g), StartVerify, Orderly'
  PROVE  \A g \in Files : OrderlyFile(g)'
<1>0. ClientType /\ ClientType' /\ LostType /\ LostType'
  BY InvParts
<1>1. /\ UNCHANGED <<disk, slots, th, m_mapNameFile, work, sender, run, lost>> /\ lost \in Nat
      /\ ver.at = 0 /\ ver'.at = 1 /\ ver'.bad = ver.bad /\ ~ ver.bad
  BY <1>0, ServerWorkAssumption DEF StartVerify, bounds, LostType, ClientType, FilesInv, VerifiesLate
<1>2. \A g \in Files : m_mapNameFile[g] = Closed
  BY DEF StartVerify, Orderly
<1>3. ASSUME NEW g \in Files
      PROVE  OrderlyFile(g)'
  <2>1. OrderlyFile(g) /\ Same(g) /\ \A t \in Threads : Hashing(t, g)' => Hashing(t, g) /\ th'[t] = th[t]
    BY <1>1 DEF Same, disk, Hashing
  <2>2. JobFor(g)' => JobFor(g)
    BY <1>1, JobsStay DEF slots, FewerThreads, Closing
  <2> QED BY <1>0, <1>1, <1>2, <2>1, <2>2, OrderlyKept DEF Same, Passed
<1> QED BY <1>3

(* The next transfer begins.  It is orderly only if no md5 thread has anything left to do. *)
LEMMA OrderlyAgain ==
  ASSUME Inv, Inv', FilesInv, \A g \in Files : OrderlyFile(g), NextTransfer, Orderly'
  PROVE  \A g \in Files : OrderlyFile(g)'
<1>0. ClientType /\ ClientType' /\ LostType /\ DiskInv /\ SentInv
  BY InvParts DEF DiskInv, FilesInv
<1>1. /\ UNCHANGED <<disk, slots, th, m_mapNameFile, work, lost>> /\ work = Free /\ run' = run + 1
      /\ ver' = [at |-> 0, bad |-> FALSE]
      /\ g_WorkPos = <<>> /\ \A t \in Threads : th[t] = Resting
  <2>1. leftover' = FALSE
    BY <1>0 DEF Orderly, ClientType
  <2> QED BY <2>1 DEF NextTransfer, bounds
<1>3. ver.at > 0
  <2>1. ver.bad \/ ver.at > NFiles
    BY DEF NextTransfer
  <2> QED BY <1>0, <2>1, ServerWorkAssumption DEF FilesInv, VerifiesLate, ClientType
<1>2. ASSUME NEW g \in Files
      PROVE  OrderlyFile(g)'
  <2>1. OrderlyFile(g) /\ Same(g) /\ SentFile(g) /\ m_mapNameFile[g] = Closed /\ g \in Nat /\ g > 0
    BY <1>0, <1>1, <1>3, ServerWorkAssumption DEF Same, disk, OrderlyFile, SentInv
  <2>2. ~ JobFor(g)'
    BY <1>1 DEF JobFor, Closing, Named, Waiting, Copying, Working, Free, WorkAt, Resting, ThreadAt, slots
  <2>3. \A t \in Threads : ~ Hashing(t, g)'
    BY <1>1 DEF Hashing, Resting, ThreadAt
  <2>4. HashFits(g)'
    <3>1. run' - 1 = run
      BY <1>0, <1>1 DEF ClientType
    <3> QED BY <2>1, <3>1 DEF HashFits, SentFile, Same
  <2>5. Installed(g)' /\ final'[g] # Whole(run')
    <3>1. run \in Nat /\ run' \in Nat /\ run' = run + 1
      BY <1>0, <1>1, RunFacts
    <3>2. Whole(run') # NoFile
      <4>1. run' > 0 /\ run' <= MaxRuns
        BY <1>0, <3>1, ServerWorkAssumption DEF ClientType
      <4>2. Whole(run') \in Sent(run')
        BY <3>1, <4>1, WholeIsNew
      <4>3. Sent(run') \subseteq Contents
        BY <3>1, <4>1, SentGrows
      <4> QED BY <4>2, <4>3, ContentsAssumption
    <3>3. \A r \in 1 .. run : Whole(r) # Whole(run')
      BY <3>1, <3>2, WholeIsNew
    <3> QED BY <2>1, <3>1, <3>2, <3>3 DEF OrderlyFile, Installed, Same
  <2> QED BY <1>1, <2>1, <2>2, <2>3, <2>4, <2>5 DEF OrderlyFile, Same
<1> QED BY <1>2

(* The server process is restarted: every file is closed and nothing is left to do. *)
LEMMA OrderlyRestarted ==
  ASSUME Inv, Inv', \A g \in Files : OrderlyFile(g), Restart
  PROVE  \A g \in Files : OrderlyFile(g)'
<1>0. ClientType /\ ClientType' /\ LostType /\ LostType'
  BY InvParts
<1>1. /\ UNCHANGED <<disk, ver, run, unread, lost>> /\ lost \in Nat /\ work' = Free /\ g_WorkPos' = <<>>
      /\ m_mapNameFile' = [f \in Files |-> Closed] /\ th' = [t \in Threads |-> Resting]
  BY <1>0 DEF Restart, LostType
<1>2. \A g \in Files : Passed(g) => Passed(g)'
  <2>1. SenderMoves
    BY DEF Restart, SenderMoves
  <2> QED BY <1>0, <2>1, SenderForward
<1>3. ASSUME NEW g \in Files
      PROVE  OrderlyFile(g)'
  <2>1. OrderlyFile(g) /\ df'[g] = df[g] /\ md5'[g] = md5[g] /\ final'[g] = final[g]
        /\ m_mapNameFile'[g] = Closed
    BY <1>1 DEF disk
  <2>2. ~ JobFor(g)' /\ \A t \in Threads : ~ Hashing(t, g)'
    BY <1>1 DEF JobFor, Closing, Named, Waiting, Copying, Working, Hashing, Free, WorkAt, Resting, ThreadAt
  <2> QED BY <1>0, <1>1, <1>2, <2>1, <2>2, OrderlyKept
<1> QED BY <1>3

LEMMA OrderlyNext ==
  ASSUME Inv, Inv', FilesInv, OrderlyInv, [Next]_vars
  PROVE  OrderlyInv'
<1> SUFFICES ASSUME Orderly'
             PROVE  \A g \in Files : OrderlyFile(g)'
  BY DEF OrderlyInv
<1>1. ClientType /\ LostType /\ lost \in Nat
  BY InvParts DEF LostType
<1>2. Orderly
  <2>1. \/ NextTransfer \/ StartVerify \/ UNCHANGED <<early, leftover>>
    BY ClientMoves DEF Verified
  <2>2. early' = FALSE /\ leftover' = FALSE
    BY <2>1, <1>1 DEF Orderly, ClientType, NextTransfer, StartVerify
  <2> QED BY <2>1, <2>2 DEF Orderly, NextTransfer, StartVerify
<1>3. \A g \in Files : OrderlyFile(g)
  BY <1>2 DEF OrderlyInv
<1>4. CASE UNCHANGED vars
  <2>1. UNCHANGED <<disk, m_mapNameFile, th, ver, run, unread, lost, sender, work, g_WorkPos, g_QueFile>>
    BY <1>4 DEF vars, client, bounds, slots
  <2>2. \A g \in Files : JobFor(g)' => JobFor(g)
    BY <2>1, JobsStay DEF FewerThreads, Closing
  <2> QED BY <1>1, <1>3, <2>1, <2>2, OrderlyIdle DEF SenderMoves
<1>5. CASE StartVerify
  BY <1>3, <1>5, OrderlyBegins
<1>6. CASE NextTransfer
  BY <1>3, <1>6, OrderlyAgain
<1>7. CASE RequestLost
  <2>1. /\ UNCHANGED <<disk, m_mapNameFile, th, ver, run, unread, work, g_WorkPos, g_QueFile>>
        /\ SenderMoves /\ lost' >= lost
    BY <1>1, <1>7 DEF RequestLost, SenderMoves, Lose, slots
  <2>2. \A g \in Files : JobFor(g)' => JobFor(g)
    BY <2>1, JobsStay DEF FewerThreads, Closing
  <2> QED BY <1>3, <2>1, <2>2, OrderlyIdle
<1>8. CASE OpenAFile \/ OpenAFileFails \/ WriteToFile \/ WriteToFileFails \/ CloseAFile
  BY <1>3, <1>8, OrderlyServed
<1>9. CASE CloseTakesSlot \/ ClosePushesSlot
  <2>1. /\ UNCHANGED <<disk, m_mapNameFile, th, ver, run, unread>> /\ lost' >= lost
    BY <1>1, <1>9 DEF CloseTakesSlot, ClosePushesSlot, AnswerSender, Lose, client, bounds
  <2>2. SenderMoves
    <3>1. CASE CloseTakesSlot
      BY <3>1 DEF CloseTakesSlot, client, SenderMoves
    <3>2. CASE ClosePushesSlot
      BY <3>2, InvParts DEF RequestPending, ClosePushesSlot, IsClose, AnswerSender, SenderMoves
    <3> QED BY <1>9, <3>1, <3>2
  <2>3. \A g \in Files : JobFor(g)' => JobFor(g)
    BY <1>9, JobsOfClose DEF FilesInv
  <2> QED BY <1>3, <2>1, <2>2, <2>3, OrderlyIdle
<1>10. CASE CheckMD5 \/ CheckMD5Fails \/ CheckMD5NoFile \/ CheckMD5Builds \/ CheckMD5Compares
  BY <1>3, <1>10, OrderlyChecked
<1>11. CASE \E t \in Threads : Md5Step(t)
  BY <1>3, <1>11, OrderlyMd5
<1>12. CASE Restart
  BY <1>3, <1>12, OrderlyRestarted
<1> QED BY <1>4, <1>5, <1>6, <1>7, <1>8, <1>9, <1>10, <1>11, <1>12 DEF Next, WorkStep, Terminating

LEMMA OrderlyStart == Init => OrderlyInv
<1> SUFFICES ASSUME Init, NEW f \in Files
             PROVE  OrderlyFile(f)
  BY DEF OrderlyInv
<1>1. /\ df[f] = NoFile /\ md5[f] = NoFile /\ final[f] = NoFile /\ m_mapNameFile[f] = Closed
      /\ ver.at = 0 /\ ver.bad = FALSE /\ run = 1
  BY DEF Init
<1>2. /\ ~ JobFor(f) /\ \A t \in Threads : ~ Hashing(t, f)
  BY DEF Init, SlotsInit, JobFor, Closing, Named, Waiting, Copying, Working, Hashing, Free, WorkAt,
         Resting, ThreadAt
<1>3. Whole(run) # NoFile
  <2>1. Inv
    BY InitInv
  <2> QED BY <2>1, InvParts, RunFacts
<1> QED BY <1>1, <1>2, <1>3 DEF OrderlyFile, HashFits, Installed

LEMMA FilesNext == ASSUME Inv, FilesInv, [Next]_vars PROVE FilesInv'
BY SentNext, JobsNext, VerifiesLateNext DEF FilesInv

LEMMA FilesStart == Init => FilesInv
BY SentStart, JobsStart DEF FilesInv, Init, VerifiesLate

LEMMA OrderlyHolds == Spec => [](Inv /\ FilesInv /\ OrderlyInv)
<1>1. Init => Inv /\ FilesInv /\ OrderlyInv
  BY InitInv, FilesStart, OrderlyStart
<1>2. Inv /\ FilesInv /\ OrderlyInv /\ [Next]_vars => (Inv /\ FilesInv /\ OrderlyInv)'
  BY InvNext, FilesNext, OrderlyNext
<1> QED BY <1>1, <1>2, PTL DEF Spec

(* When each check began with all files closed and each transfer with the md5 threads at rest, a check
   fails only for a file that did not arrive whole, or that is installed already, or because the server
   could not open or build its .md5, which it answers as an error
   (QSEPSDF_SSWork::CheckMD5, BuildMd5, ThreadMd5::buildMd5). *)
THEOREM RejectsAreRight == Spec => []RejectsOnlyDamaged
<1>1. Inv /\ FilesInv /\ OrderlyInv => RejectsOnlyDamaged
  <2> SUFFICES ASSUME Inv, FilesInv, OrderlyInv, Orderly, ver.bad, ~ unread
               PROVE  df[ver.at] # Whole(run) /\ (final[ver.at] = Whole(run) => lost > 0)
    BY DEF RejectsOnlyDamaged, RejectMeansDamage
  <2>1. \A f \in Files : OrderlyFile(f)
    BY DEF OrderlyInv
  <2>2. ver.at \in Files
    BY DEF FilesInv, VerifiesLate
  <2> QED BY <2>1, <2>2 DEF OrderlyFile
<1> QED BY OrderlyHolds, <1>1, PTL
-----------------------------------------------------------------------------
(* What is under its own name as long as nothing was lost, in any order of the threads.  The server has
   no file open but the one that is being sent, and of that one exactly the blocks it was sent; a file
   that is not opened yet, and what was hashed of it, is from earlier transfers; and who has the md5 of
   the whole file has it of what the .df is. *)

Opened(f) == sender.f > f \/ (sender.f = f /\ sender.i > 0)
Hashed(f, h) == md5[f] = h \/ \E t \in Threads : Hashing(t, f) /\ th[t].hash = h

OpenFits(f) ==
  LET fp == m_mapNameFile[f] IN fp # Closed =>
    /\ sender.f = f /\ sender.i \in 1 .. MaxChunks + 1
    /\ \/ fp.to = "df" /\ df[f] \o fp.buf = Part(run, sender.i - 1)
       \/ /\ fp.to = "final" /\ fp.buf = <<>> /\ final[f] = Whole(run)
          /\ sender.i = MaxChunks + 1
OldBefore(f) ==
  ~ Opened(f) => /\ df[f] \in Sent(run - 1) \cup {NoFile}
                 /\ \A h : Hashed(f, h) => h \in Sent(run - 1) \cup {NoFile, Empty}
WholeHashed(f) == Hashed(f, Whole(run)) => df[f] \in {NoFile, Whole(run)}

LossfreeFile(f) == OpenFits(f) /\ OldBefore(f) /\ WholeHashed(f) /\ Installed(f)
LossfreeInv == lost = 0 => \A f \in Files : LossfreeFile(f)

(* Of a whole file nothing is left to be written. *)
LEMMA NothingAfterWhole ==
  ASSUME ClientType, NEW a \in Contents, NEW i \in 1 .. MaxChunks + 1,
         Whole(run) \o a = Part(run, i - 1)
  PROVE  i = MaxChunks + 1 /\ a = <<>>
<1>1. MaxChunks \in Nat /\ run \in Nat /\ run > 0 /\ i \in Nat /\ i - 1 \in 0 .. MaxChunks
  BY ServerWorkAssumption, RunFacts
<1>2. Len(Whole(run)) = MaxChunks /\ Len(Part(run, i - 1)) = i - 1 /\ Whole(run) \in Contents
  <2>1. Len(Part(run, i - 1)) = i - 1
    BY <1>1, PartsGrow
  <2>2. MaxChunks \in 0 .. MaxChunks
    BY <1>1
  <2>3. Len(Part(run, MaxChunks)) = MaxChunks
    BY <1>1, <2>2, PartsGrow
  <2> QED BY <1>1, <2>1, <2>3, WholeIsNew, RunFacts
<1>3. Len(Whole(run) \o a) = Len(Whole(run)) + Len(a) /\ Len(a) \in Nat
  BY <1>2, ConcatProperties DEF Contents
<1>4. Len(a) = 0 /\ i = MaxChunks + 1
  BY <1>1, <1>2, <1>3
<1> QED BY <1>4, EmptySeq DEF Contents

(* The i-th WRITE makes the first i - 1 blocks the first i, wherever it leaves its block. *)
LEMMA PartWritten ==
  ASSUME ClientType, NEW i \in 1 .. MaxChunks, NEW x \in Contents, NEW b \in Contents,
         x \o b = Part(run, i - 1)
  PROVE  /\ x \o Append(b, <<run, i>>) = Part(run, i)
         /\ (x \o (b \o <<<<run, i>>>>)) \o <<>> = Part(run, i)
<1> DEFINE block == <<run, i>>
           w == <<block>>
<1>1. /\ MaxChunks \in Nat /\ run \in Nat /\ run > 0 /\ i - 1 \in 0 .. MaxChunks /\ i - 1 < MaxChunks
      /\ (i - 1) + 1 = i
  BY ServerWorkAssumption, RunFacts
<1>2. Part(run, i - 1) \o w = Part(run, i)
  BY <1>1, PartsGrow
<1>3. w \in Contents /\ b \o w \in Contents /\ x \o (b \o w) \in Contents
  <2>1. w \in Contents
    BY <1>1, ContentsGrow, RunFacts
  <2> HIDE DEF w
  <2> QED BY <2>1, ContentsGrow
<1>4. Append(b, block) = b \o w
  <2> DEFINE B == (1 .. MaxRuns) \X (0 .. MaxChunks)
  <2>1. b \in Seq(B) /\ block \in B
    BY <1>1, RunFacts DEF Contents
  <2> HIDE DEF B, block
  <2> QED BY <2>1, AppendIsConcat
<1> HIDE DEF w
<1>5. x \o (b \o w) = Part(run, i)
  <2>1. (x \o b) \o w = x \o (b \o w)
    BY <1>3, ContentsJoin
  <2> QED BY <1>2, <2>1
<1>6. (x \o (b \o w)) \o <<>> = x \o (b \o w)
  BY <1>3, ContentsJoin
<1> QED BY <1>4, <1>5, <1>6 DEF w

LEMMA OpenedForward ==
  ASSUME ClientType, SenderMoves
  PROVE  \A f \in Files : Opened(f) => Opened(f)'
<1>1. /\ sender \in [f : 1 .. NFiles + 1, i : 0 .. MaxChunks + 1, try : 0 .. MaxTry - 1]
      /\ NFiles \in Nat /\ MaxChunks \in Nat /\ MaxTry \in Nat \ {0} /\ Files = 1 .. NFiles
  BY ServerWorkAssumption DEF ClientType
<1>2. /\ sender.f \in Nat /\ sender.i \in Nat /\ sender.f <= NFiles + 1 /\ sender.i <= MaxChunks + 1
  BY <1>1
<1>3. /\ Next1(sender).f = IF sender.i <= MaxChunks THEN sender.f ELSE sender.f + 1
      /\ Next1(sender).i = IF sender.i <= MaxChunks THEN sender.i + 1 ELSE 0
  BY <1>1 DEF Next1
<1>4. \/ Again(sender).f = sender.f /\ Again(sender).i = sender.i
      \/ Again(sender) = Next1(sender)
  BY <1>1 DEF Again
<1>5. \/ sender'.f = sender.f /\ sender'.i = sender.i
      \/ /\ sender'.f = IF sender.i <= MaxChunks THEN sender.f ELSE sender.f + 1
         /\ sender'.i = IF sender.i <= MaxChunks THEN sender.i + 1 ELSE 0
  BY <1>3, <1>4 DEF SenderMoves
<1> QED BY <1>1, <1>2, <1>5 DEF Opened

(* A step that leaves the .df of f as it is, and knows no hash but of it. *)
LEMMA LossfreeKept ==
  ASSUME ClientType, NEW f \in Files, LossfreeFile(f), run' = run, OpenFits(f)',
         df'[f] = df[f], final'[f] = final[f], Opened(f) => Opened(f)',
         \A h : Hashed(f, h)' => Hashed(f, h) \/ h \in {NoFile, Empty, df[f]}
  PROVE  LossfreeFile(f)'
<1>1. Whole(run) # NoFile /\ Whole(run) # Empty
  BY RunFacts
<1>2. OldBefore(f)'
  BY DEF LossfreeFile, OldBefore
<1>3. WholeHashed(f)'
  BY <1>1 DEF LossfreeFile, WholeHashed
<1>4. Installed(f)'
  BY DEF LossfreeFile, Installed
<1> QED BY <1>2, <1>3, <1>4 DEF LossfreeFile

LEMMA HashesStay ==
  ASSUME NEW f, NEW h, Hashed(f, h)', FewerThreads, md5'[f] = md5[f] \/ md5'[f] # h
  PROVE  Hashed(f, h)
BY DEF Hashed, Hashing, FewerThreads, Resting, ThreadAt

(* With nothing lost only a restart makes the sender repeat itself, or give up. *)
LEMMA NothingLost ==
  ASSUME LostType, lost' = 0, AnswerSender
  PROVE  lost = 0 /\ sender' = Next1(sender)
BY DEF LostType, AnswerSender, Lose

(* A step that leaves the files and the hashes alone; what it closes does not matter. *)
LEMMA LossfreeIdle ==
  ASSUME Inv, \A g \in Files : LossfreeFile(g), UNCHANGED <<disk, run>>, FewerThreads, SenderMoves,
         \/ UNCHANGED <<m_mapNameFile, sender>>
         \/ \A g \in Files : m_mapNameFile'[g] = Closed
  PROVE  \A g \in Files : LossfreeFile(g)'
<1>0. ClientType
  BY InvParts
<1>1. ASSUME NEW g \in Files
      PROVE  LossfreeFile(g)'
  <2>1. LossfreeFile(g) /\ df'[g] = df[g] /\ md5'[g] = md5[g] /\ final'[g] = final[g]
    BY DEF disk
  <2>2. OpenFits(g)'
    BY <2>1 DEF LossfreeFile, OpenFits
  <2>3. \A h : Hashed(g, h)' => Hashed(g, h)
    BY <2>1, HashesStay
  <2>4. Opened(g) => Opened(g)'
    BY <1>0, OpenedForward
  <2> QED BY <1>0, <2>1, <2>2, <2>3, <2>4, LossfreeKept
<1> QED BY <1>1

LEMMA LossfreeOpen ==
  ASSUME Inv, Inv', \A g \in Files : LossfreeFile(g), OpenAFile, lost' = 0
  PROVE  \A g \in Files : LossfreeFile(g)'
<1>0. ClientType /\ LostType /\ DiskInv
  BY InvParts
<1>1. /\ ~ SenderDone /\ sender.i = 0 /\ sender' = Next1(sender) /\ run' = run
  BY <1>0, NothingLost DEF OpenAFile, IsOpen, AnswerSender
<1>2. sender.f \in Files /\ sender'.f = sender.f /\ sender'.i = 1 /\ MaxChunks \in Nat /\ MaxChunks > 0
  BY <1>0, <1>1, ServerWorkAssumption DEF ClientType, SenderDone, Next1
<1> PICK f \in Files : f = sender.f
  BY <1>2
<1>3. \A g \in Files : m_mapNameFile[g] = Closed
  BY <1>1 DEF LossfreeFile, OpenFits
<1>4. /\ Others(f) /\ FewerThreads /\ df'[f] = <<>> /\ md5'[f] = NoFile /\ final'[f] = final[f]
      /\ m_mapNameFile'[f] = [to |-> "df", buf |-> <<>>]
  BY <1>0, <1>3, OpenEffect
<1>5. ASSUME NEW g \in Files, g # f
      PROVE  LossfreeFile(g)'
  <2>1. LossfreeFile(g) /\ Same(g)
    BY <1>4, <1>5 DEF Others
  <2>2. OpenFits(g)'
    BY <1>3, <2>1 DEF OpenFits, Same
  <2>3. \A h : Hashed(g, h)' => Hashed(g, h)
    BY <1>4, <2>1, HashesStay DEF Same
  <2>4. Opened(g) => Opened(g)'
    BY <1>0, <1>1, OpenedForward DEF SenderMoves
  <2> QED BY <1>0, <1>1, <2>1, <2>2, <2>3, <2>4, LossfreeKept DEF Same
<1>6. LossfreeFile(f)'
  <2>1. OpenFits(f)'
    <3>1. <<>> \o <<>> = <<>> /\ <<>> = Part(run, 0)
      <4>1. 0 \in 0 .. MaxChunks
        BY <1>2
      <4> QED BY <1>0, <4>1, RunFacts, PartsGrow, ContentsGrow, ContentsJoin
    <3>2. sender'.i - 1 = 0 /\ sender'.i \in 1 .. MaxChunks + 1
      BY <1>2
    <3> QED BY <1>1, <1>2, <1>4, <3>1, <3>2 DEF OpenFits
  <2>2. OldBefore(f)'
    BY <1>2 DEF OldBefore, Opened
  <2>3. WholeHashed(f)'
    <3>1. ~ Opened(f)
      BY <1>0, <1>1 DEF Opened, ClientType
    <3>2. Whole(run) \notin Sent(run - 1) \cup {NoFile, Empty} /\ md5'[f] # Whole(run)
      BY <1>0, <1>4, RunFacts
    <3>3. ~ Hashed(f, Whole(run))
      BY <3>1, <3>2 DEF LossfreeFile, OldBefore
    <3>4. ~ Hashed(f, Whole(run))'
      <4>1. ASSUME NEW h, h = Whole(run), Hashed(f, h)'
            PROVE  FALSE
        BY <1>4, <3>2, <3>3, <4>1, HashesStay
      <4>2. run' = run /\ Whole(run)' = Whole(run)
        BY <1>1 DEF Whole
      <4> QED BY <4>1, <4>2 DEF Hashed
    <3> QED BY <3>4 DEF WholeHashed
  <2>4. Installed(f)'
    BY <1>1, <1>4 DEF LossfreeFile, Installed
  <2> QED BY <2>1, <2>2, <2>3, <2>4 DEF LossfreeFile
<1> QED BY <1>5, <1>6

LEMMA LossfreeWrite ==
  ASSUME Inv, Inv', \A g \in Files : LossfreeFile(g), WriteToFile, lost' = 0
  PROVE  \A g \in Files : LossfreeFile(g)'
<1>0. ClientType /\ LostType /\ DiskInv
  BY InvParts
<1>1. /\ ~ SenderDone /\ sender.i \in 1 .. MaxChunks /\ sender' = Next1(sender) /\ run' = run
  BY <1>0, NothingLost DEF WriteToFile, IsWrite, AnswerSender
<1>2. /\ sender.f \in Files /\ sender'.f = sender.f /\ sender'.i = sender.i + 1
      /\ MaxChunks \in Nat /\ MaxChunks > 0 /\ sender.i \in Nat
  BY <1>0, <1>1, ServerWorkAssumption DEF ClientType, SenderDone, Next1
<1> PICK f \in Files : f = sender.f
  BY <1>2
<1> DEFINE old == m_mapNameFile[f]
           new == m_mapNameFile'[f]
           block == <<run, sender.i>>
<1>3. /\ Others(f) /\ md5' = md5 /\ th' = th
      /\ \/ old = Closed /\ Same(f)
         \/ /\ old # Closed /\ new.to = old.to /\ new.buf = Append(old.buf, block)
            /\ df'[f] = df[f] /\ final'[f] = final[f]
         \/ old # Closed /\ new.to = old.to /\ new.buf = <<>> /\ Written(f, old.buf \o <<block>>)
  BY <1>0, <1>2, WriteEffect
<1>4. FewerThreads /\ \A g \in Files : Opened(g) => Opened(g)'
  BY <1>0, <1>1, <1>3, OpenedForward DEF FewerThreads, SenderMoves
<1>5. \A g \in Files : g # f => m_mapNameFile[g] = Closed
  BY DEF LossfreeFile, OpenFits
<1>6. ASSUME NEW g \in Files, Same(g), m_mapNameFile[g] = Closed
      PROVE  LossfreeFile(g)'
  <2>1. OpenFits(g)'
    BY <1>6 DEF OpenFits, Same
  <2>2. \A h : Hashed(g, h)' => Hashed(g, h)
    BY <1>4, <1>6, HashesStay DEF Same
  <2> QED BY <1>0, <1>1, <1>4, <1>6, <2>1, <2>2, LossfreeKept DEF Same
<1>7. ASSUME old # Closed
      PROVE  LossfreeFile(f)'
  <2>1. /\ old.to = "df" /\ df[f] \o old.buf = Part(run, sender.i - 1)
        /\ old.buf \in Contents /\ df[f] \in Contents
    <3>1. /\ \/ old.to = "df" /\ df[f] \o old.buf = Part(run, sender.i - 1)
             \/ sender.i = MaxChunks + 1
      BY <1>7 DEF LossfreeFile, OpenFits
    <3>2. sender.i # MaxChunks + 1
      BY <1>1, <1>2
    <3>3. old.to = "df" /\ df[f] \o old.buf = Part(run, sender.i - 1)
      BY <3>1, <3>2, Zenon
    <3> QED BY <1>0, <1>7, <3>3 DEF DiskInv, DiskType, OpenFilesExist
  <2>2. /\ df[f] \o Append(old.buf, block) = Part(run, sender.i)
        /\ (df[f] \o (old.buf \o <<block>>)) \o <<>> = Part(run, sender.i)
    BY <1>0, <1>1, <2>1, PartWritten
  <2>3. new.to = "df" /\ df'[f] \o new.buf = Part(run, sender.i) /\ final'[f] = final[f]
    BY <1>3, <1>7, <2>1, <2>2 DEF Written
  <2>4. OpenFits(f)'
    <3>1. sender'.i - 1 = sender.i /\ sender'.i \in 1 .. MaxChunks + 1
      BY <1>1, <1>2
    <3> QED BY <1>1, <1>2, <2>3, <3>1 DEF OpenFits
  <2>5. OldBefore(f)'
    BY <1>2 DEF OldBefore, Opened
  <2>6. WholeHashed(f)'
    <3>1. ~ Hashed(f, Whole(run))
      <4>1. df[f] # NoFile
        BY <2>1, ContentsAssumption
      <4>2. df[f] # Whole(run)
        <5>1. sender.i \in 1 .. MaxChunks + 1 /\ sender.i # MaxChunks + 1
          BY <1>1, <1>2
        <5> QED BY <1>0, <2>1, <5>1, NothingAfterWhole
      <4> QED BY <4>1, <4>2 DEF LossfreeFile, WholeHashed
    <3>2. ~ Hashed(f, Whole(run))'
      BY <1>1, <1>3, <3>1 DEF Hashed, Hashing, Whole
    <3> QED BY <3>2 DEF WholeHashed
  <2>7. Installed(f)'
    BY <1>1, <2>3 DEF LossfreeFile, Installed
  <2> QED BY <2>4, <2>5, <2>6, <2>7 DEF LossfreeFile
<1>8. ASSUME NEW g \in Files, g # f
      PROVE  LossfreeFile(g)'
  BY <1>3, <1>5, <1>6, <1>8 DEF Others
<1> QED BY <1>3, <1>6, <1>7, <1>8

LEMMA LossfreeClose ==
  ASSUME Inv, Inv', \A g \in Files : LossfreeFile(g), CloseAFile
  PROVE  \A g \in Files : LossfreeFile(g)'
<1>0. ClientType /\ DiskInv
  BY InvParts
<1>1. ~ SenderDone /\ sender.i = MaxChunks + 1 /\ UNCHANGED <<sender, run>>
  BY DEF CloseAFile, IsClose, client
<1>2. sender.f \in Files /\ MaxChunks \in Nat /\ MaxChunks > 0
  BY <1>0, <1>1, ServerWorkAssumption DEF ClientType, SenderDone
<1> PICK f \in Files : f = sender.f
  BY <1>2
<1> DEFINE old == m_mapNameFile[f]
<1>3. /\ Others(f) /\ md5' = md5 /\ th' = th /\ m_mapNameFile'[f] = Closed
      /\ old = Closed => df'[f] = df[f] /\ final'[f] = final[f]
      /\ old # Closed => Written(f, old.buf)
  BY <1>0, <1>2, CloseEffect
<1>4. ASSUME NEW g \in Files
      PROVE  /\ \A h : Hashed(g, h)' => Hashed(g, h)
             /\ Opened(g) => Opened(g)'
  BY <1>1, <1>3 DEF Hashed, Hashing, Opened
<1>5. ASSUME NEW g \in Files, df'[g] = df[g], final'[g] = final[g], m_mapNameFile'[g] = Closed
      PROVE  LossfreeFile(g)'
  <2>1. OpenFits(g)'
    BY <1>5 DEF OpenFits
  <2> QED BY <1>0, <1>1, <1>4, <1>5, <2>1, LossfreeKept
<1>6. ASSUME NEW g \in Files, g # f
      PROVE  LossfreeFile(g)'
  BY <1>3, <1>5, <1>6 DEF Others, Same, LossfreeFile, OpenFits
<1>7. ASSUME old # Closed
      PROVE  LossfreeFile(f)'
  <2>1. \/ old.to = "df" /\ df[f] \o old.buf = Part(run, sender.i - 1)
        \/ old.to = "final" /\ old.buf = <<>>
    BY <1>7 DEF LossfreeFile, OpenFits
  <2>2. CASE old.to = "df" /\ df[f] \o old.buf = Part(run, sender.i - 1)
    <3>1. df'[f] = Whole(run) /\ final'[f] = final[f]
      <4>1. sender.i - 1 = MaxChunks /\ Whole(run) = Part(run, MaxChunks)
        BY <1>0, <1>1, <1>2, RunFacts, WholeIsNew
      <4> QED BY <1>3, <1>7, <2>2, <4>1 DEF Written
    <3>2. OldBefore(f)'
      <4>1. Opened(f)'
        BY <1>1, <1>2 DEF Opened
      <4> QED BY <4>1 DEF OldBefore
    <3>3. OpenFits(f)' /\ WholeHashed(f)' /\ Installed(f)'
      BY <1>1, <1>3, <3>1 DEF OpenFits, WholeHashed, Installed, LossfreeFile
    <3> QED BY <3>2, <3>3 DEF LossfreeFile
  <2>3. CASE old.to = "final" /\ old.buf = <<>>
    <3>1. final[f] \o <<>> = final[f]
      <4>1. final[f] \in Contents
        BY <1>0, <1>7, <2>3 DEF DiskInv, OpenFilesExist
      <4> QED BY <4>1, ContentsJoin
    <3>2. df'[f] = df[f] /\ final'[f] = final[f]
      BY <1>3, <1>7, <2>3, <3>1 DEF Written
    <3> QED BY <1>3, <1>5, <3>2
  <2> QED BY <2>1, <2>2, <2>3
<1> QED BY <1>3, <1>5, <1>6, <1>7

(* A step that changes at most what is known of the .df. *)
LEMMA LossfreeHashed ==
  ASSUME Inv, \A g \in Files : LossfreeFile(g), UNCHANGED <<df, final, m_mapNameFile, sender, run>>,
         \A g \in Files : \A h : Hashed(g, h)' => Hashed(g, h) \/ h \in {NoFile, Empty, df[g]}
  PROVE  \A g \in Files : LossfreeFile(g)'
<1>0. ClientType
  BY InvParts
<1>1. ASSUME NEW g \in Files
      PROVE  LossfreeFile(g)'
  <2>1. OpenFits(g)' /\ (Opened(g) => Opened(g)')
    BY DEF LossfreeFile, OpenFits, Opened
  <2> QED BY <1>0, <2>1, LossfreeKept
<1> QED BY <1>1

LEMMA LossfreeInstalled ==
  ASSUME Inv, \A g \in Files : LossfreeFile(g), UNCHANGED <<sender, run>>,
         NEW f \in Files, Install(f), df[f] = Whole(run)
  PROVE  \A g \in Files : LossfreeFile(g)'
<1>0. ClientType /\ DiskInv /\ MdFileType
  BY InvParts DEF DiskInv, DiskType, MdFileType
<1>1. /\ Others(f) /\ FewerThreads
      /\ df'[f] = NoFile /\ md5'[f] = NoFile /\ final'[f] = df[f]
      /\ m_mapNameFile[f] = Closed => m_mapNameFile'[f] = Closed
      /\ m_mapNameFile[f] # Closed =>
           m_mapNameFile'[f].to = "final" /\ m_mapNameFile'[f].buf = m_mapNameFile[f].buf
  BY <1>0, InstallEffect
<1>2. ASSUME NEW g \in Files, g # f
      PROVE  LossfreeFile(g)'
  <2>1. LossfreeFile(g) /\ Same(g)
    BY <1>1, <1>2 DEF Others
  <2>2. OpenFits(g)' /\ (Opened(g) => Opened(g)')
    BY <2>1 DEF LossfreeFile, OpenFits, Opened, Same
  <2>3. \A h : Hashed(g, h)' => Hashed(g, h)
    BY <1>1, <2>1, HashesStay DEF Same
  <2> QED BY <1>0, <2>1, <2>2, <2>3, LossfreeKept DEF Same
<1>3. LossfreeFile(f)'
  <2> DEFINE old == m_mapNameFile[f]
  <2>1. ASSUME old # Closed
        PROVE  sender.f = f /\ sender.i = MaxChunks + 1 /\ old.buf = <<>>
               /\ sender.i \in 1 .. MaxChunks + 1
    <3>1. /\ sender.f = f /\ sender.i \in 1 .. MaxChunks + 1
          /\ \/ df[f] \o old.buf = Part(run, sender.i - 1)
             \/ old.buf = <<>> /\ sender.i = MaxChunks + 1
      BY <2>1 DEF LossfreeFile, OpenFits
    <3>2. CASE df[f] \o old.buf = Part(run, sender.i - 1)
      <4>1. old.buf \in Contents
        BY <1>0, <2>1 DEF DiskInv, DiskType
      <4> HIDE DEF old
      <4> QED BY <1>0, <3>1, <3>2, <4>1, NothingAfterWhole
    <3> QED BY <3>1, <3>2
  <2>2. OpenFits(f)'
    BY <1>1, <2>1 DEF OpenFits, Whole
  <2>3. \A h : Hashed(f, h)' => Hashed(f, h) \/ h = NoFile
    BY <1>1, HashesStay
  <2>4. OldBefore(f)'
    BY <1>1, <2>3 DEF LossfreeFile, OldBefore, Opened
  <2>5. WholeHashed(f)'
    BY <1>1 DEF WholeHashed
  <2>6. Installed(f)'
    BY <1>0, <1>1, RunFacts DEF Installed
  <2> QED BY <2>2, <2>4, <2>5, <2>6 DEF LossfreeFile
<1> QED BY <1>2, <1>3

LEMMA LossfreeChecked ==
  ASSUME Inv, Inv', FilesInv, \A g \in Files : LossfreeFile(g), lost = 0, lost' = 0,
         CheckMD5 \/ CheckMD5NoFile \/ CheckMD5Builds \/ CheckMD5Compares
  PROVE  \A g \in Files : LossfreeFile(g)'
<1>0. \A g : ~ InstallFails(g)
  BY DEF InstallFails, FailVerify, Lose
<1>1. ClientType /\ DiskInv /\ MdFileType /\ RequestPending /\ work \in WorkStates /\ SentInv
  BY InvParts DEF DiskInv, DiskType, MdFileType, SlotInv, FilesInv
<1>2. Verifying => ver.at \in Files
  BY ServerWorkAssumption DEF Verifying
<1>3. UNCHANGED <<sender, run>>
  BY <1>0 DEF CheckMD5, CheckMD5NoFile, CheckMD5Builds, CheckMD5Compares, AnswerVerify, client
<1>4. CASE CheckMD5
  <2>1. /\ Verifying /\ df[ver.at] # NoFile
        /\ IF Good(md5[ver.at]) THEN Install(ver.at) ELSE Keep
    BY <1>0, <1>4 DEF CheckMD5
  <2> PICK f \in Files : f = ver.at
    BY <1>2, <2>1
  <2>2. CASE Good(md5[f])
    <3>1. Hashed(f, Whole(run)) /\ LossfreeFile(f)
      BY <2>2 DEF Good, Hashed
    <3>2. Install(f) /\ df[f] = Whole(run)
      BY <2>1, <2>2, <3>1 DEF LossfreeFile, WholeHashed
    <3> QED BY <1>3, <3>2, LossfreeInstalled
  <2>3. CASE ~ Good(md5[f])
    BY <1>3, <2>1, <2>3, LossfreeHashed DEF Keep, disk, Hashed, Hashing
  <2> QED BY <2>2, <2>3
<1>5. CASE CheckMD5NoFile
  BY <1>3, <1>5, LossfreeHashed DEF CheckMD5NoFile, disk, Hashed, Hashing
<1>6. CASE CheckMD5Builds
  <2>1. /\ Verifying /\ UNCHANGED <<df, final, th, m_mapNameFile>>
        /\ md5' = [md5 EXCEPT ![ver.at] = Empty]
    BY <1>6 DEF CheckMD5Builds
  <2>2. \A g \in Files : md5'[g] = md5[g] \/ md5'[g] = Empty
    BY <1>1, <2>1 DEF MdFileType
  <2>3. \A g \in Files : \A h : Hashed(g, h)' => Hashed(g, h) \/ h = Empty
    BY <2>1, <2>2 DEF Hashed, Hashing
  <2> QED BY <1>3, <2>1, <2>3, LossfreeHashed
<1>7. CASE CheckMD5Compares
  <2>1. /\ work.op = "built" /\ work.f \in Files /\ work.hash = df[work.f]
        /\ IF Good(work.hash) THEN Install(work.f)
           ELSE md5' = [md5 EXCEPT ![work.f] = work.hash] /\ UNCHANGED <<df, final, th, m_mapNameFile>>
    BY <1>0, <1>1, <1>2, <1>7 DEF CheckMD5Compares, RequestPending, SentInv, BuiltFits
  <2> PICK f \in Files : f = work.f
    BY <2>1
  <2>2. CASE Good(work.hash)
    BY <1>3, <2>1, <2>2, LossfreeInstalled DEF Good
  <2>3. CASE ~ Good(work.hash)
    <3>1. md5' = [md5 EXCEPT ![f] = df[f]] /\ UNCHANGED <<df, final, th, m_mapNameFile>>
      BY <2>1, <2>3
    <3>2. \A g \in Files : md5'[g] = md5[g] \/ md5'[g] = df[g]
      BY <1>1, <3>1 DEF MdFileType
    <3>3. \A g \in Files : \A h : Hashed(g, h)' => Hashed(g, h) \/ h = df[g]
      BY <3>1, <3>2 DEF Hashed, Hashing
    <3> QED BY <1>3, <3>1, <3>3, LossfreeHashed
  <2> QED BY <2>2, <2>3
<1> QED BY <1>4, <1>5, <1>6, <1>7

LEMMA LossfreeMd5 ==
  ASSUME Inv, \A g \in Files : LossfreeFile(g), NEW t \in Threads, Md5Step(t)
  PROVE  \A g \in Files : LossfreeFile(g)'
<1>1. SlotInv /\ MdFileType
  BY InvParts DEF DiskInv, DiskType, MdFileType
<1>2. ThreadStep(t) /\ UNCHANGED <<m_mapNameFile, sender, run>>
  BY DEF Md5Step, client
<1>3. /\ UNCHANGED <<df, final>> /\ \A u \in Threads : u # t => th'[u] = th[u]
      /\ \/ th'[t].st \notin {"open", "write"} /\ md5' = md5
         \/ /\ th[t].st = "read" /\ Hashing(t, th[t].f)' /\ th'[t].f = th[t].f
            /\ th'[t].hash = df[th[t].f] /\ df[th[t].f] # NoFile /\ md5' = md5
         \/ /\ Hashing(t, th[t].f) /\ th'[t].st = "write"
            /\ th'[t].f = th[t].f /\ th'[t].hash = th[t].hash
            /\ md5' = [md5 EXCEPT ![th[t].f] = Empty]
         \/ /\ Hashing(t, th[t].f) /\ th'[t] = Resting
            /\ md5' = [md5 EXCEPT ![th[t].f] = th[t].hash]
  BY <1>1, <1>2, ThreadEffect
<1>4. ASSUME NEW g \in Files, NEW h, Hashed(g, h)'
      PROVE  Hashed(g, h) \/ h \in {NoFile, Empty, df[g]}
  <2>1. md5'[g] = md5[g] \/ md5'[g] = Empty \/ (Hashing(t, g) /\ md5'[g] = th[t].hash)
    BY <1>1, <1>3 DEF MdFileType, Hashing
  <2>2. \A u \in Threads : Hashing(u, g)' =>
          th'[u].hash = df[g] \/ (Hashing(u, g) /\ th'[u].hash = th[u].hash)
    BY <1>3 DEF Hashing, Resting, ThreadAt
  <2> QED BY <1>4, <2>1, <2>2 DEF Hashed
<1> QED BY <1>2, <1>3, <1>4, LossfreeHashed

LEMMA LossfreeAgain ==
  ASSUME Inv, Inv', FilesInv, \A g \in Files : LossfreeFile(g), NextTransfer
  PROVE  \A g \in Files : LossfreeFile(g)'
<1>0. ClientType /\ ClientType' /\ SentInv
  BY InvParts DEF FilesInv
<1>1. UNCHANGED <<disk, th, m_mapNameFile>> /\ run' = run + 1 /\ sender' = First /\ SenderDone
  BY DEF NextTransfer
<1>2. ASSUME NEW g \in Files
      PROVE  LossfreeFile(g)'
  <2>1. LossfreeFile(g) /\ SentFile(g) /\ df'[g] = df[g] /\ md5'[g] = md5[g] /\ final'[g] = final[g]
    BY <1>0, <1>1 DEF disk, SentInv
  <2>2. OpenFits(g)'
    <3>1. g # sender.f
      BY <1>0, <1>1, ServerWorkAssumption DEF SenderDone, ClientType
    <3> QED BY <1>1, <2>1, <3>1 DEF LossfreeFile, OpenFits
  <2>3. run \in Nat /\ run' \in Nat /\ run' - 1 = run /\ run' <= MaxRuns
    BY <1>0, <1>1, RunFacts, ServerWorkAssumption DEF ClientType
  <2>4. \A h : Hashed(g, h)' => h \in Sent(run) \cup {NoFile, Empty}
    BY <1>0, <1>1, <2>1 DEF Hashed, Hashing, SentInv, SentHashes, SentFile
  <2>5. OldBefore(g)'
    BY <2>1, <2>3, <2>4 DEF OldBefore, SentFile
  <2>6. WholeHashed(g)'
    <3>1. Whole(run') \notin Sent(run) \cup {NoFile, Empty}
      <4>1. Whole(run') \notin Sent(run)
        BY <1>0, <1>1, RunFacts
      <4>2. Whole(run') \in Contents
        <5>1. run' > 0 /\ MaxRuns \in Nat
          BY <1>0, <1>1, <2>3, RunFacts, ServerWorkAssumption
        <5>2. Whole(run') \in Sent(run') /\ Sent(run') \subseteq Sent(MaxRuns)
          BY <2>3, <5>1, WholeIsNew, SentGrows
        <5> QED BY <5>2 DEF Sent, Contents
      <4> QED BY <4>1, <4>2, ContentsAssumption
    <3>2. ASSUME NEW h, h = Whole(run'), Hashed(g, h)'
          PROVE  FALSE
      BY <2>4, <3>1, <3>2
    <3>3. ~ Hashed(g, Whole(run))'
      <4>1. Whole(run') = Whole(run)'
        BY DEF Whole
      <4> QED BY <3>2, <4>1 DEF Hashed
    <3> QED BY <3>3 DEF WholeHashed
  <2>7. Installed(g)'
    BY <1>1, <2>1, <2>3 DEF LossfreeFile, Installed
  <2> QED BY <2>2, <2>5, <2>6, <2>7 DEF LossfreeFile
<1> QED BY <1>2

LEMMA LossfreeNext ==
  ASSUME Inv, Inv', FilesInv, LossfreeInv, [Next]_vars
  PROVE  LossfreeInv'
<1> SUFFICES ASSUME lost' = 0
             PROVE  \A g \in Files : LossfreeFile(g)'
  BY DEF LossfreeInv
<1>1. LostType
  BY InvParts
<1>2. lost = 0
  <2>1. ASSUME \/ OpenAFile \/ OpenAFileFails \/ WriteToFile \/ WriteToFileFails
               \/ ClosePushesSlot \/ RequestLost
        PROVE  lost' = lost \/ lost' = lost + 1
    BY <2>1 DEF OpenAFile, OpenAFileFails, WriteToFile, WriteToFileFails, ClosePushesSlot, RequestLost,
       AnswerSender, FailSender, Lose
  <2>2. ASSUME CheckMD5 \/ CheckMD5Fails \/ CheckMD5NoFile \/ CheckMD5Builds \/ CheckMD5Compares
        PROVE  lost' = lost \/ lost' = lost + 1
    <3>1. \/ \E good \in BOOLEAN : AnswerVerify(good)
          \/ \E v : FailVerify(v)
          \/ UNCHANGED lost
      BY <2>2 DEF CheckMD5, CheckMD5Fails, CheckMD5NoFile, CheckMD5Builds, CheckMD5Compares, InstallFails,
         Good, bounds
    <3> QED BY <3>1 DEF AnswerVerify, FailVerify, Lose
  <2>3. lost' = lost \/ lost' = lost + 1
    BY <2>1, <2>2 DEF Next, WorkStep, vars, bounds, StartVerify, NextTransfer, CloseAFile,
       CloseTakesSlot, Md5Step, Restart, Terminating
  <2> QED BY <1>1, <2>3 DEF LostType
<1>3. \A g \in Files : LossfreeFile(g)
  BY <1>2 DEF LossfreeInv
<1>4. CASE UNCHANGED vars \/ StartVerify \/ CloseTakesSlot
  <2>1. UNCHANGED <<disk, th, m_mapNameFile, sender, run>>
    BY <1>4 DEF vars, client, StartVerify, CloseTakesSlot
  <2> QED BY <1>3, <2>1, LossfreeIdle DEF FewerThreads, SenderMoves
<1>5. CASE NextTransfer
  BY <1>3, <1>5, LossfreeAgain
<1>6. CASE RequestLost \/ OpenAFileFails \/ WriteToFileFails \/ CheckMD5Fails
  BY <1>2, <1>6 DEF RequestLost, OpenAFileFails, WriteToFileFails, CheckMD5Fails, FailSender, FailVerify,
     Lose
<1>7. CASE OpenAFile \/ WriteToFile \/ CloseAFile
  BY <1>3, <1>7, LossfreeOpen, LossfreeWrite, LossfreeClose
<1>8. CASE ClosePushesSlot
  <2>1. UNCHANGED <<disk, th, m_mapNameFile, run>> /\ AnswerSender /\ work.op = "push"
    BY <1>8 DEF ClosePushesSlot, AnswerSender
  <2>2. ~ SenderDone /\ work.f = sender.f /\ sender' = Next1(sender) /\ m_mapNameFile[work.f] = Closed
    BY <1>1, <2>1, InvParts, NothingLost DEF RequestPending, IsClose, FilesInv, SentInv, HandedClosed
  <2>3. \A g \in Files : m_mapNameFile'[g] = Closed
    BY <1>3, <2>1, <2>2 DEF LossfreeFile, OpenFits
  <2> QED BY <1>3, <2>1, <2>2, <2>3, LossfreeIdle DEF FewerThreads, SenderMoves
<1>9. CASE CheckMD5 \/ CheckMD5NoFile \/ CheckMD5Builds \/ CheckMD5Compares
  BY <1>2, <1>3, <1>9, LossfreeChecked
<1>10. CASE \E t \in Threads : Md5Step(t)
  BY <1>3, <1>10, LossfreeMd5
<1>11. CASE Restart
  <2>1. UNCHANGED <<disk, run>> /\ SenderMoves /\ \A g \in Files : m_mapNameFile'[g] = Closed
    BY <1>11 DEF Restart, SenderMoves
  <2>2. ASSUME NEW g \in Files
        PROVE  LossfreeFile(g)'
    <3>1. ClientType /\ LossfreeFile(g)
      BY <1>3, InvParts
    <3>2. df'[g] = df[g] /\ md5'[g] = md5[g] /\ final'[g] = final[g] /\ OpenFits(g)'
      BY <2>1 DEF disk, OpenFits
    <3>3. \A h : Hashed(g, h)' => Hashed(g, h)
      BY <1>11, <3>2 DEF Restart, Hashed, Hashing, Resting, ThreadAt
    <3>4. Opened(g) => Opened(g)'
      BY <2>1, <3>1, OpenedForward
    <3> QED BY <2>1, <3>1, <3>2, <3>3, <3>4, LossfreeKept
  <2> QED BY <2>2
<1> QED BY <1>4, <1>5, <1>6, <1>7, <1>8, <1>9, <1>10, <1>11 DEF Next, WorkStep, Terminating

LEMMA LossfreeStart == Init => LossfreeInv
<1> SUFFICES ASSUME Init, NEW f \in Files
             PROVE  LossfreeFile(f)
  BY DEF LossfreeInv
<1>1. /\ df[f] = NoFile /\ md5[f] = NoFile /\ final[f] = NoFile /\ m_mapNameFile[f] = Closed
      /\ \A t \in Threads : ~ Hashing(t, f)
  BY DEF Init, SlotsInit, Hashing, Resting, ThreadAt
<1> QED BY <1>1 DEF LossfreeFile, OpenFits, OldBefore, WholeHashed, Hashed, Installed

(* A file under its own name is one version of it, whole: in any order of the threads as long as nothing
   was lost or failed, and whatever was lost or failed and however often the server was restarted when
   each check began with all files closed and each transfer with the md5 threads at rest
   (QSEPSDF_SSWork::OpenAFile, WriteToFile, CloseAFile and CheckMD5, ThreadMd5::buildMd5). *)
THEOREM InstalledFilesAreWhole == Spec => []InstalledIsWhole
<1>1. Init => Inv /\ FilesInv /\ OrderlyInv /\ LossfreeInv
  BY InitInv, FilesStart, OrderlyStart, LossfreeStart
<1>2. Inv /\ FilesInv /\ OrderlyInv /\ LossfreeInv /\ [Next]_vars
        => (Inv /\ FilesInv /\ OrderlyInv /\ LossfreeInv)'
  BY InvNext, FilesNext, OrderlyNext, LossfreeNext
<1>3. OrderlyInv /\ LossfreeInv => InstalledIsWhole
  <2> SUFFICES ASSUME OrderlyInv, LossfreeInv, Orderly \/ lost = 0, NEW f \in Files
               PROVE  final[f] \in {NoFile} \cup {Whole(r) : r \in 1 .. run}
    BY DEF InstalledIsWhole, InstalledWhole
  <2>1. Installed(f)
    BY DEF OrderlyInv, OrderlyFile, LossfreeInv, LossfreeFile
  <2> QED BY <2>1 DEF Installed
<1> QED BY <1>1, <1>2, <1>3, PTL DEF Spec
=============================================================================
