-------------------------- MODULE UpdateCycleProofs --------------------------
(***************************************************************************)
(* Proofs about the two programs of UpdateCycle, for every number of       *)
(* machines, rounds and losses.  First what the requests of both programs  *)
(* do to a machine, whichever server runs on it; then what each position   *)
(* of the round asks for; then the inductive invariant Inv, which says     *)
(* what a position implies about the machines, and the theorems.           *)
(***************************************************************************)
EXTENDS UpdateCycle, SequenceTheorems, TLAPS

(* The states of a machine that is asked for nothing but creates, renames and removes. *)
Texts == Seq(Items) \cup {NoFile}
Bound == Names \cup {Closed, Gone}
Machine ==
  [disk : [Names -> Texts], m_mapNameFile : [Files -> Bound], m_mapList : [Lists -> Bound],
   jobs : {<<>>}, hashing : {{}}, m_mapProcPid : {{}}, procs : {[p \in Pids |-> NoProcess]}]

LEMMA Extended ==
  ASSUME NEW s \in Machine, NEW n \in Names, NEW c \in Seq(Items)
  PROVE  /\ Extend(s, n, c) \in Machine
         /\ \A x \in Names : x # n => Extend(s, n, c).disk[x] = s.disk[x]
         /\ Exists(Extend(s, n, c), n)
<1> DEFINE t == (IF s.disk[n] = NoFile THEN <<>> ELSE s.disk[n]) \o c
<1>1. t \in Seq(Items) /\ t # NoFile
  <2>1. s.disk[n] \in Texts
    BY DEF Machine
  <2>2. (IF s.disk[n] = NoFile THEN <<>> ELSE s.disk[n]) \in Seq(Items)
    BY <2>1, EmptySeq DEF Texts
  <2>3. t \in Seq(Items)
    BY <2>2, ConcatProperties
  <2>4. NoFile \notin Seq(Items)
    BY UpdateCycleAssumption DEF Items
  <2> QED BY <2>3, <2>4
<1>2. Extend(s, n, c) = [s EXCEPT !.disk = [s.disk EXCEPT ![n] = t]]
  BY DEF Extend
<1> HIDE DEF t
<1>3. s.disk \in [Names -> Texts]
  BY DEF Machine
<1>4. [s.disk EXCEPT ![n] = t] \in [Names -> Texts]
  BY <1>1, <1>3 DEF Texts
<1>5. Extend(s, n, c) \in Machine /\ Extend(s, n, c).disk = [s.disk EXCEPT ![n] = t]
  BY <1>2, <1>4 DEF Machine
<1> QED BY <1>1, <1>3, <1>5 DEF Exists

LEMMA Written ==
  ASSUME NEW s \in Machine, NEW n \in Names
  PROVE  /\ Write(s, n, <<>>) \in Machine
         /\ \A x \in Names : x # n => Write(s, n, <<>>).disk[x] = s.disk[x]
<1>1. <<>> \in Texts
  BY DEF Texts, Items
<1>2. Write(s, n, <<>>) = [s EXCEPT !.disk = [s.disk EXCEPT ![n] = <<>>]]
  BY DEF Write
<1>3. [s.disk EXCEPT ![n] = <<>>] \in [Names -> Texts]
  BY <1>1 DEF Machine
<1> QED BY <1>2, <1>3 DEF Machine

LEMMA Rebound ==
  ASSUME NEW s \in Machine, NEW a, NEW b \in Bound
  PROVE  /\ Rebind(s, a, b) \in Machine
         /\ Rebind(s, a, b).disk = s.disk
<1> QED BY DEF Rebind, Machine, Bound

LEMMA Unlinked ==
  ASSUME NEW s \in Machine, NEW n \in Names
  PROVE  /\ Unlink(s, n) \in Machine
         /\ \A x \in Names : x # n => Unlink(s, n).disk[x] = s.disk[x]
         /\ ~Exists(Unlink(s, n), n)
<1> DEFINE t == Rebind(s, n, Gone)
<1>1. t \in Machine /\ t.disk = s.disk
  BY Rebound DEF Bound
<1>2. Unlink(s, n) = [t EXCEPT !.disk = [t.disk EXCEPT ![n] = NoFile], !.hashing = {j \in t.hashing : Md5(j.f) # n}]
  BY DEF Unlink
<1>3. {j \in t.hashing : Md5(j.f) # n} = {}
  BY <1>1 DEF Machine
<1> HIDE DEF t
<1>4. Unlink(s, n) = [t EXCEPT !.disk = [t.disk EXCEPT ![n] = NoFile], !.hashing = {}]
  BY <1>2, <1>3
<1>5. Unlink(s, n).disk = [t.disk EXCEPT ![n] = NoFile]
  BY <1>1, <1>4 DEF Machine
<1>6. [t.disk EXCEPT ![n] = NoFile] \in [Names -> Texts]
  BY <1>1 DEF Machine, Texts
<1>7. Unlink(s, n) \in Machine
  BY <1>1, <1>4, <1>6 DEF Machine
<1> QED BY <1>1, <1>5, <1>7 DEF Machine, Exists

LEMMA Renamed ==
  ASSUME NEW s \in Machine, NEW a \in Names, NEW b \in Names, a # b
  PROVE  /\ Rename(s, a, b) \in Machine
         /\ \A x \in Names : x # a /\ x # b => Rename(s, a, b).disk[x] = s.disk[x]
         /\ ~Exists(Rename(s, a, b), a)
<1> DEFINE t == Rebind(s, a, b)
<1>1. t \in Machine /\ t.disk = s.disk
  BY Rebound DEF Bound
<1>2. Rename(s, a, b) = [t EXCEPT !.disk = [t.disk EXCEPT ![a] = NoFile, ![b] = s.disk[a]]]
  BY DEF Rename
<1> HIDE DEF t
<1>3. s.disk \in [Names -> Texts] /\ NoFile \in Texts
  BY DEF Machine, Texts
<1>4. [s.disk EXCEPT ![a] = NoFile, ![b] = s.disk[a]] \in [Names -> Texts]
  BY <1>3
<1>5. Rename(s, a, b) \in Machine /\ Rename(s, a, b).disk = [s.disk EXCEPT ![a] = NoFile, ![b] = s.disk[a]]
  BY <1>1, <1>2, <1>4 DEF Machine
<1> QED BY <1>3, <1>5 DEF Exists

(* What a machine may answer to each of the three requests the programs make, whichever server runs on it. *)
LEMMA ServesCreate ==
  ASSUME NEW m, NEW symbol, NEW data, NEW k, NEW o \in Serve(k, Create(m, symbol, data).req)
  PROVE  o \in CreateAFile(mach[k], Final(symbol), data)
<1> DEFINE req == Create(m, symbol, data).req
<1>1. req.op = "CREATE_FILE" /\ req.n = Final(symbol) /\ req.data = data
  BY DEF Create
<1> HIDE DEF req
<1>2. Work(mach[k], req) = CreateAFile(mach[k], req.n, req.data)
  BY <1>1 DEF Work
<1>3. IS!Work(mach[k], req) = CreateAFile(mach[k], req.n, req.data)
  BY <1>1 DEF IS!Work, IS!CreateAFile, IS!SS!CreateAFile, CreateAFile, IS!SS!Fails, IS!SS!Answer, Fails, Answer,
     IS!SS!Extend, Extend
<1> QED BY <1>1, <1>2, <1>3 DEF Serve, req

LEMMA ServesTake ==
  ASSUME NEW m, NEW k, NEW o \in Serve(k, TakeList(m).req)
  PROVE  o \in RenameFile(mach[k], Final(List), <<List, "smtmp">>)
<1> DEFINE req == TakeList(m).req
<1>1. req.op = "RENAME_FILE" /\ req.n = Final(List) /\ req.to = <<List, "smtmp">>
  BY DEF TakeList
<1> HIDE DEF req
<1>2. Work(mach[k], req) = RenameFile(mach[k], req.n, req.to)
  BY <1>1 DEF Work
<1>3. IS!Work(mach[k], req) = RenameFile(mach[k], req.n, req.to)
  BY <1>1 DEF IS!Work, IS!RenameFile, IS!SS!RenameFile, RenameFile, IS!SS!Answer, Answer, IS!SS!Exists, Exists,
     IS!SS!Rename, Rename, IS!SS!Rebind, Rebind
<1> QED BY <1>1, <1>2, <1>3 DEF Serve, req

LEMMA ServesDrop ==
  ASSUME NEW m, NEW symbol, NEW k, NEW o \in Serve(k, Drop(m, symbol).req)
  PROVE  o \in RemoveFile(mach[k], Final(symbol))
<1> DEFINE req == Drop(m, symbol).req
<1>1. req.op = "DEL_FILE" /\ req.n = Final(symbol)
  BY DEF Drop
<1> HIDE DEF req
<1>2. Work(mach[k], req) = RemoveFile(mach[k], req.n)
  BY <1>1 DEF Work
<1>3. IS!Work(mach[k], req) = RemoveFile(mach[k], req.n)
  BY <1>1 DEF IS!Work, IS!RemoveFile, IS!SS!RemoveFile, RemoveFile, IS!SS!Answer, Answer, IS!SS!Exists, Exists,
     IS!SS!Unlink, Unlink, IS!SS!Rebind, Rebind, IS!SS!Md5, Md5
<1> QED BY <1>1, <1>2, <1>3 DEF Serve, req

-----------------------------------------------------------------------------
(* The inductive invariant. *)

TypeInv == TypeOK /\ mach \in [Machines -> Machine]

LEMMA MachinesHold ==
  /\ \A k \in DOMAIN Bases : Bases[k] \in Machines /\ Bases[k] \in ToSet(Bases) /\ Bases[k] \notin Monitored
  /\ \A k \in DOMAIN Collected : Collected[k] \in Machines /\ Collected[k] \in Monitored
  /\ \A k \in DOMAIN Brokers : Brokers[k] \in Machines /\ Brokers[k] \in Monitored
  /\ \A b \in ToSet(Bases) : \E k \in DOMAIN Bases : b = Bases[k]
  /\ \A m \in Monitored : \E k \in DOMAIN Collected : m = Collected[k]
  /\ DOMAIN Bases = 1 .. Len(Bases) /\ DOMAIN Collected = 1 .. Len(Collected) /\ DOMAIN Brokers = 1 .. Len(Brokers)
  /\ Len(Bases) \in Nat \ {0} /\ Len(Collected) \in Nat /\ Len(Brokers) \in Nat
<1>1. Bases \in Seq(Machines) /\ Collected \in Seq(Machines) /\ Brokers \in Seq(Monitored) /\ Bases # <<>>
  BY UpdateCycleAssumption
<1>2. Len(Bases) # 0
  BY <1>1, EmptySeq
<1>3. /\ DOMAIN Bases = 1 .. Len(Bases) /\ DOMAIN Collected = 1 .. Len(Collected) /\ DOMAIN Brokers = 1 .. Len(Brokers)
      /\ Len(Bases) \in Nat \ {0} /\ Len(Collected) \in Nat /\ Len(Brokers) \in Nat
  BY <1>1, <1>2, LenProperties
<1>4. \A k \in DOMAIN Bases : Bases[k] \in ToSet(Bases) /\ Bases[k] \in Machines /\ Bases[k] \notin Monitored
  BY UpdateCycleAssumption DEF ToSet, Machines
<1>5. \A k \in DOMAIN Collected : Collected[k] \in Machines /\ Collected[k] \in Monitored
  BY DEF ToSet, Machines, Monitored
<1>6. \A k \in DOMAIN Brokers : Brokers[k] \in Monitored /\ Brokers[k] \in Machines
  BY <1>1, <1>3, ElementOfSeq DEF Machines
<1>7. (\A b \in ToSet(Bases) : \E k \in DOMAIN Bases : b = Bases[k])
      /\ (\A m \in Monitored : \E k \in DOMAIN Collected : m = Collected[k])
  BY DEF ToSet, Monitored
<1> QED BY <1>3, <1>4, <1>5, <1>6, <1>7

LEMMA NamesHold ==
  /\ Final(AllUpdate) \in Names /\ Final(UpdateService) \in Names /\ Final(TransmitEnd) \in Names
  /\ Final(List) \in Names /\ <<List, "smtmp">> \in Names
  /\ Final(AllUpdate) # Final(UpdateService)
  /\ <<List, "smtmp">> # Final(List)
  /\ \A symbol \in {AllUpdate, UpdateService, TransmitEnd} : Final(symbol) \notin {Final(List), <<List, "smtmp">>}
<1> QED BY UpdateCycleAssumption DEF Names, Final

(* What Ask does, when all that may be served is known. *)
LEMMA Asked ==
  ASSUME TypeInv, NEW r, r.m \in Machines, NEW ret \in Returns, Ask(r, ret),
         \A o \in Serve(r.m, r.req) : o.srv \in Machine /\ o.bad \in {0, 1} /\ o.ret \in Int
  PROVE  /\ lost' \in 0 .. MaxLost /\ unanswered' \in 0 .. lost'
         /\ mach' \in [Machines -> Machine]
         /\ \/ mach' = mach /\ ret = -1 /\ unanswered' = unanswered
            \/ \E o \in Serve(r.m, r.req) :
                 /\ mach' = [mach EXCEPT ![r.m] = o.srv]
                 /\ \/ ret = (IF o.ret < 0 THEN o.ret ELSE 0) /\ unanswered' = unanswered
                    \/ ret = -1 /\ unanswered' = unanswered + 1
<1>1. lost \in 0 .. MaxLost /\ unanswered \in 0 .. lost /\ MaxLost \in Nat /\ mach \in [Machines -> Machine]
  BY UpdateCycleAssumption DEF TypeInv, TypeOK
<1>2. CASE ret = -1 /\ lost < MaxLost /\ lost' = lost + 1 /\ UNCHANGED <<mach, unanswered>>
  BY <1>1, <1>2
<1>3. ASSUME NEW o \in Serve(r.m, r.req), mach' = [mach EXCEPT ![r.m] = o.srv],
             \/ /\ ret = IF o.ret < 0 THEN o.ret ELSE 0
                /\ lost + o.bad <= MaxLost /\ lost' = lost + o.bad
                /\ UNCHANGED unanswered
             \/ /\ ret = -1
                /\ lost + o.bad < MaxLost /\ lost' = lost + o.bad + 1
                /\ unanswered' = unanswered + 1
      PROVE  /\ lost' \in 0 .. MaxLost /\ unanswered' \in 0 .. lost'
             /\ mach' \in [Machines -> Machine]
  BY <1>1, <1>3
<1> QED BY <1>2, <1>3 DEF Ask

(* A create that is answered has left the symbol there; one that is not may have. *)
Counted == lost' \in 0 .. MaxLost /\ unanswered' \in 0 .. lost' /\ unanswered' \in {unanswered, unanswered + 1}
Untouched(m, ns) ==
  \A x \in Machines : \A n \in Names : x # m \/ n \notin ns => mach'[x].disk[n] = mach[x].disk[n]

Created(m, n, ret) ==
  /\ Counted
  /\ mach' \in [Machines -> Machine]
  /\ Untouched(m, {n})
  /\ Exists(mach[m], n) => Exists(mach'[m], n)
  /\ ret = 0 => Exists(mach'[m], n)
  /\ unanswered' = unanswered => ret = 0 \/ mach' = mach

LEMMA Creating ==
  ASSUME TypeInv, NEW m \in Machines, NEW symbol \in {AllUpdate, UpdateService, TransmitEnd},
         NEW data \in {<<>>, Date}, NEW ret \in Returns, Ask(Create(m, symbol, data), ret)
  PROVE  Created(m, Final(symbol), ret)
<1> DEFINE r == Create(m, symbol, data)
<1> DEFINE n == Final(symbol)
<1>1. r.m = m
  BY DEF Create
<1>2. mach[m] \in Machine /\ mach \in [Machines -> Machine] /\ n \in Names
  BY NamesHold DEF TypeInv
<1>3. ASSUME NEW o \in Serve(m, r.req)
      PROVE  /\ o.srv \in Machine /\ o.bad \in {0, 1} /\ o.ret \in Int
             /\ \A x \in Names : x # n => o.srv.disk[x] = mach[m].disk[x]
             /\ \/ o.srv = mach[m] /\ o.ret = -1
                \/ Exists(o.srv, n) /\ o.ret >= 0
  <2>1. o \in CreateAFile(mach[m], n, data)
    BY <1>3, ServesCreate
  <2>2. CASE o = Fails(mach[m], -1)
    BY <1>2, <2>2 DEF Fails
  <2>3. ASSUME NEW d \in IF data # <<>> THEN {data} ELSE {<<>>, <<Garbage>>}, o = Answer(Extend(mach[m], n, d), Len(d))
        PROVE  <1>3!2
    <3>1. <<>> \in Seq(Items) /\ <<Garbage>> \in Seq(Items)
      BY DEF Items
    <3>2. d \in Seq(Items) /\ Len(d) \in Nat
      BY <2>3, <3>1, LenProperties DEF Date
    <3> QED BY <1>2, <2>3, <3>2, Extended DEF Answer
  <2> QED BY <2>1, <2>2, <2>3 DEF CreateAFile
<1>4. /\ lost' \in 0 .. MaxLost /\ unanswered' \in 0 .. lost'
      /\ mach' \in [Machines -> Machine]
      /\ \/ mach' = mach /\ ret = -1 /\ unanswered' = unanswered
         \/ \E o \in Serve(r.m, r.req) :
              /\ mach' = [mach EXCEPT ![r.m] = o.srv]
              /\ \/ ret = (IF o.ret < 0 THEN o.ret ELSE 0) /\ unanswered' = unanswered
                 \/ ret = -1 /\ unanswered' = unanswered + 1
  <2>1. \A o \in Serve(r.m, r.req) : o.srv \in Machine /\ o.bad \in {0, 1} /\ o.ret \in Int
    BY <1>1, <1>3
  <2>2. Ask(r, ret) /\ r.m \in Machines
    BY <1>1
  <2> HIDE DEF r
  <2> QED BY <2>1, <2>2, Asked
<1> HIDE DEF r, n
<1>5. CASE mach' = mach /\ ret = -1 /\ unanswered' = unanswered
  BY <1>4, <1>5 DEF Created, Counted, Untouched, n
<1>6. ASSUME NEW o \in Serve(r.m, r.req), mach' = [mach EXCEPT ![r.m] = o.srv],
             \/ ret = (IF o.ret < 0 THEN o.ret ELSE 0) /\ unanswered' = unanswered
             \/ ret = -1 /\ unanswered' = unanswered + 1
      PROVE  Created(m, n, ret)
  <2>1. /\ o.ret \in Int
        /\ \A x \in Names : x # n => o.srv.disk[x] = mach[m].disk[x]
        /\ \/ o.srv = mach[m] /\ o.ret = -1
           \/ Exists(o.srv, n) /\ o.ret >= 0
    BY <1>1, <1>3, <1>6
  <2>2. mach'[m] = o.srv /\ \A x \in Machines : x # m => mach'[x] = mach[x]
    BY <1>1, <1>2, <1>6
  <2>3. Counted
    BY <1>4, <1>6 DEF Counted
  <2>4. Untouched(m, {n})
    BY <2>1, <2>2 DEF Untouched
  <2>5. ret = 0 => Exists(mach'[m], n)
    BY <1>6, <2>1, <2>2
  <2>6. o.srv = mach[m] => mach' = mach
    BY <1>1, <1>2, <1>6
  <2>7. unanswered \in Nat
    BY DEF TypeInv, TypeOK
  <2>8. unanswered' = unanswered => ret = 0 \/ mach' = mach
    BY <1>6, <2>1, <2>6, <2>7
  <2> QED BY <1>4, <2>1, <2>2, <2>3, <2>4, <2>5, <2>8 DEF Created
<1> QED BY <1>4, <1>5, <1>6 DEF n

(* A list that is taken, or may have been, is gone; only one that was there can be taken. *)
Took(m, ret) ==
  /\ Counted
  /\ mach' \in [Machines -> Machine]
  /\ Untouched(m, {Final(List), <<List, "smtmp">>})
  /\ ret = 0 => mach' # mach

LEMMA Taking ==
  ASSUME TypeInv, NEW m \in Machines, NEW ret \in Returns, Ask(TakeList(m), ret)
  PROVE  Took(m, ret)
<1> DEFINE r == TakeList(m)
<1> DEFINE n == Final(List)
<1> DEFINE to == <<List, "smtmp">>
<1>1. r.m = m
  BY DEF TakeList
<1>2. mach[m] \in Machine /\ mach \in [Machines -> Machine] /\ n \in Names /\ to \in Names /\ n # to
  BY NamesHold DEF TypeInv
<1>3. ASSUME NEW o \in Serve(m, r.req)
      PROVE  /\ o.srv \in Machine /\ o.bad \in {0, 1} /\ o.ret \in Int
             /\ \A x \in Names : x # n /\ x # to => o.srv.disk[x] = mach[m].disk[x]
             /\ o.ret >= 0 => o.srv # mach[m]
  <2>1. o \in RenameFile(mach[m], n, to)
    BY <1>3, ServesTake
  <2> HIDE DEF n, to
  <2>2. CASE Exists(mach[m], n) /\ o = Answer(Rename(mach[m], n, to), 0)
    BY <1>2, <2>2, Renamed DEF Answer
  <2>3. CASE ~Exists(mach[m], n) /\ o = Answer(mach[m], -1)
    BY <1>2, <2>3 DEF Answer
  <2> QED BY <2>1, <2>2, <2>3 DEF RenameFile
<1>4. /\ lost' \in 0 .. MaxLost /\ unanswered' \in 0 .. lost'
      /\ mach' \in [Machines -> Machine]
      /\ \/ mach' = mach /\ ret = -1 /\ unanswered' = unanswered
         \/ \E o \in Serve(r.m, r.req) :
              /\ mach' = [mach EXCEPT ![r.m] = o.srv]
              /\ \/ ret = (IF o.ret < 0 THEN o.ret ELSE 0) /\ unanswered' = unanswered
                 \/ ret = -1 /\ unanswered' = unanswered + 1
  <2>1. \A o \in Serve(r.m, r.req) : o.srv \in Machine /\ o.bad \in {0, 1} /\ o.ret \in Int
    BY <1>1, <1>3
  <2>2. Ask(r, ret) /\ r.m \in Machines
    BY <1>1
  <2> HIDE DEF r
  <2> QED BY <2>1, <2>2, Asked
<1> HIDE DEF r, n, to
<1>5. CASE mach' = mach /\ ret = -1 /\ unanswered' = unanswered
  BY <1>4, <1>5 DEF Took, Counted, Untouched
<1>6. ASSUME NEW o \in Serve(r.m, r.req), mach' = [mach EXCEPT ![r.m] = o.srv],
             \/ ret = (IF o.ret < 0 THEN o.ret ELSE 0) /\ unanswered' = unanswered
             \/ ret = -1 /\ unanswered' = unanswered + 1
      PROVE  Took(m, ret)
  <2>1. /\ o.ret \in Int
        /\ \A x \in Names : x # n /\ x # to => o.srv.disk[x] = mach[m].disk[x]
        /\ o.ret >= 0 => o.srv # mach[m]
    BY <1>1, <1>3, <1>6
  <2>2. mach'[m] = o.srv /\ \A x \in Machines : x # m => mach'[x] = mach[x]
    BY <1>1, <1>2, <1>6
  <2>3. Counted
    BY <1>4, <1>6 DEF Counted
  <2>4. Untouched(m, {Final(List), <<List, "smtmp">>})
    BY <2>1, <2>2 DEF Untouched, n, to
  <2>5. ret = 0 => mach' # mach
    BY <1>6, <2>1, <2>2
  <2> QED BY <1>4, <2>3, <2>4, <2>5 DEF Took
<1> QED BY <1>4, <1>5, <1>6

(* A symbol whose remove is answered with 0 is gone. *)
Dropped(m, n, ret) ==
  /\ Counted
  /\ mach' \in [Machines -> Machine]
  /\ Untouched(m, {n})
  /\ Exists(mach'[m], n) => Exists(mach[m], n)
  /\ ret = 0 => ~Exists(mach'[m], n)

LEMMA Dropping ==
  ASSUME TypeInv, NEW m \in Machines, NEW ret \in Returns, Ask(Drop(m, UpdateService), ret)
  PROVE  Dropped(m, Final(UpdateService), ret)
<1> DEFINE r == Drop(m, UpdateService)
<1> DEFINE n == Final(UpdateService)
<1>1. r.m = m
  BY DEF Drop
<1>2. mach[m] \in Machine /\ mach \in [Machines -> Machine] /\ n \in Names
  BY NamesHold DEF TypeInv
<1>3. ASSUME NEW o \in Serve(m, r.req)
      PROVE  /\ o.srv \in Machine /\ o.bad \in {0, 1} /\ o.ret \in Int
             /\ \A x \in Names : x # n => o.srv.disk[x] = mach[m].disk[x]
             /\ \/ o.srv = mach[m] /\ o.ret = -1
                \/ ~Exists(o.srv, n) /\ o.ret = 0
  <2>1. o \in RemoveFile(mach[m], n)
    BY <1>3, ServesDrop
  <2> HIDE DEF n
  <2>2. CASE Exists(mach[m], n) /\ o = Answer(Unlink(mach[m], n), 0)
    BY <1>2, <2>2, Unlinked DEF Answer
  <2>3. CASE ~Exists(mach[m], n) /\ o = Answer(mach[m], -1)
    BY <1>2, <2>3 DEF Answer
  <2> QED BY <2>1, <2>2, <2>3 DEF RemoveFile
<1>4. /\ lost' \in 0 .. MaxLost /\ unanswered' \in 0 .. lost'
      /\ mach' \in [Machines -> Machine]
      /\ \/ mach' = mach /\ ret = -1 /\ unanswered' = unanswered
         \/ \E o \in Serve(r.m, r.req) :
              /\ mach' = [mach EXCEPT ![r.m] = o.srv]
              /\ \/ ret = (IF o.ret < 0 THEN o.ret ELSE 0) /\ unanswered' = unanswered
                 \/ ret = -1 /\ unanswered' = unanswered + 1
  <2>1. \A o \in Serve(r.m, r.req) : o.srv \in Machine /\ o.bad \in {0, 1} /\ o.ret \in Int
    BY <1>1, <1>3
  <2>2. Ask(r, ret) /\ r.m \in Machines
    BY <1>1
  <2> HIDE DEF r
  <2> QED BY <2>1, <2>2, Asked
<1> HIDE DEF r, n
<1>5. CASE mach' = mach /\ ret = -1 /\ unanswered' = unanswered
  BY <1>4, <1>5 DEF Dropped, Counted, Untouched
<1>6. ASSUME NEW o \in Serve(r.m, r.req), mach' = [mach EXCEPT ![r.m] = o.srv],
             \/ ret = (IF o.ret < 0 THEN o.ret ELSE 0) /\ unanswered' = unanswered
             \/ ret = -1 /\ unanswered' = unanswered + 1
      PROVE  Dropped(m, n, ret)
  <2>1. /\ \A x \in Names : x # n => o.srv.disk[x] = mach[m].disk[x]
        /\ \/ o.srv = mach[m] /\ o.ret = -1
           \/ ~Exists(o.srv, n) /\ o.ret = 0
    BY <1>1, <1>3, <1>6
  <2>2. mach'[m] = o.srv /\ \A x \in Machines : x # m => mach'[x] = mach[x]
    BY <1>1, <1>2, <1>6
  <2>3. Counted
    BY <1>4, <1>6 DEF Counted
  <2>4. Untouched(m, {n})
    BY <2>1, <2>2 DEF Untouched
  <2>5. ret = 0 => ~Exists(mach'[m], n)
    BY <1>6, <2>1, <2>2
  <2>6. Exists(mach'[m], n) => Exists(mach[m], n)
    BY <2>1, <2>2
  <2> QED BY <1>4, <2>3, <2>4, <2>5, <2>6 DEF Dropped
<1> QED BY <1>4, <1>5, <1>6 DEF n

-----------------------------------------------------------------------------
(* The round, position by position. *)

nB == Len(Bases)
nC == Len(Collected)
nD == Len(Brokers)

LEMMA SymbolsOf ==
  ASSUME NEW data
  PROVE  /\ BothSymbols(data) \in Seq([m : Machines, req : [op : {"CREATE_FILE"}, n : Names, data : {data}]])
         /\ Len(BothSymbols(data)) = 2 * nB
         /\ \A k \in 1 .. nB : /\ BothSymbols(data)[2 * k - 1] = Create(Bases[k], AllUpdate, data)
                               /\ BothSymbols(data)[2 * k] = Create(Bases[k], UpdateService, data)
         /\ \A p \in 1 .. 2 * nB : \E k \in 1 .. nB : p = 2 * k - 1 \/ p = 2 * k
<1>1. nB \in Nat /\ 2 * nB \in Nat
  BY MachinesHold DEF nB
<1>2. \A p \in 1 .. 2 * nB : (p + 1) \div 2 \in 1 .. nB /\ (p = 2 * ((p + 1) \div 2) - 1 \/ p = 2 * ((p + 1) \div 2))
  BY <1>1
<1>3. \A k \in 1 .. nB : /\ 2 * k - 1 \in 1 .. 2 * nB /\ (2 * k - 1 + 1) \div 2 = k /\ (2 * k - 1) % 2 = 1
                         /\ 2 * k \in 1 .. 2 * nB /\ (2 * k + 1) \div 2 = k /\ (2 * k) % 2 = 0
  BY <1>1
<1>4. \A k \in 1 .. nB : Bases[k] \in Machines
  BY MachinesHold DEF nB
<1>5. \A p \in 1 .. 2 * nB :
        Create(Bases[(p + 1) \div 2], IF p % 2 = 1 THEN AllUpdate ELSE UpdateService, data)
          \in [m : Machines, req : [op : {"CREATE_FILE"}, n : Names, data : {data}]]
  BY <1>2, <1>4, NamesHold DEF Create
<1>6. /\ BothSymbols(data) \in Seq([m : Machines, req : [op : {"CREATE_FILE"}, n : Names, data : {data}]])
      /\ Len(BothSymbols(data)) = 2 * nB
  BY <1>1, <1>5 DEF BothSymbols, nB
<1>7. \A k \in 1 .. nB : /\ BothSymbols(data)[2 * k - 1] = Create(Bases[k], AllUpdate, data)
                         /\ BothSymbols(data)[2 * k] = Create(Bases[k], UpdateService, data)
  BY <1>3 DEF BothSymbols, nB
<1> QED BY <1>2, <1>6, <1>7

LEMMA Joined ==
  ASSUME NEW S, NEW s \in Seq(S), NEW t \in Seq(S)
  PROVE  /\ s \o t \in Seq(S) /\ Len(s \o t) = Len(s) + Len(t)
         /\ \A p \in 1 .. Len(s) : (s \o t)[p] = s[p]
         /\ \A k \in 1 .. Len(t) : (s \o t)[Len(s) + k] = t[k]
<1>1. s \o t \in Seq(S) /\ Len(s \o t) = Len(s) + Len(t) /\ Len(s) \in Nat /\ Len(t) \in Nat
      /\ \A i \in 1 .. Len(s) + Len(t) : (s \o t)[i] = IF i <= Len(s) THEN s[i] ELSE t[i - Len(s)]
  BY ConcatProperties, LenProperties
<1>2. \A p \in 1 .. Len(s) : p \in 1 .. Len(s) + Len(t) /\ p <= Len(s)
  BY <1>1
<1>3. \A k \in 1 .. Len(t) : Len(s) + k \in 1 .. Len(s) + Len(t) /\ ~(Len(s) + k <= Len(s)) /\ (Len(s) + k) - Len(s) = k
  BY <1>1
<1> QED BY <1>1, <1>2, <1>3

Requests ==
  {Create(m, symbol, <<>>) : m \in Machines, symbol \in Files} \cup {TakeList(m) : m \in Machines}
    \cup {Drop(m, UpdateService) : m \in Machines}

(* Where the parts of the round begin and end. *)
LEMMA RoundLaidOut ==
  /\ Round \in Seq(Requests)
  /\ Len(Announce) = 2 * nB /\ Len(Release) = nB
  /\ Len(Round) = 3 * nB + nC + nD
  /\ \A k \in 1 .. nB : /\ Round[2 * k - 1] = Create(Bases[k], AllUpdate, <<>>)
                        /\ Round[2 * k] = Create(Bases[k], UpdateService, <<>>)
                        /\ Round[2 * nB + nC + nD + k] = Drop(Bases[k], UpdateService)
  /\ \A k \in 1 .. nC : Round[2 * nB + k] = TakeList(Collected[k])
  /\ \A k \in 1 .. nD : Round[2 * nB + nC + k] = Create(Brokers[k], TransmitEnd, <<>>)
<1>1. nB \in Nat /\ nC \in Nat /\ nD \in Nat
  BY MachinesHold DEF nB, nC, nD
<1>2. /\ Announce \in Seq(Requests) /\ Len(Announce) = 2 * nB
      /\ \A k \in 1 .. nB : /\ Announce[2 * k - 1] = Create(Bases[k], AllUpdate, <<>>)
                            /\ Announce[2 * k] = Create(Bases[k], UpdateService, <<>>)
  <2>1. /\ Len(Announce) = 2 * nB
        /\ \A k \in 1 .. nB : /\ Announce[2 * k - 1] = Create(Bases[k], AllUpdate, <<>>)
                              /\ Announce[2 * k] = Create(Bases[k], UpdateService, <<>>)
        /\ \A p \in 1 .. 2 * nB : \E k \in 1 .. nB : p = 2 * k - 1 \/ p = 2 * k
    BY SymbolsOf DEF Announce
  <2>2. \A k \in 1 .. nB : Bases[k] \in Machines
    BY MachinesHold DEF nB
  <2>3. AllUpdate \in Files /\ UpdateService \in Files
    BY UpdateCycleAssumption
  <2>4. \A k \in 1 .. nB : Create(Bases[k], AllUpdate, <<>>) \in Requests
                          /\ Create(Bases[k], UpdateService, <<>>) \in Requests
    BY <2>2, <2>3 DEF Requests
  <2>5. \A p \in 1 .. 2 * nB : Announce[p] \in Requests
    <3>1. TAKE p \in 1 .. 2 * nB
    <3>2. PICK k \in 1 .. nB : p = 2 * k - 1 \/ p = 2 * k
      BY <2>1
    <3> QED BY <3>2, <2>1, <2>4
  <2>6. Announce \in [1 .. 2 * nB -> Requests]
    <3>1. Announce = [p \in 1 .. 2 * nB |-> Announce[p]]
      BY DEF Announce, BothSymbols, nB
    <3> QED BY <3>1, <2>5
  <2>7. Announce \in Seq(Requests)
    BY <1>1, <2>6
  <2> QED BY <2>1, <2>7
<1>3. /\ Collect \in Seq(Requests) /\ Len(Collect) = nC
      /\ \A k \in 1 .. nC : Collect[k] = TakeList(Collected[k])
  <2>1. \A k \in 1 .. nC : TakeList(Collected[k]) \in Requests
    BY MachinesHold DEF nC, Requests
  <2> QED BY <1>1, <2>1 DEF Collect, nC
<1>4. /\ Conclude \in Seq(Requests) /\ Len(Conclude) = nD
      /\ \A k \in 1 .. nD : Conclude[k] = Create(Brokers[k], TransmitEnd, <<>>)
  <2>1. \A k \in 1 .. nD : Create(Brokers[k], TransmitEnd, <<>>) \in Requests
    BY MachinesHold, UpdateCycleAssumption DEF nD, Requests
  <2> QED BY <1>1, <2>1 DEF Conclude, nD
<1>5. /\ Release \in Seq(Requests) /\ Len(Release) = nB
      /\ \A k \in 1 .. nB : Release[k] = Drop(Bases[k], UpdateService)
  <2>1. \A k \in 1 .. nB : Drop(Bases[k], UpdateService) \in Requests
    BY MachinesHold DEF nB, Requests
  <2> QED BY <1>1, <2>1 DEF Release, nB
<1> DEFINE AC == Announce \o Collect
<1> DEFINE ACD == AC \o Conclude
<1>0. 2 * nB \in Nat /\ 2 * nB + nC \in Nat /\ 2 * nB + nC + nD \in Nat /\ 3 * nB + nC + nD = 2 * nB + nC + nD + nB
  BY <1>1
<1>6. /\ AC \in Seq(Requests) /\ Len(AC) = 2 * nB + nC
      /\ \A p \in 1 .. 2 * nB : AC[p] = Announce[p]
      /\ \A k \in 1 .. nC : AC[2 * nB + k] = Collect[k]
  <2>1. Announce \in Seq(Requests) /\ Collect \in Seq(Requests)
    BY <1>2, <1>3, <1>4, <1>5
  <2>2. /\ Announce \o Collect \in Seq(Requests) /\ Len(Announce \o Collect) = Len(Announce) + Len(Collect)
        /\ \A p \in 1 .. Len(Announce) : (Announce \o Collect)[p] = Announce[p]
        /\ \A k \in 1 .. Len(Collect) : (Announce \o Collect)[Len(Announce) + k] = Collect[k]
    BY <2>1, Joined
  <2> QED BY <2>2, <1>2, <1>3
<1> HIDE DEF AC
<1>7. /\ ACD \in Seq(Requests) /\ Len(ACD) = 2 * nB + nC + nD
      /\ \A p \in 1 .. 2 * nB + nC : ACD[p] = AC[p]
      /\ \A k \in 1 .. nD : ACD[2 * nB + nC + k] = Conclude[k]
  <2>1. AC \in Seq(Requests) /\ Conclude \in Seq(Requests)
    BY <1>2, <1>3, <1>4, <1>5, <1>6
  <2>2. /\ AC \o Conclude \in Seq(Requests) /\ Len(AC \o Conclude) = Len(AC) + Len(Conclude)
        /\ \A p \in 1 .. Len(AC) : (AC \o Conclude)[p] = AC[p]
        /\ \A k \in 1 .. Len(Conclude) : (AC \o Conclude)[Len(AC) + k] = Conclude[k]
    BY <2>1, Joined
  <2> QED BY <2>2, <1>4, <1>6
<1> HIDE DEF ACD
<1>8. Round = ACD \o Release
  BY DEF Round, AC, ACD
<1>9. /\ Round \in Seq(Requests) /\ Len(Round) = 3 * nB + nC + nD
      /\ \A p \in 1 .. 2 * nB + nC + nD : Round[p] = ACD[p]
      /\ \A k \in 1 .. nB : Round[2 * nB + nC + nD + k] = Release[k]
  <2>1. ACD \in Seq(Requests) /\ Release \in Seq(Requests)
    BY <1>2, <1>3, <1>4, <1>5, <1>7
  <2>2. /\ ACD \o Release \in Seq(Requests) /\ Len(ACD \o Release) = Len(ACD) + Len(Release)
        /\ \A p \in 1 .. Len(ACD) : (ACD \o Release)[p] = ACD[p]
        /\ \A k \in 1 .. Len(Release) : (ACD \o Release)[Len(ACD) + k] = Release[k]
    BY <2>1, Joined
  <2> QED BY <2>2, <1>0, <1>5, <1>7, <1>8
<1>10. \A k \in 1 .. nB : /\ Round[2 * k - 1] = Create(Bases[k], AllUpdate, <<>>)
                          /\ Round[2 * k] = Create(Bases[k], UpdateService, <<>>)
  <2>1. \A k \in 1 .. nB : 2 * k - 1 \in 1 .. 2 * nB /\ 2 * k \in 1 .. 2 * nB
    BY <1>1
  <2>2. \A p \in 1 .. 2 * nB : p \in 1 .. 2 * nB + nC /\ p \in 1 .. 2 * nB + nC + nD
    BY <1>1
  <2> QED BY <2>1, <2>2, <1>2, <1>6, <1>7, <1>9
<1>11. \A k \in 1 .. nC : Round[2 * nB + k] = TakeList(Collected[k])
  <2>1. \A k \in 1 .. nC : 2 * nB + k \in 1 .. 2 * nB + nC /\ 2 * nB + k \in 1 .. 2 * nB + nC + nD
    BY <1>1
  <2>2. SUFFICES ASSUME NEW k \in 1 .. nC PROVE Round[2 * nB + k] = TakeList(Collected[k])
    OBVIOUS
  <2>3. Round[2 * nB + k] = ACD[2 * nB + k]
    BY <2>1, <1>9
  <2>4. ACD[2 * nB + k] = AC[2 * nB + k]
    BY <2>1, <1>7
  <2>5. AC[2 * nB + k] = Collect[k]
    BY <1>6
  <2>6. Collect[k] = TakeList(Collected[k])
    BY <1>3
  <2> QED BY <2>3, <2>4, <2>5, <2>6
<1>12. \A k \in 1 .. nD : Round[2 * nB + nC + k] = Create(Brokers[k], TransmitEnd, <<>>)
  <2>1. \A k \in 1 .. nD : 2 * nB + nC + k \in 1 .. 2 * nB + nC + nD
    BY <1>1
  <2> QED BY <2>1, <1>4, <1>7, <1>9
<1> QED BY <1>2, <1>5, <1>9, <1>10, <1>11, <1>12

(* Every position of the round is one of five kinds. *)
LEMMA RoundPositions ==
  ASSUME NEW p \in 1 .. Len(Round)
  PROVE  \/ \E k \in 1 .. nB : p = 2 * k - 1 \/ p = 2 * k \/ p = 2 * nB + nC + nD + k
         \/ \E k \in 1 .. nC : p = 2 * nB + k
         \/ \E k \in 1 .. nD : p = 2 * nB + nC + k
<1>1. nB \in Nat /\ nC \in Nat /\ nD \in Nat /\ Len(Round) = 3 * nB + nC + nD /\ p \in Nat
  BY MachinesHold, RoundLaidOut DEF nB, nC, nD
<1>2. CASE p <= 2 * nB
  <2>1. p \in 1 .. 2 * nB
    BY <1>1, <1>2
  <2> QED BY <2>1, SymbolsOf
<1>3. CASE p > 2 * nB /\ p <= 2 * nB + nC
  <2> DEFINE k == p - 2 * nB
  <2>1. k \in 1 .. nC /\ p = 2 * nB + k
    BY <1>1, <1>3
  <2> QED BY <2>1
<1>4. CASE p > 2 * nB + nC /\ p <= 2 * nB + nC + nD
  <2> DEFINE k == p - (2 * nB + nC)
  <2>1. k \in 1 .. nD /\ p = 2 * nB + nC + k
    BY <1>1, <1>4
  <2> QED BY <2>1
<1>5. CASE p > 2 * nB + nC + nD
  <2> DEFINE k == p - (2 * nB + nC + nD)
  <2>1. k \in 1 .. nB /\ p = 2 * nB + nC + nD + k
    BY <1>1, <1>5
  <2> QED BY <2>1
<1> QED BY <1>1, <1>2, <1>3, <1>4, <1>5

-----------------------------------------------------------------------------
(* What a request of either program does, by the position it has. *)

Ready == Final(AllUpdate)
Busy == Final(UpdateService)
RoundEnd == 2 * nB + nC + nD  \* the requests before the first remove

LEMMA Counts ==
  /\ nB \in Nat \ {0} /\ nC \in Nat /\ nD \in Nat /\ RoundEnd \in Nat
  /\ Len(Round) = RoundEnd + nB /\ Len(Release) = nB /\ Len(Announce) = 2 * nB /\ RoundEnd >= 2 * nB
  /\ Len(Creates) = 2 * nB /\ DOMAIN Creates = 1 .. 2 * nB
  /\ Len(Removes) = nB /\ DOMAIN Removes = 1 .. nB
  /\ \A k \in 1 .. nB : Bases[k] \in Machines /\ Bases[k] \in ToSet(Bases) /\ Bases[k] \notin Monitored
  /\ \A j, k \in 1 .. nB : Bases[j] = Bases[k] => j = k
  /\ \A b \in ToSet(Bases) : \E k \in 1 .. nB : b = Bases[k]
<1>1. nB \in Nat \ {0} /\ nC \in Nat /\ nD \in Nat
  BY MachinesHold DEF nB, nC, nD
<1>2. Len(Creates) = 2 * nB /\ DOMAIN Creates = 1 .. 2 * nB
  BY <1>1, SymbolsOf DEF Creates, BothSymbols, nB
<1>3. Len(Removes) = nB /\ DOMAIN Removes = 1 .. nB
  BY <1>1 DEF Removes, nB
<1>4. Len(Round) = 3 * nB + nC + nD /\ Len(Release) = nB /\ Len(Announce) = 2 * nB
  BY RoundLaidOut
<1>5. \A j, k \in 1 .. nB : Bases[j] = Bases[k] => j = k
  BY MachinesHold, UpdateCycleAssumption DEF nB
<1>6. RoundEnd \in Nat /\ RoundEnd >= 2 * nB /\ Len(Round) = RoundEnd + nB
  <2>1. \A b \in Nat, c \in Nat, d \in Nat :
          /\ 2 * b + c + d \in Nat /\ 2 * b + c + d >= 2 * b
          /\ 3 * b + c + d = (2 * b + c + d) + b
    OBVIOUS
  <2> QED BY <1>1, <1>4, <2>1 DEF RoundEnd
<1>7. /\ \A k \in 1 .. nB : Bases[k] \in Machines /\ Bases[k] \in ToSet(Bases) /\ Bases[k] \notin Monitored
      /\ \A b \in ToSet(Bases) : \E k \in 1 .. nB : b = Bases[k]
  BY MachinesHold DEF nB
<1> QED BY <1>1, <1>2, <1>3, <1>4, <1>5, <1>6, <1>7

LEMMA Same ==
  ASSUME NEW m, NEW ns, Untouched(m, ns), NEW x \in Machines, NEW n \in Names, x # m \/ n \notin ns
  PROVE  Exists(mach'[x], n) <=> Exists(mach[x], n)
<1> QED BY DEF Untouched, Exists

LEMMA AskedOfRound ==
  ASSUME TypeInv, mon # 0, NEW ret \in Returns, Ask(Round[mon], ret)
  PROVE  \/ \E k \in 1 .. nB : mon = 2 * k - 1 /\ Created(Bases[k], Ready, ret) /\ Round[mon].req.op # "RENAME_FILE"
         \/ \E k \in 1 .. nB : mon = 2 * k /\ Created(Bases[k], Busy, ret) /\ Round[mon].req.op # "RENAME_FILE"
         \/ \E k \in 1 .. nC : /\ mon = 2 * nB + k /\ Took(Collected[k], ret)
                               /\ Round[mon].req.op = "RENAME_FILE" /\ Round[mon].m = Collected[k]
         \/ \E k \in 1 .. nD : /\ mon = 2 * nB + nC + k /\ Created(Brokers[k], Final(TransmitEnd), ret)
                               /\ Round[mon].req.op # "RENAME_FILE"
         \/ \E k \in 1 .. nB : mon = RoundEnd + k /\ Dropped(Bases[k], Busy, ret) /\ Round[mon].req.op # "RENAME_FILE"
<1>1. mon \in 1 .. Len(Round)
  BY Counts DEF TypeInv, TypeOK
<1>2. /\ \A k \in 1 .. nB : Bases[k] \in Machines
      /\ \A k \in 1 .. nC : Collected[k] \in Machines
      /\ \A k \in 1 .. nD : Brokers[k] \in Machines
  BY MachinesHold DEF nB, nC, nD
<1>3. ASSUME NEW k \in 1 .. nB, mon = 2 * k - 1
      PROVE  Created(Bases[k], Ready, ret) /\ Round[mon].req.op # "RENAME_FILE"
  <2>1. Round[mon] = Create(Bases[k], AllUpdate, <<>>)
    BY <1>3, RoundLaidOut
  <2>2. Created(Bases[k], Ready, ret)
    BY <2>1, <1>2, Creating DEF Ready
  <2> QED BY <2>1, <2>2 DEF Create
<1>4. ASSUME NEW k \in 1 .. nB, mon = 2 * k
      PROVE  Created(Bases[k], Busy, ret) /\ Round[mon].req.op # "RENAME_FILE"
  <2>1. Round[mon] = Create(Bases[k], UpdateService, <<>>)
    BY <1>4, RoundLaidOut
  <2>2. Created(Bases[k], Busy, ret)
    BY <2>1, <1>2, Creating DEF Busy
  <2> QED BY <2>1, <2>2 DEF Create
<1>5. ASSUME NEW k \in 1 .. nC, mon = 2 * nB + k
      PROVE  Took(Collected[k], ret) /\ Round[mon].req.op = "RENAME_FILE" /\ Round[mon].m = Collected[k]
  <2>1. Round[mon] = TakeList(Collected[k])
    BY <1>5, RoundLaidOut
  <2>2. Took(Collected[k], ret)
    BY <2>1, <1>2, Taking
  <2> QED BY <2>1, <2>2 DEF TakeList
<1>6. ASSUME NEW k \in 1 .. nD, mon = 2 * nB + nC + k
      PROVE  Created(Brokers[k], Final(TransmitEnd), ret) /\ Round[mon].req.op # "RENAME_FILE"
  <2>1. Round[mon] = Create(Brokers[k], TransmitEnd, <<>>)
    BY <1>6, RoundLaidOut
  <2>2. Created(Brokers[k], Final(TransmitEnd), ret)
    BY <2>1, <1>2, Creating
  <2> QED BY <2>1, <2>2 DEF Create
<1>7. ASSUME NEW k \in 1 .. nB, mon = RoundEnd + k
      PROVE  Dropped(Bases[k], Busy, ret) /\ Round[mon].req.op # "RENAME_FILE"
  <2>1. Round[mon] = Drop(Bases[k], UpdateService)
    BY <1>7, RoundLaidOut DEF RoundEnd
  <2>2. Dropped(Bases[k], Busy, ret)
    BY <2>1, <1>2, Dropping DEF Busy
  <2> QED BY <2>1, <2>2 DEF Drop
<1>8. \/ \E k \in 1 .. nB : mon = 2 * k - 1 \/ mon = 2 * k \/ mon = RoundEnd + k
      \/ \E k \in 1 .. nC : mon = 2 * nB + k
      \/ \E k \in 1 .. nD : mon = 2 * nB + nC + k
  BY <1>1, RoundPositions DEF RoundEnd
<1> QED BY <1>3, <1>4, <1>5, <1>6, <1>7, <1>8

(* One base, and a request of the round. *)
LEMMA RoundOnBase ==
  ASSUME TypeInv, mon # 0, NEW ret \in Returns, Ask(Round[mon], ret), NEW j \in 1 .. nB
  PROVE  /\ Counted /\ mach' \in [Machines -> Machine]
         /\ InService(Bases[j]) /\ ~InService(Bases[j])' => mon = RoundEnd + j
         /\ ~InService(Bases[j]) /\ InService(Bases[j])' => mon = 2 * j
         /\ mon = 2 * j /\ ret = 0 => InService(Bases[j])'
         /\ mon = RoundEnd + j /\ ret = 0 => ~InService(Bases[j])'
         /\ ~Exists(mach[Bases[j]], Ready) /\ Exists(mach'[Bases[j]], Ready) =>
              mon = 2 * j - 1 /\ (ret = 0 \/ unanswered' = unanswered + 1)
<1> DEFINE b == Bases[j]
<1>1. b \in Machines /\ b \notin Monitored /\ Ready \in Names /\ Busy \in Names /\ Ready # Busy
  BY Counts, NamesHold DEF Ready, Busy
<1>2. \A k \in 1 .. nB : Bases[k] = b => k = j
  BY Counts
<1>3. nB \in Nat \ {0} /\ nC \in Nat /\ nD \in Nat /\ RoundEnd = 2 * nB + nC + nD
  BY Counts DEF RoundEnd
<1>4. InService(b) <=> Exists(mach[b], Busy)
  BY DEF InService, Busy
<1>5. InService(Bases[j])' <=> Exists(mach'[b], Busy)
  BY DEF InService, Busy
<1> HIDE DEF b
<1>6. CASE \E k \in 1 .. nB : mon = 2 * k - 1 /\ Created(Bases[k], Ready, ret)
  <2>1. PICK k \in 1 .. nB : mon = 2 * k - 1 /\ Created(Bases[k], Ready, ret)
    BY <1>6
  <2>2. Exists(mach'[b], Busy) <=> Exists(mach[b], Busy)
    BY <2>1, <1>1, Same DEF Created
  <2>3. Bases[k] # b => (Exists(mach'[b], Ready) <=> Exists(mach[b], Ready))
    BY <2>1, <1>1, Same DEF Created
  <2>4. Counted /\ mach' \in [Machines -> Machine] /\ (unanswered' = unanswered => ret = 0 \/ mach' = mach)
    BY <2>1 DEF Created
  <2>5. mon # 2 * j /\ mon # RoundEnd + j
    BY <2>1, <1>3
  <2> QED BY <2>1, <2>2, <2>3, <2>4, <2>5, <1>2, <1>4, <1>5 DEF Counted, b
<1>7. CASE \E k \in 1 .. nB : mon = 2 * k /\ Created(Bases[k], Busy, ret)
  <2>1. PICK k \in 1 .. nB : mon = 2 * k /\ Created(Bases[k], Busy, ret)
    BY <1>7
  <2>2. Exists(mach'[b], Ready) <=> Exists(mach[b], Ready)
    BY <2>1, <1>1, Same DEF Created
  <2>3. Bases[k] # b => (Exists(mach'[b], Busy) <=> Exists(mach[b], Busy))
    BY <2>1, <1>1, Same DEF Created
  <2>4. /\ Counted /\ mach' \in [Machines -> Machine]
        /\ Exists(mach[Bases[k]], Busy) => Exists(mach'[Bases[k]], Busy)
        /\ ret = 0 => Exists(mach'[Bases[k]], Busy)
    BY <2>1 DEF Created
  <2>5. mon # RoundEnd + j /\ (mon = 2 * j => k = j)
    BY <2>1, <1>3
  <2> QED BY <2>1, <2>2, <2>3, <2>4, <2>5, <1>2, <1>4, <1>5 DEF b
<1>8. CASE \E k \in 1 .. nC : mon = 2 * nB + k /\ Took(Collected[k], ret)
  <2>1. PICK k \in 1 .. nC : mon = 2 * nB + k /\ Took(Collected[k], ret)
    BY <1>8
  <2>2. Collected[k] # b
    BY <1>1, MachinesHold DEF nC
  <2>3. /\ Exists(mach'[b], Ready) <=> Exists(mach[b], Ready)
        /\ Exists(mach'[b], Busy) <=> Exists(mach[b], Busy)
    BY <2>1, <2>2, <1>1, Same DEF Took
  <2>4. Counted /\ mach' \in [Machines -> Machine]
    BY <2>1 DEF Took
  <2>5. mon # 2 * j /\ mon # RoundEnd + j
    BY <2>1, <1>3
  <2> QED BY <2>3, <2>4, <2>5, <1>4, <1>5 DEF b
<1>9. CASE \E k \in 1 .. nD : mon = 2 * nB + nC + k /\ Created(Brokers[k], Final(TransmitEnd), ret)
  <2>1. PICK k \in 1 .. nD : mon = 2 * nB + nC + k /\ Created(Brokers[k], Final(TransmitEnd), ret)
    BY <1>9
  <2>2. Brokers[k] # b
    BY <1>1, MachinesHold DEF nD
  <2>3. /\ Exists(mach'[b], Ready) <=> Exists(mach[b], Ready)
        /\ Exists(mach'[b], Busy) <=> Exists(mach[b], Busy)
    BY <2>1, <2>2, <1>1, Same DEF Created
  <2>4. Counted /\ mach' \in [Machines -> Machine]
    BY <2>1 DEF Created
  <2>5. mon # 2 * j /\ mon # RoundEnd + j
    BY <2>1, <1>3
  <2> QED BY <2>3, <2>4, <2>5, <1>4, <1>5 DEF b
<1>10. CASE \E k \in 1 .. nB : mon = RoundEnd + k /\ Dropped(Bases[k], Busy, ret)
  <2>1. PICK k \in 1 .. nB : mon = RoundEnd + k /\ Dropped(Bases[k], Busy, ret)
    BY <1>10
  <2>2. Exists(mach'[b], Ready) <=> Exists(mach[b], Ready)
    BY <2>1, <1>1, Same DEF Dropped
  <2>3. Bases[k] # b => (Exists(mach'[b], Busy) <=> Exists(mach[b], Busy))
    BY <2>1, <1>1, Same DEF Dropped
  <2>4. /\ Counted /\ mach' \in [Machines -> Machine]
        /\ Exists(mach'[Bases[k]], Busy) => Exists(mach[Bases[k]], Busy)
        /\ ret = 0 => ~Exists(mach'[Bases[k]], Busy)
    BY <2>1 DEF Dropped
  <2>5. mon # 2 * j /\ (mon = RoundEnd + j => k = j)
    BY <2>1, <1>3
  <2> QED BY <2>1, <2>2, <2>3, <2>4, <2>5, <1>2, <1>4, <1>5 DEF b
<1> QED BY <1>6, <1>7, <1>8, <1>9, <1>10, AskedOfRound

(* One base, and a create of ThreadUpdate. *)
LEMMA CreateOnBase ==
  ASSUME TypeInv, upd.at = "create", NEW ret \in Returns, Ask(Creates[upd.i], ret), NEW j \in 1 .. nB
  PROVE  /\ Counted /\ mach' \in [Machines -> Machine] /\ Untouched(Creates[upd.i].m, {Ready, Busy})
         /\ Creates[upd.i].m \in ToSet(Bases)
         /\ InService(Bases[j]) => InService(Bases[j])'
         /\ upd.i = 2 * j /\ ret = 0 => InService(Bases[j])'
         /\ ~Exists(mach[Bases[j]], Ready) /\ Exists(mach'[Bases[j]], Ready) =>
              upd.i = 2 * j - 1 /\ (ret = 0 \/ unanswered' = unanswered + 1)
<1> DEFINE b == Bases[j]
<1>1. b \in Machines /\ b \notin Monitored /\ Ready \in Names /\ Busy \in Names /\ Ready # Busy
  BY Counts, NamesHold DEF Ready, Busy
<1>2. \A k \in 1 .. nB : /\ Bases[k] = b => k = j
                         /\ Bases[k] \in Machines /\ Bases[k] \in ToSet(Bases)
  BY Counts
<1>3. nB \in Nat \ {0} /\ upd.i \in 1 .. 2 * nB
  BY Counts DEF TypeInv, TypeOK
<1>4. InService(b) <=> Exists(mach[b], Busy)
  BY DEF InService, Busy
<1>5. InService(Bases[j])' <=> Exists(mach'[b], Busy)
  BY DEF InService, Busy
<1> HIDE DEF b
<1>6. PICK k \in 1 .. nB : upd.i = 2 * k - 1 \/ upd.i = 2 * k
  BY <1>3, SymbolsOf
<1>7. CASE upd.i = 2 * k - 1
  <2>1. Creates[upd.i] = Create(Bases[k], AllUpdate, Date)
    BY <1>7, SymbolsOf DEF Creates
  <2>2. Created(Bases[k], Ready, ret)
    BY <2>1, <1>2, Creating DEF Ready
  <2>3. Exists(mach'[b], Busy) <=> Exists(mach[b], Busy)
    BY <2>2, <1>1, Same DEF Created
  <2>4. Bases[k] # b => (Exists(mach'[b], Ready) <=> Exists(mach[b], Ready))
    BY <2>2, <1>1, Same DEF Created
  <2>5. Counted /\ mach' \in [Machines -> Machine] /\ (unanswered' = unanswered => ret = 0 \/ mach' = mach)
    BY <2>2 DEF Created
  <2>6. upd.i # 2 * j
    BY <1>3, <1>7
  <2>7. Creates[upd.i].m = Bases[k] /\ Untouched(Bases[k], {Ready, Busy})
    BY <2>1, <2>2 DEF Create, Created, Untouched
  <2> QED BY <1>7, <2>3, <2>4, <2>5, <2>6, <2>7, <1>2, <1>4, <1>5 DEF Counted, b
<1>8. CASE upd.i = 2 * k
  <2>1. Creates[upd.i] = Create(Bases[k], UpdateService, Date)
    BY <1>8, SymbolsOf DEF Creates
  <2>2. Created(Bases[k], Busy, ret)
    BY <2>1, <1>2, Creating DEF Busy
  <2>3. Exists(mach'[b], Ready) <=> Exists(mach[b], Ready)
    BY <2>2, <1>1, Same DEF Created
  <2>4. Bases[k] # b => (Exists(mach'[b], Busy) <=> Exists(mach[b], Busy))
    BY <2>2, <1>1, Same DEF Created
  <2>5. /\ Counted /\ mach' \in [Machines -> Machine]
        /\ Exists(mach[Bases[k]], Busy) => Exists(mach'[Bases[k]], Busy)
        /\ ret = 0 => Exists(mach'[Bases[k]], Busy)
    BY <2>2 DEF Created
  <2>6. upd.i = 2 * j => k = j
    BY <1>3, <1>8
  <2>7. Creates[upd.i].m = Bases[k] /\ Untouched(Bases[k], {Ready, Busy})
    BY <2>1, <2>2 DEF Create, Created, Untouched
  <2> QED BY <1>8, <2>3, <2>4, <2>5, <2>6, <2>7, <1>2, <1>4, <1>5 DEF b
<1> QED BY <1>6, <1>7, <1>8

(* One base, and a remove of ThreadUpdate. *)
LEMMA RemoveOnBase ==
  ASSUME TypeInv, upd.at = "remove", NEW ret \in Returns, Ask(Removes[upd.i], ret), NEW j \in 1 .. nB
  PROVE  /\ Counted /\ mach' \in [Machines -> Machine] /\ Untouched(Removes[upd.i].m, {Busy})
         /\ Removes[upd.i].m = Bases[upd.i] /\ upd.i \in 1 .. nB /\ Bases[upd.i] \in ToSet(Bases)
         /\ InService(Bases[j])' => InService(Bases[j])
         /\ upd.i = j /\ ret = 0 => ~InService(Bases[j])'
         /\ Exists(mach'[Bases[j]], Ready) <=> Exists(mach[Bases[j]], Ready)
<1> DEFINE b == Bases[j]
<1> DEFINE k == upd.i
<1>1. b \in Machines /\ b \notin Monitored /\ Ready \in Names /\ Busy \in Names /\ Ready # Busy
  BY Counts, NamesHold DEF Ready, Busy
<1>2. k \in 1 .. nB
  BY Counts DEF TypeInv, TypeOK
<1>3. Bases[k] \in Machines /\ Bases[k] \in ToSet(Bases)
  BY <1>2, Counts
<1>4. InService(b) <=> Exists(mach[b], Busy)
  BY DEF InService, Busy
<1>5. InService(Bases[j])' <=> Exists(mach'[b], Busy)
  BY DEF InService, Busy
<1> HIDE DEF b
<1>6. Removes[k] = Drop(Bases[k], UpdateService)
  BY <1>2 DEF Removes, nB
<1>7. Dropped(Bases[k], Busy, ret)
  BY <1>3, <1>6, Dropping DEF Busy
<1>8. Exists(mach'[b], Ready) <=> Exists(mach[b], Ready)
  BY <1>7, <1>1, Same DEF Dropped
<1>9. Bases[k] # b => (Exists(mach'[b], Busy) <=> Exists(mach[b], Busy))
  BY <1>7, <1>1, Same DEF Dropped
<1>10. /\ Counted /\ mach' \in [Machines -> Machine] /\ Untouched(Bases[k], {Busy})
       /\ Exists(mach'[Bases[k]], Busy) => Exists(mach[Bases[k]], Busy)
       /\ ret = 0 => ~Exists(mach'[Bases[k]], Busy)
  BY <1>7 DEF Dropped
<1>11. Removes[k].m = Bases[k]
  BY <1>6 DEF Drop
<1> QED BY <1>2, <1>3, <1>4, <1>5, <1>8, <1>9, <1>10, <1>11 DEF b

-----------------------------------------------------------------------------
(* Types. *)

LEMMA InitTyped == Init => TypeInv
<1> SUFFICES ASSUME Init PROVE TypeInv
  OBVIOUS
<1>1. NewMachine \in Machine
  BY DEF NewMachine, Machine, Texts, Bound
<1>2. mach \in [Machines -> Machine]
  BY <1>1 DEF Init
<1>3. \A m \in Machines : mach[m].disk \in [Names -> Contents]
  BY <1>2 DEF Machine, Texts, Contents
<1>4. Len(Round) \in Nat /\ MaxRounds \in Nat /\ MaxLost \in Nat
  BY Counts, UpdateCycleAssumption
<1>5. start \in BOOLEAN /\ allUpdate \in BOOLEAN /\ overlap \in BOOLEAN
  BY DEF Init
<1>6. /\ upd \in [at : {"wait", "create", "local", "export", "remove", "finish"}, i : Nat] /\ upd.at = "wait"
      /\ rounds \in [monitor : Nat, updater : 0 .. MaxRounds] /\ lost \in 0 .. MaxLost /\ unanswered \in 0 .. lost
      /\ taken \in [ToSet(Bases) -> Nat]
  BY <1>4 DEF Init, UpdaterAt
<1>7. mon \in 0 .. Len(Round) /\ exportEnd \subseteq 1 .. Exporters /\ alarmed \subseteq ToSet(Bases) /\ renamed \subseteq Monitored
  BY <1>4 DEF Init
<1> QED BY <1>2, <1>3, <1>5, <1>6, <1>7 DEF TypeInv, TypeOK

LEMMA MachinesTyped ==
  ASSUME mach' \in [Machines -> Machine]
  PROVE  \A m \in Machines : mach'[m].disk \in [Names -> Contents]
<1> QED BY DEF Machine, Texts, Contents

LEMMA NextTyped == TypeInv /\ [Next]_vars => TypeInv'
<1> SUFFICES ASSUME TypeInv, [Next]_vars PROVE TypeInv'
  OBVIOUS
<1> USE DEF TypeInv, TypeOK
<1>0. /\ MaxRounds \in Nat /\ MaxLost \in Nat /\ Exporters \in 1 .. 4
      /\ nB \in Nat \ {0} /\ Len(Round) \in Nat \ {0}
      /\ Len(Creates) = 2 * nB /\ DOMAIN Creates = 1 .. 2 * nB /\ Len(Removes) = nB /\ DOMAIN Removes = 1 .. nB
  BY Counts, UpdateCycleAssumption
<1>1. CASE MonitorBegins
  <2>1. start' \in BOOLEAN /\ overlap' \in BOOLEAN
    BY <1>1 DEF MonitorBegins
  <2>2. rounds' \in [monitor : Nat, updater : 0 .. MaxRounds] /\ mon' \in 0 .. Len(Round) /\ renamed' \subseteq Monitored
    BY <1>0, <1>1 DEF MonitorBegins
  <2> QED BY <1>1, <2>1, <2>2 DEF MonitorBegins, updater
<1>2. CASE MonitorAsks
  <2>1. PICK ret \in Returns : Ask(Round[mon], ret) /\ mon' = AfterRequest(ret)
    BY <1>2 DEF MonitorAsks
  <2>2. 1 \in 1 .. nB /\ mon # 0
    BY <1>0, <1>2 DEF MonitorAsks
  <2>3. Counted /\ mach' \in [Machines -> Machine]
    <3> HIDE DEF TypeInv, TypeOK
    <3> QED BY <2>1, <2>2, RoundOnBase
  <2>4. mon' \in 0 .. Len(Round)
    BY <1>0, <2>1 DEF AfterRequest
  <2>5. renamed' \subseteq Monitored
    <3>1. CASE Round[mon].req.op = "RENAME_FILE"
      <4>1. Round[mon].m \in Monitored
        <5> HIDE DEF TypeInv, TypeOK
        <5>1. \E k \in 1 .. nC : Round[mon].m = Collected[k]
          BY <2>1, <2>2, <3>1, AskedOfRound
        <5> QED BY <5>1, MachinesHold DEF nC
      <4> QED BY <4>1, <1>2 DEF MonitorAsks
    <3>2. CASE Round[mon].req.op # "RENAME_FILE"
      BY <3>2, <1>2 DEF MonitorAsks
    <3> QED BY <3>1, <3>2
  <2> QED BY <1>2, <2>3, <2>4, <2>5, MachinesTyped DEF MonitorAsks, Counted, updater, history
<1>3. CASE UpdaterBegins
  <2>1. rounds' \in [monitor : Nat, updater : 0 .. MaxRounds]
    <3>1. rounds' = [rounds EXCEPT !.updater = @ + 1] /\ rounds.updater < MaxRounds
      BY <1>3 DEF UpdaterBegins
    <3>2. rounds \in [monitor : Nat, updater : 0 .. MaxRounds] /\ MaxRounds \in Nat
      BY <1>0
    <3>3. rounds.updater + 1 \in 0 .. MaxRounds
      BY <3>1, <3>2
    <3> HIDE DEF TypeInv, TypeOK
    <3> QED BY <3>1, <3>2, <3>3
  <2>2. overlap' \in BOOLEAN /\ exportEnd' \subseteq 1 .. Exporters
    BY <1>3 DEF UpdaterBegins
  <2>3. upd' = UpdaterAt("create", 1) /\ UNCHANGED <<mach, monitor, allUpdate, alarmed, lost, unanswered, taken>>
    BY <1>3 DEF UpdaterBegins
  <2>4. upd'.at = "create" /\ upd'.i = 1 /\ 1 \in DOMAIN Creates /\ upd' \in [at : {"wait", "create", "local", "export", "remove", "finish"}, i : Nat]
    BY <1>0, <2>3 DEF UpdaterAt
  <2> QED BY <1>0, <2>1, <2>2, <2>3, <2>4 DEF monitor
<1>4. CASE UpdaterCreates
  <2>1. PICK ret \in Returns : /\ Ask(Creates[upd.i], ret)
                               /\ upd' = IF ret < 0 THEN upd
                                         ELSE IF upd.i < Len(Creates) THEN UpdaterAt("create", upd.i + 1)
                                         ELSE UpdaterAt("local", 0)
    BY <1>4 DEF UpdaterCreates
  <2>2. 1 \in 1 .. nB /\ upd.at = "create"
    BY <1>0, <1>4 DEF UpdaterCreates
  <2>3. Counted /\ mach' \in [Machines -> Machine]
    <3> HIDE DEF TypeInv, TypeOK
    <3> QED BY <2>1, <2>2, CreateOnBase
  <2>4. /\ upd' \in [at : {"wait", "create", "local", "export", "remove", "finish"}, i : Nat]
        /\ upd'.at = "create" => upd'.i \in DOMAIN Creates
        /\ upd'.at = "remove" => upd'.i \in DOMAIN Removes
        /\ upd'.at = "export" => upd'.i \in 1 .. Exporters
    BY <1>0, <2>1, <2>2 DEF UpdaterAt, Returns
  <2> QED BY <1>4, <2>3, <2>4, MachinesTyped DEF UpdaterCreates, Counted, monitor, history
<1>5. CASE UpdaterRenames
  <2>1. allUpdate' \in BOOLEAN
    BY <1>5 DEF UpdaterRenames
  <2>2. upd' = UpdaterAt("export", 1) /\ 1 \in 1 .. Exporters
    BY <1>0, <1>5 DEF UpdaterRenames
  <2> QED BY <1>5, <2>1, <2>2 DEF UpdaterRenames, monitor, history, UpdaterAt
<1>6. CASE UpdaterWaits
  <2>1. /\ upd' = ExportAfter(upd.i) /\ upd.i \in exportEnd
        /\ UNCHANGED <<mach, monitor, allUpdate, exportEnd, alarmed, history, lost, unanswered, taken>>
    BY <1>6 DEF UpdaterWaits
  <2>2. upd.i \in Nat /\ upd.i \in 1 .. Exporters /\ 1 \in DOMAIN Removes
    BY <1>0, <2>1
  <2>3. /\ upd' \in [at : {"wait", "create", "local", "export", "remove", "finish"}, i : Nat]
        /\ upd'.at = "create" => upd'.i \in DOMAIN Creates
        /\ upd'.at = "remove" => upd'.i \in DOMAIN Removes
        /\ upd'.at = "export" => upd'.i \in 1 .. Exporters
    <3>1. CASE upd.i < Exporters
      <4>1. upd' = UpdaterAt("export", upd.i + 1) /\ upd.i + 1 \in 1 .. Exporters /\ upd.i + 1 \in Nat
        BY <1>0, <2>1, <2>2, <3>1 DEF ExportAfter
      <4> QED BY <4>1 DEF UpdaterAt
    <3>2. CASE ~(upd.i < Exporters)
      <4>1. upd' = UpdaterAt("remove", 1)
        BY <2>1, <3>2 DEF ExportAfter
      <4> QED BY <2>2, <4>1 DEF UpdaterAt
    <3> QED BY <3>1, <3>2
  <2> QED BY <2>1, <2>3 DEF monitor, history
<1>7. CASE UpdaterRemoves
  <2>1. PICK ret \in Returns : Ask(Removes[upd.i], ret) /\ alarmed' = AlarmFor(Removes[upd.i].m, ret)
    BY <1>7 DEF UpdaterRemoves
  <2>2. 1 \in 1 .. nB /\ upd.at = "remove"
    BY <1>0, <1>7 DEF UpdaterRemoves
  <2>3. Counted /\ mach' \in [Machines -> Machine] /\ Removes[upd.i].m \in ToSet(Bases)
    <3> HIDE DEF TypeInv, TypeOK
    <3> QED BY <2>1, <2>2, RemoveOnBase
  <2>4. /\ upd' \in [at : {"wait", "create", "local", "export", "remove", "finish"}, i : Nat]
        /\ upd'.at = "create" => upd'.i \in DOMAIN Creates
        /\ upd'.at = "remove" => upd'.i \in DOMAIN Removes
        /\ upd'.at = "export" => upd'.i \in 1 .. Exporters
    BY <1>0, <1>7 DEF UpdaterRemoves, UpdaterAt
  <2>5. alarmed' \subseteq ToSet(Bases)
    BY <2>1, <2>3 DEF AlarmFor
  <2>6. UNCHANGED <<start, mon, renamed, allUpdate, exportEnd, rounds, overlap, taken>>
    BY <1>7 DEF UpdaterRemoves, monitor, history
  <2>7. \A m \in Machines : mach'[m].disk \in [Names -> Contents]
    BY <2>3, MachinesTyped
  <2>8. /\ mon' \in 0 .. Len(Round) /\ exportEnd' \subseteq 1 .. Exporters /\ renamed' \subseteq Monitored
        /\ rounds' \in [monitor : Nat, updater : 0 .. MaxRounds] /\ taken' \in [ToSet(Bases) -> Nat]
    BY <2>6
  <2>9. start' \in BOOLEAN /\ allUpdate' \in BOOLEAN /\ overlap' \in BOOLEAN
    BY <2>6
  <2> QED BY <2>3, <2>4, <2>5, <2>7, <2>8, <2>9 DEF Counted
<1>8. CASE UpdaterFinishes
  BY <1>0, <1>8 DEF UpdaterFinishes, monitor, history, UpdaterAt
<1>9. CASE BrokerStarts
  BY <1>9 DEF BrokerStarts, updater, history
<1>10. CASE AllUpdateArrives
  BY <1>10 DEF AllUpdateArrives, monitor, history
<1>11. ASSUME NEW i \in 1 .. Exporters, ExportEnds(i) PROVE TypeInv'
  BY <1>11 DEF ExportEnds, monitor, history
<1>12. ASSUME NEW m \in Monitored, ListArrives(m) PROVE TypeInv'
  <2>1. m \in Machines
    BY DEF Machines
  <2>2. Write(mach[m], Final(List), <<>>) \in Machine
    BY <2>1, NamesHold, Written
  <2>3. mach' \in [Machines -> Machine]
    BY <1>12, <2>2 DEF ListArrives
  <2> QED BY <1>12, <2>3, MachinesTyped DEF ListArrives, monitor, updater, history
<1>13. ASSUME NEW m \in Monitored, BrokerTakes(m) PROVE TypeInv'
  <2>1. m \in Machines /\ mach[m] \in Machine
    BY DEF Machines
  <2>2. Unlink(mach[m], Final(TransmitEnd)) \in Machine
    BY <2>1, NamesHold, Unlinked
  <2>3. mach' \in [Machines -> Machine]
    BY <1>13, <2>2 DEF BrokerTakes
  <2> QED BY <1>13, <2>3, MachinesTyped DEF BrokerTakes, monitor, updater, history
<1>14. ASSUME NEW b \in ToSet(Bases), BaseUpdates(b) PROVE TypeInv'
  <2>1. b \in Machines /\ mach[b] \in Machine
    BY DEF Machines
  <2>2. Unlink(mach[b], Final(AllUpdate)) \in Machine
    BY <2>1, NamesHold, Unlinked
  <2>3. mach' \in [Machines -> Machine]
    BY <1>14, <2>2 DEF BaseUpdates
  <2>4. taken' \in [ToSet(Bases) -> Nat]
    BY <1>14 DEF BaseUpdates
  <2> QED BY <1>14, <2>3, <2>4, MachinesTyped DEF BaseUpdates, monitor, updater, history
<1>15. CASE UNCHANGED vars
  BY <1>15 DEF vars, monitor, updater, history
<1> QED BY <1>1, <1>2, <1>3, <1>4, <1>5, <1>6, <1>7, <1>8, <1>9, <1>10, <1>11, <1>12, <1>13, <1>14, <1>15
        DEF Next, Monitor, Updater, External

(* The machines keep well-formed disks, the two programs are at a request that exists, and the losses and the answers
   they cost stay within the bound: whatever the machines do and in whatever order the programs run. *)
THEOREM TypeCorrect == Spec => []TypeOK
<1>1. Init => TypeInv
  BY InitTyped
<1>2. TypeInv /\ [Next]_vars => TypeInv'
  BY NextTyped
<1>3. TypeInv => TypeOK
  BY DEF TypeInv
<1> QED BY <1>1, <1>2, <1>3, PTL DEF Spec
-----------------------------------------------------------------------------
(* Safety. *)

One(p) == IF p THEN 1 ELSE 0

(* The programs are in a round at the same time only once they overlapped. *)
Alone == ~overlap => mon = 0 \/ upd.at = "wait"

(* Behind a base that the round, or ThreadUpdate, has gone past, UpdateService is there. *)
HeldBehind ==
  ~overlap =>
    /\ mon # 0 /\ mon <= RoundEnd => \A k \in 1 .. nB : 2 * k < mon => InService(Bases[k])
    /\ upd.at = "create" => \A k \in 1 .. nB : 2 * k < upd.i => InService(Bases[k])
    /\ upd.at \in {"local", "export"} => \A k \in 1 .. nB : InService(Bases[k])

(* A list the round has gone past was taken. *)
TakenBehind == mon # 0 => \A k \in 1 .. nC : 2 * nB + k < mon => Collected[k] \in renamed

(* AllUpdates that may still be taken: the one that is there, and those the programs are yet to create. *)
There(k) == One(Exists(mach[Bases[k]], Ready))
OfMonitor(k) == One(mon # 0 /\ mon < 2 * k)
OfUpdater(k) == One(upd.at = "create" /\ upd.i < 2 * k)

Charged ==
  \A k \in 1 .. nB :
    taken[Bases[k]] + There(k) + OfMonitor(k) + OfUpdater(k) <= rounds.monitor + rounds.updater + unanswered

(* Who will still remove the UpdateService of a base nobody was told of. *)
Watched ==
  \A k \in 1 .. nB :
    InService(Bases[k]) =>
      \/ Bases[k] \in alarmed
      \/ mon # 0 /\ mon <= RoundEnd + k
      \/ upd.at \in {"create", "local", "export"}
      \/ upd.at = "remove" /\ upd.i <= k

Inv == TypeInv /\ Alone /\ HeldBehind /\ TakenBehind /\ Charged /\ Watched

(* The steps that neither program takes, and that change nothing on a base. *)
Elsewhere ==
  /\ UNCHANGED <<mon, upd, renamed, overlap, rounds, unanswered, taken, alarmed>>
  /\ \A k \in 1 .. nB : mach'[Bases[k]] = mach[Bases[k]]

LEMMA OtherSteps ==
  ASSUME TypeInv,
         \/ BrokerStarts \/ AllUpdateArrives \/ \E i \in 1 .. Exporters : ExportEnds(i)
         \/ \E m \in Monitored : ListArrives(m) \/ BrokerTakes(m)
         \/ UNCHANGED vars
  PROVE  Elsewhere
<1>1. ASSUME NEW m \in Monitored, NEW k \in 1 .. nB, NEW s, mach' = [mach EXCEPT ![m] = s]
      PROVE  mach'[Bases[k]] = mach[Bases[k]]
  <2>1. Bases[k] # m /\ Bases[k] \in Machines /\ mach \in [Machines -> Machine]
    BY Counts DEF TypeInv
  <2> QED BY <1>1, <2>1
<1>2. ASSUME NEW m \in Monitored, ListArrives(m) \/ BrokerTakes(m) PROVE Elsewhere
  <2>1. \E s : mach' = [mach EXCEPT ![m] = s]
    BY <1>2 DEF ListArrives, BrokerTakes
  <2>2. \A k \in 1 .. nB : mach'[Bases[k]] = mach[Bases[k]]
    BY <1>1, <2>1
  <2>3. UNCHANGED <<monitor, updater, history, unanswered, taken>>
    BY <1>2 DEF ListArrives, BrokerTakes
  <2> QED BY <2>2, <2>3 DEF Elsewhere, monitor, updater, history
<1>3. CASE BrokerStarts \/ AllUpdateArrives
  BY <1>3 DEF BrokerStarts, AllUpdateArrives, Elsewhere, monitor, updater, history
<1>4. ASSUME NEW i \in 1 .. Exporters, ExportEnds(i) PROVE Elsewhere
  BY <1>4 DEF ExportEnds, Elsewhere, monitor, history
<1>5. CASE UNCHANGED vars
  BY <1>5 DEF vars, Elsewhere, monitor, updater, history
<1> QED BY <1>2, <1>3, <1>4, <1>5

LEMMA BaseOnBase ==
  ASSUME TypeInv, NEW b \in ToSet(Bases), BaseUpdates(b), NEW j \in 1 .. nB
  PROVE  /\ InService(Bases[j])' <=> InService(Bases[j])
         /\ Bases[j] # b => taken'[Bases[j]] = taken[Bases[j]]
                            /\ (Exists(mach'[Bases[j]], Ready) <=> Exists(mach[Bases[j]], Ready))
         /\ Bases[j] = b => /\ taken'[Bases[j]] = taken[Bases[j]] + 1
                            /\ Exists(mach[Bases[j]], Ready) /\ ~Exists(mach'[Bases[j]], Ready)
<1>1. /\ Bases[j] \in Machines /\ Bases[j] \in ToSet(Bases) /\ b \in Machines
      /\ mach \in [Machines -> Machine] /\ taken \in [ToSet(Bases) -> Nat]
      /\ Ready \in Names /\ Busy \in Names /\ Ready # Busy
  BY Counts, NamesHold DEF TypeInv, TypeOK, Ready, Busy, Machines
<1>2. mach' = [mach EXCEPT ![b] = Unlink(mach[b], Ready)] /\ taken' = [taken EXCEPT ![b] = taken[b] + 1] /\ Exists(mach[b], Ready)
  BY DEF BaseUpdates, Ready
<1>3. Unlink(mach[b], Ready).disk[Busy] = mach[b].disk[Busy] /\ ~Exists(Unlink(mach[b], Ready), Ready)
  BY <1>1, Unlinked
<1>4. InService(Bases[j])' <=> Exists(mach'[Bases[j]], Busy)
  BY DEF InService, Busy
<1>5. InService(Bases[j]) <=> Exists(mach[Bases[j]], Busy)
  BY DEF InService, Busy
<1> QED BY <1>1, <1>2, <1>3, <1>4, <1>5 DEF Exists

LEMMA NextAlone == TypeInv /\ Alone /\ [Next]_vars => Alone'
<1> SUFFICES ASSUME TypeInv, Alone, [Next]_vars PROVE Alone'
  OBVIOUS
<1> USE DEF Alone
<1>1. CASE MonitorBegins
  BY <1>1 DEF MonitorBegins, updater
<1>2. CASE MonitorAsks
  BY <1>2 DEF MonitorAsks, updater, history
<1>3. CASE UpdaterBegins
  BY <1>3 DEF UpdaterBegins, monitor
<1>4. CASE UpdaterCreates \/ UpdaterRenames \/ UpdaterWaits \/ UpdaterRemoves \/ UpdaterFinishes
  BY <1>4 DEF UpdaterCreates, UpdaterRenames, UpdaterWaits, UpdaterRemoves, UpdaterFinishes, monitor, history
<1>5. ASSUME NEW b \in ToSet(Bases), BaseUpdates(b) PROVE Alone'
  BY <1>5 DEF BaseUpdates, monitor, updater, history
<1>6. CASE Elsewhere
  BY <1>6 DEF Elsewhere
<1> QED BY <1>1, <1>2, <1>3, <1>4, <1>5, <1>6, OtherSteps DEF Next, Monitor, Updater, External

LEMMA NextHeld == TypeInv /\ Alone /\ HeldBehind /\ [Next]_vars => HeldBehind'
<1> SUFFICES ASSUME TypeInv, Alone, HeldBehind, [Next]_vars, ~overlap'
             PROVE  /\ mon' # 0 /\ mon' <= RoundEnd => \A k \in 1 .. nB : 2 * k < mon' => InService(Bases[k])'
                    /\ upd'.at = "create" => \A k \in 1 .. nB : 2 * k < upd'.i => InService(Bases[k])'
                    /\ upd'.at \in {"local", "export"} => \A k \in 1 .. nB : InService(Bases[k])'
  BY DEF HeldBehind
<1>0. /\ nB \in Nat \ {0} /\ RoundEnd \in Nat /\ Len(Round) = RoundEnd + nB /\ Len(Creates) = 2 * nB
      /\ mon \in 0 .. Len(Round)
      /\ upd.at = "create" => upd.i \in 1 .. 2 * nB
  BY Counts DEF TypeInv, TypeOK
<1>1. CASE MonitorBegins
  <2>1. mon' = 1 /\ upd'.at = "wait"
    BY <1>1 DEF MonitorBegins, updater
  <2> QED BY <1>0, <2>1
<1>2. CASE MonitorAsks
  <2>1. PICK ret \in Returns : Ask(Round[mon], ret) /\ mon' = AfterRequest(ret)
    BY <1>2 DEF MonitorAsks
  <2>2. mon # 0 /\ upd' = upd /\ upd.at = "wait" /\ ~overlap
    BY <1>2 DEF MonitorAsks, updater, history, Alone
  <2>3. ASSUME mon' # 0, mon' <= RoundEnd, NEW k \in 1 .. nB, 2 * k < mon' PROVE InService(Bases[k])'
    <3>1. /\ InService(Bases[k]) /\ ~InService(Bases[k])' => mon = RoundEnd + k
          /\ mon = 2 * k /\ ret = 0 => InService(Bases[k])'
      BY <2>1, <2>2, RoundOnBase
    <3>2. mon <= RoundEnd /\ (mon' = mon \/ (mon' = mon + 1 /\ ret = 0))
      BY <1>0, <2>1, <2>2, <2>3 DEF AfterRequest
    <3>3. 2 * k < mon => InService(Bases[k])
      BY <2>2, <3>2 DEF HeldBehind
    <3> QED BY <1>0, <2>3, <3>1, <3>2, <3>3
  <2> QED BY <2>2, <2>3
<1>3. CASE UpdaterBegins
  <2>1. upd' = UpdaterAt("create", 1) /\ mon' = mon /\ mon = 0
    BY <1>3 DEF UpdaterBegins, monitor
  <2> QED BY <1>0, <2>1 DEF UpdaterAt
<1>4. CASE UpdaterCreates
  <2>1. PICK ret \in Returns : /\ Ask(Creates[upd.i], ret)
                               /\ upd' = IF ret < 0 THEN upd
                                         ELSE IF upd.i < Len(Creates) THEN UpdaterAt("create", upd.i + 1)
                                         ELSE UpdaterAt("local", 0)
    BY <1>4 DEF UpdaterCreates
  <2>2. upd.at = "create" /\ mon' = mon /\ mon = 0 /\ ~overlap
    BY <1>4 DEF UpdaterCreates, monitor, history, Alone
  <2>3. ASSUME NEW k \in 1 .. nB
        PROVE  /\ InService(Bases[k]) => InService(Bases[k])'
               /\ upd.i = 2 * k /\ ret = 0 => InService(Bases[k])'
               /\ 2 * k < upd.i => InService(Bases[k])
    BY <2>1, <2>2, CreateOnBase DEF HeldBehind
  <2>4. CASE ret < 0
    BY <2>1, <2>2, <2>3, <2>4
  <2>5. CASE ret = 0
    <3>1. ASSUME NEW k \in 1 .. nB, 2 * k <= upd.i PROVE InService(Bases[k])'
      BY <1>0, <2>2, <2>3, <2>5, <3>1
    <3>2. CASE upd.i < Len(Creates)
      BY <1>0, <2>1, <2>2, <2>5, <3>1, <3>2 DEF UpdaterAt
    <3>3. CASE ~(upd.i < Len(Creates))
      BY <1>0, <2>1, <2>2, <2>5, <3>1, <3>3 DEF UpdaterAt
    <3> QED BY <3>2, <3>3
  <2> QED BY <2>4, <2>5 DEF Returns
<1>5. CASE UpdaterRenames \/ UpdaterWaits
  <2>1. /\ upd.at \in {"local", "export"} /\ UNCHANGED <<mach, mon, overlap>> /\ upd'.at # "create" /\ mon = 0
    BY <1>5 DEF UpdaterRenames, UpdaterWaits, ExportAfter, UpdaterAt, monitor, history, Alone
  <2> QED BY <2>1 DEF HeldBehind, InService
<1>6. CASE UpdaterRemoves \/ UpdaterFinishes
  <2>1. mon' = mon /\ mon = 0 /\ upd'.at \notin {"create", "local", "export"}
    BY <1>6 DEF UpdaterRemoves, UpdaterFinishes, UpdaterAt, monitor, history, Alone
  <2> QED BY <2>1
<1>7. ASSUME NEW b \in ToSet(Bases), BaseUpdates(b)
      PROVE  UNCHANGED <<mon, upd, overlap>> /\ \A k \in 1 .. nB : InService(Bases[k])' <=> InService(Bases[k])
  BY <1>7, BaseOnBase DEF BaseUpdates, monitor, updater, history
<1>8. ASSUME Elsewhere
      PROVE  UNCHANGED <<mon, upd, overlap>> /\ \A k \in 1 .. nB : InService(Bases[k])' <=> InService(Bases[k])
  BY <1>8 DEF Elsewhere, InService
<1>9. CASE UNCHANGED <<mon, upd, overlap>> /\ \A k \in 1 .. nB : InService(Bases[k])' <=> InService(Bases[k])
  BY <1>9 DEF HeldBehind
<1> QED BY <1>1, <1>2, <1>3, <1>4, <1>5, <1>6, <1>7, <1>8, <1>9, OtherSteps DEF Next, Monitor, Updater, External

LEMMA NextTakenBehind == TypeInv /\ TakenBehind /\ [Next]_vars => TakenBehind'
<1> SUFFICES ASSUME TypeInv, TakenBehind, [Next]_vars, mon' # 0, NEW k \in 1 .. nC, 2 * nB + k < mon'
             PROVE  Collected[k] \in renamed'
  BY DEF TakenBehind
<1>0. nB \in Nat \ {0} /\ nC \in Nat /\ mon \in 0 .. Len(Round) /\ Len(Round) \in Nat
  BY Counts DEF TypeInv, TypeOK
<1>1. CASE MonitorBegins
  BY <1>0, <1>1 DEF MonitorBegins
<1>2. CASE MonitorAsks
  <2>1. PICK ret \in Returns : Ask(Round[mon], ret) /\ mon' = AfterRequest(ret)
    BY <1>2 DEF MonitorAsks
  <2>2. mon # 0 /\ renamed \subseteq renamed'
    BY <1>2 DEF MonitorAsks
  <2>3. mon' = mon \/ (mon' = mon + 1 /\ ret = 0)
    BY <1>0, <2>1 DEF AfterRequest
  <2>4. CASE 2 * nB + k < mon
    BY <2>2, <2>4 DEF TakenBehind
  <2>5. CASE ~(2 * nB + k < mon)
    <3>1. ret = 0 /\ mon = 2 * nB + k
      BY <1>0, <2>3, <2>5
    <3>2. /\ mach' # mach /\ Round[mon].req.op = "RENAME_FILE" /\ Round[mon].m = Collected[k]
      <4>1. Round[mon] = TakeList(Collected[k]) /\ Collected[k] \in Machines
        BY <3>1, RoundLaidOut, MachinesHold DEF nC
      <4>2. Took(Collected[k], ret)
        BY <2>1, <4>1, Taking
      <4> QED BY <3>1, <4>1, <4>2 DEF Took, TakeList
    <3> QED BY <1>2, <3>2 DEF MonitorAsks
  <2> QED BY <2>4, <2>5
<1>3. CASE Updater \/ \E b \in ToSet(Bases) : BaseUpdates(b)
  <2>1. UNCHANGED <<mon, renamed>>
    BY <1>3 DEF Updater, UpdaterBegins, UpdaterCreates, UpdaterRenames, UpdaterWaits, UpdaterRemoves, UpdaterFinishes,
       BaseUpdates, monitor
  <2> QED BY <2>1 DEF TakenBehind
<1>4. CASE Elsewhere
  BY <1>4 DEF Elsewhere, TakenBehind
<1> QED BY <1>1, <1>2, <1>3, <1>4, OtherSteps DEF Next, Monitor, External

(* A create that is pending is paid for: it is made, or repeated for an answer that was lost.  e and f stand for an
   AllUpdate that is there, before and after, p and q for its pending create. *)
LEMMA Paid ==
  ASSUME NEW e \in {0, 1}, NEW f \in {0, 1}, NEW p \in {0, 1}, NEW q \in {0, 1}, NEW u \in Nat, NEW v \in {u, u + 1},
         q <= p, f <= e \/ (p = 1 /\ (q = 0 \/ v = u + 1))
  PROVE  f + q + u <= e + p + v
<1> QED OBVIOUS

(* What the count of AllUpdates may grow by, and what pays for it. *)
LEMMA NextCharged == TypeInv /\ Charged /\ [Next]_vars => Charged'
<1> SUFFICES ASSUME TypeInv, Charged, [Next]_vars, NEW k \in 1 .. nB
             PROVE  taken'[Bases[k]] + There(k)' + OfMonitor(k)' + OfUpdater(k)'
                      <= rounds'.monitor + rounds'.updater + unanswered'
  BY DEF Charged
<1> DEFINE b == Bases[k]
<1>0. /\ nB \in Nat \ {0} /\ Len(Round) = RoundEnd + nB /\ RoundEnd \in Nat /\ RoundEnd >= 2 * nB /\ Len(Creates) = 2 * nB
      /\ mon \in 0 .. Len(Round)
      /\ upd.at = "create" => upd.i \in 1 .. 2 * nB
      /\ rounds \in [monitor : Nat, updater : 0 .. MaxRounds]
  BY Counts DEF TypeInv, TypeOK
<1>9. /\ unanswered \in Nat /\ taken[b] \in Nat /\ rounds.monitor \in Nat /\ rounds.updater \in Nat
      /\ There(k) \in {0, 1} /\ There(k)' \in {0, 1}
      /\ OfMonitor(k) \in {0, 1} /\ OfMonitor(k)' \in {0, 1}
      /\ OfUpdater(k) \in {0, 1} /\ OfUpdater(k)' \in {0, 1}
      /\ taken[b] + There(k) + OfMonitor(k) + OfUpdater(k) <= rounds.monitor + rounds.updater + unanswered
  <2>1. b \in ToSet(Bases) /\ MaxRounds \in Nat
    BY Counts, UpdateCycleAssumption
  <2>2. unanswered \in Nat /\ taken[b] \in Nat /\ rounds.monitor \in Nat /\ rounds.updater \in Nat
    BY <2>1 DEF TypeInv, TypeOK
  <2>3. /\ There(k) \in {0, 1} /\ There(k)' \in {0, 1}
        /\ OfMonitor(k) \in {0, 1} /\ OfMonitor(k)' \in {0, 1}
        /\ OfUpdater(k) \in {0, 1} /\ OfUpdater(k)' \in {0, 1}
    BY DEF There, OfMonitor, OfUpdater, One
  <2> QED BY <2>2, <2>3 DEF Charged
<1>1. CASE MonitorBegins
  <2>1. /\ mon = 0 /\ mon' = 1 /\ UNCHANGED <<taken, mach, upd, unanswered>>
        /\ rounds'.monitor = rounds.monitor + 1 /\ rounds'.updater = rounds.updater
    BY <1>0, <1>1 DEF MonitorBegins, updater
  <2>2. OfMonitor(k) = 0 /\ There(k)' = There(k) /\ OfUpdater(k)' = OfUpdater(k)
    BY <2>1 DEF OfMonitor, OfUpdater, There, One
  <2> QED BY <1>9, <2>1, <2>2
<1>2. CASE MonitorAsks
  <2>1. PICK ret \in Returns : Ask(Round[mon], ret) /\ mon' = AfterRequest(ret)
    BY <1>2 DEF MonitorAsks
  <2>2. mon # 0 /\ UNCHANGED <<taken, upd, rounds>>
    BY <1>2 DEF MonitorAsks, updater, history
  <2>3. unanswered' \in {unanswered, unanswered + 1}
        /\ (~Exists(mach[b], Ready) /\ Exists(mach'[b], Ready) =>
              mon = 2 * k - 1 /\ (ret = 0 \/ unanswered' = unanswered + 1))
    BY <2>1, <2>2, RoundOnBase DEF Counted
  <2>4. mon' = (IF ret # 0 THEN mon ELSE IF mon < Len(Round) THEN mon + 1 ELSE 0)
    BY <2>1 DEF AfterRequest
  <2>5. (mon' # 0 /\ mon' < 2 * k) => (mon # 0 /\ mon < 2 * k)
    BY <1>0, <2>2, <2>4
  <2>6. mon = 2 * k - 1 /\ ret = 0 => ~(mon' # 0 /\ mon' < 2 * k)
    BY <1>0, <2>2, <2>4
  <2>7. mon = 2 * k - 1 => mon # 0 /\ mon < 2 * k
    BY <1>0, <2>2
  <2>8. There(k)' + OfMonitor(k)' + unanswered <= There(k) + OfMonitor(k) + unanswered'
    <3>1. There(k)' <= There(k) \/ (Exists(mach'[b], Ready) /\ ~Exists(mach[b], Ready))
      BY DEF There, One
    <3>2. OfMonitor(k)' <= OfMonitor(k)
      BY <2>5 DEF OfMonitor, One
    <3>3. mon = 2 * k - 1 /\ ret = 0 => OfMonitor(k)' = 0
      BY <2>6 DEF OfMonitor, One
    <3>4. mon = 2 * k - 1 => OfMonitor(k) = 1
      BY <2>7 DEF OfMonitor, One
    <3> QED BY <1>9, <2>3, <3>1, <3>2, <3>3, <3>4, Paid
  <2>9. OfUpdater(k)' = OfUpdater(k)
    BY <2>2 DEF OfUpdater
  <2> QED BY <1>9, <2>2, <2>3, <2>8, <2>9
<1>3. CASE UpdaterBegins
  <2>1. /\ upd.at = "wait" /\ UNCHANGED <<taken, mach, mon, unanswered>>
        /\ rounds'.monitor = rounds.monitor /\ rounds'.updater = rounds.updater + 1
    BY <1>0, <1>3 DEF UpdaterBegins, UpdaterAt, monitor
  <2>2. OfUpdater(k) = 0 /\ There(k)' = There(k) /\ OfMonitor(k)' = OfMonitor(k)
    BY <2>1 DEF OfMonitor, OfUpdater, There, One
  <2> QED BY <1>9, <2>1, <2>2
<1>4. CASE UpdaterCreates
  <2>1. PICK ret \in Returns : /\ Ask(Creates[upd.i], ret)
                               /\ upd' = IF ret < 0 THEN upd
                                         ELSE IF upd.i < Len(Creates) THEN UpdaterAt("create", upd.i + 1)
                                         ELSE UpdaterAt("local", 0)
    BY <1>4 DEF UpdaterCreates
  <2>2. upd.at = "create" /\ UNCHANGED <<taken, mon, rounds>>
    BY <1>4 DEF UpdaterCreates, monitor, history
  <2>3. unanswered' \in {unanswered, unanswered + 1}
        /\ (~Exists(mach[b], Ready) /\ Exists(mach'[b], Ready) =>
              upd.i = 2 * k - 1 /\ (ret = 0 \/ unanswered' = unanswered + 1))
    BY <2>1, <2>2, CreateOnBase DEF Counted
  <2>4. ret \in {-2, -1, 0}
    BY DEF Returns
  <2>5. upd'.at = "create" /\ upd'.i < 2 * k => upd.i < 2 * k
    BY <1>0, <2>1, <2>2, <2>4 DEF UpdaterAt
  <2>6. upd.i = 2 * k - 1 /\ ret = 0 => ~(upd'.at = "create" /\ upd'.i < 2 * k)
    BY <1>0, <2>1, <2>2, <2>4 DEF UpdaterAt
  <2>7. upd.i = 2 * k - 1 => upd.i < 2 * k
    BY <1>0, <2>2
  <2>8. There(k)' + OfUpdater(k)' + unanswered <= There(k) + OfUpdater(k) + unanswered'
    <3>1. There(k)' <= There(k) \/ (Exists(mach'[b], Ready) /\ ~Exists(mach[b], Ready))
      BY DEF There, One
    <3>2. OfUpdater(k)' <= OfUpdater(k)
      BY <2>2, <2>5 DEF OfUpdater, One
    <3>3. upd.i = 2 * k - 1 /\ ret = 0 => OfUpdater(k)' = 0
      BY <2>6 DEF OfUpdater, One
    <3>4. upd.i = 2 * k - 1 => OfUpdater(k) = 1
      BY <2>2, <2>7 DEF OfUpdater, One
    <3> QED BY <1>9, <2>3, <3>1, <3>2, <3>3, <3>4, Paid
  <2>9. OfMonitor(k)' = OfMonitor(k)
    BY <2>2 DEF OfMonitor
  <2> QED BY <1>9, <2>2, <2>3, <2>8, <2>9
<1>5. CASE UpdaterRenames \/ UpdaterWaits \/ UpdaterFinishes
  <2>1. upd'.at # "create" /\ UNCHANGED <<taken, mach, mon, rounds, unanswered>>
    BY <1>5 DEF UpdaterRenames, UpdaterWaits, UpdaterFinishes, ExportAfter, UpdaterAt, monitor, history
  <2>2. OfUpdater(k)' = 0 /\ There(k)' = There(k) /\ OfMonitor(k)' = OfMonitor(k)
    BY <2>1 DEF OfMonitor, OfUpdater, There, One
  <2> QED BY <1>9, <2>1, <2>2
<1>6. CASE UpdaterRemoves
  <2>1. PICK ret \in Returns : Ask(Removes[upd.i], ret) /\ alarmed' = AlarmFor(Removes[upd.i].m, ret)
    BY <1>6 DEF UpdaterRemoves
  <2>2. upd.at = "remove" /\ upd'.at # "create" /\ UNCHANGED <<taken, mon, rounds>>
    BY <1>6 DEF UpdaterRemoves, UpdaterAt, monitor, history
  <2>3. unanswered' \in {unanswered, unanswered + 1} /\ (Exists(mach'[b], Ready) <=> Exists(mach[b], Ready))
    BY <2>1, <2>2, RemoveOnBase DEF Counted
  <2>4. OfUpdater(k)' = 0 /\ There(k)' = There(k) /\ OfMonitor(k)' = OfMonitor(k)
    BY <2>2, <2>3 DEF OfMonitor, OfUpdater, There, One
  <2> QED BY <1>9, <2>2, <2>3, <2>4
<1>7. ASSUME NEW c \in ToSet(Bases), BaseUpdates(c)
      PROVE  taken'[b] + There(k)' + OfMonitor(k)' + OfUpdater(k)' <= rounds'.monitor + rounds'.updater + unanswered'
  <2>1. UNCHANGED <<mon, upd, rounds, unanswered>>
    BY <1>7 DEF BaseUpdates, monitor, updater, history
  <2>2. /\ b # c => taken'[b] = taken[b] /\ (Exists(mach'[b], Ready) <=> Exists(mach[b], Ready))
        /\ b = c => taken'[b] = taken[b] + 1 /\ Exists(mach[b], Ready) /\ ~Exists(mach'[b], Ready)
    BY <1>7, BaseOnBase
  <2>3. OfMonitor(k)' = OfMonitor(k) /\ OfUpdater(k)' = OfUpdater(k)
    BY <2>1 DEF OfMonitor, OfUpdater
  <2>4. b # c => There(k)' = There(k)
    BY <2>2 DEF There, One
  <2>5. b = c => There(k)' = 0 /\ There(k) = 1
    BY <2>2 DEF There, One
  <2> QED BY <1>9, <2>1, <2>2, <2>3, <2>4, <2>5
<1>8. CASE Elsewhere
  <2>1. /\ UNCHANGED <<mon, upd, rounds, unanswered, taken>>
        /\ There(k)' = There(k) /\ OfMonitor(k)' = OfMonitor(k) /\ OfUpdater(k)' = OfUpdater(k)
    BY <1>8 DEF Elsewhere, There, OfMonitor, OfUpdater
  <2> QED BY <1>9, <2>1
<1> QED BY <1>1, <1>2, <1>3, <1>4, <1>5, <1>6, <1>7, <1>8, OtherSteps DEF Next, Monitor, Updater, External

LEMMA NextWatched == TypeInv /\ Watched /\ [Next]_vars => Watched'
<1> SUFFICES ASSUME TypeInv, Watched, [Next]_vars, NEW k \in 1 .. nB, InService(Bases[k])'
             PROVE  \/ Bases[k] \in alarmed'
                    \/ mon' # 0 /\ mon' <= RoundEnd + k
                    \/ upd'.at \in {"create", "local", "export"}
                    \/ upd'.at = "remove" /\ upd'.i <= k
  BY DEF Watched
<1>0. /\ nB \in Nat \ {0} /\ Len(Round) = RoundEnd + nB /\ RoundEnd \in Nat /\ RoundEnd >= 2 * nB
      /\ Len(Creates) = 2 * nB /\ Len(Removes) = nB
      /\ mon \in 0 .. Len(Round)
      /\ upd.at = "remove" => upd.i \in 1 .. nB
      /\ InService(Bases[k]) =>
           \/ Bases[k] \in alarmed
           \/ mon # 0 /\ mon <= RoundEnd + k
           \/ upd.at \in {"create", "local", "export"}
           \/ upd.at = "remove" /\ upd.i <= k
  BY Counts DEF TypeInv, TypeOK, Watched
<1>1. CASE MonitorBegins
  BY <1>0, <1>1 DEF MonitorBegins
<1>2. CASE MonitorAsks
  <2>1. PICK ret \in Returns : Ask(Round[mon], ret) /\ mon' = AfterRequest(ret)
    BY <1>2 DEF MonitorAsks
  <2>2. mon # 0 /\ UNCHANGED <<upd, alarmed>>
    BY <1>2 DEF MonitorAsks, updater
  <2>3. /\ InService(Bases[k]) \/ mon = 2 * k
        /\ ~(mon = RoundEnd + k /\ ret = 0)
    BY <2>1, <2>2, RoundOnBase
  <2>4. mon' = (IF ret # 0 THEN mon ELSE IF mon < Len(Round) THEN mon + 1 ELSE 0)
    BY <2>1 DEF AfterRequest
  <2>5. mon <= RoundEnd + k => mon' # 0 /\ mon' <= RoundEnd + k
    BY <1>0, <2>2, <2>3, <2>4
  <2>6. mon = 2 * k => mon <= RoundEnd + k
    BY <1>0
  <2> QED BY <1>0, <2>2, <2>3, <2>5, <2>6
<1>3. CASE UpdaterBegins
  BY <1>3 DEF UpdaterBegins, UpdaterAt
<1>4. CASE UpdaterCreates
  BY <1>4 DEF UpdaterCreates, UpdaterAt
<1>5. CASE UpdaterRenames
  BY <1>5 DEF UpdaterRenames, UpdaterAt
<1>6. CASE UpdaterWaits
  BY <1>0, <1>6 DEF UpdaterWaits, UpdaterAt, ExportAfter
<1>7. CASE UpdaterRemoves
  <2>1. PICK ret \in Returns : Ask(Removes[upd.i], ret) /\ alarmed' = AlarmFor(Removes[upd.i].m, ret)
    BY <1>7 DEF UpdaterRemoves
  <2>2. /\ upd.at = "remove" /\ mon' = mon
        /\ upd' = IF upd.i < Len(Removes) THEN UpdaterAt("remove", upd.i + 1) ELSE UpdaterAt("finish", 0)
    BY <1>7 DEF UpdaterRemoves, monitor
  <2>3. InService(Bases[k]) /\ ~(upd.i = k /\ ret = 0) /\ Removes[upd.i].m = Bases[upd.i]
    BY <2>1, <2>2, RemoveOnBase
  <2>4. alarmed \subseteq alarmed' /\ (upd.i = k => Bases[k] \in alarmed')
    BY <2>1, <2>3 DEF AlarmFor
  <2>5. upd.i < k => upd'.at = "remove" /\ upd'.i <= k
    BY <1>0, <2>2 DEF UpdaterAt
  <2>6. upd.i <= k => upd.i = k \/ upd.i < k
    BY <1>0, <2>2
  <2> QED BY <1>0, <2>2, <2>3, <2>4, <2>5, <2>6
<1>8. CASE UpdaterFinishes
  BY <1>0, <1>8 DEF UpdaterFinishes, monitor, InService
<1>9. CASE \E b \in ToSet(Bases) : BaseUpdates(b)
  <2>1. UNCHANGED <<mon, upd, alarmed>> /\ InService(Bases[k])
    BY <1>9, BaseOnBase DEF BaseUpdates, monitor, updater
  <2> QED BY <1>0, <2>1
<1>10. CASE Elsewhere
  BY <1>0, <1>10 DEF Elsewhere, InService
<1> QED BY <1>1, <1>2, <1>3, <1>4, <1>5, <1>6, <1>7, <1>8, <1>9, <1>10, OtherSteps DEF Next, Monitor, Updater, External

LEMMA InitSafe == Init => Inv
<1> SUFFICES ASSUME Init PROVE Inv
  OBVIOUS
<1>1. TypeInv
  BY InitTyped
<1>2. \A k \in 1 .. nB : ~Exists(mach[Bases[k]], Ready) /\ ~InService(Bases[k]) /\ taken[Bases[k]] = 0
  BY Counts, NamesHold DEF Init, NewMachine, Exists, InService, Ready, Busy
<1>3. /\ mon = 0 /\ upd.at = "wait" /\ unanswered = 0 /\ rounds.monitor = 0 /\ rounds.updater = 0
  BY DEF Init, UpdaterAt
<1>4. \A k \in 1 .. nB : There(k) = 0 /\ OfMonitor(k) = 0 /\ OfUpdater(k) = 0
  BY <1>2, <1>3 DEF There, OfMonitor, OfUpdater, One
<1>5. Charged
  BY <1>2, <1>3, <1>4 DEF Charged
<1>6. Alone /\ HeldBehind /\ TakenBehind /\ Watched
  BY <1>2, <1>3 DEF Alone, HeldBehind, TakenBehind, Watched
<1> QED BY <1>1, <1>5, <1>6 DEF Inv

LEMMA InvCorrect == Spec => []Inv
<1>1. Init => Inv
  BY InitSafe
<1>2. Inv /\ [Next]_vars => Inv'
  BY NextTyped, NextAlone, NextHeld, NextTakenBehind, NextCharged, NextWatched DEF Inv
<1> QED BY <1>1, <1>2, PTL DEF Spec

(* Steps 3 to 5 of SymbolMonitor and the wait of ThreadUpdate: UpdateService is on every base, whatever is lost or
   repeated, as long as the two programs were never in a round at the same time. *)
THEOREM ServiceStays == Spec => []ServiceHeld
<1>1. Inv => ServiceHeld
  <2> SUFFICES ASSUME Inv, ~overlap,
                      \/ mon > Len(Announce) /\ mon <= Len(Round) - Len(Release)
                      \/ upd.at \in {"local", "export"},
                      NEW b \in ToSet(Bases)
               PROVE  InService(b)
    BY DEF ServiceHeld
  <2>1. PICK k \in 1 .. nB : b = Bases[k]
    BY Counts
  <2>2. CASE mon > Len(Announce) /\ mon <= Len(Round) - Len(Release)
    <3>0. mon \in Nat /\ Len(Announce) = 2 * nB /\ Len(Round) - Len(Release) = RoundEnd
      BY Counts DEF Inv, TypeInv, TypeOK
    <3>1. mon # 0 /\ mon <= RoundEnd /\ 2 * k < mon
      BY <2>2, <3>0, Counts
    <3> QED BY <2>1, <3>1 DEF Inv, HeldBehind
  <2>3. CASE upd.at \in {"local", "export"}
    BY <2>1, <2>3 DEF Inv, HeldBehind
  <2> QED BY <2>2, <2>3
<1> QED BY <1>1, InvCorrect, PTL

(* A create that is repeated because its answer was lost is the only way a base can take AllUpdate twice in a round. *)
THEOREM UpdatesAreCounted == Spec => []TakenOnce
<1>1. Inv => TakenOnce
  <2> SUFFICES ASSUME Inv, NEW b \in ToSet(Bases)
               PROVE  taken[b] <= rounds.monitor + rounds.updater + unanswered
    BY DEF TakenOnce
  <2>1. PICK k \in 1 .. nB : b = Bases[k]
    BY Counts
  <2>2. /\ taken[b] \in Nat /\ unanswered \in Nat /\ rounds.monitor \in Nat /\ rounds.updater \in Nat
    BY UpdateCycleAssumption DEF Inv, TypeInv, TypeOK
  <2>3. There(k) \in {0, 1} /\ OfMonitor(k) \in {0, 1} /\ OfUpdater(k) \in {0, 1}
    BY DEF There, OfMonitor, OfUpdater, One
  <2>4. taken[b] + There(k) + OfMonitor(k) + OfUpdater(k) <= rounds.monitor + rounds.updater + unanswered
    BY <2>1 DEF Inv, Charged
  <2> QED BY <2>2, <2>3, <2>4
<1> QED BY <1>1, InvCorrect, PTL

(* The removes that ThreadUpdate does not repeat leave no base unable to merge without a message, also when the
   symbol monitor created its UpdateService. *)
THEOREM NobodyIsForgotten == Spec => []ServiceLeftAlarmed
<1>1. Inv => ServiceLeftAlarmed
  <2> SUFFICES ASSUME Inv, mon = 0, upd.at = "wait", NEW b \in ToSet(Bases), InService(b)
               PROVE  b \in alarmed
    BY DEF ServiceLeftAlarmed
  <2>1. PICK k \in 1 .. nB : b = Bases[k]
    BY Counts
  <2> QED BY <2>1 DEF Inv, Watched
<1> QED BY <1>1, InvCorrect, PTL

(* Step 5 of SymbolMonitor comes after every rename of step 4 was done at its machine, also one whose answer was lost. *)
THEOREM EndIsLast == Spec => EndAfterAll
<1> DEFINE Told(m) == ~Exists(mach[m], Final(TransmitEnd)) /\ Exists(mach'[m], Final(TransmitEnd)) => renamed = Monitored
<1> DEFINE E == Final(TransmitEnd)
<1>1. Inv /\ [Next]_vars => \A m \in Monitored : Told(m)
  <2> SUFFICES ASSUME Inv, [Next]_vars, NEW m \in Monitored, ~Exists(mach[m], E), Exists(mach'[m], E)
               PROVE  renamed = Monitored
    OBVIOUS
  <2>0. /\ TypeInv /\ TakenBehind /\ m \in Machines /\ E \in Names /\ mach \in [Machines -> Machine]
        /\ E \notin {Final(List), <<List, "smtmp">>}
        /\ m \notin ToSet(Bases)
    BY NamesHold, UpdateCycleAssumption DEF Inv, TypeInv, Machines
  <2> HIDE DEF E
  <2>1. ASSUME NEW x \in Machines, NEW ns, Untouched(x, ns), x # m \/ E \notin ns PROVE FALSE
    BY <2>0, <2>1, Same
  <2>2. CASE MonitorAsks
    <3>1. PICK ret \in Returns : Ask(Round[mon], ret)
      BY <2>2 DEF MonitorAsks
    <3>2. mon # 0
      BY <2>2 DEF MonitorAsks
    <3>3. /\ \A k \in 1 .. nB : ~Created(Bases[k], Ready, ret) /\ ~Created(Bases[k], Busy, ret) /\ ~Dropped(Bases[k], Busy, ret)
          /\ \A k \in 1 .. nC : ~Took(Collected[k], ret)
      <4>1. \A k \in 1 .. nB : Bases[k] \in Machines /\ Bases[k] # m
        BY <2>0, Counts
      <4>2. \A k \in 1 .. nC : Collected[k] \in Machines
        BY MachinesHold DEF nC
      <4> QED BY <2>0, <2>1, <4>1, <4>2 DEF Created, Dropped, Took
    <3>4. PICK k \in 1 .. nD : mon = 2 * nB + nC + k
      BY <2>0, <3>1, <3>2, <3>3, AskedOfRound
    <3>5. \A j \in 1 .. nC : Collected[j] \in renamed
      <4>1. \A j \in 1 .. nC : 2 * nB + j < mon
        BY <3>4, Counts
      <4> QED BY <2>0, <3>2, <4>1 DEF TakenBehind
    <3>6. Monitored \subseteq renamed
      BY <3>5, MachinesHold DEF nC
    <3> QED BY <2>0, <3>6 DEF TypeInv, TypeOK
  <2>3. CASE UpdaterCreates
    <3>1. PICK ret \in Returns : Ask(Creates[upd.i], ret)
      BY <2>3 DEF UpdaterCreates
    <3>2. upd.at = "create" /\ 1 \in 1 .. nB
      BY <2>3, Counts DEF UpdaterCreates
    <3>3. Untouched(Creates[upd.i].m, {Ready, Busy}) /\ Creates[upd.i].m \in ToSet(Bases)
      BY <2>0, <3>1, <3>2, CreateOnBase
    <3> QED BY <2>0, <2>1, <3>3 DEF Machines
  <2>4. CASE UpdaterRemoves
    <3>1. PICK ret \in Returns : Ask(Removes[upd.i], ret)
      BY <2>4 DEF UpdaterRemoves
    <3>2. upd.at = "remove" /\ 1 \in 1 .. nB
      BY <2>4, Counts DEF UpdaterRemoves
    <3>3. Untouched(Removes[upd.i].m, {Busy}) /\ Removes[upd.i].m \in ToSet(Bases)
      BY <2>0, <3>1, <3>2, RemoveOnBase
    <3> QED BY <2>0, <2>1, <3>3 DEF Machines
  <2>5. ASSUME NEW x \in Monitored, ListArrives(x) PROVE FALSE
    <3>1. mach' = [mach EXCEPT ![x] = Write(mach[x], Final(List), <<>>)] /\ x \in Machines
      BY <2>5 DEF ListArrives, Machines
    <3>2. Write(mach[x], Final(List), <<>>).disk[E] = mach[x].disk[E]
      BY <2>0, <3>1, Written, NamesHold
    <3> QED BY <2>0, <3>1, <3>2 DEF Exists
  <2>6. ASSUME NEW x \in Monitored, BrokerTakes(x) PROVE FALSE
    <3>1. mach' = [mach EXCEPT ![x] = Unlink(mach[x], E)] /\ x \in Machines
      BY <2>6 DEF BrokerTakes, Machines, E
    <3>2. ~Exists(Unlink(mach[x], E), E)
      BY <2>0, <3>1, Unlinked
    <3> QED BY <2>0, <3>1, <3>2 DEF Exists
  <2>7. ASSUME NEW x \in ToSet(Bases), BaseUpdates(x) PROVE FALSE
    BY <2>0, <2>7 DEF BaseUpdates
  <2>8. CASE UNCHANGED mach
    BY <2>8
  <2>9. CASE MonitorBegins \/ UpdaterBegins \/ UpdaterRenames \/ UpdaterWaits \/ UpdaterFinishes \/ BrokerStarts
             \/ AllUpdateArrives \/ (\E i \in 1 .. Exporters : ExportEnds(i)) \/ UNCHANGED vars
    <3>1. UNCHANGED mach
      BY <2>9 DEF MonitorBegins, UpdaterBegins, UpdaterRenames, UpdaterWaits, UpdaterFinishes, BrokerStarts,
         AllUpdateArrives, ExportEnds, vars
    <3> QED BY <2>8, <3>1
  <2> QED BY <2>2, <2>3, <2>4, <2>5, <2>6, <2>7, <2>9 DEF Next, Monitor, Updater, External
<1> HIDE DEF Told
<1>2. Inv /\ [Next]_vars => [\A m \in Monitored : Told(m)]_vars
  BY <1>1
<1>3. EndAfterAll <=> [][\A m \in Monitored : Told(m)]_vars
  BY DEF EndAfterAll, Told
<1> QED BY <1>2, <1>3, InvCorrect, PTL DEF Spec
=============================================================================
