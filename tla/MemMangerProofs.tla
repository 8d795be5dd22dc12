-------------------------- MODULE MemMangerProofs --------------------------
(***************************************************************************)
(* Proofs about MemManger, for every number of units, set of sizes and set *)
(* of threads: the labels describe the blocks, the counter is exact, and   *)
(* the scan implements a first-fit allocator (FirstFit).                   *)
(***************************************************************************)
EXTENDS MemManger, FiniteSetTheorems, TLAPS

(* A run of n units from s on in which no unit is labelled. *)
RunFree(s, n) == s + n <= FieldNum /\ \A c \in s .. s + n - 1 : m_Symbole[c] = Null

(* The loop passed by no start that would have done.  The lock keeps it so. *)
NothingBefore(t) == \A s \in Units : s < i[t] => ~ RunFree(s, Msize[t])
ScanInv ==
  \A t \in Threads :
    /\ pc[t] = "enter" => i[t] = 0
    /\ pc[t] = "scan" => m_MemCri = t /\ NothingBefore(t)

Inv == TypeOK /\ LabelsMatch /\ UsedExact /\ ScanInv

UsedOf(f) == {c \in Units : f[c] # Null}

-----------------------------------------------------------------------------
(* The units in use are finitely many, at most all. *)
LEMMA UsedFinite ==
  ASSUME NEW f
  PROVE  IsFiniteSet(UsedOf(f)) /\ Cardinality(UsedOf(f)) \in 0 .. FieldNum
<1>1. IsFiniteSet(Units) /\ Cardinality(Units) = FieldNum
  BY FS_Interval, PoolAssumption DEF Units
<1>2. UsedOf(f) \in SUBSET Units
  BY DEF UsedOf
<1>3. IsFiniteSet(UsedOf(f)) /\ Cardinality(UsedOf(f)) <= FieldNum
  BY <1>1, <1>2, FS_Subset
<1> QED
  BY <1>3, FS_CardinalityType, PoolAssumption

LEMMA IntervalSize ==
  ASSUME NEW a \in Int, NEW b \in Int, a <= b
  PROVE  IsFiniteSet(a .. b) /\ Cardinality(a .. b) = b - a + 1
BY FS_Interval

(* The counter leaves room for every free run. *)
LEMMA RoomForRun ==
  ASSUME UsedExact, NEW s \in Units, NEW n \in Nat, n > 0, RunFree(s, n)
  PROVE  FieldNum - m_UsedMemNum >= n
<1> DEFINE R == s .. s + n - 1
<1>1. IsFiniteSet(Units) /\ Cardinality(Units) = FieldNum
  BY FS_Interval, PoolAssumption DEF Units
<1>2. IsFiniteSet(R) /\ Cardinality(R) = n
  <2>1. s \in Int /\ s + n - 1 \in Int /\ s <= s + n - 1
    BY DEF Units
  <2> QED BY <2>1, FS_Interval
<1>3. Units \cap R = R
  BY PoolAssumption DEF RunFree, Units
<1>4. IsFiniteSet(Units \ R) /\ Cardinality(Units \ R) = FieldNum - n
  <2> HIDE DEF R
  <2>1. /\ IsFiniteSet(Units \ R)
        /\ Cardinality(Units \ R) = Cardinality(Units) - Cardinality(Units \cap R)
    BY <1>1, FS_Difference
  <2> QED BY <2>1, <1>1, <1>2, <1>3
<1>5. UsedOf(m_Symbole) \in SUBSET (Units \ R)
  BY DEF UsedOf, RunFree
<1>6. Cardinality(UsedOf(m_Symbole)) <= FieldNum - n
  BY <1>4, <1>5, FS_Subset
<1>7. m_UsedMemNum = Cardinality(UsedOf(m_Symbole))
  BY DEF UsedExact, UsedOf
<1>8. m_UsedMemNum \in Int
  BY <1>7, UsedFinite
<1> QED
  BY <1>6, <1>7, <1>8, PoolAssumption

(* The label of a block's first unit, followed as far as it goes, covers exactly the block. *)
LEMMA LabelledIsBlock ==
  ASSUME TypeOK, LabelsMatch, NEW p \in Units, held[p] > 0
  PROVE  Labelled(p) = p .. p + held[p] - 1
<1>1. held[p] \in Nat /\ p + held[p] <= FieldNum
  BY DEF TypeOK
<1>2. \A c \in Units : m_Symbole[c] = p <=> p <= c /\ c < p + held[p]
  BY DEF LabelsMatch, Covers
<1>3. ASSUME NEW c \in Labelled(p)
      PROVE  c \in p .. p + held[p] - 1
  <2>1. c \in Units /\ c >= p /\ m_Symbole[c] = p
    BY PoolAssumption DEF Labelled, Units
  <2> QED BY <2>1, <1>1, <1>2 DEF Units
<1>4. ASSUME NEW c \in p .. p + held[p] - 1
      PROVE  c \in Labelled(p)
  <2>1. \A d \in p .. c : d \in Units /\ m_Symbole[d] = p
    BY <1>1, <1>2, PoolAssumption DEF Units
  <2>2. c \in p .. FieldNum - 1
    BY <1>1, PoolAssumption DEF Units
  <2> QED BY <2>1, <2>2 DEF Labelled
<1> QED BY <1>3, <1>4

(* A unit is free for Allocator exactly when it has no label. *)
LEMMA FreeIsUnlabelled ==
  ASSUME TypeOK, LabelsMatch, NEW c \in Units
  PROVE  Promised!IsFree(c) <=> m_Symbole[c] = Null
<1>1. m_Symbole[c] \in Units \cup {Null}
  BY DEF TypeOK
<1>2. Promised!IsFree(c) <=> \A s \in Units : ~ Covers(s, c)
  BY DEF Promised!IsFree, Promised!Covers, Covers, Promised!Units, Units
<1>3. \A s \in Units : m_Symbole[c] = s <=> Covers(s, c)
  BY DEF LabelsMatch
<1>4. Null \notin Units
  BY NullAssumption, PoolAssumption DEF Units
<1> QED BY <1>1, <1>2, <1>3, <1>4

LEMMA FitsIsRunFree ==
  ASSUME TypeOK, LabelsMatch, NEW s \in Units, NEW n \in Nat
  PROVE  Promised!Fits(s, n) <=> RunFree(s, n)
<1>1. ASSUME s + n <= FieldNum, NEW c \in s .. s + n - 1
      PROVE  Promised!IsFree(c) <=> m_Symbole[c] = Null
  <2>1. c \in Units
    BY <1>1, PoolAssumption DEF Units
  <2> QED BY <2>1, FreeIsUnlabelled
<1> QED BY <1>1 DEF Promised!Fits, RunFree

-----------------------------------------------------------------------------
(* The parts of the step theorem.  A step that leaves labels, blocks and counter alone disturbs only
   the scan. *)
LEMMA InitInv == InitSys => Inv
<1> SUFFICES ASSUME InitSys PROVE Inv
  OBVIOUS
<1>1. TypeOK
  BY PoolAssumption DEF InitSys, TypeOK, Units
<1>2. LabelsMatch
  BY NullAssumption DEF InitSys, LabelsMatch, Covers, Units
<1>3. UsedExact
  <2>1. UsedOf(m_Symbole) = {}
    BY DEF InitSys, UsedOf
  <2> QED BY <2>1, FS_EmptySet DEF InitSys, UsedExact, UsedOf
<1>4. ScanInv
  BY DEF InitSys, ScanInv
<1> QED BY <1>1, <1>2, <1>3, <1>4 DEF Inv

(* Steps of thread t that change neither the labels nor the blocks keep what another thread's scan
   knows. *)
LEMMA LabelsKept ==
  ASSUME TypeOK, LabelsMatch, UsedExact, UNCHANGED <<m_Symbole, m_UsedMemNum, held>>
  PROVE  LabelsMatch' /\ UsedExact'
BY DEF LabelsMatch, UsedExact, Covers

LEMMA CallStep ==
  ASSUME Inv, NEW t \in Threads, NEW n \in Sizes, Reqmem(t, n)
  PROVE  Inv'
<1>1. TypeOK'
  BY DEF Inv, TypeOK, Reqmem
<1>2. LabelsMatch' /\ UsedExact'
  BY LabelsKept DEF Inv, Reqmem
<1>3. ScanInv'
  BY DEF Inv, TypeOK, ScanInv, NothingBefore, RunFree, Reqmem
<1> QED BY <1>1, <1>2, <1>3 DEF Inv

LEMMA RefusedStep ==
  ASSUME Inv, NEW t \in Threads, EnterRefused(t)
  PROVE  Inv'
<1>1. TypeOK'
  BY DEF Inv, TypeOK, EnterRefused
<1>2. LabelsMatch' /\ UsedExact'
  BY LabelsKept DEF Inv, EnterRefused
<1>3. ScanInv'
  BY DEF Inv, TypeOK, ScanInv, NothingBefore, RunFree, EnterRefused
<1> QED BY <1>1, <1>2, <1>3 DEF Inv

(* The scan begins at 0, and no other thread can be scanning: it would hold the lock. *)
LEMMA EnterStep ==
  ASSUME Inv, NEW t \in Threads, EnterScan(t)
  PROVE  Inv'
<1>1. TypeOK'
  BY DEF Inv, TypeOK, EnterScan
<1>2. LabelsMatch' /\ UsedExact'
  BY LabelsKept DEF Inv, EnterScan
<1>3. \A u \in Threads : u # t => pc[u] # "scan"
  BY NullAssumption DEF Inv, ScanInv, EnterScan
<1>4. ScanInv'
  BY <1>3 DEF Inv, TypeOK, ScanInv, NothingBefore, EnterScan, Units
<1> QED BY <1>1, <1>2, <1>4 DEF Inv

LEMMA EndsStep ==
  ASSUME Inv, NEW t \in Threads, ScanEnds(t)
  PROVE  Inv'
<1>1. TypeOK'
  BY DEF Inv, TypeOK, ScanEnds, Leave
<1>2. LabelsMatch' /\ UsedExact'
  BY LabelsKept DEF Inv, ScanEnds
<1>3. \A u \in Threads : u # t => pc[u] # "scan"
  BY DEF Inv, ScanInv, ScanEnds
<1>4. ScanInv'
  BY <1>3 DEF Inv, TypeOK, ScanInv, ScanEnds, Leave
<1> QED BY <1>1, <1>2, <1>4 DEF Inv

LEMMA ScanTypes ==
  ASSUME TypeOK, NEW t \in Threads
  PROVE  i[t] \in Nat /\ Msize[t] \in Nat /\ Msize[t] > 0
<1>1. i[t] \in Nat /\ Msize[t] \in Sizes
  BY DEF TypeOK
<1>2. Msize[t] \in Nat /\ Msize[t] # 0
  BY <1>1, PoolAssumption
<1> QED BY <1>1, <1>2

(* What is known where the loop found a run. *)
LEMMA TakenRun ==
  ASSUME Inv, NEW t \in Threads, ScanTakes(t)
  PROVE  /\ i[t] \in Units /\ Last(t) \in Units /\ Msize[t] \in Nat /\ Msize[t] > 0
         /\ \A c \in i[t] .. Last(t) : c \in Units /\ m_Symbole[c] = Null
<1>1. i[t] \in Nat /\ Msize[t] \in Nat /\ Msize[t] > 0 /\ i[t] + Msize[t] <= FieldNum
  BY ScanTypes DEF Inv, ScanTakes, InPool
<1>2. \A c \in i[t] .. Last(t) : m_Symbole[c] = Null
  BY DEF ScanTakes, UsedUnits
<1> QED BY <1>1, <1>2, PoolAssumption DEF Units, Last

LEMMA TakesStep ==
  ASSUME Inv, NEW t \in Threads, ScanTakes(t)
  PROVE  Inv'
<1> DEFINE R == i[t] .. Last(t)
<1>1. /\ i[t] \in Units /\ Last(t) \in Units /\ Msize[t] \in Nat /\ Msize[t] > 0
      /\ \A c \in R : c \in Units /\ m_Symbole[c] = Null
  BY TakenRun
<1>2. /\ m_Symbole \in [Units -> Units \cup {Null}] /\ m_UsedMemNum \in 0 .. FieldNum
      /\ held \in [Units -> Nat]
  BY DEF Inv, TypeOK
<1>3. UsedOf(m_Symbole') = UsedOf(m_Symbole) \cup R
  BY <1>1, <1>2, NullAssumption DEF UsedOf, ScanTakes, Units
<1>4. UsedExact'
  <2>1. UsedOf(m_Symbole) \cap R = {}
    BY <1>1 DEF UsedOf
  <2>2. IsFiniteSet(R) /\ Cardinality(R) = Msize[t]
    <3>1. i[t] \in Int /\ Last(t) \in Int /\ i[t] <= Last(t) /\ Last(t) - i[t] + 1 = Msize[t]
      BY <1>1 DEF Units, Last
    <3>2. /\ IsFiniteSet(i[t] .. Last(t))
          /\ Cardinality(i[t] .. Last(t)) = Last(t) - i[t] + 1
      BY <3>1, IntervalSize
    <3> QED BY <3>1, <3>2
  <2> HIDE DEF R
  <2>3. Cardinality(UsedOf(m_Symbole) \cup R) =
          Cardinality(UsedOf(m_Symbole)) + Cardinality(R) - Cardinality(UsedOf(m_Symbole) \cap R)
    BY <2>2, UsedFinite, FS_Union
  <2>4. Cardinality(UsedOf(m_Symbole') ) = m_UsedMemNum + Msize[t]
    <3>1. m_UsedMemNum = Cardinality(UsedOf(m_Symbole))
      BY DEF Inv, UsedExact, UsedOf
    <3>2. Cardinality(UsedOf(m_Symbole) \cap R) = 0
      BY <2>1, FS_EmptySet
    <3> QED BY <1>1, <1>2, <1>3, <2>2, <2>3, <3>1, <3>2
  <2> QED BY <2>4 DEF UsedExact, UsedOf, ScanTakes
<1>5. TypeOK'
  <2>1. m_UsedMemNum' \in 0 .. FieldNum
    BY <1>4, UsedFinite DEF UsedExact, UsedOf
  <2>2. m_Symbole' \in [Units -> Units \cup {Null}]
    BY <1>1, <1>2 DEF ScanTakes
  <2>3. held' \in [Units -> Nat] /\ \A s \in Units : s + held'[s] <= FieldNum
    BY <1>1, <1>2 DEF ScanTakes, Inv, TypeOK, InPool
  <2> QED BY <1>1, <2>1, <2>2, <2>3 DEF Inv, TypeOK, ScanTakes, Leave
<1>6. LabelsMatch'
  <2> SUFFICES ASSUME NEW s \in Units, NEW c \in Units
               PROVE  m_Symbole'[c] = s <=> Covers(s, c)'
    BY DEF LabelsMatch
  <2>1. m_Symbole[c] = s <=> Covers(s, c)
    BY DEF Inv, LabelsMatch
  <2>2. m_Symbole'[c] = IF c \in R THEN i[t] ELSE m_Symbole[c]
    BY <1>2 DEF ScanTakes
  <2>3. held'[s] = IF s = i[t] THEN Msize[t] ELSE held[s]
    BY <1>2 DEF ScanTakes
  <2>4. CASE s # i[t]
    <3>1. c \in R => ~ Covers(s, c)
      BY <1>1, <2>1, NullAssumption DEF Units
    <3> QED BY <2>1, <2>2, <2>3, <2>4, <3>1 DEF Covers
  <2>5. CASE s = i[t]
    <3>1. i[t] \in R
      BY <1>1 DEF Units, Last
    <3>2. ~ Covers(i[t], i[t])
      BY <1>1, <3>1, NullAssumption DEF Inv, LabelsMatch, Units
    <3>3. held[i[t]] = 0
      BY <1>1, <1>2, <3>2 DEF Covers, Units
    <3>4. m_Symbole[c] # s
      BY <2>1, <2>5, <3>3 DEF Covers
    <3> QED BY <1>1, <2>2, <2>3, <2>5, <3>4 DEF Covers, Last, Units
  <2> QED BY <2>4, <2>5
<1>7. ScanInv'
  <2>1. \A u \in Threads : u # t => pc[u] # "scan"
    BY DEF Inv, ScanInv, ScanTakes
  <2> QED BY <2>1 DEF Inv, TypeOK, ScanInv, ScanTakes, Leave
<1> QED BY <1>4, <1>5, <1>6, <1>7 DEF Inv

(* A scan that goes on keeps its knowledge if no start it passes would have done. *)
LEMMA ScanGoesOn ==
  ASSUME Inv, NEW t \in Threads, pc[t] = "scan", NEW k \in Nat,
         i' = [i EXCEPT ![t] = k],
         \A s \in Units : i[t] <= s /\ s < k => ~ RunFree(s, Msize[t]),
         UNCHANGED <<m_Symbole, m_UsedMemNum, m_MemCri, pc, Msize, Result, held>>
  PROVE  Inv'
<1>1. TypeOK'
  BY DEF Inv, TypeOK
<1>2. LabelsMatch' /\ UsedExact'
  BY LabelsKept DEF Inv
<1>3. ScanInv'
  <2>1. \A u \in Threads : u # t => pc[u] # "scan"
    BY DEF Inv, ScanInv
  <2>2. i[t] \in Nat /\ i'[t] = k
    BY DEF Inv, TypeOK
  <2>3. NothingBefore(t)'
    <3> SUFFICES ASSUME NEW s \in Units, s < k
                 PROVE  ~ RunFree(s, Msize[t])
      BY <2>2 DEF NothingBefore, RunFree
    <3>1. CASE s < i[t]
      BY <3>1 DEF Inv, ScanInv, NothingBefore
    <3>2. CASE i[t] <= s
      BY <3>2
    <3> QED BY <2>2, <3>1, <3>2 DEF Units
  <2> QED BY <2>1, <2>3 DEF Inv, TypeOK, ScanInv
<1> QED BY <1>1, <1>2, <1>3 DEF Inv

LEMMA HitsStep ==
  ASSUME Inv, NEW t \in Threads, ScanHits(t)
  PROVE  Inv'
<1>1. i[t] \in Nat /\ Msize[t] \in Nat /\ Msize[t] > 0 /\ i[t] + Msize[t] <= FieldNum
  BY ScanTypes DEF Inv, ScanHits, InPool
<1>2. PICK j \in UsedUnits(t) : i' = [i EXCEPT ![t] = j + 1]
  BY DEF ScanHits
<1>3. j \in Nat /\ i[t] <= j /\ j <= i[t] + Msize[t] - 1 /\ m_Symbole[j] # Null
  BY <1>1 DEF UsedUnits, Last
<1>4. ASSUME NEW s \in Units, i[t] <= s, s < j + 1
      PROVE  ~ RunFree(s, Msize[t])
  BY <1>1, <1>3, <1>4 DEF RunFree, Units
<1>5. j + 1 \in Nat
  BY <1>3
<1> QED BY <1>2, <1>4, <1>5, ScanGoesOn DEF ScanHits

LEMMA SkipsStep ==
  ASSUME Inv, NEW t \in Threads, ScanSkips(t)
  PROVE  Inv'
<1>1. i[t] \in Nat /\ Msize[t] \in Nat /\ Msize[t] > 0 /\ i[t] + Msize[t] <= FieldNum
  BY ScanTypes DEF Inv, ScanSkips, InPool
<1>2. CASE m_Symbole[i[t]] # Null /\ m_Symbole[Last(t)] # Null
  <2>1. i' = [i EXCEPT ![t] = i[t] + Msize[t]]
    BY <1>2 DEF ScanSkips
  <2>2. ASSUME NEW s \in Units, i[t] <= s, s < i[t] + Msize[t]
        PROVE  ~ RunFree(s, Msize[t])
    BY <1>1, <1>2, <2>2 DEF RunFree, Units, Last
  <2>3. i[t] + Msize[t] \in Nat
    BY <1>1
  <2> QED BY <2>1, <2>2, <2>3, ScanGoesOn DEF ScanSkips
<1>3. CASE ~ (m_Symbole[i[t]] # Null /\ m_Symbole[Last(t)] # Null)
  <2>1. i' = [i EXCEPT ![t] = i[t] + 1]
    BY <1>3 DEF ScanSkips
  <2>2. ASSUME NEW s \in Units, i[t] <= s, s < i[t] + 1
        PROVE  ~ RunFree(s, Msize[t])
    <3>1. s = i[t]
      BY <1>1, <2>2 DEF Units
    <3>2. i[t] \in s .. s + Msize[t] - 1 /\ Last(t) \in s .. s + Msize[t] - 1
      BY <1>1, <3>1 DEF Last
    <3> QED BY <3>2 DEF RunFree, ScanSkips, FreeEnds
  <2>3. i[t] + 1 \in Nat
    BY <1>1
  <2> QED BY <2>1, <2>2, <2>3, ScanGoesOn DEF ScanSkips
<1> QED BY <1>2, <1>3

LEMMA FreeStep ==
  ASSUME Inv, NEW t \in Threads, NEW p \in Units, Freemem(t, p)
  PROVE  Inv'
<1> DEFINE R == p .. p + held[p] - 1
<1>1. /\ m_Symbole \in [Units -> Units \cup {Null}] /\ m_UsedMemNum \in 0 .. FieldNum
      /\ held \in [Units -> Nat] /\ held[p] > 0 /\ p + held[p] <= FieldNum
  BY DEF Inv, TypeOK, Freemem
<1>2. Labelled(p) = R
  BY LabelledIsBlock DEF Inv, Freemem
<1>3. \A c \in Units : m_Symbole[c] = p <=> c \in R
  <2>1. \A c \in Units : m_Symbole[c] = p <=> Covers(p, c)
    BY DEF Inv, LabelsMatch
  <2> QED BY <2>1, <1>1 DEF Covers, Units
<1>4. \A c \in R : c \in Units
  BY <1>1, PoolAssumption DEF Units
<1>5. m_Symbole' = [c \in Units |-> IF c \in R THEN Null ELSE m_Symbole[c]]
  BY <1>2 DEF Freemem
<1>6. UsedExact'
  <2>1. UsedOf(m_Symbole') = UsedOf(m_Symbole) \ R
    BY <1>5 DEF UsedOf
  <2>2. UsedOf(m_Symbole) \cap R = R
    BY <1>3, <1>4, NullAssumption DEF UsedOf, Units
  <2> HIDE DEF R
  <2>3. Cardinality(UsedOf(m_Symbole) \ R) = Cardinality(UsedOf(m_Symbole)) - Cardinality(R)
    BY <2>2, UsedFinite, FS_Difference
  <2>4. m_UsedMemNum' = m_UsedMemNum - Cardinality(R)
    BY <1>2 DEF Freemem
  <2> QED BY <2>1, <2>3, <2>4 DEF Inv, UsedExact, UsedOf
<1>7. TypeOK'
  <2>1. m_UsedMemNum' \in 0 .. FieldNum
    BY <1>6, UsedFinite DEF UsedExact, UsedOf
  <2>2. m_Symbole' \in [Units -> Units \cup {Null}]
    BY <1>1, <1>5
  <2>3. held' \in [Units -> Nat] /\ \A s \in Units : s + held'[s] <= FieldNum
    <3>1. \A s \in Units : held'[s] = IF s = p THEN 0 ELSE held[s]
      BY <1>1 DEF Freemem
    <3>2. \A s \in Units : s + held[s] <= FieldNum /\ s <= FieldNum
      BY PoolAssumption DEF Inv, TypeOK, Units
    <3>3. held' \in [Units -> Nat]
      BY <1>1 DEF Freemem
    <3> QED BY <3>1, <3>2, <3>3 DEF Units
  <2> QED BY <2>1, <2>2, <2>3 DEF Inv, TypeOK, Freemem
<1>8. LabelsMatch'
  <2> SUFFICES ASSUME NEW s \in Units, NEW c \in Units
               PROVE  m_Symbole'[c] = s <=> Covers(s, c)'
    BY DEF LabelsMatch
  <2>1. m_Symbole[c] = s <=> Covers(s, c)
    BY DEF Inv, LabelsMatch
  <2>2. m_Symbole'[c] = IF m_Symbole[c] = p THEN Null ELSE m_Symbole[c]
    BY <1>3, <1>5
  <2>3. held'[s] = IF s = p THEN 0 ELSE held[s]
    BY <1>1 DEF Freemem
  <2>4. s # Null
    BY NullAssumption DEF Units
  <2> QED BY <2>1, <2>2, <2>3, <2>4 DEF Covers
<1>9. ScanInv'
  <2>1. \A u \in Threads : pc[u] # "scan"
    BY NullAssumption DEF Inv, ScanInv, Freemem
  <2> QED BY <2>1 DEF Inv, ScanInv, Freemem
<1> QED BY <1>6, <1>7, <1>8, <1>9 DEF Inv

-----------------------------------------------------------------------------
THEOREM Inductive == Spec => []Inv
<1>1. InitSys => Inv
  BY InitInv
<1>2. Inv /\ [Next]_vars => Inv'
  <2> SUFFICES ASSUME Inv, [Next]_vars PROVE Inv'
    OBVIOUS
  <2>1. CASE UNCHANGED vars
    BY <2>1 DEF vars, Inv, TypeOK, LabelsMatch, Covers, UsedExact, ScanInv, NothingBefore, RunFree
  <2>2. CASE Next
    <3> PICK t \in Threads : \/ \E n \in Sizes : Reqmem(t, n)
                             \/ EnterRefused(t) \/ EnterScan(t) \/ Scan(t)
                             \/ \E p \in Units : Freemem(t, p)
      BY <2>2 DEF Next
    <3>1. CASE \E n \in Sizes : Reqmem(t, n)
      BY <3>1, CallStep
    <3>2. CASE EnterRefused(t)
      BY <3>2, RefusedStep
    <3>3. CASE EnterScan(t)
      BY <3>3, EnterStep
    <3>4. CASE Scan(t)
      BY <3>4, EndsStep, TakesStep, HitsStep, SkipsStep DEF Scan
    <3>5. CASE \E p \in Units : Freemem(t, p)
      BY <3>5, FreeStep
    <3> QED BY <3>1, <3>2, <3>3, <3>4, <3>5
  <2> QED BY <2>1, <2>2
<1> QED BY <1>1, <1>2, PTL DEF Spec

(* The types, the bounds of the counter and of the blocks. *)
THEOREM TypeCorrect == Spec => []TypeOK
BY Inductive, PTL DEF Inv

(* Blocks never overlap, whatever is requested and freed in whatever order. *)
THEOREM LabelsCorrect == Spec => []LabelsMatch
BY Inductive, PTL DEF Inv

(* The counter is exact. *)
THEOREM UsedCorrect == Spec => []UsedExact
BY Inductive, PTL DEF Inv

-----------------------------------------------------------------------------
(* First fit: every step of the scan is a step of Allocator, or changes nothing it can see. *)

LEMMA StepRefines ==
  ASSUME Inv, Next
  PROVE  Promised!Next \/ UNCHANGED Promised!vars
<1>0. Promised!Units = Units
  BY DEF Promised!Units, Units
<1> PICK t \in Threads : \/ \E n \in Sizes : Reqmem(t, n)
                         \/ EnterRefused(t) \/ EnterScan(t) \/ Scan(t)
                         \/ \E p \in Units : Freemem(t, p)
  BY DEF Next
<1>1. CASE \E n \in Sizes : Reqmem(t, n)
  <2> PICK n \in Sizes : Reqmem(t, n)
    BY <1>1
  <2>1. Promised!Call(t, n)
    BY DEF Inv, TypeOK, Reqmem, Promised!Call
  <2> QED BY <2>1 DEF Promised!Next
<1>2. CASE EnterRefused(t)
  <2>1. ASSUME NEW s \in Units
        PROVE  ~ Promised!Fits(s, Msize[t])
    <3>1. Msize[t] \in Nat /\ Msize[t] > 0
      BY ScanTypes DEF Inv
    <3>2. ~ RunFree(s, Msize[t])
      BY <1>2, <3>1, RoomForRun, PoolAssumption DEF Inv, TypeOK, EnterRefused
    <3> QED BY <3>1, <3>2, FitsIsRunFree DEF Inv
  <2>2. Promised!Refuse(t)
    BY <1>2, <2>1 DEF Inv, TypeOK, EnterRefused, Promised!Refuse, Promised!Units, Units
  <2> QED BY <2>2 DEF Promised!Next
<1>3. CASE EnterScan(t)
  BY <1>3 DEF Inv, TypeOK, EnterScan, Promised!vars
<1>4. CASE ScanEnds(t)
  <2>1. ASSUME NEW s \in Units
        PROVE  ~ Promised!Fits(s, Msize[t])
    <3>1. i[t] \in Nat /\ Msize[t] \in Nat /\ Msize[t] > 0
      BY ScanTypes DEF Inv
    <3>2. s < i[t] => ~ RunFree(s, Msize[t])
      BY <1>4 DEF Inv, ScanInv, NothingBefore, ScanEnds
    <3>3. s >= i[t] => ~ RunFree(s, Msize[t])
      BY <1>4, <3>1, PoolAssumption DEF RunFree, ScanEnds, InPool, Units
    <3>4. ~ RunFree(s, Msize[t])
      BY <3>1, <3>2, <3>3 DEF Units
    <3> QED BY <3>1, <3>4, FitsIsRunFree DEF Inv
  <2>2. Promised!Refuse(t)
    BY <1>4, <2>1 DEF Inv, TypeOK, ScanEnds, Leave, Promised!Refuse, Promised!Units, Units
  <2> QED BY <2>2 DEF Promised!Next
<1>5. CASE ScanTakes(t)
  <2>1. /\ i[t] \in Units /\ Msize[t] \in Nat /\ Msize[t] > 0
        /\ \A c \in i[t] .. Last(t) : m_Symbole[c] = Null
    BY <1>5, TakenRun
  <2>2. Promised!Fits(i[t], Msize[t])
    <3>1. RunFree(i[t], Msize[t])
      BY <1>5, <2>1 DEF RunFree, ScanTakes, InPool, Last
    <3> QED BY <2>1, <3>1, FitsIsRunFree DEF Inv
  <2>3. \A r \in Units : r < i[t] => ~ Promised!Fits(r, Msize[t])
    BY <1>5, <2>1, FitsIsRunFree DEF Inv, ScanInv, NothingBefore, ScanTakes
  <2>4. PICK s \in Units : s = i[t]
    BY <2>1
  <2>5. Promised!Grant(t, s)
    BY <1>5, <2>2, <2>3, <2>4
    DEF Inv, TypeOK, ScanTakes, Leave, Promised!Grant, Promised!Units, Units
  <2> QED BY <1>0, <2>5 DEF Promised!Next
<1>6. CASE ScanHits(t) \/ ScanSkips(t)
  BY <1>6 DEF ScanHits, ScanSkips, Promised!vars
<1>7. CASE \E p \in Units : Freemem(t, p)
  <2> PICK p \in Units : Freemem(t, p)
    BY <1>7
  <2>1. Promised!Release(t, p)
    BY DEF Inv, TypeOK, Freemem, Promised!Release, Promised!Units, Units
  <2> QED BY <1>0, <2>1 DEF Promised!Next
<1> QED BY <1>1, <1>2, <1>3, <1>4, <1>5, <1>6, <1>7 DEF Scan

(* The detailed allocator implements the abstract one. *)
THEOREM Refinement == Spec => FirstFit
<1>1. InitSys => Promised!Init
  BY DEF InitSys, Promised!Init, Promised!Units, Units
<1>2. Inv /\ [Next]_vars => [Promised!Next]_(Promised!vars)
  BY StepRefines DEF vars, Promised!vars
<1> QED BY <1>1, <1>2, Inductive, PTL DEF Spec, FirstFit, Promised!Spec
=============================================================================
