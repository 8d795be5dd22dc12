----------------------------- MODULE MemManger -----------------------------
(***************************************************************************)
(* class CMemManger: a pool of FieldNum units of equal size (BIG and SUITE *)
(* run the same code on their own arrays), handed out in runs of units.    *)
(* m_Symbole[c] is the block unit c belongs to, or Null.  Reqmem scans for *)
(* a run that is free, one step per round of its loop, holding m_MemCri    *)
(* throughout; Freemem gives back the units that carry the block's label.  *)
(* A pointer is the number of the unit it points to.                       *)
(***************************************************************************)
EXTENDS Integers, FiniteSets

CONSTANTS
  Threads,   \* the threads that share the pool
  FieldNum,  \* m_BigFieldNum or m_SuitFieldNum
  Sizes,     \* the sizes of requests, in units
  Null,      \* NULL
  NoThread   \* nobody holds m_MemCri

ASSUME PoolAssumption == FieldNum \in Nat /\ Sizes \subseteq Nat \ {0} /\ Sizes # {}
ASSUME NullAssumption == Null \notin Int /\ NoThread \notin Threads

VARIABLES
  m_Symbole,    \* m_BigSymbole or m_SuitSymbole
  m_UsedMemNum, \* m_UsedMemNum[BIG] or m_UsedMemNum[SUITE]
  m_MemCri,     \* the thread that holds the lock
  pc,           \* per thread: "out", "enter" or "scan" of Reqmem
  Msize, i,     \* per thread: Reqmem's parameter and loop variable
  Result,       \* per thread: what its last Reqmem returned
  held          \* the blocks the data fields have: per unit, the size of the block that starts there

vars == <<m_Symbole, m_UsedMemNum, m_MemCri, pc, Msize, i, Result, held>>

Units == 0 .. FieldNum - 1

InitSys ==
  /\ m_Symbole = [c \in Units |-> Null]
  /\ m_UsedMemNum = 0
  /\ m_MemCri = NoThread
  /\ pc = [t \in Threads |-> "out"]
  /\ Msize \in [Threads -> Sizes]
  /\ i = [t \in Threads |-> 0]
  /\ Result = [t \in Threads |-> Null]
  /\ held = [s \in Units |-> 0]

-----------------------------------------------------------------------------
Reqmem(t, n) ==
  /\ pc[t] = "out"
  /\ pc' = [pc EXCEPT ![t] = "enter"]
  /\ Msize' = [Msize EXCEPT ![t] = n]
  /\ i' = [i EXCEPT ![t] = 0]
  /\ Result' = [Result EXCEPT ![t] = Null]
  /\ UNCHANGED <<m_Symbole, m_UsedMemNum, m_MemCri, held>>

(* Under the lock: fewer units are unused than asked for. *)
EnterRefused(t) ==
  /\ pc[t] = "enter" /\ m_MemCri = NoThread
  /\ FieldNum - m_UsedMemNum < Msize[t]
  /\ pc' = [pc EXCEPT ![t] = "out"]
  /\ UNCHANGED <<m_Symbole, m_UsedMemNum, m_MemCri, Msize, i, Result, held>>

EnterScan(t) ==
  /\ pc[t] = "enter" /\ m_MemCri = NoThread
  /\ FieldNum - m_UsedMemNum >= Msize[t]
  /\ m_MemCri' = t
  /\ pc' = [pc EXCEPT ![t] = "scan"]
  /\ UNCHANGED <<m_Symbole, m_UsedMemNum, Msize, i, Result, held>>

Leave(t) ==
  /\ pc' = [pc EXCEPT ![t] = "out"]
  /\ m_MemCri' = NoThread

(* The run the loop looks at, [i, i + Msize), its first and its last unit, and its units in use. *)
Last(t) == i[t] + Msize[t] - 1
InPool(t) == i[t] + Msize[t] <= FieldNum
FreeEnds(t) == m_Symbole[i[t]] = Null /\ m_Symbole[Last(t)] = Null
UsedUnits(t) == {c \in i[t] .. Last(t) : m_Symbole[c] # Null}

(* The run does not fit in the pool any more: PREND. *)
ScanEnds(t) ==
  /\ pc[t] = "scan"
  /\ ~ InPool(t)
  /\ Leave(t)
  /\ UNCHANGED <<m_Symbole, m_UsedMemNum, Msize, i, Result, held>>

ScanTakes_NotCounted(t) ==
  /\ pc[t] = "scan"
  /\ InPool(t) /\ FreeEnds(t) /\ UsedUnits(t) = {}
  /\ m_Symbole' = [c \in Units |-> IF c \in i[t] .. Last(t) THEN i[t] ELSE m_Symbole[c]]
  /\ Result' = [Result EXCEPT ![t] = i[t]]
  /\ held' = [held EXCEPT ![i[t]] = Msize[t]]
  /\ Leave(t)
  /\ UNCHANGED <<m_UsedMemNum, Msize, i>>

(* Every unit of the run is free: they get the block's label. *)
ScanTakes(t) ==
  /\ pc[t] = "scan"
  /\ InPool(t) /\ FreeEnds(t) /\ UsedUnits(t) = {}
  /\ m_Symbole' = [c \in Units |-> IF c \in i[t] .. Last(t) THEN i[t] ELSE m_Symbole[c]]
  /\ m_UsedMemNum' = m_UsedMemNum + Msize[t]
  /\ Result' = [Result EXCEPT ![t] = i[t]]
  /\ held' = [held EXCEPT ![i[t]] = Msize[t]]
  /\ Leave(t)
  /\ UNCHANGED <<Msize, i>>

ScanHits_SkipsRun(t) ==
  /\ pc[t] = "scan"
  /\ InPool(t) /\ FreeEnds(t)
  /\ UsedUnits(t) # {}
  /\ i' = [i EXCEPT ![t] = @ + Msize[t]]
  /\ UNCHANGED <<m_Symbole, m_UsedMemNum, m_MemCri, pc, Msize, Result, held>>

(* Both ends are free, but not all between them: go on behind the first that is not. *)
ScanHits(t) ==
  /\ pc[t] = "scan"
  /\ InPool(t) /\ FreeEnds(t)
  /\ \E j \in UsedUnits(t) :
       /\ \A c \in UsedUnits(t) : j <= c
       /\ i' = [i EXCEPT ![t] = j + 1]
  /\ UNCHANGED <<m_Symbole, m_UsedMemNum, m_MemCri, pc, Msize, Result, held>>

ScanSkips_NoStep(t) ==
  /\ pc[t] = "scan"
  /\ InPool(t) /\ ~ FreeEnds(t)
  /\ i' = [i EXCEPT ![t] = IF m_Symbole[i[t]] # Null /\ m_Symbole[Last(t)] # Null
                           THEN @ + Msize[t] ELSE @]
  /\ UNCHANGED <<m_Symbole, m_UsedMemNum, m_MemCri, pc, Msize, Result, held>>

(* Past the whole run when both its ends are in use, else one unit on. *)
ScanSkips(t) ==
  /\ pc[t] = "scan"
  /\ InPool(t) /\ ~ FreeEnds(t)
  /\ i' = [i EXCEPT ![t] = IF m_Symbole[i[t]] # Null /\ m_Symbole[Last(t)] # Null
                           THEN @ + Msize[t] ELSE @ + 1]
  /\ UNCHANGED <<m_Symbole, m_UsedMemNum, m_MemCri, pc, Msize, Result, held>>

Scan(t) == ScanEnds(t) \/ ScanTakes(t) \/ ScanHits(t) \/ ScanSkips(t)

(* The units from p on that carry the label p, up to the first that does not. *)
Labelled(p) == {c \in p .. FieldNum - 1 : \A d \in p .. c : m_Symbole[d] = p}

Freemem_AllUsed(t, p) ==
  LET run == {c \in p .. FieldNum - 1 : \A d \in p .. c : m_Symbole[d] # Null} IN
    /\ pc[t] = "out" /\ m_MemCri = NoThread
    /\ held[p] > 0
    /\ m_Symbole' = [c \in Units |-> IF c \in run THEN Null ELSE m_Symbole[c]]
    /\ m_UsedMemNum' = m_UsedMemNum - Cardinality(run)
    /\ held' = [held EXCEPT ![p] = 0]
    /\ UNCHANGED <<m_MemCri, pc, Msize, i, Result>>

(* A data field's block is freed, by whichever thread frees the field.  The size the caller passes is
   not used. *)
Freemem(t, p) ==
  /\ pc[t] = "out" /\ m_MemCri = NoThread
  /\ held[p] > 0
  /\ m_Symbole' = [c \in Units |-> IF c \in Labelled(p) THEN Null ELSE m_Symbole[c]]
  /\ m_UsedMemNum' = m_UsedMemNum - Cardinality(Labelled(p))
  /\ held' = [held EXCEPT ![p] = 0]
  /\ UNCHANGED <<m_MemCri, pc, Msize, i, Result>>

Next ==
  \E t \in Threads :
    \/ \E n \in Sizes : Reqmem(t, n)
    \/ EnterRefused(t) \/ EnterScan(t) \/ Scan(t)
    \/ \E p \in Units : Freemem(t, p)

Spec == InitSys /\ [][Next]_vars

(* A thread inside the loop keeps running; nothing says who gets the lock next. *)
FairSpec == Spec /\ \A t \in Threads : WF_vars(Scan(t))

-----------------------------------------------------------------------------
(* The types of the variables; that the counter stays between 0 and FieldNum, and that every block
   lies within the pool, is among them. *)
TypeOK ==
  /\ m_Symbole \in [Units -> Units \cup {Null}]
  /\ m_UsedMemNum \in 0 .. FieldNum
  /\ m_MemCri \in Threads \cup {NoThread}
  /\ pc \in [Threads -> {"out", "enter", "scan"}]
  /\ Msize \in [Threads -> Sizes]
  /\ i \in [Threads -> Nat]
  /\ Result \in [Threads -> Units \cup {Null}]
  /\ held \in [Units -> Nat]
  /\ \A s \in Units : s + held[s] <= FieldNum

Covers(s, c) == held[s] > 0 /\ s <= c /\ c < s + held[s]

(* Every unit of a block carries the block's label and no other unit does: no two blocks overlap,
   Freemem of a block frees exactly its units however its neighbours lie, and no unit is in use that
   belongs to nobody.  (MemManger.cpp 105-122, 193-204) *)
LabelsMatch == \A s, c \in Units : m_Symbole[c] = s <=> Covers(s, c)

(* m_UsedMemNum is the number of units in use, so the test that precedes the scan refuses nothing the
   scan could find.  (MemManger.cpp 97, 118, 204) *)
UsedExact == m_UsedMemNum = Cardinality({c \in Units : m_Symbole[c] # Null})

(* Reqmem returns the first free run that is long enough, and NULL only if there is none, although
   its loop does not try every start; the threads see the pool as the module Allocator says. *)
Promised ==
  INSTANCE Allocator WITH
    pc <- [t \in Threads |-> IF pc[t] = "out" THEN "out" ELSE "in"],
    want <- Msize, NoResult <- Null
FirstFit == Promised!Spec

(* The loop comes to its end, so the lock is given back. *)
ScanReturns == \A t \in Threads : pc[t] = "scan" ~> pc[t] = "out"
=============================================================================
