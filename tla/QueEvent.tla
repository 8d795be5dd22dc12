------------------------------ MODULE QueEvent ------------------------------
(***************************************************************************)
(* class QueEvent (Global.h): the ring of ints through which the program's *)
(* threads hand each other indices.  Every body is one critical section    *)
(* under cri, so it is one step; a body that finds the ring full or empty  *)
(* leaves the lock, sleeps and tries again, which is a disabled step here. *)
(* PopEvent also holds cri1 from its entry to its return.                  *)
(***************************************************************************)
EXTENDS Naturals, Sequences

CONSTANTS
  Threads,   \* the threads that share the queue
  Values,    \* the ints they push
  lSize,     \* lQueSize of the constructor
  None       \* no thread, and what an int of lpQue is before it is written

ASSUME SizeAssumption == lSize \in Nat \ {0}
ASSUME NoneAssumption == None \notin Threads \cup Values

VARIABLES
  lpQue, lBegin, lEnd, lNum,   \* the members of the class
  cri1,                        \* the thread that holds cri1, or None
  pc, arg, ret                 \* per thread: the operation, its argument, what it returned

ring == <<lpQue, lBegin, lEnd, lNum>>
vars == <<lpQue, lBegin, lEnd, lNum, cri1, pc, arg, ret>>

Slots == 0 .. lSize - 1

(* `new int[lQueSize]` leaves the slots unwritten. *)
Init ==
  /\ lpQue = [i \in Slots |-> None]
  /\ lBegin = 0 /\ lEnd = 0 /\ lNum = 0
  /\ cri1 = None
  /\ pc = [t \in Threads |-> "idle"]
  /\ arg \in [Threads -> Values]
  /\ ret = [t \in Threads |-> <<>>]

(* `if (l >= lSize) l = 0` after each `l ++`. *)
Wrap(i) == IF i >= lSize THEN i - lSize ELSE i

(* The n ints from lBegin on, as a reader that advances lBegin meets them. *)
Oldest(n) == [i \in 1 .. n |-> lpQue[Wrap(lBegin + i - 1)]]

-----------------------------------------------------------------------------
(* A thread enters Push, Push_W or PushEvent ("push"), Pop_W, Pop, PopAll or PopEvent. *)
Call(t) ==
  /\ pc[t] = "idle"
  /\ \/ /\ pc' = [pc EXCEPT ![t] = "push"]
        /\ \E v \in Values : arg' = [arg EXCEPT ![t] = v]
     \/ /\ \E op \in {"Pop_W", "Pop", "PopAll", "PopEvent"} : pc' = [pc EXCEPT ![t] = op]
        /\ UNCHANGED arg
  /\ ret' = [ret EXCEPT ![t] = <<>>]
  /\ UNCHANGED <<ring, cri1>>

Return(t, s) ==
  /\ pc' = [pc EXCEPT ![t] = "idle"]
  /\ ret' = [ret EXCEPT ![t] = s]
  /\ UNCHANGED arg

Push_NoRoomTest(t) ==
  /\ pc[t] = "push"
  /\ lpQue' = [lpQue EXCEPT ![lEnd] = arg[t]]
  /\ lEnd' = Wrap(lEnd + 1)
  /\ lNum' = lNum + 1
  /\ Return(t, <<>>)
  /\ UNCHANGED <<lBegin, cri1>>

(* Push, Push_W and PushEvent have one and the same body. *)
Push(t) ==
  /\ pc[t] = "push"
  /\ lNum < lSize
  /\ lpQue' = [lpQue EXCEPT ![lEnd] = arg[t]]
  /\ lEnd' = Wrap(lEnd + 1)
  /\ lNum' = lNum + 1
  /\ Return(t, <<>>)
  /\ UNCHANGED <<lBegin, cri1>>

TakeOne(t) ==
  /\ lNum > 0
  /\ lBegin' = Wrap(lBegin + 1)
  /\ lNum' = lNum - 1
  /\ Return(t, <<lpQue[lBegin]>>)
  /\ UNCHANGED <<lpQue, lEnd>>

Pop_W(t) == pc[t] = "Pop_W" /\ TakeOne(t) /\ UNCHANGED cri1

Pop(t) ==
  /\ pc[t] = "Pop"
  /\ \/ TakeOne(t)
     \/ lNum = 0 /\ Return(t, <<>>) /\ UNCHANGED ring
  /\ UNCHANGED cri1

PopAll_LiveBound(t) ==
  /\ pc[t] = "PopAll"
  /\ LET n == (lNum + 1) \div 2 IN
       /\ Return(t, Oldest(n))
       /\ lBegin' = Wrap(lBegin + n)
       /\ lNum' = lNum - n
  /\ UNCHANGED <<lpQue, lEnd, cri1>>

PopAll_KeepsBegin(t) ==
  /\ pc[t] = "PopAll"
  /\ Return(t, Oldest(lNum))
  /\ lNum' = 0
  /\ UNCHANGED <<lpQue, lBegin, lEnd, cri1>>

(* The loop runs to the lRet = lNum it read first, not to the lNum it decrements. *)
PopAll(t) ==
  /\ pc[t] = "PopAll"
  /\ \/ /\ lNum > 0
        /\ Return(t, Oldest(lNum))
        /\ lBegin' = Wrap(lBegin + lNum)
        /\ lNum' = 0
        /\ UNCHANGED <<lpQue, lEnd>>
     \/ lNum = 0 /\ Return(t, <<>>) /\ UNCHANGED ring
  /\ UNCHANGED cri1

EnterPopEvent(t) ==
  /\ pc[t] = "PopEvent" /\ cri1 = None
  /\ cri1' = t
  /\ pc' = [pc EXCEPT ![t] = "PopEvent_in"]
  /\ UNCHANGED <<ring, arg, ret>>

PopEvent(t) == pc[t] = "PopEvent_in" /\ TakeOne(t) /\ cri1' = None

Next ==
  \E t \in Threads :
    \/ Call(t) \/ Push(t) \/ Pop_W(t) \/ Pop(t) \/ PopAll(t)
    \/ EnterPopEvent(t) \/ PopEvent(t)

Spec == Init /\ [][Next]_vars

-----------------------------------------------------------------------------
PCs == {"idle", "push", "Pop_W", "Pop", "PopAll", "PopEvent", "PopEvent_in"}

(* The members keep their ranges, and what a call returns was pushed: no slot is read before it
   is written. *)
TypeOK ==
  /\ lpQue \in [Slots -> Values \cup {None}]
  /\ lBegin \in Slots /\ lEnd \in Slots /\ lNum \in 0 .. lSize
  /\ cri1 \in Threads \cup {None}
  /\ pc \in [Threads -> PCs]
  /\ arg \in [Threads -> Values]
  /\ ret \in [Threads -> Seq(Values)]

(* The three counters of the class agree: the lNum slots from lBegin on are the written ones and
   lEnd is the slot after them. *)
RingShape ==
  /\ lEnd = Wrap(lBegin + lNum)
  /\ \A i \in 0 .. lNum - 1 : lpQue[Wrap(lBegin + i)] \in Values

IInv == TypeOK /\ RingShape

(* The ring implements the FIFO: its contents are the written slots in order, and PopEvent is a
   waiting pop. *)
Promise == [idle |-> "idle", push |-> "push", Pop_W |-> "wait", Pop |-> "try", PopAll |-> "all",
            PopEvent |-> "wait", PopEvent_in |-> "wait"]

Fifo == INSTANCE BoundedFifo WITH
          items <- Oldest(lNum),
          pc <- [t \in Threads |-> Promise[pc[t]]]

(* Whatever the threads do, the values leave the ring in the order they entered it, each once, and
   no push overwrites a value nobody took. *)
FifoSpec == Fifo!Spec
=============================================================================
