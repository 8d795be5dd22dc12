--------------------------- MODULE QueEventProofs ---------------------------
(* For every capacity and every set of threads: the members of QueEvent stay consistent, and the
   ring implements the bounded FIFO. *)
EXTENDS QueEvent, SequenceTheorems, TLAPS

(* Wrap brings an index that ran at most once past the end back to the slot it stands for. *)
LEMMA WrapSlot ==
  ASSUME NEW b \in Slots, NEW n \in 0 .. lSize
  PROVE  /\ Wrap(b + n) \in Slots
         /\ n > 0 => Wrap(Wrap(b + 1) + (n - 1)) = Wrap(b + n)
         /\ n < lSize => Wrap(Wrap(b + n) + 1) = Wrap(b + n + 1)
  BY SizeAssumption DEF Slots, Wrap

(* Two indices less than lSize apart stand for different slots. *)
LEMMA WrapInjective ==
  ASSUME NEW b \in Slots, NEW m \in 0 .. lSize - 1, NEW n \in 0 .. lSize - 1, m # n
  PROVE  Wrap(b + m) # Wrap(b + n)
  BY SizeAssumption DEF Slots, Wrap

(* The members keep their ranges and the counters agree, from the constructor on: code behaviour
   of Global.h:17-32 (Init) and of every body under cri. *)
LEMMA Inductive == Spec => []IInv
<1>1. Init => IInv
  BY SizeAssumption, NoneAssumption DEF Init, IInv, TypeOK, RingShape, Slots, Wrap, PCs
<1>2. IInv /\ [Next]_vars => IInv'
  <2> SUFFICES ASSUME IInv, [Next]_vars PROVE IInv'
    OBVIOUS
  <2> USE DEF IInv, TypeOK, RingShape, PCs
  <2>1. ASSUME NEW t \in Threads, Call(t) PROVE IInv'
    <3>1. /\ pc' \in [Threads -> PCs]
          /\ arg' \in [Threads -> Values]
          /\ ret' \in [Threads -> Seq(Values)]
      <4>1. CASE pc' = [pc EXCEPT ![t] = "push"] /\ \E v \in Values : arg' = [arg EXCEPT ![t] = v]
        BY <4>1, <2>1 DEF Call
      <4>2. CASE (\E op \in {"Pop_W", "Pop", "PopAll", "PopEvent"} : pc' = [pc EXCEPT ![t] = op])
                 /\ UNCHANGED arg
        BY <4>2, <2>1 DEF Call
      <4> QED BY <4>1, <4>2, <2>1 DEF Call
    <3>2. UNCHANGED <<lpQue, lBegin, lEnd, lNum, cri1>>
      BY <2>1 DEF Call, ring
    <3> QED BY <3>1, <3>2 DEF Slots, Wrap
  <2>2. ASSUME NEW t \in Threads, Push(t) PROVE IInv'
    <3>1. lEnd' = Wrap(lBegin' + lNum')
      BY <2>2, SizeAssumption DEF Push, Wrap, Slots
    <3>2. \A i \in 0 .. lNum' - 1 : lpQue'[Wrap(lBegin' + i)] \in Values
      <4>0. SUFFICES ASSUME NEW i \in 0 .. lNum PROVE lpQue'[Wrap(lBegin + i)] \in Values
        <5>1. 0 .. lNum' - 1 = 0 .. lNum /\ lBegin' = lBegin
          BY <2>2, SizeAssumption DEF Push
        <5> QED BY <5>1 DEF Wrap
      <4>1. CASE i = lNum
        BY <2>2, <4>1, SizeAssumption DEF Push, Wrap, Slots
      <4>2. CASE i < lNum
        <5>1. Wrap(lBegin + i) # lEnd
          BY <2>2, <4>2, WrapInjective, SizeAssumption DEF Push
        <5>2. Wrap(lBegin + i) \in Slots
          BY <4>2, SizeAssumption DEF Slots, Wrap
        <5> QED BY <2>2, <5>1, <5>2, <4>2 DEF Push
      <4> QED BY <4>1, <4>2, SizeAssumption
    <3>3. TypeOK'
      BY <2>2, SizeAssumption DEF Push, Return, Slots, Wrap
    <3> QED BY <3>1, <3>2, <3>3, <2>2 DEF Push, Wrap
  <2>3. ASSUME NEW t \in Threads, TakeOne(t), UNCHANGED cri1 \/ cri1' = None PROVE IInv'
    <3>1. lpQue[lBegin] \in Values
      <4>1. 0 \in 0 .. lNum - 1 /\ Wrap(lBegin + 0) = lBegin
        BY <2>3, SizeAssumption DEF TakeOne, Slots, Wrap
      <4> QED BY <4>1
    <3>2. TypeOK'
      <4>1. ret' \in [Threads -> Seq(Values)]
        BY <2>3, <3>1 DEF TakeOne, Return
      <4> QED BY <4>1, <2>3, SizeAssumption DEF TakeOne, Return, Slots, Wrap
    <3>3. RingShape'
      <4>1. lEnd' = Wrap(lBegin' + lNum')
        BY <2>3, WrapSlot, SizeAssumption DEF TakeOne, Slots
      <4>2. ASSUME NEW i \in 0 .. lNum' - 1 PROVE lpQue'[Wrap(lBegin' + i)] \in Values
        <5>1. i + 1 \in 0 .. lNum - 1 /\ Wrap(Wrap(lBegin + 1) + i) = Wrap(lBegin + (i + 1))
          BY <2>3, <4>2, SizeAssumption DEF TakeOne, Slots, Wrap
        <5> QED BY <5>1, <2>3 DEF TakeOne
      <4> QED BY <4>1, <4>2 DEF Wrap
    <3> QED BY <3>2, <3>3
  <2>4. ASSUME NEW t \in Threads, PopAll(t) PROVE IInv'
    <3>1. CASE lNum = 0
      <4>1. /\ UNCHANGED <<lpQue, lBegin, lEnd, lNum, cri1, arg>>
            /\ pc' = [pc EXCEPT ![t] = "idle"]
            /\ ret' = [ret EXCEPT ![t] = <<>>]
        BY <2>4, <3>1 DEF PopAll, Return, ring
      <4>2. ret' \in [Threads -> Seq(Values)] /\ pc' \in [Threads -> PCs]
        BY <4>1
      <4> QED BY <4>1, <4>2 DEF Slots, Wrap
    <3>2. CASE lNum > 0
      <4>1. Oldest(lNum) \in Seq(Values)
        <5>1. \A i \in 1 .. lNum : lpQue[Wrap(lBegin + i - 1)] \in Values
          <6> TAKE i \in 1 .. lNum
          <6>1. i - 1 \in 0 .. lNum - 1 /\ lBegin + (i - 1) = lBegin + i - 1
            BY DEF Slots
          <6> QED BY <6>1
        <5>2. Oldest(lNum) \in [1 .. lNum -> Values]
          BY <5>1 DEF Oldest
        <5> QED BY <5>2 
      <4>2. /\ lBegin' = Wrap(lBegin + lNum) /\ lNum' = 0
            /\ UNCHANGED <<lpQue, lEnd, cri1, arg>>
            /\ pc' = [pc EXCEPT ![t] = "idle"]
            /\ ret' = [ret EXCEPT ![t] = Oldest(lNum)]
        BY <2>4, <3>2 DEF PopAll, Return
      <4>3. lBegin' \in Slots /\ lEnd = Wrap(lBegin' + 0)
        BY <4>2, SizeAssumption DEF Slots, Wrap
      <4>4. ret' \in [Threads -> Seq(Values)]
        BY <4>1, <4>2
      <4>5. TypeOK'
        BY <4>2, <4>3, <4>4, SizeAssumption
      <4>6. RingShape'
        BY <4>2, <4>3 DEF Wrap
      <4> QED BY <4>5, <4>6
    <3> QED BY <3>1, <3>2
  <2>5. ASSUME NEW t \in Threads, EnterPopEvent(t) PROVE IInv'
    BY <2>5, SizeAssumption DEF EnterPopEvent, ring, Wrap
  <2>6. CASE UNCHANGED vars
    BY <2>6 DEF vars, Wrap
  <2>7. ASSUME NEW t \in Threads, Pop_W(t) \/ Pop(t) \/ PopEvent(t) PROVE IInv'
    <3>1. CASE Pop(t) /\ lNum = 0 /\ Return(t, <<>>) /\ UNCHANGED ring
      BY <3>1, SizeAssumption DEF Pop, Return, ring, Wrap
    <3>2. CASE TakeOne(t) /\ (UNCHANGED cri1 \/ cri1' = None)
      BY <3>2, <2>3
    <3> QED BY <3>1, <3>2, <2>7 DEF Pop_W, Pop, PopEvent
  <2> QED BY <2>1, <2>2, <2>4, <2>5, <2>6, <2>7 DEF Next
<1> QED BY <1>1, <1>2, PTL DEF Spec

-----------------------------------------------------------------------------
(* The members keep their ranges in every reachable state, for every capacity. *)
THEOREM TypeCorrect == Spec => []TypeOK
  BY Inductive, PTL DEF IInv

(* The three counters agree in every reachable state, for every capacity. *)
THEOREM RingShapeCorrect == Spec => []RingShape
  BY Inductive, PTL DEF IInv

-----------------------------------------------------------------------------
(* What a step does to the contents. *)
LEMMA OldestIsSeq ==
  ASSUME IInv
  PROVE  /\ Oldest(lNum) \in Seq(Values)
         /\ Len(Oldest(lNum)) = lNum
         /\ \A i \in 1 .. lNum : Oldest(lNum)[i] = lpQue[Wrap(lBegin + i - 1)]
<1>1. \A i \in 1 .. lNum : lpQue[Wrap(lBegin + i - 1)] \in Values
  <2> TAKE i \in 1 .. lNum
  <2>1. i - 1 \in 0 .. lNum - 1 /\ lBegin + (i - 1) = lBegin + i - 1
    BY DEF IInv, TypeOK, Slots
  <2> QED BY <2>1 DEF IInv, RingShape
<1>2. Oldest(lNum) \in [1 .. lNum -> Values]
  BY <1>1 DEF Oldest
<1>3. lNum \in Nat
  BY SizeAssumption DEF IInv, TypeOK
<1> QED BY <1>1, <1>2, <1>3 DEF Oldest

(* A push appends (Global.h:51-123). *)
LEMMA PushAppends ==
  ASSUME IInv, NEW t \in Threads, Push(t)
  PROVE  Oldest(lNum)' = Append(Oldest(lNum), arg[t])
<1> USE DEF IInv, TypeOK
<1>1. Append(Oldest(lNum), arg[t]) =
        [i \in 1 .. lNum + 1 |-> IF i = lNum + 1 THEN arg[t] ELSE Oldest(lNum)[i]]
  BY OldestIsSeq
<1>2. ASSUME NEW i \in 1 .. lNum + 1
      PROVE  lpQue'[Wrap(lBegin + i - 1)] =
               IF i = lNum + 1 THEN arg[t] ELSE Oldest(lNum)[i]
  <2>1. CASE i = lNum + 1
    <3>1. Wrap(lBegin + i - 1) = lEnd
      BY <2>1, SizeAssumption DEF RingShape, Slots
    <3> QED BY <2>1, <3>1 DEF Push
  <2>2. CASE i \in 1 .. lNum
    <3>1. lBegin + (i - 1) = lBegin + i - 1 /\ i - 1 \in 0 .. lSize - 1 /\ i - 1 # lNum
      BY <2>2, SizeAssumption DEF Slots
    <3>2. lNum \in 0 .. lSize - 1
      BY SizeAssumption DEF Push
    <3>3. Wrap(lBegin + (i - 1)) # Wrap(lBegin + lNum)
      BY <3>1, <3>2, WrapInjective
    <3>4. Wrap(lBegin + i - 1) # lEnd
      BY <3>1, <3>3 DEF RingShape
    <3>5. Wrap(lBegin + i - 1) \in Slots
      BY <3>1, SizeAssumption DEF Slots, Wrap
    <3>6. lpQue'[Wrap(lBegin + i - 1)] = lpQue[Wrap(lBegin + i - 1)]
      BY <3>4, <3>5 DEF Push
    <3>7. Oldest(lNum)[i] = lpQue[Wrap(lBegin + i - 1)]
      BY <2>2 DEF Oldest
    <3>8. i # lNum + 1
      BY <2>2
    <3> QED BY <3>6, <3>7, <3>8
  <2> QED BY <2>1, <2>2, SizeAssumption
<1>3. Oldest(lNum)' = [i \in 1 .. lNum + 1 |-> lpQue'[Wrap(lBegin + i - 1)]]
  BY DEF Push, Oldest, Wrap
<1> QED BY <1>1, <1>2, <1>3

(* A pop takes the head (Global.h:124-165). *)
LEMMA TakeOneIsTail ==
  ASSUME IInv, NEW t \in Threads, TakeOne(t)
  PROVE  /\ Oldest(lNum) # <<>>
         /\ Head(Oldest(lNum)) = lpQue[lBegin]
         /\ Oldest(lNum)' = Tail(Oldest(lNum))
<1> USE DEF IInv, TypeOK
<1>1. lNum > 0 /\ 1 \in 1 .. lNum
  BY SizeAssumption DEF TakeOne
<1>2. Oldest(lNum) # <<>> /\ Head(Oldest(lNum)) = Oldest(lNum)[1]
  BY <1>1, OldestIsSeq
<1>3. Oldest(lNum)[1] = lpQue[lBegin]
  <2>1. Wrap(lBegin + 1 - 1) = lBegin
    BY SizeAssumption DEF Slots, Wrap
  <2> QED BY <1>1, <2>1, OldestIsSeq
<1>4. Tail(Oldest(lNum)) = [i \in 1 .. lNum - 1 |-> Oldest(lNum)[i + 1]]
  <2>1. ASSUME NEW s \in Seq(Values), s # <<>>
        PROVE  Tail(s) = [i \in 1 .. Len(s) - 1 |-> s[i + 1]]
    <3>1. /\ Tail(s) \in Seq(Values) /\ Len(Tail(s)) = Len(s) - 1
          /\ \A i \in 1 .. Len(s) - 1 : Tail(s)[i] = s[i + 1]
      BY <2>1, HeadTailProperties
    <3>2. Tail(s) \in [1 .. Len(s) - 1 -> Values]
      BY <3>1, LenProperties
    <3> QED BY <3>1, <3>2
  <2> QED BY <1>1, <1>2, <2>1, OldestIsSeq
<1>5. Oldest(lNum)' = [i \in 1 .. lNum - 1 |-> lpQue[Wrap(Wrap(lBegin + 1) + i - 1)]]
  BY DEF TakeOne, Oldest, Wrap
<1>6. ASSUME NEW i \in 1 .. lNum - 1
      PROVE  lpQue[Wrap(Wrap(lBegin + 1) + i - 1)] = Oldest(lNum)[i + 1]
  <2>1. i + 1 \in 1 .. lNum /\ Wrap(Wrap(lBegin + 1) + i - 1) = Wrap(lBegin + (i + 1) - 1)
    BY SizeAssumption DEF Slots, Wrap
  <2> QED BY <2>1, OldestIsSeq
<1> QED BY <1>2, <1>3, <1>4, <1>5, <1>6

(* Every step of the ring is a step of the FIFO or leaves it unchanged, so what QueEvent promises
   to its threads holds for every capacity, every set of threads and every value pushed. *)
THEOREM Refinement == Spec => FifoSpec
<1> DEFINE fpc == [t \in Threads |-> Promise[pc[t]]]
           fifoVars == <<Oldest(lNum), fpc, arg, ret>>
<1>1. Init => Fifo!Init
  <2> SUFFICES ASSUME Init PROVE Fifo!Init
    OBVIOUS
  <2>1. Oldest(lNum) = <<>>
    BY DEF Init, Oldest
  <2>2. fpc = [t \in Threads |-> "idle"]
    BY DEF Init, Promise
  <2> QED BY <2>1, <2>2 DEF Init, Fifo!Init
<1>2. IInv /\ IInv' /\ [Next]_vars => [Fifo!Next]_(Fifo!vars)
  <2> SUFFICES ASSUME IInv, IInv', [Next]_vars
               PROVE  Fifo!Next \/ UNCHANGED fifoVars
    BY DEF Fifo!vars
  <2>0. \A t \in Threads : fpc[t] = Promise[pc[t]] /\ pc[t] \in PCs /\ pc'[t] \in PCs
    BY DEF IInv, TypeOK
  <2>1. ASSUME NEW t \in Threads, NEW s, Return(t, s)
        PROVE  fpc' = [fpc EXCEPT ![t] = "idle"]
    BY <2>1 DEF Return, Promise, IInv, TypeOK
  <2>2. ASSUME NEW t \in Threads, Call(t) PROVE Fifo!Call(t)
    <3>1. Oldest(lNum)' = Oldest(lNum)
      BY <2>2 DEF Call, ring, Oldest, Wrap
    <3>2. fpc[t] = "idle"
      BY <2>2 DEF Call, Promise
    <3>3. \A op \in PCs : pc' = [pc EXCEPT ![t] = op] => fpc' = [fpc EXCEPT ![t] = Promise[op]]
      BY DEF IInv, TypeOK
    <3>4. CASE pc' = [pc EXCEPT ![t] = "push"] /\ \E v \in Values : arg' = [arg EXCEPT ![t] = v]
      <4>1. fpc' = [fpc EXCEPT ![t] = "push"]
        BY <3>3, <3>4 DEF PCs, Promise
      <4> QED BY <2>2, <3>1, <3>2, <3>4, <4>1 DEF Call, Fifo!Call
    <3>5. CASE /\ \E op \in {"Pop_W", "Pop", "PopAll", "PopEvent"} : pc' = [pc EXCEPT ![t] = op]
               /\ UNCHANGED arg
      <4>1. \E op \in {"wait", "try", "all"} : fpc' = [fpc EXCEPT ![t] = op]
        BY <3>3, <3>5 DEF PCs, Promise
      <4> QED BY <2>2, <3>1, <3>2, <3>5, <4>1 DEF Call, Fifo!Call
    <3> QED BY <2>2, <3>4, <3>5 DEF Call
  <2>3. ASSUME NEW t \in Threads, Push(t) PROVE Fifo!Push(t)
    <3>1. fpc[t] = "push" /\ fpc' = [fpc EXCEPT ![t] = "idle"]
      BY <2>1, <2>3 DEF Push, Promise
    <3>2. Len(Oldest(lNum)) < lSize
      BY <2>3, OldestIsSeq DEF Push
    <3> QED BY <2>3, <3>1, <3>2, PushAppends DEF Push, Return, Fifo!Push, Fifo!Return
  <2>4. ASSUME NEW t \in Threads, TakeOne(t), pc[t] \in {"Pop_W", "Pop", "PopEvent_in"}
        PROVE  Fifo!TakeOldest(t)
    <3>1. fpc[t] \in {"wait", "try"} /\ fpc' = [fpc EXCEPT ![t] = "idle"]
      BY <2>1, <2>4 DEF TakeOne, Promise
    <3> QED BY <2>4, <3>1, TakeOneIsTail DEF TakeOne, Return, Fifo!TakeOldest, Fifo!Return
  <2>5. ASSUME NEW t \in Threads, pc[t] \in {"Pop", "PopAll"}, lNum = 0, Return(t, <<>>),
               UNCHANGED ring
        PROVE  Fifo!FindEmpty(t)
    <3>1. fpc[t] \in {"try", "all"} /\ fpc' = [fpc EXCEPT ![t] = "idle"]
      BY <2>1, <2>5 DEF Promise
    <3>2. Oldest(lNum) = <<>> /\ Oldest(lNum)' = Oldest(lNum)
      BY <2>5 DEF Oldest, Wrap, ring
    <3> QED BY <2>5, <3>1, <3>2 DEF Return, Fifo!FindEmpty, Fifo!Return
  <2>6. ASSUME NEW t \in Threads, PopAll(t), lNum > 0 PROVE Fifo!TakeAll(t)
    <3>1. Return(t, Oldest(lNum)) /\ lNum' = 0
      BY <2>6 DEF PopAll
    <3>2. fpc[t] = "all" /\ fpc' = [fpc EXCEPT ![t] = "idle"]
      BY <2>1, <2>6, <3>1 DEF PopAll, Promise
    <3>3. Oldest(lNum) # <<>> /\ Oldest(lNum)' = <<>>
      <4>1. Oldest(lNum) # <<>>
        BY <2>6, OldestIsSeq
      <4>2. Oldest(lNum)' = [i \in 1 .. 0 |-> lpQue'[Wrap(lBegin' + i - 1)]]
        BY <3>1 DEF Oldest, Wrap
      <4> QED BY <4>1, <4>2
    <3> QED BY <3>1, <3>2, <3>3 DEF Return, Fifo!TakeAll, Fifo!Return
  <2>7. ASSUME NEW t \in Threads, EnterPopEvent(t) PROVE UNCHANGED fifoVars
    <3>1. fpc' = fpc
      BY <2>7 DEF EnterPopEvent, Promise, IInv, TypeOK
    <3> QED BY <2>7, <3>1 DEF EnterPopEvent, ring, Oldest, Wrap
  <2>8. CASE UNCHANGED vars
    BY <2>8 DEF vars, Oldest, Wrap
  <2>9. ASSUME NEW t \in Threads, Pop_W(t) \/ Pop(t) \/ PopAll(t) \/ PopEvent(t)
        PROVE  Fifo!TakeOldest(t) \/ Fifo!FindEmpty(t) \/ Fifo!TakeAll(t)
    BY <2>4, <2>5, <2>6, <2>9 DEF Pop_W, Pop, PopAll, PopEvent
  <2> QED BY <2>2, <2>3, <2>7, <2>8, <2>9 DEF Next, Fifo!Next
<1> QED BY <1>1, <1>2, Inductive, PTL DEF Spec, FifoSpec, Fifo!Spec
=============================================================================
