---------------------------- MODULE BoundedFifo ----------------------------
(***************************************************************************)
(* What class QueEvent promises to the threads that share one: a FIFO of   *)
(* at most lSize values.  A thread calls one of four operations and gets   *)
(* back the values it took:                                                *)
(*   "push"    waits for room and appends;                                 *)
(*   "wait"    waits for a value and takes the oldest;                     *)
(*   "try"     takes the oldest value, or nothing when there is none;      *)
(*   "all"     takes every value there is, oldest first.                   *)
(***************************************************************************)
EXTENDS Naturals, Sequences

CONSTANTS
  Threads,   \* the threads that share the queue
  Values,    \* what is queued: indices of a pool, handed from thread to thread
  lSize      \* the capacity

VARIABLES
  items,     \* the queued values, oldest first
  pc,        \* per thread: "idle" or the operation it is inside
  arg,       \* per thread: the value of its push
  ret        \* per thread: the values its last call returned

vars == <<items, pc, arg, ret>>

Init ==
  /\ items = <<>>
  /\ pc = [t \in Threads |-> "idle"]
  /\ arg \in [Threads -> Values]
  /\ ret = [t \in Threads |-> <<>>]

Call(t) ==
  /\ pc[t] = "idle"
  /\ \/ /\ pc' = [pc EXCEPT ![t] = "push"]
        /\ \E v \in Values : arg' = [arg EXCEPT ![t] = v]
     \/ /\ \E op \in {"wait", "try", "all"} : pc' = [pc EXCEPT ![t] = op]
        /\ UNCHANGED arg
  /\ ret' = [ret EXCEPT ![t] = <<>>]
  /\ UNCHANGED items

Return(t, s) ==
  /\ pc' = [pc EXCEPT ![t] = "idle"]
  /\ ret' = [ret EXCEPT ![t] = s]
  /\ UNCHANGED arg

Push(t) ==
  /\ pc[t] = "push"
  /\ Len(items) < lSize
  /\ items' = Append(items, arg[t])
  /\ Return(t, <<>>)

TakeOldest(t) ==
  /\ pc[t] \in {"wait", "try"}
  /\ items # <<>>
  /\ items' = Tail(items)
  /\ Return(t, <<Head(items)>>)

FindEmpty(t) ==
  /\ pc[t] \in {"try", "all"}
  /\ items = <<>>
  /\ Return(t, <<>>)
  /\ UNCHANGED items

TakeAll(t) ==
  /\ pc[t] = "all"
  /\ items # <<>>
  /\ items' = <<>>
  /\ Return(t, items)

Next == \E t \in Threads : Call(t) \/ Push(t) \/ TakeOldest(t) \/ FindEmpty(t) \/ TakeAll(t)

Spec == Init /\ [][Next]_vars
=============================================================================
