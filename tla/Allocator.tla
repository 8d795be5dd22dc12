----------------------------- MODULE Allocator -----------------------------
(***************************************************************************)
(* What class CMemManger promises to the threads that share one pool of    *)
(* FieldNum memory units: a request for n units gets the first run of n    *)
(* free units, and gets nothing only when there is no such run; a block    *)
(* stays with its owner until it is given back, whole.                     *)
(***************************************************************************)
EXTENDS Integers

CONSTANTS
  Threads,   \* the threads that share the pool
  FieldNum,  \* the units in the pool
  Sizes,     \* the sizes of requests, in units
  NoResult   \* the NULL pointer

VARIABLES
  held,      \* per unit: the size of the block that starts there, 0 when none does
  pc,        \* per thread: "out", or "in" a request
  want,      \* per thread: the size it asked for
  Result     \* per thread: where the block it got starts, or NoResult

vars == <<held, pc, want, Result>>

Units == 0 .. FieldNum - 1

Covers(s, c) == held[s] > 0 /\ s <= c /\ c < s + held[s]
IsFree(c) == \A s \in Units : ~ Covers(s, c)
Fits(s, n) == s + n <= FieldNum /\ \A c \in s .. s + n - 1 : IsFree(c)

Init ==
  /\ held = [s \in Units |-> 0]
  /\ pc = [t \in Threads |-> "out"]
  /\ want \in [Threads -> Sizes]
  /\ Result = [t \in Threads |-> NoResult]

Call(t, n) ==
  /\ pc[t] = "out"
  /\ pc' = [pc EXCEPT ![t] = "in"]
  /\ want' = [want EXCEPT ![t] = n]
  /\ Result' = [Result EXCEPT ![t] = NoResult]
  /\ UNCHANGED held

Grant(t, s) ==
  /\ pc[t] = "in"
  /\ Fits(s, want[t])
  /\ \A r \in Units : r < s => ~ Fits(r, want[t])
  /\ held' = [held EXCEPT ![s] = want[t]]
  /\ Result' = [Result EXCEPT ![t] = s]
  /\ pc' = [pc EXCEPT ![t] = "out"]
  /\ UNCHANGED want

Refuse(t) ==
  /\ pc[t] = "in"
  /\ \A s \in Units : ~ Fits(s, want[t])
  /\ pc' = [pc EXCEPT ![t] = "out"]
  /\ UNCHANGED <<held, want, Result>>

Release(t, s) ==
  /\ pc[t] = "out"
  /\ held[s] > 0
  /\ held' = [held EXCEPT ![s] = 0]
  /\ UNCHANGED <<pc, want, Result>>

Next ==
  \E t \in Threads :
    \/ \E n \in Sizes : Call(t, n)
    \/ \E s \in Units : Grant(t, s) \/ Release(t, s)
    \/ Refuse(t)

Spec == Init /\ [][Next]_vars
=============================================================================
