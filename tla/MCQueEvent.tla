----------------------------- MODULE MCQueEvent -----------------------------
(* Three threads on a ring of two slots: the ring is full, empty and wrapped, two threads wait
   inside PopEvent and a pusher waits for room. *)
EXTENDS QueEvent
=============================================================================
