---------------------------- MODULE MCMemManger ----------------------------
(* Two threads on a pool of six units, blocks of one to three units: runs with both ends free and a
   block in the middle, blocks side by side, runs with both ends in use, a full pool. *)
EXTENDS MemManger
=============================================================================
