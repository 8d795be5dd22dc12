---------------------------- MODULE MCUpdateCycle ----------------------------
(***************************************************************************)
(* An instance of UpdateCycle: the symbols of a small cluster.             *)
(***************************************************************************)
EXTENDS UpdateCycle

CONSTANTS b1, is1, br1, l1

OneBase == <<b1>>
OneGroup == <<is1, br1>>
OneBroker == <<br1>>
=============================================================================
