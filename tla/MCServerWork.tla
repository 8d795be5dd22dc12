---------------------------- MODULE MCServerWork ----------------------------
(***************************************************************************)
(* Instances of ServerWork: lists of one and of two files.                 *)
(***************************************************************************)
EXTENDS ServerWork

OneFile == {1}
TwoFiles == {1, 2}
=============================================================================
