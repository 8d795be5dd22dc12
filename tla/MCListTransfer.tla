---------------------------- MODULE MCListTransfer ----------------------------
(***************************************************************************)
(* Instances of ListTransfer: a list of two files for two groups.          *)
(***************************************************************************)
EXTENDS ListTransfer

CONSTANTS f1, f2, l1

TwoFiles == <<f1, f2>>
OneList == {l1}
NoneOrOne == {{}, {f1}}
NoPrograms == {}

Scene(m, n, t, c) == [modes |-> m, lists |-> n, threads |-> t, crashes |-> c]

(* Two lists, two groups, md5 threads that keep up. *)
FourScenes == {Scene(<<"ALL">>, 2, 0, 1), Scene(<<"ALL", "MOD">>, 1, 0, 1), Scene(<<"ALL", "ALL">>, 1, 0, 1),
               Scene(<<"ALL">>, 1, 1, 1)}
OneScene == {Scene(<<"ALL">>, 1, 0, 1)}
=============================================================================
