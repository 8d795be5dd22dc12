---------------------------- MODULE MCWorkClient ----------------------------
(***************************************************************************)
(* Instances of WorkClient: what two clients are asked to do.              *)
(***************************************************************************)
EXTENDS WorkClient

CONSTANTS f1, f2, l1

OneList == {l1}

Session(commands, versions, foreign, max) ==
  [commands |-> commands, versions |-> versions, foreign |-> foreign, max |-> max]

(* Transfers of the same file, a longer list, a check beside a transfer, the requests about
   one name, the processes. *)
SixSessions ==
  {Session({sendFile(f1), checkMD5(f1)}, {1, 2}, {}, 2), Session({sendList(l1, <<f1>>)}, {1, 2}, {}, 2),
   Session({sendFile(f1), sendList(l1, <<f1>>)}, {1}, {}, 2),
   Session({sendList(l1, <<f1, f2>>)}, {1}, {}, 1),
   Session({sendFile(f1), createOneFile(Final(f1), <<>>), removeOneFile(Final(f1)),
            renameFile(Final(f1), Final(f2)), checkOneFile(Final(f1)), getMD5(f1), chmodFile(f1), shell},
           {1}, {}, 2),
   Session({execProcess(1), execProcess(2), killProcess(1), killProcess(2)}, {1}, {1, 2}, 3)}
=============================================================================
