------------------------- MODULE ListTransferProofs -------------------------
(***************************************************************************)
(* Proofs about ListTransfer, for every list, every sequence of groups and *)
(* any number of losses and crashes: what its variables hold, that the     *)
(* count of sent files comes to rest at 0, that a finished list is         *)
(* installed whole at every server, that MOD files arrive, and that a      *)
(* restarted client skips only what was sent.                              *)
(*                                                                         *)
(* The client is typed on its own first (ClientInv): the count needs no    *)
(* more, because no answer of a server says anything about it.  The        *)
(* servers follow by the lemmas of ServerRequestsProofs.  The contents of  *)
(* the files need the rest: which commands of a file are still pending     *)
(* (ShapeInv), which server and which thread holds what (HandlesInv,       *)
(* ThreadInv), and what has been sent of the list so far (SentInv,         *)
(* PassedInv, ModInv, KeptInv).                                            *)
(***************************************************************************)
EXTENDS ListTransfer, ServerRequestsProofs

(* The commands the thread of a list queues. *)
Commands ==
  [op : {"START_LST"}, l : Lists] \cup [op : {"OPEN_FILE"}, l : Lists, f : Files]
    \cup [op : {"WRITE_FILE"}, f : Files, data : Seq(1 .. scene.lists)]
    \cup [op : {"CLOSE_FILE"}, f : Files, all : BOOLEAN]
    \cup [op : {"END_LST"}, l : Lists, dated : BOOLEAN]

Stages == {"wait", "start", "file", "md5", "drain", "verify", "check", "end", "finish"}
ListStates ==
  [at : Stages, g : Groups, i : 1 .. Len(Lines) + 1, skip : Nat, verify : BOOLEAN,
   todo : SUBSET Files, f : Files \cup {NoFile}, hash : 0 .. scene.lists]

(* What the threads of the client hold. *)
SceneType == scene \in Scenes /\ list \in 0 .. scene.lists
ListType ==
  /\ lst \in ListStates
  /\ lst.at # "wait" => "Ready" \in names
  /\ lst.at = "check" => lst.f \in Files
  /\ lst.at = "md5" => lst.i <= Len(Lines)
NamesType ==
  /\ names \subseteq {"list", "Ready", "Finish"}
  /\ md5s \in [Files -> 0 .. scene.lists]
  /\ names \cap {"list", "Ready"} # {} => list > 0
QueuesType ==
  /\ que \in [Groups -> Seq(Commands)]
  /\ snd \in [Groups -> [cmd : Commands \cup {NoCommand}, try : 0 .. MaxTry - 1]]
CountType == m_FileNum \in Nat /\ saved = m_FileNum

ClientInv == SceneType /\ ListType /\ NamesType /\ QueuesType /\ CountType

LEMMA SceneFacts ==
  ASSUME SceneType
  PROVE  /\ Modes \in Seq({"ALL", "MOD"}) /\ Modes # <<>> /\ Groups = 1 .. Len(Modes) /\ 1 \in Groups
         /\ Len(Modes) \in Nat \ {0} /\ scene.lists \in Nat /\ list \in Nat
         /\ Len(Lines) \in Nat /\ \A i \in 1 .. Len(Lines) : Lines[i] \in Files
         /\ MaxTry \in Nat \ {0}
<1>1. /\ Modes \in Seq({"ALL", "MOD"}) /\ Modes # <<>> /\ scene.lists \in Nat
      /\ Lines \in Seq(Files) /\ MaxTry \in Nat \ {0}
  BY ListTransferAssumption DEF SceneType, Modes
<1>2. Len(Modes) \in Nat \ {0} /\ Groups = 1 .. Len(Modes)
  BY <1>1, EmptySeq, LenProperties DEF Groups
<1> QED BY <1>1, <1>2 DEF SceneType

LEMMA CommandsAreSome ==
  \A c \in Commands :
    /\ c # NoCommand
    /\ c.op \in {"START_LST", "OPEN_FILE", "WRITE_FILE", "CLOSE_FILE", "END_LST"}
BY DEF Commands, NoCommand

LEMMA ThreadIsTyped ==
  ASSUME SceneType, NEW at \in Stages, NEW g \in Groups, NEW skip \in Nat
  PROVE  ThreadAt(at, g, skip) \in ListStates /\ ThreadAt(at, g, skip).at = at /\ ThreadAt(at, g, skip).g = g
BY SceneFacts DEF ThreadAt, ListStates

LEMMA SentOnIsTyped ==
  ASSUME SceneType, lst \in ListStates
  PROVE  /\ NextGroup(lst) \in ListStates
         /\ \/ NextGroup(lst).at = "start" /\ NextGroup(lst).g = lst.g + 1 /\ lst.g + 1 \in Groups
            \/ NextGroup(lst).at = "finish"
<1>1. CASE lst.g < Len(Modes)
  <2>1. lst.g + 1 \in Groups /\ lst.skip \in Nat
    BY <1>1, SceneFacts DEF ListStates
  <2>2. NextGroup(lst) = ThreadAt("start", lst.g + 1, lst.skip)
    BY <1>1 DEF NextGroup
  <2> QED BY <2>1, <2>2, ThreadIsTyped DEF Stages
<1>2. CASE ~(lst.g < Len(Modes))
  BY <1>2, SceneFacts, ThreadIsTyped DEF NextGroup, Stages
<1> QED BY <1>1, <1>2

(* What is queued behind the commands of group g. *)
LEMMA PushKeeps ==
  ASSUME SceneType, QueuesType, lst.g \in Groups, NEW cmds \in Seq(Commands), PushAll(cmds)
  PROVE  /\ que' \in [Groups -> Seq(Commands)] /\ que'[lst.g] = que[lst.g] \o cmds
         /\ \A g \in Groups : g # lst.g => que'[g] = que[g]
<1>1. que[lst.g] \o cmds \in Seq(Commands)
  BY ConcatProperties DEF QueuesType
<1> QED BY <1>1 DEF PushAll, QueuesType

(* The scene is the same in every state, and what is typed by it. *)
LEMMA SceneStays ==
  ASSUME scene' = scene
  PROVE  /\ Modes' = Modes /\ Groups' = Groups /\ Commands' = Commands /\ ListStates' = ListStates
BY DEF Modes, Groups, Commands, ListStates

LEMMA QueuesStay == ASSUME QueuesType, UNCHANGED <<scene, que, snd>> PROVE QueuesType'
BY SceneStays DEF QueuesType

(* The thread of the list, one action after the other. *)
LEMMA PushedIsTyped ==
  ASSUME ClientInv, scene' = scene, snd' = snd, NEW cmds \in Seq(Commands), PushAll(cmds)
  PROVE  QueuesType'
<1>1. lst.g \in Groups
  BY DEF ClientInv, ListType, ListStates
<1> QED BY <1>1, PushKeeps, SceneStays DEF ClientInv, QueuesType

LEMMA ClientMonitor == ASSUME ClientInv, MonitorList PROVE ClientInv'
<1> USE DEF ClientInv
<1>1. SceneType' /\ QueuesType' /\ CountType' /\ ListStates' = ListStates
  BY SceneStays, QueuesStay DEF MonitorList, SceneType, CountType, bounds
<1>2. "start" \in Stages /\ m_FileNum \in Nat /\ 1 \in Groups
  BY SceneFacts DEF Stages, CountType
<1>3. CASE Resumes /\ lst' = ThreadAt("start", 1, m_FileNum) /\ UNCHANGED <<names, history>>
  <2>1. lst' \in ListStates /\ lst'.at = "start"
    BY <1>2, <1>3, ThreadIsTyped
  <2> QED BY <1>1, <1>3, <2>1 DEF MonitorList, Resumes, ListType, NamesType, bounds
<1>4. CASE Begins /\ names' = (names \ {"list"}) \cup {"Ready"} /\ lst' = ThreadAt("start", 1, 0)
  <2>1. lst' \in ListStates /\ lst'.at = "start"
    BY <1>2, <1>4, ThreadIsTyped
  <2> QED BY <1>1, <1>4, <2>1 DEF MonitorList, Begins, ListType, NamesType, bounds
<1> QED BY <1>3, <1>4 DEF MonitorList

LEMMA ClientStart == ASSUME ClientInv, Work_StartList PROVE ClientInv'
<1> USE DEF ClientInv
<1>1. SceneType' /\ CountType' /\ NamesType' /\ ListStates' = ListStates
  BY SceneStays DEF Work_StartList, SceneType, CountType, NamesType, bounds, disk
<1>2. lst' \in ListStates /\ lst'.at = "file" /\ "Ready" \in names
  <2>1. lst' = [lst EXCEPT !.at = "file", !.i = 1, !.verify = FALSE] /\ lst \in ListStates
    BY DEF Work_StartList, ListType
  <2>2. 1 \in 1 .. Len(Lines) + 1
    BY SceneFacts
  <2>3. lst' \in ListStates /\ lst'.at = "file"
    BY <2>1, <2>2 DEF ListStates, Stages
  <2> QED BY <2>3 DEF Work_StartList, ListType
<1>3. ListType'
  BY <1>1, <1>2 DEF Work_StartList, ListType, disk
<1>4. QueuesType'
  <2>1. CASE UNCHANGED que
    BY <2>1, QueuesStay DEF Work_StartList
  <2>2. CASE PushAll(<<[op |-> "START_LST", l |-> GroupList]>>)
    <3>1. [op |-> "START_LST", l |-> GroupList] \in Commands
      BY ListTransferAssumption DEF Commands
    <3>2. <<[op |-> "START_LST", l |-> GroupList]>> \in Seq(Commands)
      BY <3>1
    <3> QED BY <2>2, <3>2, PushedIsTyped DEF Work_StartList
  <2> QED BY <2>1, <2>2 DEF Work_StartList
<1> QED BY <1>1, <1>3, <1>4

LEMMA ClientFiles == ASSUME ClientInv, SkipFile \/ FilesEnd PROVE ClientInv'
<1> USE DEF ClientInv
<1>1. /\ SceneType' /\ CountType' /\ NamesType' /\ QueuesType' /\ ListStates' = ListStates
      /\ names' = names
  BY SceneStays, QueuesStay DEF SkipFile, FilesEnd, SceneType, CountType, NamesType, bounds, disk
<1>2. lst' \in ListStates /\ lst.at = "file" /\ lst'.at \in {"file", "drain", "end"}
  <2>1. lst \in ListStates /\ lst.at = "file"
    BY DEF SkipFile, FilesEnd, ListType
  <2>2. lst.i <= Len(Lines) => lst.i + 1 \in 1 .. Len(Lines) + 1
    BY <2>1, SceneFacts DEF ListStates
  <2>3. CASE SkipFile
    BY <2>1, <2>2, <2>3 DEF SkipFile, ListStates, Stages
  <2>4. CASE FilesEnd
    BY <2>1, <2>4 DEF FilesEnd, ListStates, Stages
  <2> QED BY <2>3, <2>4
<1> QED BY <1>1, <1>2 DEF ListType

LEMMA ClientSends == ASSUME ClientInv, SendFile PROVE ClientInv'
<1> USE DEF ClientInv
<1>1. SceneType' /\ CountType' /\ NamesType' /\ ListStates' = ListStates /\ names' = names
  BY SceneStays DEF SendFile, SceneType, CountType, NamesType, bounds, disk
<1>2. /\ lst' \in ListStates /\ lst.at = "file"
      /\ lst'.at = "file" \/ (lst'.at = "md5" /\ lst'.i <= Len(Lines))
  <2>1. lst \in ListStates /\ lst.at = "file" /\ lst.i <= Len(Lines)
    BY DEF SendFile, ListType
  <2>2. lst.i + 1 \in 1 .. Len(Lines) + 1
    BY <2>1, SceneFacts DEF ListStates
  <2>3. CASE lst' = [lst EXCEPT !.at = "md5", !.verify = TRUE]
    BY <2>1, <2>3 DEF ListStates, Stages
  <2>4. CASE lst' = [lst EXCEPT !.i = @ + 1]
    BY <2>1, <2>2, <2>4 DEF ListStates, Stages
  <2> QED BY <2>3, <2>4 DEF SendFile
<1>3. ListType'
  BY <1>1, <1>2 DEF ListType
<1>4. QueuesType'
  <2> DEFINE f == Lines[lst.i]
             cmds == <<[op |-> "OPEN_FILE", l |-> GroupList, f |-> f],
                       [op |-> "WRITE_FILE", f |-> f, data |-> Version(list)],
                       [op |-> "CLOSE_FILE", f |-> f, all |-> Modes[lst.g] = "ALL"]>>
  <2>1. f \in Files
    BY SceneFacts DEF SendFile, ListType, ListStates
  <2>2. list \in 1 .. scene.lists /\ Version(list) \in Seq(1 .. scene.lists)
    BY SceneFacts DEF SendFile, ListType, NamesType, SceneType, Version
  <2>3. (Modes[lst.g] = "ALL") \in BOOLEAN
    OBVIOUS
  <2>4. GroupList \in Lists
    BY ListTransferAssumption
  <2>5. cmds[1] \in Commands /\ cmds[2] \in Commands /\ cmds[3] \in Commands
    BY <2>1, <2>2, <2>3, <2>4 DEF Commands
  <2>6. cmds \in Seq(Commands)
    BY <2>5
  <2>7. PushAll(cmds)
    BY DEF SendFile
  <2> HIDE DEF cmds
  <2> QED BY <2>6, <2>7, PushedIsTyped DEF SendFile
<1> QED BY <1>1, <1>3, <1>4

LEMMA ClientVerifies == ASSUME ClientInv, BuildLocalMd5 \/ Drain \/ TakeMd5 PROVE ClientInv'
<1> USE DEF ClientInv
<1>1. /\ SceneType' /\ CountType' /\ QueuesType' /\ ListStates' = ListStates /\ names' = names
      /\ list' = list /\ scene' = scene
  BY SceneStays, QueuesStay DEF BuildLocalMd5, Drain, TakeMd5, SceneType, CountType, bounds, disk
<1>2. CASE BuildLocalMd5
  <2>1. Lines[lst.i] \in Files /\ list \in 0 .. scene.lists
    BY <1>2, SceneFacts DEF BuildLocalMd5, SceneType, ListType, ListStates
  <2>2. NamesType'
    BY <1>1, <1>2, <2>1 DEF BuildLocalMd5, NamesType
  <2>3. lst' \in ListStates /\ lst.at = "md5" /\ lst'.at = "file"
    <3>1. lst \in ListStates /\ lst.at = "md5" /\ lst' = [lst EXCEPT !.at = "file", !.i = @ + 1]
      BY <1>2 DEF BuildLocalMd5, ListType
    <3>2. lst.i + 1 \in 1 .. Len(Lines) + 1
      BY <3>1, SceneFacts DEF ListType, ListStates
    <3> QED BY <3>1, <3>2 DEF ListStates, Stages
  <2> QED BY <1>1, <2>2, <2>3 DEF ListType
<1>3. CASE Drain
  <2>1. NamesType'
    BY <1>1, <1>3 DEF Drain, NamesType, disk
  <2>2. lst' \in ListStates /\ lst.at = "drain" /\ lst'.at = "verify"
    BY <1>3 DEF Drain, ListType, ListStates, Stages
  <2> QED BY <1>1, <2>1, <2>2 DEF ListType
<1>4. CASE TakeMd5 /\ lst.todo = {} /\ lst' = [lst EXCEPT !.at = "end"] /\ UNCHANGED md5s
  <2>1. lst' \in ListStates /\ lst.at = "verify" /\ lst'.at = "end"
    BY <1>4 DEF TakeMd5, ListType, ListStates, Stages
  <2> QED BY <1>1, <1>4, <2>1 DEF ListType, NamesType
<1>5. ASSUME TakeMd5, NEW f \in lst.todo,
             lst' = [lst EXCEPT !.at = "check", !.todo = @ \ {f}, !.f = f, !.hash = md5s[f]],
             md5s' = [md5s EXCEPT ![f] = 0]
      PROVE  ClientInv'
  <2>1. f \in Files /\ md5s[f] \in 0 .. scene.lists /\ 0 \in 0 .. scene.lists
    BY SceneFacts DEF ListType, ListStates, NamesType
  <2>2. lst' \in ListStates /\ lst.at = "verify" /\ lst'.at = "check" /\ lst'.f = f
    BY <1>5, <2>1 DEF TakeMd5, ListType, ListStates, Stages
  <2>3. NamesType'
    BY <1>1, <1>5, <2>1 DEF NamesType
  <2> QED BY <1>1, <2>1, <2>2, <2>3 DEF ListType
<1> QED BY <1>2, <1>3, <1>4, <1>5 DEF TakeMd5

LEMMA ClientChecks == ASSUME ClientInv, Check PROVE ClientInv'
<1> USE DEF ClientInv
<1>1. /\ SceneType' /\ NamesType' /\ QueuesType' /\ ListStates' = ListStates /\ names' = names
      /\ lst.at = "check"
  BY SceneStays, QueuesStay DEF Check, SceneType, NamesType
<1>2. \/ UNCHANGED <<lst, m_FileNum, saved>>
      \/ lst' = [lst EXCEPT !.at = "verify", !.f = NoFile, !.hash = 0] /\ UNCHANGED <<m_FileNum, saved>>
      \/ lst' = NextGroup(lst) /\ m_FileNum' = 0 /\ saved' = 0
  BY DEF Check, CheckAnswered, CheckFailed
<1>3. CASE UNCHANGED <<lst, m_FileNum, saved>>
  BY <1>1, <1>3 DEF ListType, CountType
<1>4. CASE lst' = [lst EXCEPT !.at = "verify", !.f = NoFile, !.hash = 0] /\ UNCHANGED <<m_FileNum, saved>>
  <2>1. lst' \in ListStates /\ lst'.at = "verify"
    <3>1. lst \in ListStates /\ 0 \in 0 .. scene.lists
      BY SceneFacts DEF ListType
    <3> QED BY <1>4, <3>1 DEF ListStates, Stages
  <2> QED BY <1>1, <1>4, <2>1 DEF ListType, CountType
<1>5. CASE lst' = NextGroup(lst) /\ m_FileNum' = 0 /\ saved' = 0
  <2>1. lst' \in ListStates /\ lst'.at \in {"start", "finish"}
    BY <1>5, SentOnIsTyped DEF ListType
  <2> QED BY <1>1, <1>5, <2>1 DEF ListType, CountType
<1> QED BY <1>2, <1>3, <1>4, <1>5

LEMMA ClientEnds == ASSUME ClientInv, Work_CloseList \/ Finish PROVE ClientInv'
<1> USE DEF ClientInv
<1>1. SceneType' /\ CountType' /\ ListStates' = ListStates /\ scene' = scene
  BY SceneStays DEF Work_CloseList, Finish, SceneType, CountType, bounds
<1>2. CASE Work_CloseList
  <2>1. lst' \in ListStates /\ lst'.at \in {"start", "finish"}
    BY <1>2, SentOnIsTyped DEF Work_CloseList, ListType
  <2>2. NamesType' /\ names' = names
    BY <1>2, SceneFacts DEF Work_CloseList, Work_MoveMD5File, NamesType, bounds
  <2>3. [op |-> "END_LST", l |-> GroupList, dated |-> FALSE] \in Commands
    BY ListTransferAssumption DEF Commands
  <2>4. <<[op |-> "END_LST", l |-> GroupList, dated |-> FALSE]>> \in Seq(Commands)
    BY <2>3
  <2>5. QueuesType'
    BY <1>2, <2>4, PushedIsTyped DEF Work_CloseList
  <2> QED BY <1>1, <1>2, <2>1, <2>2, <2>5 DEF Work_CloseList, ListType
<1>3. CASE Finish
  <2>1. lst' \in ListStates /\ lst'.at = "wait"
    BY <1>3, SceneFacts, ThreadIsTyped DEF Finish, Waiting, Stages
  <2>2. NamesType'
    BY <1>1, <1>3 DEF Finish, NamesType, ListType, bounds
  <2> QED BY <1>1, <1>3, <2>1, <2>2, QueuesStay DEF Finish, ListType
<1> QED BY <1>2, <1>3

(* The threads of the servers, the losses and the crashes. *)
NoneAtHand == [cmd |-> NoCommand, try |-> 0]

LEMMA ReleaseIsTyped ==
  ASSUME ClientInv, scene' = scene, que' = que, NEW g \in Groups,
         snd' = [snd EXCEPT ![g] = NoneAtHand], m_FileNum' = Counted(snd[g].cmd, m_FileNum),
         saved' = m_FileNum'
  PROVE  QueuesType' /\ CountType'
<1>1. NoneAtHand \in [cmd : Commands \cup {NoCommand}, try : 0 .. MaxTry - 1]
  BY SceneFacts DEF NoneAtHand, ClientInv
<1>2. QueuesType'
  BY <1>1, SceneStays DEF ClientInv, QueuesType
<1>3. CountType'
  BY DEF ClientInv, CountType, Counted
<1> QED BY <1>2, <1>3

LEMMA FailureIsTyped ==
  ASSUME ClientInv, scene' = scene, que' = que, NEW g \in Groups, SendFailed(g)
  PROVE  QueuesType' /\ CountType'
<1>1. CASE LastTry(snd[g])
  BY <1>1, ReleaseIsTyped DEF SendFailed, Released, NoneAtHand
<1>2. CASE ~LastTry(snd[g])
  <2>1. snd[g] \in [cmd : Commands \cup {NoCommand}, try : 0 .. MaxTry - 1]
    BY DEF ClientInv, QueuesType
  <2>2. IF snd[g].cmd.op = "WRITE_FILE" THEN TRUE ELSE snd[g].try + 1 \in 0 .. MaxTry - 1
    BY <1>2, <2>1, SceneFacts DEF LastTry, ClientInv
  <2>4. snd' = [snd EXCEPT ![g].try = IF snd[g].cmd.op = "WRITE_FILE" THEN snd[g].try ELSE snd[g].try + 1]
    BY <1>2 DEF SendFailed
  <2>5. snd' \in [Groups -> [cmd : Commands \cup {NoCommand}, try : 0 .. MaxTry - 1]]
    BY <2>1, <2>2, <2>4 DEF ClientInv, QueuesType
  <2>3. QueuesType'
    BY <2>5, SceneStays DEF ClientInv, QueuesType
  <2> QED BY <1>2, <2>3 DEF SendFailed, ClientInv, CountType
<1> QED BY <1>1, <1>2

LEMMA ClientThreads ==
  ASSUME ClientInv, NEW g \in Groups, ServerThread(g) \/ SendLost(g)
  PROVE  ClientInv'
<1>1. /\ SceneType' /\ ListStates' = ListStates /\ scene' = scene /\ names' = names /\ md5s' = md5s
      /\ lst' = lst /\ list' = list
  BY SceneStays
     DEF ServerThread, PopCommand, Send, SendLost, SceneType, ClientInv, bounds, disk
<1>2. ListType' /\ NamesType'
  BY <1>1 DEF ClientInv, ListType, NamesType
<1>3. CASE PopCommand(g)
  <2>1. /\ que[g] \in Seq(Commands) /\ que[g] # <<>> /\ Head(que[g]) \in Commands
        /\ Tail(que[g]) \in Seq(Commands)
    BY <1>3 DEF PopCommand, ClientInv, QueuesType
  <2>2. 0 \in 0 .. MaxTry - 1
    BY SceneFacts DEF ClientInv
  <2>3. QueuesType'
    BY <1>1, <1>3, <2>1, <2>2, SceneStays DEF PopCommand, ClientInv, QueuesType
  <2> QED BY <1>1, <1>2, <1>3, <2>3 DEF PopCommand, ClientInv, CountType, disk
<1>4. CASE Send(g)
  <2>1. que' = que /\ \/ SendFailed(g)
                      \/ Released(g, snd[g].cmd)
    BY <1>4 DEF Send
  <2> QED BY <1>1, <1>2, <2>1, FailureIsTyped, ReleaseIsTyped DEF Released, NoneAtHand, ClientInv
<1>5. CASE SendLost(g)
  BY <1>1, <1>2, <1>5, FailureIsTyped DEF SendLost, ClientInv
<1> QED BY <1>3, <1>4, <1>5 DEF ServerThread

LEMMA ClientRestarts == ASSUME ClientInv, ClientCrash PROVE ClientInv'
<1> USE DEF ClientInv
<1>1. SceneType' /\ NamesType' /\ CountType' /\ ListStates' = ListStates
  BY SceneStays DEF ClientCrash, SceneType, NamesType, CountType, disk
<1>2. lst' \in ListStates /\ lst'.at = "wait"
  BY SceneFacts, ThreadIsTyped DEF ClientCrash, Waiting, Stages
<1>3. NoneAtHand \in [cmd : Commands \cup {NoCommand}, try : 0 .. MaxTry - 1]
  BY SceneFacts DEF NoneAtHand
<1>4. QueuesType'
  BY <1>3, SceneStays DEF ClientCrash, QueuesType, NoneAtHand
<1> QED BY <1>1, <1>2, <1>4 DEF ListType

LEMMA ClientStays ==
  ASSUME ClientInv, UNCHANGED <<scene, disk, client, list>>
  PROVE  ClientInv'
BY SceneStays, QueuesStay DEF ClientInv, SceneType, ListType, NamesType, CountType, disk, client

LEMMA ClientNext == ASSUME ClientInv, [Next]_vars PROVE ClientInv'
<1>1. CASE ListArrives
  <2>1. SceneType' /\ list' \in Nat /\ list' > 0
    BY <1>1, SceneFacts DEF ListArrives, ClientInv, SceneType
  <2>2. QueuesType' /\ CountType' /\ ListStates' = ListStates
    BY <1>1, SceneStays, QueuesStay DEF ListArrives, ClientInv, CountType, client
  <2>3. NamesType'
    BY <1>1, <2>1 DEF ListArrives, ClientInv, NamesType
  <2> QED BY <1>1, <2>1, <2>2, <2>3 DEF ListArrives, ClientInv, ListType, client
<1>2. CASE ListThread
  BY <1>2, ClientMonitor, ClientStart, ClientFiles, ClientSends, ClientVerifies, ClientChecks, ClientEnds
     DEF ListThread
<1>3. CASE \E g \in Groups : ServerThread(g) \/ SendLost(g) \/ Md5Thread(g) \/ ServerCrash(g)
  BY <1>3, ClientThreads, ClientStays DEF Md5Thread, ServerCrash, bounds
<1>4. CASE ClientCrash
  BY <1>4, ClientRestarts
<1>5. CASE UNCHANGED vars
  BY <1>5, ClientStays DEF vars, bounds
<1> QED BY <1>1, <1>2, <1>3, <1>4, <1>5 DEF Next

LEMMA ClientInit == Init => ClientInv
<1> SUFFICES ASSUME Init PROVE ClientInv
  OBVIOUS
<1> USE DEF Init, ClientInv
<1>1. SceneType
  BY ListTransferAssumption DEF SceneType
<1>2. ListType
  <2>1. lst = ThreadAt("wait", 1, 0) /\ "wait" \in Stages
    BY DEF Waiting, Stages
  <2>2. lst \in ListStates /\ lst.at = "wait"
    BY <1>1, <2>1, SceneFacts, ThreadIsTyped
  <2> QED BY <2>2 DEF ListType
<1>3. NamesType /\ CountType
  BY <1>1, SceneFacts DEF NamesType, CountType
<1>4. NoneAtHand \in [cmd : Commands \cup {NoCommand}, try : 0 .. MaxTry - 1]
  BY <1>1, SceneFacts DEF NoneAtHand
<1>5. QueuesType
  BY <1>4 DEF QueuesType, NoneAtHand
<1> QED BY <1>1, <1>2, <1>3, <1>5

THEOREM ClientIsTyped == Spec => []ClientInv
<1> QED BY ClientInit, ClientNext, PTL DEF Spec

-----------------------------------------------------------------------------
(* The count of files.  What is carried out last for a group that was left is its END. *)
Ends(g) ==
  IF que[g] # <<>> THEN que[g][Len(que[g])].op = "END_LST"
  ELSE snd[g].cmd = NoCommand \/ snd[g].cmd.op = "END_LST"

LeftBehindEnds ==
  sound => \A g \in Groups : g # lst.g \/ lst.at \in {"wait", "start", "finish"} => Ends(g)

(* So a count that is left when the list is finished will be reset. *)
CountPending ==
  sound /\ m_FileNum # 0 /\ (lst.at = "finish" \/ "Ready" \notin names) => \E g \in Groups : ~Idle(g)

CountInv == LeftBehindEnds /\ CountPending

(* Queues and threads that are the same. *)
LEMMA EndsStay ==
  ASSUME NEW g, que'[g] = que[g], snd'[g] = snd[g]
  PROVE  (Ends(g)' <=> Ends(g)) /\ (Idle(g)' <=> Idle(g))
BY DEF Ends, Idle

(* The thread of the list works on for its group, or is sent to work. *)
LEMMA OwnGroupOnly ==
  ASSUME ClientInv, CountInv, scene' = scene, snd' = snd, sound' = sound,
         lst'.g = lst.g, lst'.at \notin {"wait", "start", "finish"}, "Ready" \in names',
         \A g \in Groups : g # lst.g => que'[g] = que[g]
  PROVE  CountInv'
<1>1. \A g \in Groups : g # lst.g => (Ends(g)' <=> Ends(g))
  BY EndsStay
<1> QED BY <1>1, SceneStays DEF CountInv, LeftBehindEnds, CountPending

LEMMA PushOwnOnly ==
  ASSUME ClientInv, NEW cmds, PushAll(cmds)
  PROVE  \A g \in Groups : g # lst.g => que'[g] = que[g]
BY DEF PushAll, ClientInv, QueuesType

LEMMA CountMonitor == ASSUME ClientInv, CountInv, MonitorList PROVE CountInv'
<1>1. /\ lst.at = "wait" /\ lst'.at = "start" /\ "Ready" \in names'
      /\ scene' = scene /\ que' = que /\ snd' = snd /\ sound' = sound
  <2>1. CASE Resumes /\ lst' = ThreadAt("start", 1, m_FileNum) /\ UNCHANGED <<names, history>>
    BY <2>1 DEF MonitorList, Resumes, ThreadAt, history
  <2>2. CASE names' = (names \ {"list"}) \cup {"Ready"} /\ lst' = ThreadAt("start", 1, 0) /\ UNCHANGED sound
    BY <2>2 DEF MonitorList, ThreadAt
  <2> QED BY <2>1, <2>2 DEF MonitorList
<1>2. \A g \in Groups : Ends(g)' <=> Ends(g)
  BY <1>1, EndsStay
<1> QED BY <1>1, <1>2, SceneStays DEF CountInv, LeftBehindEnds, CountPending

LEMMA CountWorks ==
  ASSUME ClientInv, CountInv,
         Work_StartList \/ SkipFile \/ SendFile \/ BuildLocalMd5 \/ FilesEnd \/ Drain \/ TakeMd5
  PROVE  CountInv'
<1>1. /\ scene' = scene /\ snd' = snd /\ sound' = sound /\ names' = names /\ lst.at # "wait"
  BY DEF Work_StartList, SkipFile, SendFile, BuildLocalMd5, FilesEnd, Drain, TakeMd5, disk, history
<1>2. "Ready" \in names'
  BY <1>1 DEF ClientInv, ListType
<1>3. \A g \in Groups : g # lst.g => que'[g] = que[g]
  BY PushOwnOnly
     DEF Work_StartList, SkipFile, SendFile, BuildLocalMd5, FilesEnd, Drain, TakeMd5
<1>4. lst'.g = lst.g /\ lst'.at \notin {"wait", "start", "finish"}
  <2>1. lst \in ListStates
    BY DEF ClientInv, ListType
  <2>2. CASE Work_StartList
    BY <2>1, <2>2 DEF Work_StartList, ListStates
  <2>3. CASE SkipFile \/ SendFile
    BY <2>1, <2>3 DEF SkipFile, SendFile, ListStates
  <2>4. CASE BuildLocalMd5
    BY <2>1, <2>4 DEF BuildLocalMd5, ListStates
  <2>5. CASE FilesEnd \/ Drain
    BY <2>1, <2>5 DEF FilesEnd, Drain, ListStates
  <2>6. CASE TakeMd5
    <3>1. \/ lst' = [lst EXCEPT !.at = "end"]
          \/ \E f \in lst.todo :
               lst' = [lst EXCEPT !.at = "check", !.todo = @ \ {f}, !.f = f, !.hash = md5s[f]]
      BY <2>6 DEF TakeMd5
    <3> QED BY <2>1, <3>1 DEF ListStates
  <2> QED BY <2>2, <2>3, <2>4, <2>5, <2>6
<1> QED BY <1>1, <1>2, <1>3, <1>4, OwnGroupOnly

LEMMA CountChecks == ASSUME ClientInv, CountInv, Check PROVE CountInv'
<1>1. /\ scene' = scene /\ snd' = snd /\ que' = que /\ names' = names /\ lst.at = "check"
      /\ "Ready" \in names
  BY DEF Check, ClientInv, ListType
<1>2. \/ UNCHANGED <<lst, sound>>
      \/ lst' = [lst EXCEPT !.at = "verify", !.f = NoFile, !.hash = 0] /\ UNCHANGED sound
      \/ sound' = FALSE
  BY DEF Check, CheckAnswered, CheckFailed
<1>3. CASE UNCHANGED <<lst, sound>>
  BY <1>1, <1>3, OwnGroupOnly
<1>4. CASE lst' = [lst EXCEPT !.at = "verify", !.f = NoFile, !.hash = 0] /\ UNCHANGED sound
  <2>1. lst'.g = lst.g /\ lst'.at = "verify"
    BY <1>4 DEF ClientInv, ListType, ListStates
  <2> QED BY <1>1, <1>4, <2>1, OwnGroupOnly
<1>5. CASE sound' = FALSE
  BY <1>5 DEF CountInv, LeftBehindEnds, CountPending
<1> QED BY <1>2, <1>3, <1>4, <1>5

LEMMA CountCloses == ASSUME ClientInv, CountInv, Work_CloseList PROVE CountInv'
<1> DEFINE end == [op |-> "END_LST", l |-> GroupList, dated |-> FALSE]
<1>1. lst.g \in Groups /\ que[lst.g] \in Seq(Commands) /\ end \in Commands /\ <<end>> \in Seq(Commands)
  <2>1. end \in Commands
    BY ListTransferAssumption DEF Commands
  <2> QED BY <2>1 DEF ClientInv, ListType, ListStates, QueuesType
<1>2. que'[lst.g] = que[lst.g] \o <<end>>
  BY <1>1 DEF Work_CloseList, PushAll, ClientInv, QueuesType
<1>3. /\ que'[lst.g] # <<>> /\ que'[lst.g][Len(que'[lst.g])].op = "END_LST"
  <2>1. Len(que'[lst.g]) = Len(que[lst.g]) + 1 /\ que'[lst.g][Len(que[lst.g]) + 1] = end
    BY <1>1, <1>2
  <2> QED BY <1>1, <1>2, <2>1
<1>4. \A g \in Groups : g # lst.g => (Ends(g)' <=> Ends(g))
  BY PushOwnOnly, EndsStay DEF Work_CloseList
<1>5. scene' = scene /\ sound' = sound
  BY DEF Work_CloseList, history
<1>6. LeftBehindEnds'
  BY <1>3, <1>4, <1>5, SceneStays DEF CountInv, LeftBehindEnds, Ends
<1>7. PICK g \in Groups : g = lst.g
  BY <1>1
<1>8. ~Idle(g)'
  BY <1>3, <1>7 DEF Idle
<1> QED BY <1>5, <1>6, <1>8, SceneStays DEF CountInv, CountPending

LEMMA CountFinishes == ASSUME ClientInv, CountInv, Finish PROVE CountInv'
<1>1. /\ scene' = scene /\ que' = que /\ snd' = snd /\ sound' = sound /\ lst.at = "finish"
      /\ m_FileNum' = m_FileNum
  BY DEF Finish, history
<1>2. \A g \in Groups : (Ends(g)' <=> Ends(g)) /\ (Idle(g)' <=> Idle(g))
  BY <1>1, EndsStay
<1> QED BY <1>1, <1>2, SceneStays DEF CountInv, LeftBehindEnds, CountPending

LEMMA TailLast ==
  ASSUME NEW S, NEW s \in Seq(S), s # <<>>
  PROVE  /\ Tail(s) = <<>> => Head(s) = s[Len(s)]
         /\ Tail(s) # <<>> => Tail(s)[Len(Tail(s))] = s[Len(s)]
<1>1. /\ Len(s) \in Nat \ {0} /\ Len(Tail(s)) = Len(s) - 1 /\ Head(s) = s[1]
      /\ \A i \in 1 .. Len(Tail(s)) : Tail(s)[i] = s[i + 1]
  BY HeadTailProperties, LenProperties, EmptySeq
<1>2. Tail(s) \in Seq(S)
  BY HeadTailProperties
<1>3. Tail(s) = <<>> => Len(s) = 1
  <2>1. Tail(s) = <<>> <=> Len(Tail(s)) = 0
    BY <1>2, EmptySeq, Zenon
  <2> QED BY <1>1, <2>1
<1>4. Tail(s) # <<>> => Len(Tail(s)) \in 1 .. Len(Tail(s)) /\ Len(Tail(s)) + 1 = Len(s)
  BY <1>1, <1>2
<1> QED BY <1>1, <1>3, <1>4

(* A command comes to hand: the last one stays the last one. *)
LEMMA CountPops == ASSUME ClientInv, CountInv, NEW g \in Groups, PopCommand(g) PROVE CountInv'
<1>1. que[g] \in Seq(Commands) /\ que[g] # <<>> /\ Head(que[g]) \in Commands
  BY DEF PopCommand, ClientInv, QueuesType
<1>2. /\ que'[g] = Tail(que[g]) /\ snd'[g].cmd = Head(que[g])
      /\ \A h \in Groups : h # g => que'[h] = que[h] /\ snd'[h] = snd[h]
      /\ scene' = scene /\ sound' = sound /\ lst' = lst /\ names' = names /\ m_FileNum' = m_FileNum
  BY DEF PopCommand, ClientInv, QueuesType, disk, history
<1>3. Ends(g) => Ends(g)'
  <2>1. CASE Tail(que[g]) = <<>>
    BY <1>1, <1>2, <2>1, TailLast DEF Ends
  <2>2. CASE Tail(que[g]) # <<>>
    BY <1>1, <1>2, <2>2, TailLast DEF Ends
  <2> QED BY <2>1, <2>2
<1>4. ~Idle(g)'
  BY <1>1, <1>2, CommandsAreSome DEF Idle
<1>5. \A h \in Groups : h # g => (Ends(h)' <=> Ends(h))
  BY <1>2, EndsStay
<1> QED BY <1>2, <1>3, <1>4, <1>5, SceneStays DEF CountInv, LeftBehindEnds, CountPending

(* A command is released: an END resets the count, behind any other there is more to do. *)
LEMMA CountReleases ==
  ASSUME ClientInv, CountInv, NEW g \in Groups, snd[g].cmd # NoCommand, Released(g, snd[g].cmd),
         UNCHANGED <<scene, names, lst, que, sound>>
  PROVE  CountInv'
<1>1. /\ snd'[g].cmd = NoCommand
      /\ \A h \in Groups : h # g => que'[h] = que[h] /\ snd'[h] = snd[h]
  BY DEF Released, ClientInv, QueuesType
<1>2. \A h \in Groups : Ends(h) => Ends(h)'
  <2>1. Ends(g) => Ends(g)'
    BY <1>1 DEF Ends
  <2> QED BY <1>1, <2>1, EndsStay
<1>3. Ends(g) => m_FileNum' = 0 \/ ~Idle(g)'
  <2>1. CASE que[g] = <<>>
    BY <2>1 DEF Ends, Released, Counted
  <2>2. CASE que[g] # <<>>
    BY <2>2 DEF Idle
  <2> QED BY <2>1, <2>2
<1>4. sound /\ (lst.at = "finish" \/ "Ready" \notin names) => Ends(g)
  BY DEF CountInv, LeftBehindEnds, ClientInv, ListType
<1> QED BY <1>2, <1>3, <1>4, SceneStays DEF CountInv, LeftBehindEnds, CountPending

LEMMA CountFails ==
  ASSUME ClientInv, CountInv, NEW g \in Groups, snd[g].cmd # NoCommand, SendFailed(g),
         UNCHANGED <<scene, names, lst, que, sound>>
  PROVE  CountInv'
<1>1. CASE LastTry(snd[g])
  BY <1>1, CountReleases DEF SendFailed
<1>2. CASE ~LastTry(snd[g])
  <2>1. m_FileNum' = m_FileNum /\ \A h \in Groups : snd'[h].cmd = snd[h].cmd
    <3>1. /\ snd \in [Groups -> [cmd : Commands \cup {NoCommand}, try : 0 .. MaxTry - 1]]
          /\ \E n : snd' = [snd EXCEPT ![g].try = n]
          /\ m_FileNum' = m_FileNum
      BY <1>2 DEF SendFailed, ClientInv, QueuesType
    <3> HIDE DEF Groups
    <3> QED BY <3>1
  <2>2. \A h \in Groups : (Ends(h)' <=> Ends(h)) /\ (Idle(h)' <=> Idle(h))
    BY <2>1 DEF Ends, Idle
  <2> QED BY <2>1, <2>2, SceneStays DEF CountInv, LeftBehindEnds, CountPending
<1> QED BY <1>1, <1>2

LEMMA CountThreads ==
  ASSUME ClientInv, CountInv, NEW g \in Groups, ServerThread(g) \/ SendLost(g)
  PROVE  CountInv'
<1>1. CASE Send(g)
  <2>1. /\ snd[g].cmd # NoCommand /\ UNCHANGED <<scene, names, lst, que, sound>>
        /\ SendFailed(g) \/ Released(g, snd[g].cmd)
    BY <1>1 DEF Send
  <2> QED BY <2>1, CountFails, CountReleases
<1>2. CASE SendLost(g)
  BY <1>2, CountFails DEF SendLost
<1> QED BY <1>1, <1>2, CountPops DEF ServerThread

(* The crash of the client empties the queues: sound only if that was nothing of a finished list. *)
LEMMA CountCrash == ASSUME ClientInv, CountInv, ClientCrash PROVE CountInv'
<1>1. /\ que' = [g \in Groups |-> <<>>] /\ snd' = [g \in Groups |-> NoneAtHand]
      /\ scene' = scene /\ names' = names /\ lst'.at = "wait" /\ m_FileNum' = saved
      /\ sound' = (sound /\ ("Ready" \in names \/ \A g \in Groups : Idle(g)))
  BY DEF ClientCrash, Waiting, ThreadAt, NoneAtHand, disk
<1>2. \A g \in Groups : Ends(g)'
  BY <1>1 DEF Ends, NoneAtHand
<1>3. LeftBehindEnds'
  BY <1>1, <1>2, SceneStays DEF LeftBehindEnds
<1>4. CountPending'
  BY <1>1 DEF CountInv, CountPending, ClientInv, CountType
<1> QED BY <1>3, <1>4 DEF CountInv

LEMMA CountStays ==
  ASSUME ClientInv, CountInv, UNCHANGED <<scene, client, sound>>, "Ready" \in names' <=> "Ready" \in names
  PROVE  CountInv'
<1>1. \A g \in Groups : (Ends(g)' <=> Ends(g)) /\ (Idle(g)' <=> Idle(g))
  BY EndsStay DEF client
<1> QED BY <1>1, SceneStays DEF CountInv, LeftBehindEnds, CountPending, client

LEMMA CountNext == ASSUME ClientInv, CountInv, [Next]_vars PROVE CountInv'
<1>1. CASE ListArrives
  BY <1>1, CountStays DEF ListArrives, history
<1>2. CASE ListThread
  BY <1>2, CountMonitor, CountWorks, CountChecks, CountCloses, CountFinishes DEF ListThread
<1>3. CASE \E g \in Groups : ServerThread(g) \/ SendLost(g) \/ Md5Thread(g) \/ ServerCrash(g)
  BY <1>3, CountThreads, CountStays DEF Md5Thread, ServerCrash, history, disk
<1>4. CASE ClientCrash
  BY <1>4, CountCrash
<1>5. CASE UNCHANGED vars
  BY <1>5, CountStays DEF vars, history, disk
<1> QED BY <1>1, <1>2, <1>3, <1>4, <1>5 DEF Next

LEMMA CountInit == Init => CountInv
BY DEF Init, CountInv, LeftBehindEnds, CountPending, Ends

(* When everything is at rest the count of files is 0 again (UpdateLstNO, ResetLstNO), in memory and in the
   file a restarted client reads it from: whatever was lost, given up or crashed, as long as no check
   failed and no crash took the END of a finished list. *)
THEOREM CountComesToRest == Spec => []CountRests
<1>1. Spec => [](ClientInv /\ CountInv)
  BY ClientInit, ClientNext, CountInit, CountNext, PTL DEF Spec
<1>2. ClientInv /\ CountInv => CountRests
  BY DEF CountInv, CountPending, CountRests, Rest, ClientInv, CountType
<1> QED BY <1>1, <1>2, PTL

-----------------------------------------------------------------------------
(* The servers. *)
Versions == 1 .. scene.lists
ServersType ==
  /\ DOMAIN srv = Groups /\ srv = [g \in Groups |-> srv[g]]
  /\ \A g \in Groups : MachineType(srv[g], Versions)
RestType ==
  /\ missing \in Missing \cup {{}} /\ lost \in 0 .. MaxLost /\ crashes \in 0 .. scene.crashes
  /\ alarmed \in BOOLEAN /\ dirty \subseteq {"early", "crash", "late", "empty", "rename"} /\ sound \in BOOLEAN
  /\ done \in [Groups -> SUBSET Files]

Inv == ClientInv /\ ServersType /\ RestType

(* What a command can do at a server, as one fact for each. *)
Carries(s, o, cmd) ==
  /\ MachineType(o.srv, Versions) /\ SameRest(s, o.srv) /\ o.bad \in {0, 1} /\ o.ret \in {0, -1, -2}
  /\ cmd.op \in {"START_LST", "END_LST"} => SameFiles(s, o.srv)
  /\ cmd.op = "OPEN_FILE" => Opens(Versions, s, o, cmd.f)
  /\ cmd.op = "WRITE_FILE" => Writes(Versions, s, o, cmd.f, cmd.data)
  /\ cmd.op = "CLOSE_FILE" => Closes(Versions, s, o, cmd.f, cmd.all)

LEMMA WorkCarries ==
  ASSUME NEW s, MachineType(s, Versions), NEW cmd \in Commands, NEW o \in Work(s, cmd)
  PROVE  Carries(s, o, cmd)
<1>1. CASE cmd \in [op : {"START_LST"}, l : Lists]
  <2>1. cmd.op = "START_LST" /\ cmd.l \in Lists /\ o \in CreateAList(s, cmd.l)
    BY <1>1 DEF Work
  <2>2. Starts(Versions, s, o)
    BY <2>1, StartEffect
  <2> QED BY <2>1, <2>2 DEF Carries, Starts, ListsOnly
<1>2. CASE cmd \in [op : {"OPEN_FILE"}, l : Lists, f : Files]
  <2>1. cmd.op = "OPEN_FILE" /\ cmd.l \in Lists /\ cmd.f \in Files /\ o \in OpenAFile(s, cmd.l, cmd.f)
    BY <1>2 DEF Work
  <2>2. Opens(Versions, s, o, cmd.f)
    BY <2>1, OpenEffect
  <2> QED BY <2>1, <2>2 DEF Carries, Opens
<1>3. CASE cmd \in [op : {"WRITE_FILE"}, f : Files, data : Seq(1 .. scene.lists)]
  <2>1. /\ cmd.op = "WRITE_FILE" /\ cmd.f \in Files /\ cmd.data \in Seq(Versions)
        /\ o \in WriteToFile(s, cmd.f, cmd.data)
    BY <1>3 DEF Work, Versions
  <2>2. Writes(Versions, s, o, cmd.f, cmd.data)
    BY <2>1, WriteFileEffect
  <2> QED BY <2>1, <2>2 DEF Carries, Writes
<1>4. CASE cmd \in [op : {"CLOSE_FILE"}, f : Files, all : BOOLEAN]
  <2>1. cmd.op = "CLOSE_FILE" /\ cmd.f \in Files /\ cmd.all \in BOOLEAN /\ o \in CloseAFile(s, cmd.f, cmd.all)
    BY <1>4 DEF Work
  <2>2. Closes(Versions, s, o, cmd.f, cmd.all)
    BY <2>1, CloseFileEffect
  <2> QED BY <2>1, <2>2 DEF Carries, Closes
<1>5. CASE cmd \in [op : {"END_LST"}, l : Lists, dated : BOOLEAN]
  <2>1. cmd.op = "END_LST" /\ cmd.l \in Lists /\ cmd.dated \in BOOLEAN /\ o \in CloseAList(s, cmd.l, cmd.dated)
    BY <1>5 DEF Work
  <2>2. ListsOnly(Versions, s, o.srv) /\ o.ret \in {0, -1, -2} /\ o.bad = 0
    BY <2>1, EndEffect
  <2> QED BY <2>1, <2>2 DEF Carries, ListsOnly
<1> QED BY <1>1, <1>2, <1>3, <1>4, <1>5 DEF Commands

(* One server is at work. *)
LEMMA OneServer ==
  ASSUME ServersType, scene' = scene, NEW g \in Groups, NEW t, MachineType(t, Versions),
         srv' = [srv EXCEPT ![g] = t]
  PROVE  ServersType' /\ srv'[g] = t /\ \A h \in Groups : h # g => srv'[h] = srv[h]
<1>1. /\ Groups' = Groups /\ Versions' = Versions /\ DOMAIN srv' = Groups
      /\ srv'[g] = t /\ \A h \in Groups : h # g => srv'[h] = srv[h]
  BY SceneStays DEF ServersType, Versions
<1>2. srv' = [h \in Groups |-> srv'[h]]
  BY <1>1 DEF ServersType
<1>3. \A h \in Groups : MachineType(srv'[h], Versions)
  BY <1>1 DEF ServersType
<1> QED BY <1>1, <1>2, <1>3 DEF ServersType

LEMMA ServersNext == ASSUME Inv, [Next]_vars PROVE ServersType'
<1> USE DEF Inv
<1>1. CASE UNCHANGED <<scene, srv>>
  BY <1>1, SceneStays DEF ServersType, Versions
<1>2. CASE Check
  <2>1. lst.g \in Groups /\ lst.f \in Files /\ scene' = scene
    BY <1>2 DEF Check, ClientInv, ListType, ListStates
  <2>2. PICK o \in CheckMD5(srv[lst.g], lst.f, Version(lst.hash)) : srv' = [srv EXCEPT ![lst.g] = o.srv]
    BY <1>2 DEF Check
  <2>3. MachineType(srv[lst.g], Versions)
    BY <2>1 DEF ServersType
  <2>4. Checks(Versions, srv[lst.g], o, lst.f, Version(lst.hash))
    BY <2>1, <2>2, <2>3, CheckEffect
  <2> QED BY <2>1, <2>2, <2>4, OneServer DEF Checks
<1>3. ASSUME NEW g \in Groups, Send(g) \/ SendLost(g)
      PROVE  ServersType'
  <2>1. snd[g].cmd \in Commands /\ scene' = scene
    BY <1>3 DEF Send, SendLost, ClientInv, QueuesType
  <2>2. UNCHANGED srv \/ \E o \in Work(srv[g], snd[g].cmd) : srv' = [srv EXCEPT ![g] = o.srv]
    BY <1>3 DEF Send, SendLost
  <2>3. ASSUME NEW o \in Work(srv[g], snd[g].cmd), srv' = [srv EXCEPT ![g] = o.srv]
        PROVE  ServersType'
    <3>1. MachineType(srv[g], Versions)
      BY DEF ServersType
    <3>2. Carries(srv[g], o, snd[g].cmd)
      BY <2>1, <3>1, WorkCarries
    <3> QED BY <2>1, <2>3, <3>2, OneServer DEF Carries
  <2> QED BY <1>1, <2>1, <2>2, <2>3
<1>4. ASSUME NEW g \in Groups, Md5Thread(g)
      PROVE  ServersType'
  <2>1. MachineType(srv[g], Versions) /\ scene' = scene
    BY <1>4 DEF ServersType, Md5Thread
  <2>2. CASE srv[g].jobs # <<>> /\ srv' = [srv EXCEPT ![g] = Md5Reads(@)]
    <3>1. Reads(Versions, srv[g], Md5Reads(srv[g]))
      BY <2>1, <2>2, ReadsEffect
    <3>2. MachineType(Md5Reads(srv[g]), Versions)
      BY <3>1 DEF Reads
    <3> QED BY <2>1, <2>2, <3>2, OneServer
  <2>3. ASSUME NEW j \in srv[g].hashing, srv' = [srv EXCEPT ![g] = Md5Writes(@, j)]
        PROVE  ServersType'
    <3>1. TextWritten(Versions, srv[g], Md5Writes(srv[g], j), j)
      BY <2>1, WritesEffect
    <3>2. MachineType(Md5Writes(srv[g], j), Versions)
      BY <3>1 DEF TextWritten
    <3> QED BY <2>1, <2>3, <3>2, OneServer
  <2> QED BY <1>4, <2>2, <2>3 DEF Md5Thread
<1>5. ASSUME NEW g \in Groups, ServerCrash(g)
      PROVE  ServersType'
  <2>1. MachineType(srv[g], Versions) /\ scene' = scene
    BY <1>5 DEF ServersType, ServerCrash
  <2>2. MachineType(Restarted(srv[g]), Versions)
    BY <2>1, RestartedEffect
  <2> QED BY <1>5, <2>1, <2>2, OneServer DEF ServerCrash
<1>6. CASE ListThread /\ ~Check
  BY <1>1, <1>6
     DEF ListThread, MonitorList, Work_StartList, SkipFile, SendFile, BuildLocalMd5, FilesEnd, Drain, TakeMd5,
         Work_CloseList, Finish
<1>7. CASE ListArrives \/ ClientCrash \/ UNCHANGED vars \/ \E g \in Groups : PopCommand(g)
  BY <1>1, <1>7 DEF ListArrives, ClientCrash, PopCommand, vars
<1> QED BY <1>2, <1>3, <1>4, <1>5, <1>6, <1>7 DEF Next, ServerThread

(* The histories, the losses and the crashes. *)
LEMMA RestStays ==
  ASSUME Inv, scene' = scene, UNCHANGED <<lost, crashes, history>>, missing' \in Missing \cup {{}}
  PROVE  RestType'
BY SceneStays DEF Inv, RestType, history

LEMMA DoneStays ==
  ASSUME Inv, scene' = scene, NEW g \in Groups, snd[g].cmd # NoCommand,
         SendFailed(g) \/ (Released(g, snd[g].cmd) /\ UNCHANGED alarmed)
  PROVE  done' \in [Groups -> SUBSET Files] /\ alarmed' \in BOOLEAN
<1>1. snd[g].cmd \in Commands
  BY DEF Inv, ClientInv, QueuesType
<1>2. snd[g].cmd.op = "CLOSE_FILE" => snd[g].cmd.f \in Files
  BY <1>1 DEF Commands
<1>3. \/ done' = done
      \/ snd[g].cmd.op = "CLOSE_FILE" /\ done' = [done EXCEPT ![g] = @ \cup {snd[g].cmd.f}]
  BY DEF SendFailed, Released
<1>4. done' \in [Groups -> SUBSET Files]
  BY <1>2, <1>3 DEF Inv, RestType
<1> QED BY <1>4 DEF SendFailed, Inv, RestType

LEMMA RestNext == ASSUME Inv, [Next]_vars PROVE RestType'
<1>1. lost \in Nat /\ crashes \in Nat /\ MaxLost \in Nat /\ scene.crashes \in Nat
  BY ListTransferAssumption DEF Inv, ClientInv, SceneType, RestType
<1>2. CASE ListThread /\ ~Check /\ ~MonitorList
  BY <1>2, RestStays
     DEF ListThread, Work_StartList, SkipFile, SendFile, BuildLocalMd5, FilesEnd, Drain, TakeMd5,
         Work_CloseList, Finish, bounds, history, disk, Inv, RestType
<1>3. CASE MonitorList
  BY <1>3, SceneStays DEF MonitorList, Inv, RestType, bounds, history
<1>4. CASE Check
  <2>1. lost' \in 0 .. MaxLost
    <3>1. /\ lst.g \in Groups /\ lst.f \in Files /\ Version(lst.hash) = <<lst.hash>>
      BY <1>4 DEF Check, Inv, ClientInv, ListType, ListStates, Version
    <3>2. PICK o \in CheckMD5(srv[lst.g], lst.f, Version(lst.hash)), noAnswer \in BOOLEAN :
                 lost' = lost + o.bad + (IF noAnswer THEN 1 ELSE 0) /\ lost' <= MaxLost
      BY <1>4 DEF Check
    <3>3. MachineType(srv[lst.g], Versions)
      BY <3>1 DEF Inv, ServersType
    <3>4. Checks(Versions, srv[lst.g], o, lst.f, Version(lst.hash))
      BY <3>1, <3>3, CheckEffect
    <3>5. o.bad \in {0, 1}
      BY <3>4 DEF Checks
    <3> QED BY <1>1, <3>2, <3>5
  <2>2. alarmed' \in BOOLEAN /\ sound' \in BOOLEAN
    BY <1>4 DEF Check, CheckAnswered, CheckFailed, Inv, RestType
  <2>3. dirty' \subseteq {"early", "crash", "late", "empty", "rename"}
    BY <1>4 DEF Check, Unrenamed, Inv, RestType
  <2> QED BY <1>4, <2>1, <2>2, <2>3, SceneStays DEF Check, Inv, RestType
<1>5. ASSUME NEW g \in Groups, Send(g)
      PROVE  RestType'
  <2>1. PICK o \in Work(srv[g], snd[g].cmd) : lost' = lost + o.bad /\ lost' <= MaxLost
    BY <1>5 DEF Send
  <2>2. snd[g].cmd \in Commands /\ MachineType(srv[g], Versions)
    BY <1>5 DEF Send, Inv, ClientInv, QueuesType, ServersType
  <2>3. o.bad \in {0, 1}
    BY <2>2, WorkCarries DEF Carries
  <2>4. lost' \in 0 .. MaxLost
    BY <1>1, <2>1, <2>3
  <2>5. done' \in [Groups -> SUBSET Files] /\ alarmed' \in BOOLEAN
    BY <1>5, DoneStays DEF Send
  <2>6. dirty' \subseteq {"early", "crash", "late", "empty", "rename"}
    BY <1>5 DEF Send, Unrenamed, Inv, RestType
  <2> QED BY <1>5, <2>4, <2>5, <2>6, SceneStays DEF Send, Inv, RestType
<1>6. ASSUME NEW g \in Groups, SendLost(g)
      PROVE  RestType'
  <2>1. lost' \in 0 .. MaxLost
    BY <1>1, <1>6 DEF SendLost
  <2>2. done' \in [Groups -> SUBSET Files] /\ alarmed' \in BOOLEAN
    BY <1>6, DoneStays DEF SendLost
  <2>3. dirty' \subseteq {"early", "crash", "late", "empty", "rename"}
    BY <1>6 DEF SendLost, Inv, RestType
  <2> QED BY <1>6, <2>1, <2>2, <2>3, SceneStays DEF SendLost, Inv, RestType
<1>7. CASE ListArrives \/ UNCHANGED vars \/ \E g \in Groups : PopCommand(g) \/ Md5Thread(g)
  BY <1>7, RestStays DEF ListArrives, PopCommand, Md5Thread, vars, disk, bounds, history, Inv, RestType
<1>8. CASE ClientCrash \/ \E g \in Groups : ServerCrash(g)
  <2>1. crashes' \in 0 .. scene.crashes
    BY <1>1, <1>8 DEF ClientCrash, ServerCrash
  <2>2. sound' \in BOOLEAN
    BY <1>8 DEF ClientCrash, ServerCrash, history, Inv, RestType
  <2>3. dirty' \subseteq {"early", "crash", "late", "empty", "rename"}
    BY <1>8 DEF ClientCrash, ServerCrash, history, Inv, RestType
  <2>4. UNCHANGED <<scene, missing, lost, alarmed, done>>
    BY <1>8 DEF ClientCrash, ServerCrash, disk, history
  <2> QED BY <2>1, <2>2, <2>3, <2>4, SceneStays DEF Inv, RestType
<1> QED BY <1>2, <1>3, <1>4, <1>5, <1>6, <1>7, <1>8 DEF Next, ListThread, ServerThread

LEMMA InvNext == Inv /\ [Next]_vars => Inv'
BY ClientNext, ServersNext, RestNext DEF Inv

LEMMA InvInit == Init => Inv
<1> SUFFICES ASSUME Init PROVE Inv
  OBVIOUS
<1>1. ClientInv
  BY ClientInit
<1>2. ServersType
  <2>1. MachineType(NewMachine, Versions)
    BY NewMachineTyped
  <2> QED BY <2>1 DEF Init, ServersType
<1>3. RestType
  <2>1. 0 \in 0 .. MaxLost /\ 0 \in 0 .. scene.crashes
    BY <1>1, ListTransferAssumption DEF ClientInv, SceneType
  <2> QED BY <2>1 DEF Init, RestType
<1> QED BY <1>1, <1>2, <1>3 DEF Inv

(* The values the program can have: ClientInv of the threads and queues of the client, ServersType of the
   machines behind them, RestType of the histories. *)
THEOREM TypeCorrect == Spec => []TypeOK
<1>1. Spec => []Inv
  BY InvInit, InvNext, PTL DEF Spec
<1>2. Inv => TypeOK
  <2> SUFFICES ASSUME Inv PROVE TypeOK
    OBVIOUS
  <2>1. /\ lst \in ListStates
        /\ lst.at = "check" => lst.f \in Files
        /\ lst.at # "wait" => "Ready" \in names
    BY DEF Inv, ClientInv, ListType
  <2>2. \A g \in Groups : snd[g].try \in 0 .. MaxTry - 1 /\ done[g] \subseteq Files
    BY DEF Inv, ClientInv, QueuesType, RestType
  <2>3. \A g \in Groups : srv[g].disk \in [Names -> Contents]
    <3>1. AnyContents(Versions) = Contents
      BY DEF AnyContents, Contents, Versions
    <3> QED BY <3>1 DEF Inv, ServersType, MachineType, Machines
  <2>4. SceneType /\ NamesType /\ CountType /\ RestType
    BY DEF Inv, ClientInv
  <2>5. lst \in [at : {"wait", "start", "file", "md5", "drain", "verify", "check", "end", "finish"},
              g : Groups, i : 1 .. Len(Lines) + 1, skip : Nat, verify : BOOLEAN,
              todo : SUBSET Files, f : Files \cup {NoFile}, hash : 0 .. scene.lists]
    BY <2>1 DEF ListStates, Stages
  <2> QED BY <2>1, <2>2, <2>3, <2>4, <2>5 DEF TypeOK, SceneType, NamesType, CountType, RestType
<1> QED BY <1>1, <1>2, PTL

-----------------------------------------------------------------------------
(* One file at one server: what the proofs about its arrival need to know of the machine. *)

(* A FILE* of a file is of its .df, or of what that was renamed to. *)
OwnHandles(s) == \A f \in Files : s.m_mapNameFile[f] \in {Closed, Gone, Df(f), Final(f)}

(* The .md5, made or in the making, is of the .df that is there. *)
TrueMd5(s, f) ==
  /\ s.disk[Md5(f)] \in {NoFile, Empty, s.disk[Df(f)]}
  /\ \A j \in s.hashing : j.f = f => j.hash = s.disk[Df(f)]

(* Opened, and nobody has made or will make a .md5 of it. *)
Fresh(s, f) ==
  /\ Exists(s, Df(f)) /\ s.disk[Md5(f)] = NoFile /\ s.m_mapNameFile[f] \in {Closed, Df(f)}
  /\ ~Contains(s.jobs, f) /\ \A j \in s.hashing : j.f # f

(* Content v is there under its name, ... *)
Held(s, f, v) == TrueMd5(s, f) /\ s.disk[Final(f)] = v

(* ... or there is a .df that a check can refuse. *)
Staged(s, f, v) == TrueMd5(s, f) /\ (Exists(s, Df(f)) \/ s.disk[Final(f)] = v)

(* What is not about a file leaves it alone. *)
FileKept(s, t, f) ==
  /\ t.disk[Df(f)] = s.disk[Df(f)] /\ t.disk[Md5(f)] = s.disk[Md5(f)] /\ t.disk[Final(f)] = s.disk[Final(f)]
  /\ t.m_mapNameFile[f] = s.m_mapNameFile[f]
  /\ Contains(t.jobs, f) => Contains(s.jobs, f)
  /\ \A j \in t.hashing : j.f = f => j \in s.hashing

LEMMA KeptStages ==
  ASSUME NEW s, NEW t, NEW f, NEW v, FileKept(s, t, f)
  PROVE  /\ Fresh(s, f) => Fresh(t, f)
         /\ Held(s, f, v) => Held(t, f, v)
         /\ Staged(s, f, v) => Staged(t, f, v)
<1>1. Fresh(s, f) => Fresh(t, f)
  BY DEF FileKept, Fresh, Exists
<1>2. TrueMd5(s, f) => TrueMd5(t, f)
  BY DEF FileKept, TrueMd5
<1> QED BY <1>1, <1>2 DEF FileKept, Held, Staged, Exists

LEMMA KeptBySame ==
  ASSUME NEW s, NEW t, SameFiles(s, t), NEW f \in Files
  PROVE  FileKept(s, t, f)
<1>1. Df(f) \in FileNames /\ Md5(f) \in FileNames /\ Final(f) \in FileNames
  BY NameFacts
<1> QED BY <1>1 DEF FileKept, SameFiles

LEMMA KeptByOther ==
  ASSUME NEW s, NEW t, NEW g \in Files, NEW f \in Files, f # g, SameOthers(s, t, g), OwnHandles(s),
         Contains(t.jobs, f) => Contains(s.jobs, f),
         \A j \in t.hashing : j.f = f => j \in s.hashing
  PROVE  FileKept(s, t, f)
<1>1. Final(g) # Closed /\ Final(g) # Gone /\ Final(g) # Df(f) /\ Final(g) # Final(f)
  <2>1. Final(g) \in Names
    BY NameFacts
  <2> QED BY <2>1, NameFacts
<1>2. s.m_mapNameFile[f] # Final(g)
  BY <1>1 DEF OwnHandles
<1> QED BY <1>2 DEF SameOthers, FileKept

(* The handles stay those of their files. *)
LEMMA HandlesKept ==
  ASSUME NEW s, NEW t, OwnHandles(s), NEW g \in Files, SameOthers(s, t, g),
         t.m_mapNameFile[g] \in {Closed, Gone, Df(g), Final(g)}
  PROVE  OwnHandles(t)
BY DEF SameOthers, OwnHandles

LEMMA MarksApart ==
  ASSUME NEW s, MachineType(s, Versions), NEW f \in Files
  PROVE  /\ s.disk[Df(f)] # NoFile => s.disk[Df(f)] \in Seq(Versions)
         /\ s.disk[Final(f)] # NoFile => s.disk[Final(f)] \in Seq(Versions)
         /\ NoFile \notin Seq(Versions) /\ Empty \notin Seq(Versions) /\ s.disk[Df(f)] # Empty
<1>1. \A q \in Seq(Versions) : q \in Seq(Nat)
  <2>1. Versions \subseteq Nat
    BY DEF Versions
  <2> QED BY <2>1, SeqMonotonic
<1>2. NoFile \notin Seq(Versions) /\ Empty \notin Seq(Versions) /\ NoFile # Empty
  BY <1>1, ContentsAssumption, NamesAssumption
<1>3. s.disk[Df(f)] \in Seq(Versions) \cup {NoFile} /\ s.disk[Final(f)] \in Seq(Versions) \cup {NoFile}
  BY DEF MachineType, OwnContents, DataContents
<1> QED BY <1>2, <1>3

(* A command and a file that it is about. *)
About(c, f) == c.op \in {"OPEN_FILE", "WRITE_FILE", "CLOSE_FILE"} /\ c.f = f

LEMMA WorkSpares ==
  ASSUME NEW s, MachineType(s, Versions), OwnHandles(s), NEW cmd \in Commands, NEW o \in Work(s, cmd)
  PROVE  /\ OwnHandles(o.srv)
         /\ \A f \in Files : ~About(cmd, f) => FileKept(s, o.srv, f)
<1>1. Carries(s, o, cmd)
  BY WorkCarries
<1>2. \A f \in Files : f \in Files => Df(f) \in {Closed, Gone, Df(f), Final(f)}
  OBVIOUS
<1>3. CASE cmd.op \in {"START_LST", "END_LST"}
  <2>1. SameFiles(s, o.srv)
    BY <1>1, <1>3 DEF Carries
  <2>2. OwnHandles(o.srv)
    BY <2>1 DEF SameFiles, OwnHandles
  <2> QED BY <2>1, <2>2, KeptBySame
<1>4. CASE cmd.op = "OPEN_FILE"
  <2>1. cmd.f \in Files /\ Opens(Versions, s, o, cmd.f)
    BY <1>1, <1>4 DEF Carries, Commands
  <2>2. OwnHandles(o.srv)
    <3>1. SameOthers(s, o.srv, cmd.f) /\ o.srv.m_mapNameFile[cmd.f] \in {Closed, Gone, Df(cmd.f), Final(cmd.f)}
      BY <2>1 DEF Opens
    <3> QED BY <2>1, <3>1, HandlesKept
  <2>3. ASSUME NEW f \in Files, f # cmd.f PROVE FileKept(s, o.srv, f)
    <3>1. SameOthers(s, o.srv, cmd.f) /\ o.srv.jobs = s.jobs /\ o.srv.hashing \subseteq s.hashing
      BY <2>1 DEF Opens
    <3> QED BY <2>1, <2>3, <3>1, KeptByOther
  <2> QED BY <1>4, <2>2, <2>3 DEF About
<1>5. CASE cmd.op = "WRITE_FILE"
  <2> DEFINE n == s.m_mapNameFile[cmd.f]
  <2>1. cmd.f \in Files /\ Writes(Versions, s, o, cmd.f, cmd.data)
    BY <1>1, <1>5 DEF Carries, Commands
  <2>2. OwnHandles(o.srv)
    BY <2>1 DEF Writes, OwnHandles
  <2>3. n \in {Closed, Gone, Df(cmd.f), Final(cmd.f)}
    BY <2>1 DEF OwnHandles
  <2>4. s.disk \in [Names -> AnyContents(Versions)]
    BY DEF MachineType, Machines
  <2>5. \A m \in Names : m # n => o.srv.disk[m] = s.disk[m]
    BY <2>1, <2>4 DEF Writes
  <2> HIDE DEF n
  <2>6. ASSUME NEW f \in Files, f # cmd.f PROVE FileKept(s, o.srv, f)
    <3>1. Df(f) \in Names /\ Md5(f) \in Names /\ Final(f) \in Names
      BY NameFacts
    <3>2. n # Df(f) /\ n # Md5(f) /\ n # Final(f)
      BY <2>1, <2>3, <2>6, <3>1, NameFacts
    <3> QED BY <2>1, <2>5, <3>1, <3>2 DEF Writes, FileKept
  <2> QED BY <1>5, <2>2, <2>6 DEF About
<1>6. CASE cmd.op = "CLOSE_FILE"
  <2>1. cmd.f \in Files /\ Closes(Versions, s, o, cmd.f, cmd.all)
    BY <1>1, <1>6 DEF Carries, Commands
  <2>2. OwnHandles(o.srv)
    <3>1. SameOthers(s, o.srv, cmd.f) /\ o.srv.m_mapNameFile[cmd.f] \in {Closed, Gone, Df(cmd.f), Final(cmd.f)}
      BY <2>1 DEF Closes
    <3> QED BY <2>1, <3>1, HandlesKept
  <2>3. ASSUME NEW f \in Files, f # cmd.f PROVE FileKept(s, o.srv, f)
    <3>1. SameOthers(s, o.srv, cmd.f) /\ o.srv.hashing = s.hashing
      BY <2>1 DEF Closes
    <3>2. o.srv.jobs = Append(s.jobs, cmd.f) \/ o.srv.jobs = s.jobs
      BY <2>1 DEF Closes
    <3>3. s.jobs \in Seq(Files)
      BY DEF MachineType, Machines
    <3>5. Contains(Append(s.jobs, cmd.f), f) => Contains(s.jobs, f) \/ f = cmd.f
      BY <2>1, <3>3, ContainsAppended
    <3>4. Contains(o.srv.jobs, f) => Contains(s.jobs, f)
      BY <2>3, <3>2, <3>5
    <3> QED BY <2>1, <2>3, <3>1, <3>4, KeptByOther
  <2> QED BY <1>6, <2>2, <2>3 DEF About
<1> QED BY <1>3, <1>4, <1>5, <1>6, CommandsAreSome

(* OPEN_FILE: what is held stays; a file that no md5 thread has work of is fresh when it is answered. *)
HasWork(s, f) == Contains(s.jobs, f) \/ \E j \in s.hashing : j.f = f

LEMMA OpenStages ==
  ASSUME NEW s, MachineType(s, Versions), NEW cmd \in Commands, cmd.op = "OPEN_FILE", NEW o \in Work(s, cmd)
  PROVE  /\ \A v : Held(s, cmd.f, v) => Held(o.srv, cmd.f, v)
         /\ o.ret >= 0 =>
              /\ Exists(o.srv, Df(cmd.f)) /\ o.srv.m_mapNameFile[cmd.f] = Df(cmd.f)
              /\ ~HasWork(s, cmd.f) => Fresh(o.srv, cmd.f)
<1> DEFINE f == cmd.f
<1>1. f \in Files /\ Opens(Versions, s, o, f)
  BY WorkCarries DEF Carries, Commands
<1> HIDE DEF f
<1>2. \A v : Held(s, f, v) => Held(o.srv, f, v)
  BY <1>1 DEF Opens, Held, TrueMd5
<1>3. ASSUME o.ret >= 0
      PROVE  /\ Exists(o.srv, Df(f)) /\ o.srv.m_mapNameFile[f] = Df(f)
             /\ ~HasWork(s, f) => Fresh(o.srv, f)
  <2>1. o.ret # -1
    BY <1>3
  <2>2. o.srv.disk[Df(f)] = <<>> /\ o.srv.m_mapNameFile[f] = Df(f)
    BY <1>1, <2>1 DEF Opens
  <2>3. o.srv.disk[Df(f)] # NoFile
    BY <2>2, <1>1, MarksApart, EmptySeq
  <2> QED BY <1>1, <2>2, <2>3 DEF Opens, Exists, HasWork, Fresh
<1> QED BY <1>2, <1>3 DEF f

(* WRITE_FILE of a fresh file. *)
LEMMA WriteStages ==
  ASSUME NEW s, MachineType(s, Versions), NEW cmd \in Commands, cmd.op = "WRITE_FILE", NEW o \in Work(s, cmd),
         Fresh(s, cmd.f)
  PROVE  Fresh(o.srv, cmd.f) /\ \A v : Held(s, cmd.f, v) => Held(o.srv, cmd.f, v)
<1> DEFINE f == cmd.f
<1>1. f \in Files /\ Writes(Versions, s, o, f, cmd.data) /\ MachineType(o.srv, Versions) /\ cmd.data \in Seq(Versions)
  BY WorkCarries DEF Carries, Commands, Versions
<1>0. Fresh(s, f)
  OBVIOUS
<1> HIDE DEF f
<1>2. s.disk \in [Names -> AnyContents(Versions)] /\ Df(f) \in Names /\ Md5(f) \in Names /\ Final(f) \in Names
  BY <1>1, NameFacts DEF MachineType, Machines
<1>3. Df(f) # Md5(f) /\ Df(f) # Final(f) /\ Closed # Df(f) /\ Gone # Closed /\ Gone # Df(f)
  BY <1>1, <1>2, NameFacts
<1>4. /\ o.srv.disk[Md5(f)] = s.disk[Md5(f)] /\ o.srv.disk[Final(f)] = s.disk[Final(f)]
      /\ o.srv.m_mapNameFile = s.m_mapNameFile /\ o.srv.jobs = s.jobs /\ o.srv.hashing = s.hashing
      /\ o.srv.disk[Df(f)] = s.disk[Df(f)] \/ o.srv.disk[Df(f)] = Appended(s.disk[Df(f)], cmd.data)
  <2>1. CASE o.srv.disk = s.disk
    BY <1>1, <2>1 DEF Writes
  <2>2. CASE o.srv.disk # s.disk
    <3>0. \A g \in Files : Final(g) # Closed /\ Final(g) # Df(f)
      BY <1>1, <1>2, NameFacts
    <3>1. s.m_mapNameFile[f] \in {Df(f)} \cup {Final(g) : g \in Files} /\ s.m_mapNameFile[f] \in {Closed, Df(f)}
      BY <1>0, <1>1, <2>2 DEF Writes, Fresh
    <3>2. s.m_mapNameFile[f] = Df(f)
      BY <1>3, <3>0, <3>1
    <3>3. o.srv.disk = [s.disk EXCEPT ![Df(f)] = Appended(s.disk[Df(f)], cmd.data)]
      BY <1>1, <2>2, <3>2 DEF Writes
    <3> QED BY <1>1, <1>2, <1>3, <3>3 DEF Writes
  <2> QED BY <2>1, <2>2
<1>5. Exists(o.srv, Df(f))
  <2>1. s.disk[Df(f)] \in Seq(Versions)
    BY <1>0, <1>1, MarksApart DEF Fresh, Exists
  <2>2. Appended(s.disk[Df(f)], cmd.data) \in Seq(Versions)
    BY <1>1, <2>1, ConcatProperties DEF Appended
  <2> QED BY <1>1, <1>4, <2>1, <2>2, MarksApart DEF Exists
<1>6. Fresh(o.srv, f)
  BY <1>0, <1>4, <1>5 DEF Fresh
<1>7. \A v : Held(s, f, v) => Held(o.srv, f, v)
  BY <1>0, <1>4 DEF Fresh, Held, TrueMd5
<1> QED BY <1>6, <1>7 DEF f

LEMMA FreshIsStaged == ASSUME NEW s, NEW f, Fresh(s, f) PROVE \A v : Staged(s, f, v)
BY DEF Fresh, Staged, TrueMd5

(* CLOSE_FILE of a file that will be checked. *)
LEMMA CloseStages ==
  ASSUME NEW s, MachineType(s, Versions), NEW cmd \in Commands, cmd.op = "CLOSE_FILE", cmd.all = TRUE,
         NEW o \in Work(s, cmd)
  PROVE  \A v : /\ Held(s, cmd.f, v) => Held(o.srv, cmd.f, v)
                /\ Staged(s, cmd.f, v) => Staged(o.srv, cmd.f, v)
<1>1. Closes(Versions, s, o, cmd.f, cmd.all)
  BY WorkCarries DEF Carries
<1>2. /\ o.srv.disk[Md5(cmd.f)] = s.disk[Md5(cmd.f)] /\ o.srv.hashing = s.hashing
      /\ o.srv.disk[Df(cmd.f)] = s.disk[Df(cmd.f)] /\ o.srv.disk[Final(cmd.f)] = s.disk[Final(cmd.f)]
  BY <1>1 DEF Closes
<1> QED BY <1>2 DEF Held, Staged, TrueMd5, Exists

(* CHECK_MD5: what is held stays; what is staged is held when the check succeeds, unless the .md5 was empty
   or the rename failed. *)
LEMMA CheckStages ==
  ASSUME NEW s, MachineType(s, Versions), OwnHandles(s), NEW f \in Files, NEW v, NEW o \in CheckMD5(s, f, v)
  PROVE  /\ OwnHandles(o.srv)
         /\ \A k \in Files : k # f => FileKept(s, o.srv, k)
         /\ Held(s, f, v) => Held(o.srv, f, v)
         /\ Staged(s, f, v) =>
              /\ Staged(o.srv, f, v)
              /\ o.ret = 0 /\ o.bad = 0 /\ s.disk[Md5(f)] # Empty => Held(o.srv, f, v)
<1>1. Checks(Versions, s, o, f, v)
  BY CheckEffect
<1>2. SameOthers(s, o.srv, f) /\ o.srv.jobs = s.jobs /\ o.srv.hashing \subseteq s.hashing
  BY <1>1 DEF Checks
<1>3. \A k \in Files : k # f => FileKept(s, o.srv, k)
  BY <1>2, KeptByOther
<1>4. OwnHandles(o.srv)
  <2>1. s.m_mapNameFile[f] \in {Closed, Gone, Df(f), Final(f)}
    BY DEF OwnHandles
  <2>2. o.srv.m_mapNameFile[f] \in {Closed, Gone, Df(f), Final(f)}
    BY <1>1, <2>1 DEF Checks, Becomes
  <2> QED BY <1>2, <2>2, HandlesKept
<1>5. CASE o.srv = s /\ s.disk[Df(f)] = NoFile
  BY <1>3, <1>4, <1>5 DEF Staged, Held, Exists
<1>8. CASE o.srv = s /\ s.disk[Df(f)] # NoFile /\ o.ret \in {-3, -4} /\ o.bad = 1
  BY <1>3, <1>4, <1>8 DEF Staged, Held, Exists
<1>9. CASE /\ s.disk[Df(f)] # NoFile /\ o.ret = 0 /\ o.bad = 1
           /\ o.srv.disk[Df(f)] = s.disk[Df(f)] /\ o.srv.disk[Final(f)] = s.disk[Final(f)]
           /\ o.srv.disk[Md5(f)] = NoFile /\ o.srv.hashing = {j \in s.hashing : j.f # f}
  <2>1. TrueMd5(o.srv, f)
    BY <1>9 DEF TrueMd5
  <2> QED BY <1>3, <1>4, <1>9, <2>1 DEF Staged, Held, Exists
<1>6. CASE /\ s.disk[Df(f)] # NoFile /\ TextOf(s, f) # Empty /\ TextOf(s, f) = v /\ o.ret = 0
           /\ o.srv.disk[Df(f)] = NoFile /\ o.srv.disk[Final(f)] = s.disk[Df(f)]
           /\ o.srv.disk[Md5(f)] = NoFile /\ o.srv.hashing = {j \in s.hashing : j.f # f}
  <2>1. TrueMd5(s, f) => s.disk[Df(f)] = v
    BY <1>6 DEF TextOf, TrueMd5, Exists
  <2>2. TrueMd5(s, f) => Held(o.srv, f, v)
    BY <1>6, <2>1 DEF Held, TrueMd5
  <2> QED BY <1>3, <1>4, <2>2 DEF Staged, Held
<1>7. CASE /\ s.disk[Df(f)] # NoFile /\ o.ret = IF TextOf(s, f) = Empty THEN 0 ELSE -2
           /\ o.srv.disk[Df(f)] = s.disk[Df(f)] /\ o.srv.disk[Final(f)] = s.disk[Final(f)]
           /\ o.srv.disk[Md5(f)] = TextOf(s, f) /\ o.srv.hashing = s.hashing
  <2>1. TrueMd5(s, f) => TrueMd5(o.srv, f)
    BY <1>7 DEF TrueMd5, TextOf, Exists
  <2>2. TextOf(s, f) = Empty => s.disk[Md5(f)] = Empty
    BY MarksApart DEF TextOf, Exists
  <2>3. o.ret = 0 => s.disk[Md5(f)] = Empty
    BY <1>7, <2>2
  <2> QED BY <1>3, <1>4, <1>7, <2>1, <2>3 DEF Staged, Held, Exists
<1> QED BY <1>1, <1>5, <1>6, <1>7, <1>8, <1>9 DEF Checks

(* What a server does on its own: its md5 threads at work, and a restart. *)
Hashes(s, t) ==
  \/ s.jobs # <<>> /\ t = Md5Reads(s)
  \/ \E j \in s.hashing : t = Md5Writes(s, j)
Alone(s, t) == Hashes(s, t) \/ t = Restarted(s)

LEMMA AloneStages ==
  ASSUME NEW s, MachineType(s, Versions), OwnHandles(s), NEW t, Alone(s, t), NEW f \in Files
  PROVE  /\ OwnHandles(t)
         /\ Fresh(s, f) => Fresh(t, f)
         /\ \A v : (Held(s, f, v) => Held(t, f, v)) /\ (Staged(s, f, v) => Staged(t, f, v))
         /\ t.disk[Df(f)] = s.disk[Df(f)] /\ t.disk[Final(f)] = s.disk[Final(f)]
         /\ t.m_mapNameFile[f] = s.m_mapNameFile[f] \/ t = Restarted(s)
<1>1. CASE s.jobs # <<>> /\ t = Md5Reads(s)
  <2> DEFINE h == Head(s.jobs)
  <2>1. Reads(Versions, s, t)
    BY <1>1, ReadsEffect
  <2>2. s.jobs \in Seq(Files) /\ Contains(s.jobs, h) /\ h \in Files
    <3>1. s.jobs \in Seq(Files)
      BY DEF MachineType, Machines
    <3> QED BY <1>1, <3>1, ContainsFirst
  <2>3. SameOthers(s, t, h) /\ t.jobs = Tail(s.jobs) /\ t.m_mapNameFile = s.m_mapNameFile
    BY <2>1 DEF Reads
  <2>4. OwnHandles(t)
    BY <2>3 DEF OwnHandles
  <2>5. Contains(Tail(s.jobs), f) => Contains(s.jobs, f)
    BY <1>1, <2>2, ContainsRest
  <2>6. CASE f # h
    <3>1. \A j \in t.hashing : j.f = f => j \in s.hashing
      BY <2>1, <2>6 DEF Reads
    <3>2. FileKept(s, t, f)
      BY <2>2, <2>3, <2>5, <2>6, <3>1, KeptByOther
    <3>3. \A v : Held(s, f, v) => Held(t, f, v)
      BY <3>2, KeptStages
    <3>4. \A v : Staged(s, f, v) => Staged(t, f, v)
      BY <3>2, KeptStages
    <3> QED BY <2>4, <3>2, <3>3, <3>4, KeptStages DEF FileKept
  <2>7. CASE f = h
    <3>1. ~Fresh(s, f)
      BY <2>2, <2>7 DEF Fresh
    <3>2. /\ t.disk[Df(f)] = s.disk[Df(f)] /\ t.disk[Final(f)] = s.disk[Final(f)]
          /\ TrueMd5(s, f) => TrueMd5(t, f)
      <4>1. CASE s.disk[Df(f)] = NoFile
        BY <2>1, <2>7, <4>1 DEF Reads, TrueMd5
      <4>2. CASE s.disk[Df(f)] # NoFile
        <5>1. /\ t.disk[Md5(f)] = Empty /\ t.hashing = s.hashing \cup {[f |-> f, hash |-> s.disk[Df(f)]]}
              /\ t.disk[Df(f)] = s.disk[Df(f)] /\ t.disk[Final(f)] = s.disk[Final(f)]
          BY <2>1, <2>7, <4>2 DEF Reads
        <5> QED BY <5>1 DEF TrueMd5
      <4> QED BY <4>1, <4>2
    <3> QED BY <2>3, <2>4, <3>1, <3>2 DEF Held, Staged, Exists
  <2> QED BY <2>6, <2>7
<1>2. ASSUME NEW j \in s.hashing, t = Md5Writes(s, j)
      PROVE  /\ OwnHandles(t)
             /\ Fresh(s, f) => Fresh(t, f)
             /\ \A v : (Held(s, f, v) => Held(t, f, v)) /\ (Staged(s, f, v) => Staged(t, f, v))
             /\ t.disk[Df(f)] = s.disk[Df(f)] /\ t.disk[Final(f)] = s.disk[Final(f)]
             /\ t.m_mapNameFile[f] = s.m_mapNameFile[f]
  <2>1. TextWritten(Versions, s, t, j)
    BY <1>2, WritesEffect
  <2>2. OwnHandles(t) /\ t.m_mapNameFile[f] = s.m_mapNameFile[f]
    BY <2>1 DEF TextWritten, OwnHandles
  <2>3. CASE f # j.f
    <3>1. FileKept(s, t, f)
      <4>1. /\ j.f \in Files /\ SameOthers(s, t, j.f) /\ t.jobs = s.jobs /\ t.hashing \subseteq s.hashing
        BY <2>1 DEF TextWritten
      <4> QED BY <2>3, <4>1, KeptByOther
    <3>2. \A v : Held(s, f, v) => Held(t, f, v)
      BY <3>1, KeptStages
    <3>3. \A v : Staged(s, f, v) => Staged(t, f, v)
      BY <3>1, KeptStages
    <3> QED BY <2>2, <3>1, <3>2, <3>3, KeptStages DEF FileKept
  <2>4. CASE f = j.f
    <3>1. ~Fresh(s, f)
      BY <2>4 DEF Fresh
    <3>2. /\ t.disk[Df(f)] = s.disk[Df(f)] /\ t.disk[Final(f)] = s.disk[Final(f)]
          /\ t.disk[Md5(f)] = j.hash /\ t.hashing \subseteq s.hashing
      BY <2>1, <2>4 DEF TextWritten
    <3>3. TrueMd5(s, f) => TrueMd5(t, f)
      BY <2>4, <3>2 DEF TrueMd5
    <3> QED BY <2>2, <3>1, <3>2, <3>3 DEF Held, Staged, Exists
  <2> QED BY <2>3, <2>4
<1>3. CASE t = Restarted(s)
  <2>0. t = Restarted(s)
    BY <1>3
  <2>1. /\ MachineType(t, Versions) /\ t.disk = s.disk /\ t.jobs = <<>> /\ t.hashing = {}
        /\ t.m_mapNameFile = [k \in Files |-> Closed] /\ t.m_mapList = [l \in Lists |-> Closed]
    BY <2>0, RestartedEffect
  <2>2. ~Contains(t.jobs, f)
    BY <2>1 DEF Contains
  <2>3. OwnHandles(t)
    BY <2>1 DEF OwnHandles
  <2>4. Fresh(s, f) => Fresh(t, f)
    BY <2>1, <2>2 DEF Fresh, Exists
  <2>5. TrueMd5(s, f) => TrueMd5(t, f)
    BY <2>1 DEF TrueMd5
  <2> QED BY <1>3, <2>1, <2>3, <2>4, <2>5 DEF Held, Staged, Exists
<1> QED BY <1>1, <1>2, <1>3 DEF Alone, Hashes

-----------------------------------------------------------------------------
(* The commands that are to be carried out for a group: the one at hand, and those that are queued. *)
Pending(g) == (IF snd[g].cmd = NoCommand THEN <<>> ELSE <<snd[g].cmd>>) \o que[g]

StartCommands == <<[op |-> "START_LST", l |-> GroupList]>>
FileCommands(f, v, all) ==
  <<[op |-> "OPEN_FILE", l |-> GroupList, f |-> f], [op |-> "WRITE_FILE", f |-> f, data |-> v],
    [op |-> "CLOSE_FILE", f |-> f, all |-> all]>>
EndCommands == <<[op |-> "END_LST", l |-> GroupList, dated |-> FALSE]>>

LEMMA PendingTyped == ASSUME QueuesType, NEW g \in Groups PROVE Pending(g) \in Seq(Commands)
<1>1. snd[g].cmd \in Commands \cup {NoCommand} /\ que[g] \in Seq(Commands)
  BY DEF QueuesType
<1>2. CASE snd[g].cmd = NoCommand
  BY <1>1, <1>2, ConcatProperties, EmptySeq DEF Pending
<1>3. CASE snd[g].cmd # NoCommand
  <2>1. <<snd[g].cmd>> \in Seq(Commands)
    BY <1>1, <1>3
  <2> QED BY <1>1, <1>3, <2>1, ConcatProperties DEF Pending
<1> QED BY <1>2, <1>3

LEMMA PendingStays ==
  ASSUME NEW g, que'[g] = que[g], snd'[g].cmd = snd[g].cmd
  PROVE  Pending(g)' = Pending(g)
BY DEF Pending

LEMMA EmptyConcat == ASSUME NEW S, NEW q \in Seq(S) PROVE <<>> \o q = q
BY ConcatEmptySeq

LEMMA ConcatThree ==
  ASSUME NEW S, NEW a \in Seq(S), NEW b \in Seq(S), NEW c \in Seq(S)
  PROVE  (a \o b) \o c = a \o (b \o c)
<1>1. /\ (a \o b) \o c \in Seq(S) /\ a \o (b \o c) \in Seq(S)
      /\ Len((a \o b) \o c) = Len(a) + Len(b) + Len(c) /\ Len(a \o (b \o c)) = Len(a) + Len(b) + Len(c)
  BY ConcatProperties
<1>2. \A i \in 1 .. Len(a) + Len(b) + Len(c) : ((a \o b) \o c)[i] = (a \o (b \o c))[i]
  BY ConcatProperties
<1> QED BY <1>1, <1>2, SeqEqual

LEMMA PendingNone ==
  ASSUME QueuesType, NEW g \in Groups
  PROVE  /\ Idle(g) <=> Pending(g) = <<>>
         /\ que[g] = <<>> => Len(Pending(g)) <= 1
<1>1. que[g] \in Seq(Commands)
  BY DEF QueuesType
<1>2. CASE snd[g].cmd = NoCommand
  BY <1>1, <1>2, EmptyConcat DEF Pending, Idle
<1>3. CASE snd[g].cmd # NoCommand
  <2>1. Pending(g) = <<snd[g].cmd>> \o que[g]
    BY <1>3 DEF Pending
  <2>2. Len(Pending(g)) = 1 + Len(que[g])
    BY <1>1, <2>1
  <2>3. Pending(g) # <<>>
    BY <1>1, <2>2
  <2> QED BY <1>1, <1>3, <2>2, <2>3 DEF Idle
<1> QED BY <1>2, <1>3

LEMMA PendingPush ==
  ASSUME ClientInv, scene' = scene, snd' = snd, NEW cmds \in Seq(Commands), PushAll(cmds)
  PROVE  /\ lst.g \in Groups
         /\ \A g \in Groups : Pending(g)' = IF g = lst.g THEN Pending(g) \o cmds ELSE Pending(g)
<1>1. lst.g \in Groups /\ que[lst.g] \in Seq(Commands)
  BY DEF ClientInv, ListType, ListStates, QueuesType
<1>2. que'[lst.g] = que[lst.g] \o cmds /\ \A g \in Groups : g # lst.g => que'[g] = que[g]
  BY <1>1, PushKeeps DEF ClientInv
<1>3. PICK g : g = lst.g
  OBVIOUS
<1>4. Pending(g)' = Pending(g) \o cmds
  <2> DEFINE hand == IF snd[g].cmd = NoCommand THEN <<>> ELSE <<snd[g].cmd>>
  <2>1. hand \in Seq(Commands)
    BY <1>1, <1>3 DEF ClientInv, QueuesType
  <2>2. Pending(g)' = hand \o (que[g] \o cmds)
    BY <1>2, <1>3 DEF Pending
  <2>3. Pending(g) = hand \o que[g]
    BY DEF Pending
  <2> HIDE DEF hand
  <2>4. PICK S, a, b, c : S = Commands /\ a = hand /\ b = que[g] /\ c = cmds
    OBVIOUS
  <2>5. a \in Seq(S) /\ b \in Seq(S) /\ c \in Seq(S)
    BY <1>1, <1>3, <2>1, <2>4
  <2>6. (a \o b) \o c = a \o (b \o c)
    BY ONLY <2>5, ConcatThree
  <2> QED BY <2>2, <2>3, <2>4, <2>6
<1> QED BY <1>1, <1>2, <1>3, <1>4, PendingStays

(* The command that is at hand is the first one. *)
LEMMA PendingHead ==
  ASSUME QueuesType, NEW g \in Groups, snd[g].cmd # NoCommand
  PROVE  /\ snd[g].cmd \in Commands /\ Pending(g) # <<>> /\ Pending(g)[1] = snd[g].cmd
         /\ Tail(Pending(g)) = que[g]
<1>1. snd[g].cmd \in Commands /\ que[g] \in Seq(Commands)
  BY DEF QueuesType
<1>2. PICK c : c = snd[g].cmd
  OBVIOUS
<1>3. Pending(g) = <<c>> \o que[g]
  BY <1>2 DEF Pending
<1>4. Len(Pending(g)) = 1 + Len(que[g]) /\ Pending(g)[1] = c /\ Tail(Pending(g)) = que[g]
  BY <1>1, <1>2, <1>3
<1>5. Pending(g) # <<>>
  BY <1>1, <1>4
<1> QED BY <1>1, <1>2, <1>4, <1>5

LEMMA PendingPop ==
  ASSUME ClientInv, NEW g \in Groups, PopCommand(g)
  PROVE  \A h \in Groups : Pending(h)' = Pending(h)
<1>1. que[g] \in Seq(Commands) /\ que[g] # <<>> /\ Head(que[g]) \in Commands
  BY DEF PopCommand, ClientInv, QueuesType
<1>2. /\ que'[g] = Tail(que[g]) /\ snd'[g].cmd = Head(que[g])
      /\ \A h \in Groups : h # g => que'[h] = que[h] /\ snd'[h] = snd[h]
  BY DEF PopCommand, ClientInv, QueuesType
<1>3. Pending(g) = que[g]
  BY <1>1, EmptyConcat DEF Pending, PopCommand
<1>4. Pending(g)' = <<Head(que[g])>> \o Tail(que[g])
  BY <1>1, <1>2, CommandsAreSome DEF Pending
<1>5. <<Head(que[g])>> \o Tail(que[g]) = que[g]
  BY <1>1, HeadTailProperties
<1> QED BY <1>2, <1>3, <1>4, <1>5, PendingStays

(* What every action does to what is pending. *)
LEMMA CommandsTyped ==
  /\ StartCommands \in Seq(Commands) /\ EndCommands \in Seq(Commands)
  /\ \A f \in Files, all \in BOOLEAN, v \in Seq(1 .. scene.lists) : FileCommands(f, v, all) \in Seq(Commands)
<1>0. GroupList \in Lists
  BY ListTransferAssumption
<1>1. StartCommands \in Seq(Commands)
  BY <1>0 DEF StartCommands, Commands
<1>2. EndCommands \in Seq(Commands)
  BY <1>0 DEF EndCommands, Commands
<1>3. ASSUME NEW f \in Files, NEW all \in BOOLEAN, NEW v \in Seq(1 .. scene.lists)
      PROVE  FileCommands(f, v, all) \in Seq(Commands)
  <2>1. /\ [op |-> "OPEN_FILE", l |-> GroupList, f |-> f] \in Commands
        /\ [op |-> "WRITE_FILE", f |-> f, data |-> v] \in Commands
        /\ [op |-> "CLOSE_FILE", f |-> f, all |-> all] \in Commands
    BY <1>0 DEF Commands
  <2> QED BY <2>1 DEF FileCommands
<1> QED BY <1>1, <1>2, <1>3

LEMMA PendsStart ==
  ASSUME ClientInv, Work_StartList
  PROVE  \A g \in Groups : Pending(g)' =
           IF g = lst.g /\ lst.skip = 0 THEN Pending(g) \o StartCommands ELSE Pending(g)
<1>1. CASE lst.skip = 0
  <2>1. PushAll(StartCommands) /\ scene' = scene /\ snd' = snd
    BY <1>1 DEF Work_StartList, StartCommands
  <2> QED BY <1>1, <2>1, CommandsTyped, PendingPush
<1>2. CASE lst.skip # 0
  BY <1>2, PendingStays DEF Work_StartList
<1> QED BY <1>1, <1>2

LEMMA PendsSend ==
  ASSUME ClientInv, SendFile
  PROVE  /\ lst.g \in Groups /\ Lines[lst.i] \in Files /\ Version(list) \in Seq(1 .. scene.lists)
         /\ \A g \in Groups : Pending(g)' =
              IF g = lst.g THEN Pending(g) \o FileCommands(Lines[lst.i], Version(list), Modes[lst.g] = "ALL")
              ELSE Pending(g)
<1>1. Lines[lst.i] \in Files /\ (Modes[lst.g] = "ALL") \in BOOLEAN
  BY SceneFacts DEF ClientInv, SendFile, ListType, ListStates
<1>2. Version(list) \in Seq(1 .. scene.lists)
  BY SceneFacts DEF SendFile, ClientInv, ListType, NamesType, SceneType, Version
<1>3. PICK cmds : cmds = FileCommands(Lines[lst.i], Version(list), Modes[lst.g] = "ALL")
  OBVIOUS
<1>4. cmds \in Seq(Commands)
  BY <1>1, <1>2, <1>3, CommandsTyped
<1>5. PushAll(cmds) /\ scene' = scene /\ snd' = snd
  BY <1>3 DEF SendFile, FileCommands
<1>6. /\ lst.g \in Groups
      /\ \A g \in Groups : Pending(g)' = IF g = lst.g THEN Pending(g) \o cmds ELSE Pending(g)
  BY <1>4, <1>5, PendingPush
<1> QED BY <1>1, <1>2, <1>3, <1>6

LEMMA PendsClose ==
  ASSUME ClientInv, Work_CloseList
  PROVE  \A g \in Groups : Pending(g)' = IF g = lst.g THEN Pending(g) \o EndCommands ELSE Pending(g)
<1>1. PushAll(EndCommands) /\ scene' = scene /\ snd' = snd
  BY DEF Work_CloseList, EndCommands
<1> QED BY <1>1, CommandsTyped, PendingPush

LEMMA PendsCrash == ASSUME ClientCrash PROVE \A g \in Groups : Pending(g)' = <<>>
<1> SUFFICES ASSUME NEW g \in Groups PROVE Pending(g)' = <<>>
  OBVIOUS
<1>1. que'[g] = <<>> /\ snd'[g].cmd = NoCommand
  BY DEF ClientCrash
<1> QED BY <1>1, EmptySeq, ConcatEmptySeq DEF Pending

(* A command that is sent stays, or is released: carried out, or given up with a text message. *)
Answered(g) == \E o \in Work(srv[g], snd[g].cmd) : srv'[g] = o.srv
CarriedOut(g) ==
  \E o \in Work(srv[g], snd[g].cmd) : srv'[g] = o.srv /\ o.ret >= 0 /\ (o.bad = 0 \/ "rename" \in dirty')

Sends(g) ==
  /\ UNCHANGED <<scene, names, missing, md5s, lst, list, crashes, sound>>
  /\ \A h \in Groups \ {g} : Pending(h)' = Pending(h) /\ srv'[h] = srv[h]
  /\ dirty \subseteq dirty' /\ dirty' \subseteq dirty \cup {"late", "rename"} /\ (alarmed => alarmed')
  /\ "late" \notin dirty' => ~Late(g, snd[g].cmd)
  /\ srv'[g] = srv[g] \/ Answered(g)
  /\ \/ Pending(g)' = Pending(g) /\ UNCHANGED <<m_FileNum, done>>
     \/ /\ Pending(g)' = Tail(Pending(g))
        /\ m_FileNum' = Counted(snd[g].cmd, m_FileNum)
        /\ done' = IF snd[g].cmd.op = "CLOSE_FILE" THEN [done EXCEPT ![g] = @ \cup {snd[g].cmd.f}] ELSE done
        /\ CarriedOut(g) \/ alarmed'

LEMMA ReleasePends ==
  ASSUME ClientInv, NEW g \in Groups, snd[g].cmd # NoCommand, que' = que, Released(g, snd[g].cmd)
  PROVE  /\ \A h \in Groups \ {g} : Pending(h)' = Pending(h)
         /\ Pending(g)' = Tail(Pending(g))
         /\ m_FileNum' = Counted(snd[g].cmd, m_FileNum)
         /\ done' = IF snd[g].cmd.op = "CLOSE_FILE" THEN [done EXCEPT ![g] = @ \cup {snd[g].cmd.f}] ELSE done
<1>1. snd'[g].cmd = NoCommand /\ \A h \in Groups \ {g} : snd'[h] = snd[h]
  BY DEF Released, ClientInv, QueuesType
<1>2. \A h \in Groups \ {g} : Pending(h)' = Pending(h)
  BY <1>1, PendingStays
<1>3. Tail(Pending(g)) = que[g] /\ que[g] \in Seq(Commands)
  BY PendingHead DEF ClientInv, QueuesType
<1>4. Pending(g)' = que[g]
  BY <1>1, <1>3, EmptyConcat DEF Pending
<1> QED BY <1>2, <1>3, <1>4 DEF Released

LEMMA Failing ==
  ASSUME ClientInv, NEW g \in Groups, snd[g].cmd # NoCommand, que' = que, SendFailed(g)
  PROVE  /\ alarmed => alarmed'
         /\ \A h \in Groups \ {g} : Pending(h)' = Pending(h)
         /\ \/ Pending(g)' = Pending(g) /\ UNCHANGED <<m_FileNum, done>>
            \/ /\ Pending(g)' = Tail(Pending(g))
               /\ m_FileNum' = Counted(snd[g].cmd, m_FileNum)
               /\ done' = IF snd[g].cmd.op = "CLOSE_FILE" THEN [done EXCEPT ![g] = @ \cup {snd[g].cmd.f}] ELSE done
               /\ alarmed'
<1>1. CASE LastTry(snd[g])
  <2>1. Released(g, snd[g].cmd) /\ alarmed' = TRUE
    BY <1>1 DEF SendFailed
  <2> QED BY <2>1, ReleasePends
<1>2. CASE ~LastTry(snd[g])
  <2>1. /\ m_FileNum' = m_FileNum /\ done' = done /\ alarmed' = alarmed
        /\ \A h \in Groups : snd'[h].cmd = snd[h].cmd
    <3>1. /\ snd \in [Groups -> [cmd : Commands \cup {NoCommand}, try : 0 .. MaxTry - 1]]
          /\ \E n : snd' = [snd EXCEPT ![g].try = n]
          /\ m_FileNum' = m_FileNum /\ done' = done /\ alarmed' = alarmed
      BY <1>2 DEF SendFailed, ClientInv, QueuesType
    <3> HIDE DEF Groups
    <3> QED BY <3>1
  <2> QED BY <2>1, PendingStays
<1> QED BY <1>1, <1>2

LEMMA SendsOn ==
  ASSUME Inv, NEW g \in Groups, Send(g) \/ SendLost(g)
  PROVE  Sends(g) /\ snd[g].cmd # NoCommand
<1>1. /\ ClientInv /\ snd[g].cmd # NoCommand /\ que' = que
      /\ UNCHANGED <<scene, names, missing, md5s, lst, list, crashes, sound>>
      /\ dirty \subseteq dirty' /\ dirty' \subseteq dirty \cup {"late", "rename"}
      /\ "late" \notin dirty' => ~Late(g, snd[g].cmd)
  BY DEF Send, SendLost, Inv, Unrenamed
<1>2. \/ UNCHANGED srv
      \/ \E o \in Work(srv[g], snd[g].cmd) : srv' = [srv EXCEPT ![g] = o.srv]
  BY DEF Send, SendLost
<1>3. /\ \A h \in Groups \ {g} : srv'[h] = srv[h]
      /\ srv'[g] = srv[g] \/ Answered(g)
  BY <1>2 DEF Inv, ServersType, Answered
<1>4. CASE SendFailed(g)
  BY <1>1, <1>3, <1>4, Failing DEF Sends
<1>5. CASE ~SendFailed(g)
  <2>1. \E o \in Work(srv[g], snd[g].cmd) :
          /\ srv' = [srv EXCEPT ![g] = o.srv] /\ ~(o.ret < 0)
          /\ Released(g, snd[g].cmd) /\ UNCHANGED alarmed
          /\ Unrenamed(o) \subseteq dirty'
    BY <1>5 DEF Send, SendLost
  <2>2. PICK o \in Work(srv[g], snd[g].cmd) :
          /\ srv' = [srv EXCEPT ![g] = o.srv] /\ ~(o.ret < 0)
          /\ Released(g, snd[g].cmd) /\ UNCHANGED alarmed
          /\ Unrenamed(o) \subseteq dirty'
    BY <2>1
  <2>3. snd[g].cmd \in Commands /\ MachineType(srv[g], Versions)
    BY <1>1 DEF Inv, ClientInv, QueuesType, ServersType
  <2>4. o.ret \in {0, -1, -2} /\ o.bad \in {0, 1}
    BY <2>3, WorkCarries DEF Carries
  <2>5. srv'[g] = o.srv
    BY <2>2 DEF Inv, ServersType
  <2>6. o.ret = 0
    BY <2>2, <2>4
  <2>8. o.bad = 0 \/ "rename" \in dirty'
    BY <2>2, <2>4, <2>6 DEF Unrenamed
  <2>7. CarriedOut(g)
    BY <2>5, <2>6, <2>8 DEF CarriedOut
  <2> QED BY <1>1, <1>3, <2>2, <2>7, ReleasePends DEF Sends
<1> QED BY <1>1, <1>4, <1>5

(* So a step is one of a few things for a group and its server. *)
Quiet(g) == Pending(g)' = Pending(g) /\ srv'[g] = srv[g]
Pushes(g, cmds) ==
  /\ srv'[g] = srv[g] /\ Pending(g)' = Pending(g) \o cmds
  /\ \/ cmds = StartCommands \/ cmds = EndCommands
     \/ SendFile /\ lst.g = g /\ \E f \in Files : cmds = FileCommands(f, Version(list), Modes[g] = "ALL")
IsChecked(g) ==
  /\ Check /\ lst.g = g /\ Pending(g)' = Pending(g)
  /\ \E o \in CheckMD5(srv[g], lst.f, Version(lst.hash)) : srv'[g] = o.srv
WorksAlone(g) ==
  /\ Pending(g)' = Pending(g) /\ Alone(srv[g], srv'[g])
  /\ crashes' = crashes => Hashes(srv[g], srv'[g])
Forgets(g) == ClientCrash /\ Pending(g)' = <<>> /\ srv'[g] = srv[g]

Moves(g) ==
  \/ Quiet(g)
  \/ \E cmds \in Seq(Commands) : Pushes(g, cmds)
  \/ snd[g].cmd # NoCommand /\ Sends(g)
  \/ IsChecked(g) \/ WorksAlone(g) \/ Forgets(g)

LEMMA AnyMoves == ASSUME Inv, [Next]_vars PROVE scene' = scene /\ \A g \in Groups : Moves(g)
<1>0. ClientInv /\ scene' = scene
  BY DEF Inv, Next, vars, ListArrives, ListThread, MonitorList, Work_StartList, SkipFile, SendFile, BuildLocalMd5,
         FilesEnd, Drain, TakeMd5, Check, Work_CloseList, Finish, ServerThread, PopCommand, Send, SendLost,
         Md5Thread, ServerCrash, ClientCrash
<1> SUFFICES ASSUME NEW g \in Groups PROVE Moves(g)
  BY <1>0
<1>1. CASE UNCHANGED <<que, snd, srv>>
  BY <1>1, PendingStays DEF Moves, Quiet
<1>2. CASE Work_StartList
  <2>1. srv'[g] = srv[g]
    BY <1>2 DEF Work_StartList
  <2>2. \/ Pending(g)' = Pending(g)
        \/ Pending(g)' = Pending(g) \o StartCommands
    BY <1>0, <1>2, PendsStart
  <2> QED BY <2>1, <2>2, CommandsTyped DEF Moves, Quiet, Pushes
<1>3. CASE SendFile
  <2> DEFINE cmds == FileCommands(Lines[lst.i], Version(list), Modes[g] = "ALL")
  <2>1. srv'[g] = srv[g]
    BY <1>3 DEF SendFile
  <2>2. Lines[lst.i] \in Files /\ cmds \in Seq(Commands)
    <3>1. (Modes[g] = "ALL") \in BOOLEAN
      OBVIOUS
    <3> QED BY <1>0, <1>3, <3>1, PendsSend, CommandsTyped
  <2>3. Pending(g)' = Pending(g) \/ (lst.g = g /\ Pending(g)' = Pending(g) \o cmds)
    BY <1>0, <1>3, PendsSend
  <2>4. \E f \in Files : cmds = FileCommands(f, Version(list), Modes[g] = "ALL")
    BY <2>2
  <2> HIDE DEF cmds
  <2> QED BY <1>3, <2>1, <2>2, <2>3, <2>4 DEF Moves, Quiet, Pushes
<1>4. CASE Work_CloseList
  <2>1. srv'[g] = srv[g]
    BY <1>4 DEF Work_CloseList
  <2>2. Pending(g)' = Pending(g) \/ Pending(g)' = Pending(g) \o EndCommands
    BY <1>0, <1>4, PendsClose
  <2> QED BY <2>1, <2>2, CommandsTyped DEF Moves, Quiet, Pushes
<1>5. CASE Check
  <2>1. Pending(g)' = Pending(g)
    BY <1>5, PendingStays DEF Check
  <2>2. PICK o \in CheckMD5(srv[lst.g], lst.f, Version(lst.hash)) : srv' = [srv EXCEPT ![lst.g] = o.srv]
    BY <1>5 DEF Check
  <2>3. srv'[g] = IF g = lst.g THEN o.srv ELSE srv[g]
    BY <2>2 DEF Inv, ServersType
  <2> QED BY <1>5, <2>1, <2>2, <2>3 DEF Moves, Quiet, IsChecked
<1>6. ASSUME NEW h \in Groups, ServerThread(h) \/ SendLost(h)
      PROVE  Moves(g)
  <2>1. CASE PopCommand(h)
    BY <1>0, <2>1, PendingPop DEF PopCommand, Moves, Quiet
  <2>2. CASE Send(h) \/ SendLost(h)
    <3>1. Sends(h) /\ snd[h].cmd # NoCommand
      BY <2>2, SendsOn
    <3>2. g # h => Quiet(g)
      BY <3>1 DEF Sends, Quiet
    <3> QED BY <3>1, <3>2 DEF Moves
  <2> QED BY <1>6, <2>1, <2>2 DEF ServerThread
<1>7. ASSUME NEW h \in Groups, Md5Thread(h) \/ ServerCrash(h)
      PROVE  Moves(g)
  <2>1. Pending(g)' = Pending(g)
    BY <1>7, PendingStays DEF Md5Thread, ServerCrash, client
  <2>0. crashes \in Nat /\ \A n \in Nat : n + 1 # n
    <3>1. \A n \in 0 .. scene.crashes : n \in Nat
      OBVIOUS
    <3> QED BY <3>1 DEF Inv, RestType
  <2>2. PICK t : srv' = [srv EXCEPT ![h] = t] /\ Alone(srv[h], t) /\ (crashes' = crashes => Hashes(srv[h], t))
    <3>1. CASE Md5Thread(h)
      BY <3>1 DEF Md5Thread, Alone, Hashes
    <3>2. CASE ServerCrash(h)
      BY <2>0, <3>2 DEF ServerCrash, Alone
    <3> QED BY <1>7, <3>1, <3>2
  <2>3. srv'[g] = IF g = h THEN t ELSE srv[g]
    BY <2>2 DEF Inv, ServersType
  <2> QED BY <2>1, <2>2, <2>3 DEF Moves, Quiet, WorksAlone
<1>8. CASE ClientCrash
  BY <1>8, PendsCrash DEF ClientCrash, Moves, Forgets
<1>9. CASE ListThread \/ ListArrives \/ UNCHANGED vars
  BY <1>1, <1>2, <1>3, <1>4, <1>5, <1>9
     DEF ListThread, ListArrives, vars, client, MonitorList, SkipFile, BuildLocalMd5, FilesEnd, Drain, TakeMd5, Finish
<1> QED BY <1>6, <1>7, <1>8, <1>9 DEF Next

-----------------------------------------------------------------------------
(* The shape of what is pending: OPEN, WRITE and CLOSE of a file follow each other, and nothing is left out
   at the end. *)
Follows(c, d) ==
  /\ d.op = "WRITE_FILE" <=> c.op = "OPEN_FILE"
  /\ d.op = "CLOSE_FILE" <=> c.op = "WRITE_FILE"
  /\ c.op \in {"OPEN_FILE", "WRITE_FILE"} => d.f = c.f

Shaped(q, all) ==
  /\ \A p \in 1 .. Len(q) - 1 : Follows(q[p], q[p + 1])
  /\ q # <<>> => q[Len(q)].op \notin {"OPEN_FILE", "WRITE_FILE"}
  /\ \A p \in 1 .. Len(q) : q[p].op = "CLOSE_FILE" => q[p].all = all

(* The data is that of the first n lists. *)
Dated(q, n) == \A p \in 1 .. Len(q) : q[p].op = "WRITE_FILE" => \E v \in 1 .. n : q[p].data = Version(v)

LEMMA TailFacts ==
  ASSUME NEW S, NEW q \in Seq(S), q # <<>>
  PROVE  /\ Tail(q) \in Seq(S) /\ Len(q) \in Nat \ {0} /\ Len(Tail(q)) = Len(q) - 1
         /\ \A p \in 1 .. Len(q) - 1 : Tail(q)[p] = q[p + 1]
         /\ Tail(q) # <<>> => Len(q) > 1
BY HeadTailProperties, LenProperties, EmptySeq

LEMMA JoinFacts ==
  ASSUME NEW S, NEW q \in Seq(S), NEW r \in Seq(S)
  PROVE  /\ q \o r \in Seq(S) /\ Len(q) \in Nat /\ Len(r) \in Nat /\ Len(q \o r) = Len(q) + Len(r)
         /\ \A p \in 1 .. Len(q) : (q \o r)[p] = q[p]
         /\ \A p \in 1 .. Len(r) : (q \o r)[Len(q) + p] = r[p]
         /\ \A p \in 1 .. Len(q) + Len(r) : p \in 1 .. Len(q) \/ (p - Len(q) \in 1 .. Len(r) /\ (q \o r)[p] = r[p - Len(q)])
<1>1. /\ q \o r \in Seq(S) /\ Len(q) \in Nat /\ Len(r) \in Nat /\ Len(q \o r) = Len(q) + Len(r)
      /\ \A p \in 1 .. Len(q) + Len(r) : (q \o r)[p] = IF p <= Len(q) THEN q[p] ELSE r[p - Len(q)]
  BY ConcatProperties, LenProperties
<1> QED BY <1>1

LEMMA ShapedTail ==
  ASSUME NEW S, NEW q \in Seq(S), q # <<>>, NEW all, NEW n
  PROVE  /\ Shaped(q, all) => Shaped(Tail(q), all)
         /\ Dated(q, n) => Dated(Tail(q), n)
<1>1. /\ Tail(q) \in Seq(S) /\ Len(q) \in Nat \ {0} /\ Len(Tail(q)) = Len(q) - 1
      /\ \A p \in 1 .. Len(q) - 1 : Tail(q)[p] = q[p + 1]
      /\ Tail(q) # <<>> => Len(q) > 1
  BY TailFacts
<1>2. ASSUME Shaped(q, all) PROVE Shaped(Tail(q), all)
  <2>1. \A p \in 1 .. Len(Tail(q)) - 1 : Follows(Tail(q)[p], Tail(q)[p + 1])
    <3> SUFFICES ASSUME NEW p \in 1 .. Len(Tail(q)) - 1 PROVE Follows(Tail(q)[p], Tail(q)[p + 1])
      OBVIOUS
    <3>1. p + 1 \in 1 .. Len(q) - 1 /\ p \in 1 .. Len(q) - 1
      BY <1>1
    <3>2. Follows(q[p + 1], q[(p + 1) + 1])
      BY <1>2, <3>1 DEF Shaped
    <3> QED BY <1>1, <3>1, <3>2
  <2>2. Tail(q) # <<>> => Tail(q)[Len(Tail(q))].op \notin {"OPEN_FILE", "WRITE_FILE"}
    BY <1>2, TailLast DEF Shaped
  <2>3. \A p \in 1 .. Len(Tail(q)) : Tail(q)[p].op = "CLOSE_FILE" => Tail(q)[p].all = all
    BY <1>1, <1>2 DEF Shaped
  <2> QED BY <2>1, <2>2, <2>3 DEF Shaped
<1>3. ASSUME Dated(q, n) PROVE Dated(Tail(q), n)
  <2>1. \A p \in 1 .. Len(Tail(q)) : p + 1 \in 1 .. Len(q) /\ Tail(q)[p] = q[p + 1]
    BY <1>1
  <2> QED BY <1>3, <2>1 DEF Dated
<1> QED BY <1>2, <1>3

LEMMA ShapedJoin ==
  ASSUME NEW S, NEW q \in Seq(S), NEW r \in Seq(S), r # <<>>, NEW all, Shaped(q, all), Shaped(r, all),
         r[1].op \notin {"WRITE_FILE", "CLOSE_FILE"}
  PROVE  Shaped(q \o r, all)
<1> DEFINE k == Len(q)
           m == Len(r)
<1>1. /\ q \o r \in Seq(S) /\ k \in Nat /\ m \in Nat /\ Len(q \o r) = k + m
      /\ \A p \in 1 .. k : (q \o r)[p] = q[p]
      /\ \A p \in 1 .. m : (q \o r)[k + p] = r[p]
      /\ \A p \in 1 .. k + m : p \in 1 .. k \/ (p - k \in 1 .. m /\ (q \o r)[p] = r[p - k])
  BY JoinFacts
<1>2. m \in Nat \ {0}
  BY EmptySeq
<1>0. q # <<>> <=> k > 0
  BY <1>1, EmptySeq
<1> HIDE DEF k, m
<1>3. \A p \in 1 .. (k + m) - 1 : Follows((q \o r)[p], (q \o r)[p + 1])
  <2> SUFFICES ASSUME NEW p \in 1 .. (k + m) - 1 PROVE Follows((q \o r)[p], (q \o r)[p + 1])
    OBVIOUS
  <2>1. CASE p < k
    <3>1. p \in 1 .. k - 1 /\ p \in 1 .. k /\ p + 1 \in 1 .. k
      BY <1>1, <2>1
    <3>2. Follows(q[p], q[p + 1])
      BY <3>1 DEF Shaped, k
    <3> QED BY <1>1, <3>1, <3>2
  <2>2. CASE p = k
    <3>1. k \in 1 .. k /\ k > 0 /\ 1 \in 1 .. m
      BY <1>1, <1>2, <2>2
    <3>2. (q \o r)[p] = q[k] /\ (q \o r)[p + 1] = r[1]
      BY <1>1, <2>2, <3>1
    <3>3. q[k].op \notin {"OPEN_FILE", "WRITE_FILE"}
      BY <1>0, <3>1 DEF Shaped, k
    <3> QED BY <3>2, <3>3 DEF Follows
  <2>3. CASE p > k
    <3> DEFINE i == p - k
    <3>1. i \in 1 .. m - 1 /\ i \in 1 .. m /\ i + 1 \in 1 .. m /\ p = k + i /\ p + 1 = k + (i + 1)
      BY <1>1, <1>2, <2>3
    <3> HIDE DEF i
    <3>2. Follows(r[i], r[i + 1])
      BY <3>1 DEF Shaped, m
    <3> QED BY <1>1, <3>1, <3>2
  <2>4. p < k \/ p = k \/ p > k
    <3>1. k \in Int /\ p \in Int
      BY <1>1
    <3> QED BY <3>1
  <2> QED BY <2>1, <2>2, <2>3, <2>4
<1>4. (q \o r)[k + m].op \notin {"OPEN_FILE", "WRITE_FILE"}
  <2>1. m \in 1 .. m
    BY <1>2
  <2>2. (q \o r)[k + m] = r[m]
    BY <1>1, <2>1
  <2> QED BY <2>2 DEF Shaped, m
<1>5. \A p \in 1 .. k + m : (q \o r)[p].op = "CLOSE_FILE" => (q \o r)[p].all = all
  <2> SUFFICES ASSUME NEW p \in 1 .. k + m PROVE (q \o r)[p].op = "CLOSE_FILE" => (q \o r)[p].all = all
    OBVIOUS
  <2>1. CASE p \in 1 .. k
    BY <1>1, <2>1 DEF Shaped, k
  <2>2. CASE p - k \in 1 .. m /\ (q \o r)[p] = r[p - k]
    BY <2>2 DEF Shaped, m
  <2> QED BY <1>1, <2>1, <2>2
<1> QED BY <1>1, <1>3, <1>4, <1>5 DEF Shaped

LEMMA DatedJoin ==
  ASSUME NEW S, NEW q \in Seq(S), NEW r \in Seq(S), NEW n, Dated(q, n), Dated(r, n)
  PROVE  Dated(q \o r, n)
<1>1. /\ Len(q \o r) = Len(q) + Len(r)
      /\ \A p \in 1 .. Len(q) : (q \o r)[p] = q[p]
      /\ \A p \in 1 .. Len(q) + Len(r) : p \in 1 .. Len(q) \/ (p - Len(q) \in 1 .. Len(r) /\ (q \o r)[p] = r[p - Len(q)])
  BY JoinFacts
<1> QED BY <1>1 DEF Dated

LEMMA CommandsShaped ==
  ASSUME NEW f, NEW all, NEW n \in Nat, NEW v \in 1 .. n
  PROVE  /\ Shaped(StartCommands, all) /\ Shaped(EndCommands, all) /\ Shaped(FileCommands(f, Version(v), all), all)
         /\ Dated(StartCommands, n) /\ Dated(EndCommands, n) /\ Dated(FileCommands(f, Version(v), all), n)
<1>1. Shaped(StartCommands, all) /\ Dated(StartCommands, n)
  BY DEF Shaped, Dated, StartCommands
<1>2. Shaped(EndCommands, all) /\ Dated(EndCommands, n)
  BY DEF Shaped, Dated, EndCommands
<1>3. PICK r, o, w, c : /\ r = FileCommands(f, Version(v), all) /\ r = <<o, w, c>>
                        /\ o = [op |-> "OPEN_FILE", l |-> GroupList, f |-> f]
                        /\ w = [op |-> "WRITE_FILE", f |-> f, data |-> Version(v)]
                        /\ c = [op |-> "CLOSE_FILE", f |-> f, all |-> all]
  BY DEF FileCommands
<1>4. Follows(o, w) /\ Follows(w, c)
  BY <1>3 DEF Follows
<1>5. Len(r) = 3 /\ r[1] = o /\ r[2] = w /\ r[3] = c /\ 1 .. 3 = {1, 2, 3} /\ 1 .. 3 - 1 = {1, 2}
  BY <1>3
<1>6. Shaped(r, all)
  <2>1. \A p \in {1, 2} : Follows(r[p], r[p + 1])
    BY <1>4, <1>5
  <2>2. r[3].op \notin {"OPEN_FILE", "WRITE_FILE"}
    BY <1>3, <1>5
  <2>3. \A p \in {1, 2, 3} : r[p].op = "CLOSE_FILE" => r[p].all = all
    BY <1>3, <1>5
  <2> QED BY <1>5, <2>1, <2>2, <2>3 DEF Shaped
<1>7. Dated(r, n)
  <2>1. \A p \in {1, 2, 3} : r[p].op = "WRITE_FILE" => r[p].data = Version(v)
    BY <1>3, <1>5
  <2> QED BY <1>5, <2>1 DEF Dated
<1> QED BY <1>1, <1>2, <1>3, <1>6, <1>7

Begun == IF "list" \in names THEN list - 1 ELSE list
ShapeInv ==
  \A g \in Groups : Shaped(Pending(g), Modes[g] = "ALL") /\ Dated(Pending(g), Begun)
HandlesInv == \A g \in Groups : OwnHandles(srv[g])
OnlyOne == "list" \in names => "Ready" \notin names

LEMMA ServerTyped ==
  ASSUME Inv, NEW g \in Groups
  PROVE  /\ MachineType(srv[g], Versions) /\ Pending(g) \in Seq(Commands)
         /\ snd[g].cmd # NoCommand => /\ snd[g].cmd \in Commands /\ Pending(g) # <<>> /\ Pending(g)[1] = snd[g].cmd
BY PendingTyped, PendingHead DEF Inv, ClientInv, ServersType

LEMMA AloneSpares ==
  ASSUME NEW s, MachineType(s, Versions), OwnHandles(s), NEW t, Alone(s, t)
  PROVE  OwnHandles(t)
<1> SUFFICES ASSUME NEW f \in Files PROVE OwnHandles(t)
  BY DEF OwnHandles
<1> QED BY AloneStages

LEMMA HandlesNext == ASSUME Inv, HandlesInv, [Next]_vars PROVE HandlesInv'
<1> SUFFICES ASSUME NEW g \in Groups PROVE OwnHandles(srv'[g])
  BY AnyMoves, SceneStays DEF HandlesInv
<1>1. MachineType(srv[g], Versions) /\ OwnHandles(srv[g])
  BY ServerTyped DEF HandlesInv
<1>2. CASE srv'[g] = srv[g]
  BY <1>1, <1>2
<1>3. CASE snd[g].cmd # NoCommand /\ Answered(g)
  <2>1. PICK o \in Work(srv[g], snd[g].cmd) : srv'[g] = o.srv
    BY <1>3 DEF Answered
  <2>2. OwnHandles(o.srv)
    BY <1>1, <1>3, ServerTyped, WorkSpares
  <2> QED BY <2>1, <2>2
<1>4. CASE IsChecked(g)
  <2>1. PICK o \in CheckMD5(srv[g], lst.f, Version(lst.hash)) : srv'[g] = o.srv
    BY <1>4 DEF IsChecked
  <2>2. lst.f \in Files
    BY <1>4 DEF IsChecked, Check, Inv, ClientInv, ListType
  <2>3. OwnHandles(o.srv)
    BY <1>1, <2>2, CheckStages
  <2> QED BY <2>1, <2>3
<1>5. CASE WorksAlone(g)
  <2>1. Alone(srv[g], srv'[g])
    BY <1>5 DEF WorksAlone
  <2>2. OwnHandles(srv'[g])
    BY <1>1, <2>1, AloneSpares
  <2> QED BY <2>2
<1>6. CASE snd[g].cmd # NoCommand /\ Sends(g)
  <2>1. srv'[g] = srv[g] \/ Answered(g)
    BY <1>6 DEF Sends
  <2> QED BY <1>2, <1>3, <1>6, <2>1
<1>7. Moves(g)
  BY AnyMoves
<1> QED BY <1>2, <1>3, <1>4, <1>5, <1>6, <1>7 DEF Moves, Quiet, Pushes, Forgets

LEMMA DatedMore == ASSUME NEW q, NEW n \in Int, NEW m \in Int, n <= m, Dated(q, n) PROVE Dated(q, m)
BY DEF Dated

LEMMA SceneFactsNext == ASSUME SceneType' PROVE list' \in Nat
<1>1. \A sc \in Scenes : sc.lists \in Nat
  BY ListTransferAssumption
<1> QED BY <1>1 DEF SceneType

LEMMA BegunGrows ==
  ASSUME Inv, OnlyOne, [Next]_vars
  PROVE  /\ Begun \in Nat /\ Begun' \in Nat /\ Begun <= Begun'
         /\ lst.at # "wait" => Begun = list /\ list > 0
<1>1. ClientInv /\ ClientInv'
  BY InvNext DEF Inv
<1>2. list \in Nat /\ list' \in Nat
  BY <1>1, SceneFacts, SceneFactsNext DEF ClientInv
<1>3. Begun \in Nat /\ Begun' \in Nat
  <2>1. names \cap {"list", "Ready"} # {} => list > 0
    BY <1>1 DEF ClientInv, NamesType
  <2>2. (names \cap {"list", "Ready"} # {} => list > 0)'
    BY <1>1 DEF ClientInv, NamesType
  <2>3. ("list" \in names => list > 0) /\ ("list" \in names' => list' > 0)
    BY <2>1, <2>2
  <2>4. \A n \in Nat : n > 0 => n - 1 \in Nat
    OBVIOUS
  <2>5. Begun \in Nat
    BY <1>2, <2>3, <2>4 DEF Begun
  <2>6. Begun' \in Nat
    BY <1>2, <2>3, <2>4 DEF Begun
  <2> QED BY <2>5, <2>6
<1>4. \/ list' = list /\ ("list" \in names' => "list" \in names)
      \/ list' = list + 1 /\ "list" \notin names
  <2>1. CASE UNCHANGED <<list, names>>
    BY <2>1
  <2>2. CASE ListArrives
    BY <2>2 DEF ListArrives
  <2>3. CASE MonitorList
    <3>1. names' = names \/ names' = (names \ {"list"}) \cup {"Ready"}
      BY <2>3 DEF MonitorList
    <3>2. "list" \in names' => "list" \in names
      BY <3>1
    <3> QED BY <2>3, <3>2 DEF MonitorList, bounds
  <2>4. CASE Finish
    BY <2>4 DEF Finish, bounds
  <2>5. CASE ListThread /\ ~MonitorList /\ ~Finish
    BY <2>1, <2>5 DEF ListThread, Work_StartList, SkipFile, SendFile, BuildLocalMd5, FilesEnd, Drain, TakeMd5,
                      Check, Work_CloseList, disk, bounds
  <2>6. CASE \E g \in Groups : ServerThread(g) \/ SendLost(g) \/ Md5Thread(g) \/ ServerCrash(g)
    BY <2>1, <2>6 DEF ServerThread, PopCommand, Send, SendLost, Md5Thread, ServerCrash, disk, bounds
  <2>7. CASE ClientCrash \/ UNCHANGED vars
    BY <2>1, <2>7 DEF ClientCrash, vars, disk, bounds
  <2> QED BY <2>2, <2>3, <2>4, <2>5, <2>6, <2>7 DEF Next
<1>5. Begun <= Begun'
  <2>0. \A n \in Nat : n - 1 <= n /\ n <= n + 1 /\ n <= n /\ n <= (n + 1) - 1
    OBVIOUS
  <2>1. Begun <= list /\ list <= list'
    BY <1>2, <1>4, <2>0 DEF Begun
  <2>2. "list" \notin names' => Begun' = list'
    BY DEF Begun
  <2>3. "list" \in names' /\ list' = list => Begun' = Begun
    BY <1>2, <1>4 DEF Begun
  <2>4. "list" \in names' /\ list' # list => Begun = list /\ Begun' = (list + 1) - 1
    BY <1>4 DEF Begun
  <2>5. CASE "list" \notin names'
    BY <1>2, <1>3, <2>1, <2>2, <2>5
  <2>6. CASE "list" \in names'
    BY <1>2, <1>3, <2>0, <2>3, <2>4, <2>6
  <2> QED BY <2>5, <2>6
<1>6. lst.at # "wait" => Begun = list /\ list > 0
  BY <1>1 DEF Begun, OnlyOne, ClientInv, ListType, NamesType
<1> QED BY <1>3, <1>5, <1>6

LEMMA ShapeNext == ASSUME Inv, OnlyOne, ShapeInv, [Next]_vars PROVE ShapeInv'
<1>0. scene' = scene /\ Modes' = Modes /\ Groups' = Groups
  BY AnyMoves, SceneStays
<1> SUFFICES ASSUME NEW g \in Groups
             PROVE  (Shaped(Pending(g), Modes[g] = "ALL") /\ Dated(Pending(g), Begun))'
  BY <1>0 DEF ShapeInv
<1>1. PICK q, r, all, n, m :
        /\ q = Pending(g) /\ r = Pending(g)' /\ all = (Modes[g] = "ALL") /\ n = Begun /\ m = Begun'
        /\ all \in BOOLEAN
  OBVIOUS
<1>2. Shaped(q, all) /\ Dated(q, n) /\ q \in Seq(Commands)
  BY <1>1, ServerTyped DEF ShapeInv
<1>3. n \in Nat /\ m \in Nat /\ n <= m /\ (lst.at # "wait" => n = list /\ list > 0)
  BY <1>1, BegunGrows
<1> SUFFICES Shaped(r, all) /\ Dated(r, n)
  <2>1. Shaped(r, all) /\ Dated(r, m)
    BY <1>3, DatedMore
  <2> QED BY <1>0, <1>1, <2>1
<1>4. CASE r = q
  BY <1>2, <1>4
<1>5. CASE r = <<>>
  BY <1>5 DEF Shaped, Dated
<1>6. CASE r = Tail(q) /\ q # <<>>
  BY <1>2, <1>6, ShapedTail
<1>7. ASSUME NEW cmds \in Seq(Commands), Pushes(g, cmds)
      PROVE  Shaped(r, all) /\ Dated(r, n)
  <2>1. r = q \o cmds
    BY <1>1, <1>7 DEF Pushes
  <2>2. Shaped(cmds, all) /\ Dated(cmds, n) /\ cmds # <<>> /\ cmds[1].op \notin {"WRITE_FILE", "CLOSE_FILE"}
    <3>1. CASE cmds \in {StartCommands, EndCommands}
      <4>1. cmds # <<>> /\ cmds[1].op \notin {"WRITE_FILE", "CLOSE_FILE"}
        BY <3>1 DEF StartCommands, EndCommands
      <4>2. Shaped(cmds, all)
        BY <3>1 DEF StartCommands, EndCommands, Shaped
      <4>3. Dated(cmds, n)
        BY <3>1 DEF StartCommands, EndCommands, Dated
      <4> QED BY <4>1, <4>2, <4>3
    <3>2. ASSUME NEW f \in Files, SendFile, cmds = FileCommands(f, Version(list), Modes[g] = "ALL")
          PROVE  Shaped(cmds, all) /\ Dated(cmds, n) /\ cmds # <<>> /\ cmds[1].op \notin {"WRITE_FILE", "CLOSE_FILE"}
      <4>1. list \in 1 .. n
        BY <1>3, <3>2 DEF SendFile
      <4>2. Shaped(cmds, all) /\ Dated(cmds, n)
        BY <1>1, <1>3, <3>2, <4>1, CommandsShaped
      <4>3. cmds # <<>> /\ cmds[1].op = "OPEN_FILE"
        BY <3>2 DEF FileCommands
      <4> QED BY <4>2, <4>3
    <3> QED BY <1>7, <3>1, <3>2 DEF Pushes
  <2> QED BY <1>2, <2>1, <2>2, ShapedJoin, DatedJoin
<1>8. Moves(g)
  BY AnyMoves
<1>9. Sends(g) => r = q \/ r = Tail(q)
  BY <1>1 DEF Sends
<1>10. snd[g].cmd # NoCommand => q # <<>>
  BY <1>1, ServerTyped
<1> QED BY <1>1, <1>4, <1>5, <1>6, <1>7, <1>8, <1>9, <1>10 DEF Moves, Quiet, IsChecked, WorksAlone, Forgets

-----------------------------------------------------------------------------
(* What the thread of the list knows at its stages. *)
StageInv ==
  /\ lst.verify => Modes[lst.g] = "ALL"
  /\ lst.at \in {"md5", "drain", "verify", "check"} => lst.verify
  /\ lst.at \in {"drain", "verify", "check", "end"} => lst.i = Len(Lines) + 1
  /\ lst.at \in {"wait", "start", "finish"} => lst.i = 1
  /\ lst.at \in {"verify", "check"} => que[lst.g] = <<>>
  /\ lst.at = "end" /\ lst.verify => que[lst.g] = <<>>

(* Without a crash nothing is skipped and nothing is resumed; a list that waits to be resumed has nothing
   pending. *)
RestartInv ==
  /\ "crash" \notin dirty => lst.skip = 0 /\ (lst.at = "wait" => "Ready" \notin names)
  /\ crashes = 0 => "crash" \notin dirty
  /\ lst.at = "wait" /\ "Ready" \in names => \A g \in Groups : Idle(g)

ThreadInv == OnlyOne /\ StageInv /\ RestartInv

LEMMA NextGroupIs ==
  ASSUME ClientInv
  PROVE  /\ NextGroup(lst).at \in {"start", "finish"} /\ NextGroup(lst).i = 1
         /\ NextGroup(lst).at = "start" => NextGroup(lst).skip = lst.skip
         /\ NextGroup(lst).at = "finish" => NextGroup(lst).skip = 0
         /\ NextGroup(lst).verify = FALSE
BY DEF NextGroup, ThreadAt

LEMMA StageNext == ASSUME Inv, StageInv, [Next]_vars PROVE StageInv'
<1>0. ClientInv /\ lst \in ListStates /\ scene' = scene /\ Modes' = Modes /\ Groups' = Groups
  BY AnyMoves, SceneStays DEF Inv, ClientInv, ListType
<1>1. CASE lst'.at \in {"wait", "start", "finish"} /\ lst'.i = 1 /\ ~lst'.verify
  BY <1>1 DEF StageInv
<1>2. CASE UNCHANGED lst /\ \A g \in Groups : que[g] = <<>> => que'[g] = <<>>
  BY <1>0, <1>2 DEF StageInv, ListStates
<1>3. CASE MonitorList \/ Finish \/ ClientCrash
  BY <1>1, <1>3 DEF MonitorList, Finish, ClientCrash, Waiting, ThreadAt
<1>4. CASE Work_StartList \/ SkipFile
  <2>1. lst'.at = "file" /\ (~lst'.verify \/ (lst'.verify = lst.verify /\ lst'.g = lst.g))
    BY <1>0, <1>4 DEF Work_StartList, SkipFile, ListStates
  <2> QED BY <1>0, <2>1 DEF StageInv
<1>5. CASE SendFile
  <2>1. /\ lst'.g = lst.g
        /\ \/ lst'.at = "file" /\ lst'.verify = lst.verify
           \/ lst'.at = "md5" /\ Modes[lst.g] = "ALL" /\ lst'.verify
    BY <1>0, <1>5 DEF SendFile, ListStates
  <2> QED BY <1>0, <2>1 DEF StageInv
<1>6. CASE BuildLocalMd5
  <2>1. lst'.at = "file" /\ lst'.verify = lst.verify /\ lst'.g = lst.g
    BY <1>0, <1>6 DEF BuildLocalMd5, ListStates
  <2> QED BY <1>0, <2>1 DEF StageInv
<1>7. CASE FilesEnd
  <2>1. /\ lst' = [lst EXCEPT !.at = IF lst.verify THEN "drain" ELSE "end"]
        /\ lst.at = "file" /\ lst.i > Len(Lines) /\ lst.i \in 1 .. Len(Lines) + 1 /\ Len(Lines) \in Nat
    BY <1>0, <1>7, SceneFacts DEF FilesEnd, ListStates, ClientInv
  <2>2. lst'.i = Len(Lines) + 1 /\ lst'.g = lst.g /\ lst'.verify = lst.verify
    BY <1>0, <2>1 DEF ListStates
  <2>3. (lst.verify => lst'.at = "drain") /\ (~lst.verify => lst'.at = "end")
    BY <1>0, <2>1 DEF ListStates
  <2>4. lst.verify => Modes[lst.g] = "ALL"
    BY <2>1 DEF StageInv
  <2> QED BY <1>0, <2>1, <2>2, <2>3, <2>4 DEF StageInv
<1>8. CASE Drain
  <2>1. /\ lst'.at = "verify" /\ lst'.i = lst.i /\ lst'.g = lst.g /\ lst'.verify = lst.verify /\ lst.at = "drain"
        /\ que'[lst.g] = <<>>
    BY <1>0, <1>8 DEF Drain, Drained, ListStates, client
  <2> QED BY <1>0, <2>1 DEF StageInv
<1>9. CASE TakeMd5
  <2>1. /\ lst'.at \in {"check", "end"} /\ lst'.i = lst.i /\ lst'.g = lst.g /\ lst'.verify = lst.verify
        /\ lst.at = "verify" /\ que' = que
    <3>1. \/ lst' = [lst EXCEPT !.at = "end"]
          \/ \E f \in lst.todo :
               lst' = [lst EXCEPT !.at = "check", !.todo = @ \ {f}, !.f = f, !.hash = md5s[f]]
      BY <1>9 DEF TakeMd5
    <3>2. lst'.at \in {"check", "end"} /\ lst'.i = lst.i /\ lst'.g = lst.g /\ lst'.verify = lst.verify
      BY <1>0, <3>1 DEF ListStates
    <3> QED BY <1>9, <3>2 DEF TakeMd5
  <2> QED BY <1>0, <2>1 DEF StageInv
<1>10. CASE Check
  <2>1. \/ UNCHANGED lst
        \/ lst' = [lst EXCEPT !.at = "verify", !.f = NoFile, !.hash = 0]
        \/ lst' = NextGroup(lst)
    BY <1>10 DEF Check, CheckAnswered, CheckFailed
  <2>2. CASE lst' = [lst EXCEPT !.at = "verify", !.f = NoFile, !.hash = 0]
    <3>1. /\ lst'.at = "verify" /\ lst'.i = lst.i /\ lst'.g = lst.g /\ lst'.verify = lst.verify
          /\ lst.at = "check" /\ que' = que
      BY <1>0, <1>10, <2>2 DEF Check, ListStates
    <3> QED BY <1>0, <3>1 DEF StageInv
  <2>3. CASE UNCHANGED lst
    BY <1>2, <1>10, <2>3 DEF Check
  <2> QED BY <1>0, <1>1, <2>1, <2>2, <2>3, NextGroupIs
<1>11. CASE Work_CloseList
  BY <1>0, <1>1, <1>11, NextGroupIs DEF Work_CloseList
<1>12. ASSUME NEW g \in Groups, PopCommand(g)
       PROVE  StageInv'
  <2>1. \A h \in Groups : que[h] = <<>> => que'[h] = <<>>
    BY <1>0, <1>12 DEF PopCommand, ClientInv, QueuesType
  <2> QED BY <1>2, <1>12, <2>1 DEF PopCommand
<1>13. CASE \E g \in Groups : Send(g) \/ SendLost(g) \/ Md5Thread(g) \/ ServerCrash(g)
  BY <1>2, <1>13 DEF Send, SendLost, Md5Thread, ServerCrash, client
<1>14. CASE ListArrives \/ UNCHANGED vars
  BY <1>2, <1>14 DEF ListArrives, vars, client
<1> QED BY <1>3, <1>4, <1>5, <1>6, <1>7, <1>8, <1>9, <1>10, <1>11, <1>12, <1>13, <1>14
        DEF Next, ListThread, ServerThread

LEMMA RestartNext == ASSUME Inv, OnlyOne, RestartInv, [Next]_vars PROVE OnlyOne' /\ RestartInv'
<1>0. /\ ClientInv /\ lst \in ListStates /\ scene' = scene /\ Modes' = Modes /\ Groups' = Groups
      /\ crashes \in Nat
  <2>1. \A n \in 0 .. scene.crashes : n \in Nat
    OBVIOUS
  <2> QED BY <2>1, AnyMoves, SceneStays DEF Inv, ClientInv, ListType, RestType
<1>1. CASE /\ UNCHANGED <<names, crashes>> /\ lst'.at # "wait" /\ dirty \subseteq dirty'
           /\ ("crash" \in dirty' => "crash" \in dirty) /\ ("crash" \notin dirty => lst'.skip = 0)
  BY <1>1 DEF OnlyOne, RestartInv
<1>2. CASE MonitorList
  <2>1. CASE Resumes /\ lst' = ThreadAt("start", 1, m_FileNum) /\ UNCHANGED <<names, history>>
    BY <1>2, <2>1 DEF MonitorList, Resumes, ThreadAt, OnlyOne, RestartInv, history, bounds
  <2>2. CASE /\ names' = (names \ {"list"}) \cup {"Ready"} /\ lst' = ThreadAt("start", 1, 0)
             /\ dirty' = IF \A g \in Groups : Idle(g) THEN {} ELSE {"early"}
    <3>1. "crash" \notin dirty' /\ lst'.skip = 0 /\ lst'.at = "start" /\ "list" \notin names'
      BY <2>2 DEF ThreadAt
    <3> QED BY <3>1 DEF OnlyOne, RestartInv
  <2> QED BY <1>2, <2>1, <2>2 DEF MonitorList
<1>3. CASE Work_StartList \/ SkipFile \/ SendFile \/ BuildLocalMd5 \/ FilesEnd \/ Drain \/ TakeMd5
  <2>1. lst'.at # "wait" /\ lst'.skip = lst.skip
    <3>1. CASE Work_StartList \/ SkipFile \/ BuildLocalMd5
      BY <1>0, <3>1 DEF Work_StartList, SkipFile, BuildLocalMd5, ListStates
    <3>2. CASE SendFile
      BY <1>0, <3>2 DEF SendFile, ListStates
    <3>3. CASE FilesEnd \/ Drain
      BY <1>0, <3>3 DEF FilesEnd, Drain, ListStates
    <3>4. CASE TakeMd5
      <4>1. \/ lst' = [lst EXCEPT !.at = "end"]
            \/ \E f \in lst.todo :
                 lst' = [lst EXCEPT !.at = "check", !.todo = @ \ {f}, !.f = f, !.hash = md5s[f]]
        BY <3>4 DEF TakeMd5
      <4> QED BY <1>0, <4>1 DEF ListStates
    <3> QED BY <1>3, <3>1, <3>2, <3>3, <3>4
  <2>2. UNCHANGED <<names, crashes, dirty>>
    BY <1>3 DEF Work_StartList, SkipFile, SendFile, BuildLocalMd5, FilesEnd, Drain, TakeMd5, disk, bounds, history
  <2> QED BY <1>1, <2>1, <2>2 DEF RestartInv
<1>4. CASE Check
  <2>1. lst'.at # "wait" /\ (lst'.skip = lst.skip \/ lst'.skip = 0)
    <3>1. \/ UNCHANGED lst
          \/ lst' = [lst EXCEPT !.at = "verify", !.f = NoFile, !.hash = 0]
          \/ lst' = NextGroup(lst)
      BY <1>4 DEF Check, CheckAnswered, CheckFailed
    <3>2. CASE lst' = NextGroup(lst)
      BY <1>0, <3>2, NextGroupIs
    <3> QED BY <1>0, <1>4, <3>1, <3>2 DEF Check, ListStates
  <2>2. UNCHANGED <<names, crashes>> /\ dirty \subseteq dirty' /\ ("crash" \in dirty' => "crash" \in dirty)
    BY <1>4 DEF Check, Unrenamed
  <2> QED BY <1>1, <2>1, <2>2 DEF RestartInv
<1>5. CASE Work_CloseList
  <2>1. lst'.at # "wait" /\ (lst'.skip = lst.skip \/ lst'.skip = 0) /\ UNCHANGED <<names, crashes, dirty>>
    BY <1>0, <1>5, NextGroupIs DEF Work_CloseList, bounds, history
  <2> QED BY <1>1, <2>1 DEF RestartInv
<1>6. CASE Finish
  <2>1. lst'.at = "wait" /\ lst'.skip = 0 /\ UNCHANGED <<crashes, dirty>>
    BY <1>6 DEF Finish, Waiting, ThreadAt, bounds, history
  <2>2. "Ready" \notin names'
    BY <1>6 DEF Finish
  <2> QED BY <2>1, <2>2 DEF OnlyOne, RestartInv
<1>7. CASE ClientCrash
  <2>1. /\ lst'.at = "wait" /\ "crash" \in dirty' /\ names' = names /\ crashes' = crashes + 1
        /\ \A g \in Groups : Idle(g)'
    BY <1>0, <1>7 DEF ClientCrash, Waiting, ThreadAt, disk, Idle
  <2> QED BY <1>0, <2>1 DEF OnlyOne, RestartInv
<1>8. CASE ListArrives
  <2>1. lst' = lst /\ UNCHANGED <<crashes, dirty>> /\ "Ready" \notin names'
    BY <1>8 DEF ListArrives, client, history
  <2> QED BY <2>1 DEF OnlyOne, RestartInv
<1>9. CASE /\ UNCHANGED <<names, lst>> /\ dirty \subseteq dirty' /\ ("crash" \in dirty' => "crash" \in dirty)
           /\ crashes' \in {crashes, crashes + 1}
           /\ \A g \in Groups : Idle(g) => Idle(g)'
  BY <1>0, <1>9 DEF OnlyOne, RestartInv
<1>10. ASSUME NEW g \in Groups, ServerThread(g) \/ SendLost(g)
       PROVE  OnlyOne' /\ RestartInv'
  <2>1. /\ UNCHANGED <<names, lst, crashes>> /\ dirty \subseteq dirty' /\ ("crash" \in dirty' => "crash" \in dirty)
        /\ \A h \in Groups \ {g} : que'[h] = que[h] /\ snd'[h] = snd[h]
        /\ ~Idle(g)
    <3>1. CASE PopCommand(g)
      BY <1>0, <3>1 DEF PopCommand, Idle, disk, bounds, history, ClientInv, QueuesType
    <3>2. CASE Send(g) \/ SendLost(g)
      <4>1. Sends(g) /\ snd[g].cmd # NoCommand /\ que' = que
        BY <3>2, SendsOn DEF Send, SendLost
      <4>2. \A h \in Groups \ {g} : snd'[h] = snd[h]
        <5>1. SendFailed(g) \/ Released(g, snd[g].cmd)
          BY <3>2 DEF Send, SendLost
        <5>2. \E x : snd' = [snd EXCEPT ![g] = x]
          BY <5>1 DEF SendFailed, Released
        <5> QED BY <1>0, <5>2 DEF ClientInv, QueuesType
      <4>3. "crash" \in dirty' => "crash" \in dirty
        BY <4>1 DEF Sends
      <4>4. UNCHANGED <<names, lst, crashes>> /\ dirty \subseteq dirty'
        BY <4>1 DEF Sends
      <4>5. ~Idle(g)
        BY <4>1 DEF Idle
      <4> QED BY <4>1, <4>2, <4>3, <4>4, <4>5
    <3> QED BY <1>10, <3>1, <3>2 DEF ServerThread
  <2>2. \A h \in Groups : Idle(h) => Idle(h)'
    BY <2>1 DEF Idle
  <2> QED BY <1>9, <2>1, <2>2
<1>11. CASE UNCHANGED vars \/ \E g \in Groups : Md5Thread(g) \/ ServerCrash(g)
  <2>1. UNCHANGED <<names, lst, dirty, que, snd>> /\ crashes' \in {crashes, crashes + 1}
    BY <1>11 DEF Md5Thread, ServerCrash, vars, disk, client, bounds, history
  <2> QED BY <1>9, <2>1 DEF Idle
<1> QED BY <1>2, <1>3, <1>4, <1>5, <1>6, <1>7, <1>8, <1>10, <1>11 DEF Next, ListThread

KnownInv == Inv /\ ThreadInv /\ ShapeInv /\ HandlesInv

LEMMA KnownNext == KnownInv /\ [Next]_vars => KnownInv'
BY InvNext, StageNext, RestartNext, ShapeNext, HandlesNext DEF KnownInv, ThreadInv

LEMMA KnownInit == Init => KnownInv
<1> SUFFICES ASSUME Init PROVE KnownInv
  OBVIOUS
<1>1. Inv
  BY InvInit
<1>2. \A g \in Groups : Idle(g) /\ Pending(g) = <<>>
  BY <1>1, PendingNone DEF Init, Idle, Inv, ClientInv
<1>3. ThreadInv
  BY <1>2 DEF Init, ThreadInv, OnlyOne, StageInv, RestartInv, Waiting, ThreadAt
<1>4. ShapeInv
  BY <1>2 DEF ShapeInv, Shaped, Dated
<1>5. HandlesInv
  BY DEF Init, HandlesInv, OwnHandles, NewMachine
<1> QED BY <1>1, <1>3, <1>4, <1>5 DEF KnownInv

-----------------------------------------------------------------------------
(* The files of a group whose server verifies them. *)
Fills(c, f) == c.op \in {"OPEN_FILE", "WRITE_FILE"} /\ c.f = f

(* Nothing of f is to be opened or written any more, or last of all content v is written. *)
Unfilled(q, f) == \A p \in 1 .. Len(q) : ~Fills(q[p], f)
FilledAt(q, f, v, p) ==
  /\ q[p].op = "WRITE_FILE" /\ q[p].f = f /\ q[p].data = v
  /\ \A k \in 1 .. Len(q) : k > p => ~Fills(q[k], f)
ToFill(q, f, v) == \E p \in 1 .. Len(q) : FilledAt(q, f, v, p)

(* The file is in its place, or will be if a check succeeds. *)
Settled(q, s, f, v) == Unfilled(q, f) /\ Held(s, f, v)
Sure(q, s, f, v) == ToFill(q, f, v) \/ (Unfilled(q, f) /\ Staged(s, f, v))

(* What is written next was opened for it: with old, only if it is v. *)
FirstFresh(q, s, old, v) ==
  q # <<>> /\ q[1].op = "WRITE_FILE" /\ (old => q[1].data = v) => Fresh(s, q[1].f)

LEMMA FillsTail ==
  ASSUME NEW S, NEW q \in Seq(S), q # <<>>, NEW f, NEW v
  PROVE  /\ Unfilled(q, f) => Unfilled(Tail(q), f)
         /\ ToFill(q, f, v) => \/ ToFill(Tail(q), f, v)
                               \/ q[1].op = "WRITE_FILE" /\ q[1].f = f /\ q[1].data = v /\ Unfilled(Tail(q), f)
<1>1. /\ Tail(q) \in Seq(S) /\ Len(q) \in Nat \ {0} /\ Len(Tail(q)) = Len(q) - 1
      /\ \A p \in 1 .. Len(q) - 1 : Tail(q)[p] = q[p + 1]
  BY TailFacts
<1>2. \A p \in 1 .. Len(Tail(q)) : p + 1 \in 1 .. Len(q) /\ Tail(q)[p] = q[p + 1]
  BY <1>1
<1>3. Unfilled(q, f) => Unfilled(Tail(q), f)
  BY <1>2 DEF Unfilled
<1>4. ASSUME NEW p \in 1 .. Len(q), FilledAt(q, f, v, p), p # 1
      PROVE  ToFill(Tail(q), f, v)
  <2>1. p - 1 \in 1 .. Len(Tail(q)) /\ Tail(q)[p - 1] = q[p]
    <3>1. p - 1 \in 1 .. Len(q) - 1 /\ (p - 1) + 1 = p
      BY <1>1, <1>4
    <3> QED BY <1>1, <3>1
  <2>2. \A k \in 1 .. Len(Tail(q)) : k > p - 1 => k + 1 > p /\ k + 1 \in 1 .. Len(q) /\ Tail(q)[k] = q[k + 1]
    BY <1>1, <1>2
  <2>3. FilledAt(Tail(q), f, v, p - 1)
    BY <1>4, <2>1, <2>2 DEF FilledAt
  <2> QED BY <2>1, <2>3 DEF ToFill
<1>5. ASSUME FilledAt(q, f, v, 1)
      PROVE  q[1].op = "WRITE_FILE" /\ q[1].f = f /\ q[1].data = v /\ Unfilled(Tail(q), f)
  <2>1. \A p \in 1 .. Len(Tail(q)) : p + 1 > 1
    BY <1>1
  <2> QED BY <1>2, <1>5, <2>1 DEF FilledAt, Unfilled
<1> QED BY <1>3, <1>4, <1>5 DEF ToFill

LEMMA FillsJoin ==
  ASSUME NEW S, NEW q \in Seq(S), NEW r \in Seq(S), NEW f, NEW v
  PROVE  /\ Unfilled(q, f) /\ Unfilled(r, f) => Unfilled(q \o r, f)
         /\ ToFill(q, f, v) /\ Unfilled(r, f) => ToFill(q \o r, f, v)
         /\ ToFill(r, f, v) => ToFill(q \o r, f, v)
<1>1. /\ q \o r \in Seq(S) /\ Len(q) \in Nat /\ Len(r) \in Nat /\ Len(q \o r) = Len(q) + Len(r)
      /\ \A p \in 1 .. Len(q) : (q \o r)[p] = q[p]
      /\ \A p \in 1 .. Len(r) : (q \o r)[Len(q) + p] = r[p]
      /\ \A p \in 1 .. Len(q) + Len(r) : p \in 1 .. Len(q) \/ (p - Len(q) \in 1 .. Len(r) /\ (q \o r)[p] = r[p - Len(q)])
  BY JoinFacts
<1>2. Unfilled(q, f) /\ Unfilled(r, f) => Unfilled(q \o r, f)
  BY <1>1 DEF Unfilled
<1>3. ASSUME NEW p \in 1 .. Len(q), FilledAt(q, f, v, p), Unfilled(r, f)
      PROVE  ToFill(q \o r, f, v)
  <2>1. p \in 1 .. Len(q \o r) /\ (q \o r)[p] = q[p]
    BY <1>1
  <2>2. \A k \in 1 .. Len(q \o r) : k > p => ~Fills((q \o r)[k], f)
    BY <1>1, <1>3 DEF FilledAt, Unfilled
  <2>3. FilledAt(q \o r, f, v, p)
    BY <1>3, <2>1, <2>2 DEF FilledAt
  <2> QED BY <2>1, <2>3 DEF ToFill
<1>4. ASSUME NEW p \in 1 .. Len(r), FilledAt(r, f, v, p)
      PROVE  ToFill(q \o r, f, v)
  <2>1. Len(q) + p \in 1 .. Len(q \o r) /\ (q \o r)[Len(q) + p] = r[p]
    BY <1>1
  <2>2. ASSUME NEW k \in 1 .. Len(q \o r), k > Len(q) + p PROVE ~Fills((q \o r)[k], f)
    <3>1. k - Len(q) \in 1 .. Len(r) /\ (q \o r)[k] = r[k - Len(q)] /\ k - Len(q) > p
      BY <1>1, <2>2
    <3> QED BY <1>4, <3>1 DEF FilledAt
  <2>3. FilledAt(q \o r, f, v, Len(q) + p)
    BY <1>4, <2>1, <2>2 DEF FilledAt
  <2> QED BY <2>1, <2>3 DEF ToFill
<1> QED BY <1>2, <1>3, <1>4 DEF ToFill

(* One step, for one file of a group: nothing is forgotten, given up, or checked against another content. *)
Tidy(g, f, v) ==
  /\ ~alarmed' /\ ~ClientCrash /\ ~(SendFile /\ lst.g = g) /\ Modes[g] = "ALL"
  /\ lst.at = "check" /\ lst.g = g /\ lst.f = f => Version(lst.hash) = v

LEMMA HeadIs ==
  ASSUME KnownInv, NEW g \in Groups, snd[g].cmd # NoCommand
  PROVE  /\ snd[g].cmd \in Commands /\ Pending(g) \in Seq(Commands) /\ Pending(g) # <<>> /\ Pending(g)[1] = snd[g].cmd
         /\ 1 \in 1 .. Len(Pending(g)) /\ MachineType(srv[g], Versions) /\ OwnHandles(srv[g])
         /\ Shaped(Pending(g), Modes[g] = "ALL")
<1>1. /\ snd[g].cmd \in Commands /\ Pending(g) \in Seq(Commands) /\ Pending(g) # <<>> /\ Pending(g)[1] = snd[g].cmd
      /\ MachineType(srv[g], Versions) /\ OwnHandles(srv[g]) /\ Shaped(Pending(g), Modes[g] = "ALL")
  BY ServerTyped DEF KnownInv, HandlesInv, ShapeInv
<1>2. Len(Pending(g)) \in Nat \ {0}
  BY <1>1, EmptySeq
<1> QED BY <1>1, <1>2

(* A command that does not fill the file keeps what there is of it. *)
LEMMA CommandKeeps ==
  ASSUME KnownInv, NEW g \in Groups, Modes[g] = "ALL", snd[g].cmd # NoCommand, NEW f \in Files,
         Unfilled(Pending(g), f), srv'[g] = srv[g] \/ Answered(g)
  PROVE  \A v : /\ Held(srv[g], f, v) => Held(srv'[g], f, v)
                /\ Staged(srv[g], f, v) => Staged(srv'[g], f, v)
<1>1. CASE srv'[g] = srv[g]
  BY <1>1
<1>2. CASE Answered(g)
  <2>1. PICK o \in Work(srv[g], snd[g].cmd) : srv'[g] = o.srv
    BY <1>2 DEF Answered
  <2>2. PICK c : c = snd[g].cmd
    OBVIOUS
  <2>3. /\ c \in Commands /\ MachineType(srv[g], Versions) /\ OwnHandles(srv[g])
        /\ ~Fills(c, f) /\ (c.op = "CLOSE_FILE" => c.all = TRUE)
    BY <2>2, HeadIs DEF Unfilled, Shaped
  <2>4. CASE About(c, f)
    <3>1. c.op = "CLOSE_FILE" /\ c.f = f
      BY <2>3, <2>4 DEF About, Fills
    <3> QED BY <2>1, <2>2, <2>3, <3>1, CloseStages
  <2>5. CASE ~About(c, f)
    <3>1. FileKept(srv[g], o.srv, f)
      BY <2>1, <2>2, <2>3, <2>5, WorkSpares
    <3>2. \A v : Held(srv[g], f, v) => Held(o.srv, f, v)
      BY <3>1, KeptStages
    <3>3. \A v : Staged(srv[g], f, v) => Staged(o.srv, f, v)
      BY <3>1, KeptStages
    <3> QED BY <2>1, <3>2, <3>3
  <2> QED BY <2>4, <2>5
<1> QED BY <1>1, <1>2

LEMMA CheckKeeps ==
  ASSUME KnownInv, NEW g \in Groups, IsChecked(g), NEW f \in Files, NEW v, lst.f = f => Version(lst.hash) = v
  PROVE  /\ Held(srv[g], f, v) => Held(srv'[g], f, v)
         /\ Staged(srv[g], f, v) => Staged(srv'[g], f, v)
<1>1. PICK o \in CheckMD5(srv[g], lst.f, Version(lst.hash)) : srv'[g] = o.srv
  BY DEF IsChecked
<1>2. lst.f \in Files /\ MachineType(srv[g], Versions) /\ OwnHandles(srv[g])
  BY ServerTyped DEF IsChecked, Check, KnownInv, HandlesInv, Inv, ClientInv, ListType
<1>3. CASE f = lst.f
  BY <1>1, <1>2, <1>3, CheckStages
<1>4. CASE f # lst.f
  <2>1. FileKept(srv[g], o.srv, f)
    BY <1>1, <1>2, <1>4, CheckStages
  <2> QED BY <1>1, <2>1, KeptStages
<1> QED BY <1>3, <1>4

LEMMA PushesNone ==
  ASSUME NEW g, NEW cmds, Pushes(g, cmds), ~(SendFile /\ lst.g = g), NEW f
  PROVE  Unfilled(cmds, f)
<1>1. cmds = StartCommands \/ cmds = EndCommands
  BY DEF Pushes
<1> QED BY <1>1 DEF Unfilled, Fills, StartCommands, EndCommands

LEMMA SettledMoves ==
  ASSUME KnownInv, NEW g \in Groups, Moves(g), NEW f \in Files, NEW v, Tidy(g, f, v),
         Settled(Pending(g), srv[g], f, v)
  PROVE  Settled(Pending(g)', srv'[g], f, v)
<1>1. Pending(g) \in Seq(Commands) /\ MachineType(srv[g], Versions) /\ OwnHandles(srv[g])
  BY ServerTyped DEF KnownInv, HandlesInv
<1>2. Unfilled(Pending(g), f) /\ Held(srv[g], f, v)
  BY DEF Settled
<1>3. CASE Quiet(g)
  BY <1>2, <1>3 DEF Quiet, Settled
<1>4. ASSUME NEW cmds \in Seq(Commands), Pushes(g, cmds)
      PROVE  Settled(Pending(g)', srv'[g], f, v)
  <2>1. Unfilled(cmds, f)
    BY <1>4, PushesNone DEF Tidy
  <2>2. Unfilled(Pending(g) \o cmds, f)
    BY <1>1, <1>2, <2>1, FillsJoin
  <2> QED BY <1>2, <1>4, <2>2 DEF Pushes, Settled
<1>5. CASE snd[g].cmd # NoCommand /\ Sends(g)
  <2>1. Held(srv'[g], f, v)
    BY <1>2, <1>5, CommandKeeps DEF Sends, Tidy
  <2>2. Pending(g) # <<>>
    BY <1>5, HeadIs
  <2>3. Unfilled(Tail(Pending(g)), f)
    BY <1>1, <1>2, <2>2, FillsTail
  <2> QED BY <1>2, <1>5, <2>1, <2>3 DEF Sends, Settled
<1>6. CASE IsChecked(g)
  <2>1. lst.f = f => Version(lst.hash) = v
    BY <1>6 DEF IsChecked, Check, Tidy
  <2> QED BY <1>2, <1>6, <2>1, CheckKeeps DEF IsChecked, Settled
<1>7. CASE WorksAlone(g)
  <2>1. Held(srv'[g], f, v)
    BY <1>1, <1>2, <1>7, AloneStages DEF WorksAlone
  <2> QED BY <1>2, <1>7, <2>1 DEF WorksAlone, Settled
<1> QED BY <1>3, <1>4, <1>5, <1>6, <1>7 DEF Moves, Forgets, Tidy

LEMMA TailDiffers == ASSUME NEW S, NEW q \in Seq(S), q # <<>> PROVE Tail(q) # q
<1>1. PICK t : t = Tail(q)
  OBVIOUS
<1>2. Len(t) = Len(q) - 1 /\ Len(q) \in Nat
  BY <1>1, TailFacts
<1>3. t # q
  BY <1>2
<1> QED BY <1>1, <1>3

LEMMA SureMoves ==
  ASSUME KnownInv, NEW g \in Groups, Moves(g), NEW f \in Files, NEW v, Tidy(g, f, v), NEW old,
         FirstFresh(Pending(g), srv[g], old, v), Sure(Pending(g), srv[g], f, v)
  PROVE  Sure(Pending(g)', srv'[g], f, v)
<1>1. Pending(g) \in Seq(Commands) /\ MachineType(srv[g], Versions) /\ OwnHandles(srv[g])
  BY ServerTyped DEF KnownInv, HandlesInv
<1>2. ToFill(Pending(g), f, v) \/ (Unfilled(Pending(g), f) /\ Staged(srv[g], f, v))
  BY DEF Sure
<1>3. CASE Quiet(g)
  BY <1>2, <1>3 DEF Quiet, Sure
<1>4. ASSUME NEW cmds \in Seq(Commands), Pushes(g, cmds)
      PROVE  Sure(Pending(g)', srv'[g], f, v)
  <2>1. Unfilled(cmds, f)
    BY <1>4, PushesNone DEF Tidy
  <2>2. Unfilled(Pending(g), f) => Unfilled(Pending(g) \o cmds, f)
    BY <1>1, <2>1, FillsJoin
  <2>3. ToFill(Pending(g), f, v) => ToFill(Pending(g) \o cmds, f, v)
    BY <1>1, <2>1, FillsJoin
  <2> QED BY <1>2, <1>4, <2>2, <2>3 DEF Pushes, Sure
<1>5. CASE snd[g].cmd # NoCommand /\ Sends(g)
  <2>0. srv'[g] = srv[g] \/ Answered(g)
    BY <1>5 DEF Sends
  <2>1. Pending(g) # <<>>
    BY <1>5, HeadIs
  <2>2. CASE Unfilled(Pending(g), f) /\ Staged(srv[g], f, v)
    <3>1. Staged(srv'[g], f, v)
      BY <1>5, <2>0, <2>2, CommandKeeps DEF Tidy
    <3>2. Unfilled(Tail(Pending(g)), f)
      BY <1>1, <2>1, <2>2, FillsTail
    <3> QED BY <1>5, <2>2, <3>1, <3>2 DEF Sends, Sure
  <2>3. CASE ToFill(Pending(g), f, v) /\ Pending(g)' = Pending(g)
    BY <2>3 DEF Sure
  <2>4. CASE ToFill(Tail(Pending(g)), f, v) /\ Pending(g)' = Tail(Pending(g))
    BY <2>4 DEF Sure
  <2>5. CASE /\ Pending(g)[1].op = "WRITE_FILE" /\ Pending(g)[1].f = f /\ Pending(g)[1].data = v
             /\ Unfilled(Tail(Pending(g)), f) /\ Pending(g)' = Tail(Pending(g))
    <3>1. CarriedOut(g)
      BY <1>1, <1>5, <2>1, <2>5, TailDiffers DEF Sends, Tidy
    <3>2. PICK o \in Work(srv[g], snd[g].cmd) : srv'[g] = o.srv
      BY <3>1 DEF CarriedOut
    <3>3. Fresh(srv[g], f) /\ snd[g].cmd \in Commands /\ snd[g].cmd.op = "WRITE_FILE" /\ snd[g].cmd.f = f
      BY <1>5, <2>1, <2>5, HeadIs DEF FirstFresh
    <3>4. Fresh(o.srv, f)
      BY <1>1, <3>3, WriteStages
    <3> QED BY <2>5, <3>2, <3>4, FreshIsStaged DEF Sure
  <2>6. Pending(g)' = Pending(g) \/ Pending(g)' = Tail(Pending(g))
    BY <1>5 DEF Sends
  <2>7. ToFill(Pending(g), f, v) =>
          \/ ToFill(Tail(Pending(g)), f, v)
          \/ Pending(g)[1].op = "WRITE_FILE" /\ Pending(g)[1].f = f /\ Pending(g)[1].data = v /\ Unfilled(Tail(Pending(g)), f)
    BY <1>1, <2>1, FillsTail
  <2> QED BY <1>2, <2>2, <2>3, <2>4, <2>5, <2>6, <2>7
<1>6. CASE IsChecked(g)
  <2>1. lst.f = f => Version(lst.hash) = v
    BY <1>6 DEF IsChecked, Check, Tidy
  <2> QED BY <1>2, <1>6, <2>1, CheckKeeps DEF IsChecked, Sure
<1>7. CASE WorksAlone(g)
  <2>1. Staged(srv[g], f, v) => Staged(srv'[g], f, v)
    BY <1>1, <1>7, AloneStages DEF WorksAlone
  <2> QED BY <1>2, <1>7, <2>1 DEF WorksAlone, Sure
<1> QED BY <1>3, <1>4, <1>5, <1>6, <1>7 DEF Moves, Forgets, Tidy

(* What comes to be the first to be written was just opened. *)
LEMMA FreshMoves ==
  ASSUME KnownInv, NEW g \in Groups, Moves(g), ~alarmed', "late" \notin dirty', NEW old, NEW v,
         FirstFresh(Pending(g), srv[g], old, v)
  PROVE  FirstFresh(Pending(g)', srv'[g], old, v)
<1>1. /\ Pending(g) \in Seq(Commands) /\ MachineType(srv[g], Versions) /\ OwnHandles(srv[g])
      /\ Shaped(Pending(g), Modes[g] = "ALL")
  BY ServerTyped DEF KnownInv, HandlesInv, ShapeInv
<1>2. PICK q, s, r, t : q = Pending(g) /\ s = srv[g] /\ r = Pending(g)' /\ t = srv'[g]
  OBVIOUS
<1>3. FirstFresh(q, s, old, v) /\ q \in Seq(Commands)
  BY <1>1, <1>2
<1> SUFFICES FirstFresh(r, t, old, v)
  BY <1>2
<1>4. ASSUME q # <<>>
      PROVE  /\ Len(q) \in Nat \ {0} /\ q[1] \in Commands
             /\ q[1].op = "WRITE_FILE" => q[1].f \in Files
             /\ Tail(q) # <<>> => Len(q) > 1 /\ Tail(q)[1] = q[2]
  <2>1. Len(q) \in Nat \ {0} /\ q[1] \in Commands
    BY <1>3, <1>4, EmptySeq
  <2>2. q[1].op = "WRITE_FILE" => q[1].f \in Files
    BY <2>1 DEF Commands
  <2>3. Tail(q) # <<>> => Len(q) > 1 /\ Tail(q)[1] = q[1 + 1]
    BY <1>3, <1>4, TailFacts
  <2> QED BY <2>1, <2>2, <2>3
<1>5. CASE Quiet(g)
  BY <1>2, <1>3, <1>5 DEF Quiet
<1>6. ASSUME NEW cmds \in Seq(Commands), Pushes(g, cmds)
      PROVE  FirstFresh(r, t, old, v)
  <2>1. r = q \o cmds /\ t = s
    BY <1>2, <1>6 DEF Pushes
  <2>2. CASE q = <<>>
    <3>1. r = cmds
      BY <1>6, <2>1, <2>2, EmptyConcat
    <3>2. cmds[1].op # "WRITE_FILE"
      BY <1>6 DEF Pushes, StartCommands, EndCommands, FileCommands
    <3> QED BY <3>1, <3>2 DEF FirstFresh
  <2>3. CASE q # <<>>
    <3>1. r[1] = q[1]
      BY <1>3, <1>4, <2>1, <2>3, JoinFacts
    <3> QED BY <1>3, <2>1, <2>3, <3>1 DEF FirstFresh
  <2> QED BY <2>2, <2>3
<1>7. CASE snd[g].cmd # NoCommand /\ Sends(g)
  <2>0. PICK c : c = snd[g].cmd
    OBVIOUS
  <2>1. c \in Commands /\ q # <<>> /\ q[1] = c /\ MachineType(s, Versions)
    BY <1>2, <1>7, <2>0, HeadIs
  <2>2. CASE r = q
    <3>1. t = s \/ \E o \in Work(s, c) : t = o.srv
      BY <1>2, <1>7, <2>0 DEF Sends, Answered
    <3>2. c.op = "WRITE_FILE" /\ Fresh(s, c.f) => Fresh(t, c.f)
      BY <2>1, <3>1, WriteStages
    <3> QED BY <1>3, <2>1, <2>2, <3>2 DEF FirstFresh
  <2>3. CASE r = Tail(q)
    <3>1. CarriedOut(g)
      BY <1>1, <1>2, <1>7, <2>1, <2>3, TailDiffers DEF Sends
    <3>2. PICK o \in Work(s, c) : t = o.srv /\ o.ret >= 0
      BY <1>2, <2>0, <3>1 DEF CarriedOut
    <3>3. ~Late(g, c)
      BY <1>7, <2>0 DEF Sends
    <3> SUFFICES ASSUME Tail(q) # <<>>, Tail(q)[1].op = "WRITE_FILE" PROVE Fresh(t, Tail(q)[1].f)
      BY <2>3 DEF FirstFresh
    <3>4. Len(q) > 1 /\ Tail(q)[1] = q[2] /\ Len(q) \in Nat
      BY <1>4, <2>1
    <3>5. Follows(q[1], q[1 + 1])
      <4>1. 1 \in 1 .. Len(q) - 1
        BY <3>4
      <4> QED BY <1>1, <1>2, <4>1 DEF Shaped
    <3>6. c.op = "OPEN_FILE" /\ Tail(q)[1].f = c.f
      BY <2>1, <3>4, <3>5 DEF Follows
    <3>7. ~HasWork(s, c.f)
      BY <1>2, <3>3, <3>6 DEF Late, HasWork
    <3> QED BY <2>1, <3>2, <3>6, <3>7, OpenStages
  <2> QED BY <1>2, <1>7, <2>2, <2>3 DEF Sends
<1>8. CASE IsChecked(g)
  <2>1. r = q /\ que[g] = <<>>
    BY <1>2, <1>8 DEF IsChecked, Check, KnownInv, ThreadInv, StageInv
  <2>2. Len(q) <= 1
    BY <1>2, <2>1, PendingNone DEF KnownInv, Inv, ClientInv
  <2>3. q # <<>> => q[1].op # "WRITE_FILE"
    <3>0. q # <<>> => Len(q) \in Nat \ {0}
      BY <1>4
    <3>1. \A n \in Nat \ {0} : n <= 1 => n = 1
      OBVIOUS
    <3>2. CASE q # <<>>
      <4>1. Len(q) = 1
        BY <2>2, <3>0, <3>1, <3>2
      <4> QED BY <1>1, <1>2, <4>1 DEF Shaped
    <3> QED BY <3>2
  <2> QED BY <2>1, <2>3 DEF FirstFresh
<1>9. CASE WorksAlone(g)
  <2>1. r = q /\ Alone(s, t)
    BY <1>2, <1>9 DEF WorksAlone
  <2>2. \A f \in Files : Fresh(s, f) => Fresh(t, f)
    BY <1>1, <1>2, <2>1, AloneStages
  <2> QED BY <1>3, <1>4, <2>1, <2>2 DEF FirstFresh
<1>10. CASE Forgets(g)
  BY <1>2, <1>10 DEF Forgets, FirstFresh
<1> QED BY <1>5, <1>6, <1>7, <1>8, <1>9, <1>10 DEF Moves

(* A list of which nothing was given up, and whose .md5 files can be trusted. *)
Clean == "Ready" \in names /\ ~alarmed /\ dirty \subseteq {"early", "crash"}
Now == Version(list)

ListBegins ==
  /\ MonitorList /\ Begins /\ lst' = ThreadAt("start", 1, 0)
  /\ dirty' = IF \A g \in Groups : Idle(g) THEN {} ELSE {"early"}
  /\ done' = [g \in Groups |-> {}]

Grows == dirty \subseteq dirty' /\ dirty' \subseteq dirty \cup {"late", "empty", "crash", "rename"}

LEMMA CleanNext ==
  ASSUME KnownInv, [Next]_vars, Clean'
  PROVE  /\ list' = list /\ missing' = missing /\ ~alarmed'
         /\ "late" \notin dirty' /\ "empty" \notin dirty' /\ "rename" \notin dirty'
         /\ \/ ListBegins
            \/ Clean /\ ~(MonitorList /\ Begins) /\ dirty \subseteq dirty' /\ ("early" \in dirty <=> "early" \in dirty')
<1>1. ~alarmed' /\ "late" \notin dirty' /\ "empty" \notin dirty' /\ "rename" \notin dirty' /\ "Ready" \in names'
  BY DEF Clean
<1>2. CASE ListArrives
  BY <1>1, <1>2 DEF ListArrives
<1>3. CASE Finish
  BY <1>1, <1>3 DEF Finish
<1>4. CASE MonitorList
  <2>1. list' = list /\ missing' = missing
    BY <1>4 DEF MonitorList, bounds
  <2>2. CASE Resumes /\ UNCHANGED <<names, history>>
    <3>1. ~Begins
      BY <2>2 DEF Resumes, Begins
    <3> QED BY <1>1, <2>1, <2>2, <3>1 DEF Clean, history
  <2>3. CASE /\ Begins /\ lst' = ThreadAt("start", 1, 0)
             /\ dirty' = IF \A g \in Groups : Idle(g) THEN {} ELSE {"early"}
             /\ done' = [g \in Groups |-> {}]
    BY <1>1, <1>4, <2>1, <2>3 DEF ListBegins
  <2> QED BY <1>4, <2>2, <2>3 DEF MonitorList
<1>5. CASE /\ UNCHANGED <<list, missing, names>> /\ Grows
           /\ (alarmed => alarmed') /\ ~MonitorList
  BY <1>1, <1>5 DEF Clean, Grows
<1>6. CASE Check
  <2>1. alarmed => alarmed'
    BY <1>6 DEF Check, CheckAnswered, CheckFailed
  <2>2. /\ UNCHANGED <<list, missing, names>> /\ Grows
        /\ ~MonitorList
    BY <1>6 DEF Check, MonitorList, Unrenamed, Grows
  <2> QED BY <1>5, <2>1, <2>2
<1>7. CASE UNCHANGED <<list, missing, names, dirty, alarmed>> /\ ~MonitorList
  BY <1>5, <1>7 DEF Grows
<1>8. CASE ListThread /\ ~MonitorList /\ ~Finish /\ ~Check
  BY <1>7, <1>8 DEF ListThread, Work_StartList, SkipFile, SendFile, BuildLocalMd5, FilesEnd, Drain, TakeMd5,
                    Work_CloseList, disk, bounds, history
<1>9. CASE /\ \/ ClientCrash \/ UNCHANGED vars
              \/ \E g \in Groups : ServerThread(g) \/ SendLost(g) \/ Md5Thread(g) \/ ServerCrash(g)
           /\ ~MonitorList
  <2>1. CASE ClientCrash
    BY <1>5, <1>9, <2>1 DEF ClientCrash, disk, Grows
  <2>2. CASE UNCHANGED vars \/ \E g \in Groups : PopCommand(g) \/ Md5Thread(g) \/ ServerCrash(g)
    BY <1>7, <1>9, <2>2 DEF vars, PopCommand, Md5Thread, ServerCrash, disk, bounds, history
  <2>3. ASSUME NEW g \in Groups, Send(g) \/ SendLost(g)
        PROVE  /\ UNCHANGED <<list, missing, names>> /\ Grows
               /\ (alarmed => alarmed')
    <3>1. Sends(g)
      BY <2>3, SendsOn DEF KnownInv
    <3> QED BY <3>1 DEF Sends, Grows
  <2> QED BY <1>5, <1>9, <2>1, <2>2, <2>3 DEF ServerThread
<1> QED BY <1>2, <1>3, <1>4, <1>6, <1>8, <1>9 DEF Next, ListThread

FreshInv == Clean => \A g \in Groups : FirstFresh(Pending(g), srv[g], "early" \in dirty, Now)

LEMMA FreshNext == ASSUME KnownInv, FreshInv, [Next]_vars PROVE FreshInv'
<1> SUFFICES ASSUME Clean', NEW g \in Groups
             PROVE  FirstFresh(Pending(g)', srv'[g], "early" \in dirty', Now')
  BY AnyMoves, SceneStays DEF FreshInv, KnownInv
<1>0. list' = list /\ Now' = Now /\ ~alarmed' /\ "late" \notin dirty'
  BY CleanNext DEF Now
<1>1. CASE ListBegins
  <2>1. Pending(g)' = Pending(g) /\ srv'[g] = srv[g]
    BY <1>1, PendingStays DEF ListBegins, MonitorList
  <2>2. CASE Pending(g) = <<>>
    BY <2>1, <2>2 DEF FirstFresh
  <2>3. CASE Pending(g) # <<>>
    <3>0. PICK q : q = Pending(g)
      OBVIOUS
    <3>1. "early" \in dirty'
      BY <1>1, <2>3, PendingNone DEF ListBegins, KnownInv, Inv, ClientInv
    <3>2. Dated(q, list - 1) /\ q \in Seq(Commands) /\ list \in Nat
      BY <1>1, <3>0, ServerTyped, SceneFacts DEF ListBegins, Begins, KnownInv, ShapeInv, Begun, Inv, ClientInv
    <3>3. 1 \in 1 .. Len(q)
      <4>1. Len(q) \in Nat \ {0}
        BY <2>3, <3>0, <3>2, EmptySeq
      <4> QED BY <4>1
    <3>4. q[1].op = "WRITE_FILE" => q[1].data # Now
      <4> SUFFICES ASSUME q[1].op = "WRITE_FILE" PROVE q[1].data # Now
        OBVIOUS
      <4>1. PICK v \in 1 .. list - 1 : q[1].data = Version(v)
        BY <3>2, <3>3 DEF Dated
      <4>2. v # list
        BY <3>2
      <4> QED BY <4>1, <4>2 DEF Now, Version
    <3> QED BY <1>0, <2>1, <3>0, <3>1, <3>4 DEF FirstFresh
  <2> QED BY <2>2, <2>3
<1>2. CASE Clean /\ ("early" \in dirty <=> "early" \in dirty')
  <2>1. FirstFresh(Pending(g), srv[g], "early" \in dirty, Now)
    BY <1>2 DEF FreshInv
  <2>2. PICK old, v : old = ("early" \in dirty) /\ v = Now
    OBVIOUS
  <2>3. FirstFresh(Pending(g), srv[g], old, v)
    BY <2>1, <2>2
  <2>4. FirstFresh(Pending(g)', srv'[g], old, v)
    BY <1>0, <2>3, AnyMoves, FreshMoves DEF KnownInv
  <2>5. ("early" \in dirty') = old
    BY <1>2, <2>2
  <2> QED BY <1>0, <2>2, <2>4, <2>5
<1> QED BY <1>1, <1>2, CleanNext

(* The lines of the list the thread is done with for its group, if it did not skip them. *)
Handled == IF lst.at = "md5" THEN lst.i ELSE lst.i - 1
Sent(i) == lst.skip < i /\ i <= Handled /\ Lines[i] \notin missing

(* The file of a line: its local .md5 is made, is at hand for the check, or the check succeeded. *)
AtHand(i) == lst.at = "check" /\ lst.f = Lines[i]
Built(i) ==
  \/ lst.at \in {"file", "md5", "drain"} /\ i < lst.i
  \/ lst.at \in {"verify", "check"} /\ Lines[i] \in lst.todo
Checked(i) ==
  \/ lst.at = "end"
  \/ lst.at \in {"verify", "check"} /\ Lines[i] \notin lst.todo /\ ~AtHand(i)

WillBe(i) == Sure(Pending(lst.g), srv[lst.g], Lines[i], Now)
InPlace(i) == Settled(Pending(lst.g), srv[lst.g], Lines[i], Now)
SentSure(i) == lst.verify /\ WillBe(i)
Verifies(i) ==
  /\ Built(i) => md5s[Lines[i]] = list
  /\ AtHand(i) => lst.hash = list
  /\ Checked(i) => InPlace(i)
SentInv ==
  Clean /\ Modes[lst.g] = "ALL" => \A i \in 1 .. Len(Lines) : Sent(i) => SentSure(i) /\ Verifies(i)

LEMMA LineStays ==
  ASSUME KnownInv, FreshInv, Clean, ~alarmed', Modes[lst.g] = "ALL", [Next]_vars, ~ClientCrash, ~SendFile,
         UNCHANGED <<lst, md5s, list>>, NEW i \in 1 .. Len(Lines), SentSure(i), Verifies(i)
  PROVE  SentSure(i)' /\ Verifies(i)'
<1> DEFINE f == Lines[i]
<1>1. f \in Files /\ lst.g \in Groups
  BY SceneFacts DEF KnownInv, Inv, ClientInv, ListType, ListStates
<1>2. PICK g, v, old : g = lst.g /\ v = Now /\ old = ("early" \in dirty)
  OBVIOUS
<1>3. Moves(g) /\ g \in Groups
  BY <1>1, <1>2, AnyMoves DEF KnownInv
<1>4. FirstFresh(Pending(g), srv[g], old, v) /\ Sure(Pending(g), srv[g], f, v)
  BY <1>1, <1>2 DEF FreshInv, SentSure, WillBe
<1>5. Tidy(g, f, v)
  BY <1>2 DEF Tidy, Verifies, AtHand, Now
<1> HIDE DEF f
<1>6. Sure(Pending(g)', srv'[g], f, v)
  BY <1>1, <1>3, <1>4, <1>5, SureMoves
<1>7. Settled(Pending(g), srv[g], f, v) => Settled(Pending(g)', srv'[g], f, v)
  BY <1>1, <1>3, <1>5, SettledMoves
<1>8. Now' = v /\ lst'.g = g /\ v = Now /\ g = lst.g
  BY <1>2 DEF Now
<1>9. SentSure(i)'
  <2>1. Pending(lst.g)' = Pending(g)'
    BY <1>8 DEF Pending
  <2> QED BY <1>6, <1>8, <2>1 DEF SentSure, WillBe, f
<1>10. Verifies(i)'
  <2>1. Pending(lst.g)' = Pending(g)' /\ Pending(lst.g) = Pending(g)
    BY <1>8 DEF Pending
  <2>2. Checked(i)' => Settled(Pending(g)', srv'[g], f, v)
    BY <1>7, <1>8, <2>1 DEF Verifies, Checked, AtHand, InPlace, f
  <2> QED BY <1>8, <2>1, <2>2 DEF Verifies, Built, AtHand, InPlace, f
<1> QED BY <1>9, <1>10

LEMMA SameGroup ==
  ASSUME NEW g, lst.g = g, lst'.g = g, UNCHANGED <<que, snd, srv, list>>
  PROVE  \A i : (WillBe(i)' <=> WillBe(i)) /\ (InPlace(i)' <=> InPlace(i))
<1>1. Pending(lst.g)' = Pending(lst.g)
  BY DEF Pending
<1> QED BY <1>1 DEF WillBe, InPlace, Now

LEMMA ThreadTyped ==
  ASSUME KnownInv
  PROVE  /\ lst \in ListStates /\ lst.i \in 1 .. Len(Lines) + 1 /\ lst.skip \in Nat /\ lst.g \in Groups /\ Len(Lines) \in Nat
         /\ Handled \in 0 .. Len(Lines)
<1>1. /\ lst \in ListStates /\ lst.i \in 1 .. Len(Lines) + 1 /\ lst.skip \in Nat /\ lst.g \in Groups /\ Len(Lines) \in Nat
      /\ lst.at = "md5" => lst.i <= Len(Lines)
  BY SceneFacts DEF KnownInv, Inv, ClientInv, ListType, ListStates
<1>2. \A n \in Nat : \A i \in 1 .. n + 1 : i - 1 \in 0 .. n /\ (i <= n => i \in 0 .. n)
  OBVIOUS
<1>3. Handled \in 0 .. Len(Lines)
  BY <1>1, <1>2 DEF Handled
<1> QED BY <1>1, <1>3

LEMMA SentSkips ==
  ASSUME KnownInv, SentInv, Clean, SkipFile, UNCHANGED <<list, missing>>
  PROVE  SentInv'
<1>1. /\ lst.at = "file" /\ lst'.at = "file" /\ lst'.i = lst.i + 1 /\ lst'.g = lst.g /\ lst'.skip = lst.skip
      /\ lst'.verify = lst.verify /\ Skipped(lst.i) /\ scene' = scene /\ UNCHANGED <<que, snd, srv, md5s>>
  BY ThreadTyped DEF SkipFile, ListStates, disk
<1>2. \A i \in 1 .. Len(Lines) : Sent(i)' => Sent(i) /\ i < lst.i
  <2> SUFFICES ASSUME NEW i \in 1 .. Len(Lines), Sent(i)' PROVE Sent(i) /\ i < lst.i
    OBVIOUS
  <2>1. lst.skip < i /\ i <= (lst.i + 1) - 1 /\ Lines[i] \notin missing
    BY <1>1 DEF Sent, Handled
  <2>2. i <= lst.i /\ lst.i \in Nat /\ i \in Nat /\ lst.skip \in Nat
    BY <2>1, ThreadTyped
  <2>3. i # lst.i
    BY <1>1, <2>1, <2>2 DEF Skipped
  <2>4. i < lst.i /\ i <= lst.i - 1
    BY <2>2, <2>3
  <2> QED BY <1>1, <2>1, <2>4 DEF Sent, Handled
<1>3. \A i : (WillBe(i)' <=> WillBe(i)) /\ (InPlace(i)' <=> InPlace(i))
  BY <1>1, SameGroup
<1>4. Modes' = Modes
  BY <1>1, SceneStays
<1> SUFFICES ASSUME Modes[lst.g] = "ALL", NEW i \in 1 .. Len(Lines), Sent(i)' PROVE SentSure(i)' /\ Verifies(i)'
  BY <1>1, <1>4 DEF SentInv
<1>5. SentSure(i) /\ Verifies(i) /\ i < lst.i
  BY <1>2 DEF SentInv
<1>6. Verifies(i)'
  <2>1. Built(i)
    BY <1>1, <1>5 DEF Built
  <2>2. ~AtHand(i)' /\ ~Checked(i)'
    BY <1>1 DEF AtHand, Checked
  <2> QED BY <1>1, <1>5, <2>1, <2>2 DEF Verifies
<1> QED BY <1>1, <1>3, <1>5, <1>6 DEF SentSure

LEMMA SentBuilds ==
  ASSUME KnownInv, SentInv, Clean, BuildLocalMd5, UNCHANGED <<list, missing>>
  PROVE  SentInv'
<1>1. /\ lst.at = "md5" /\ lst'.at = "file" /\ lst'.i = lst.i + 1 /\ lst'.g = lst.g /\ lst'.skip = lst.skip
      /\ lst'.verify = lst.verify /\ scene' = scene /\ UNCHANGED <<que, snd, srv>>
      /\ md5s' = [md5s EXCEPT ![Lines[lst.i]] = list] /\ md5s \in [Files -> 0 .. scene.lists]
  BY ThreadTyped DEF BuildLocalMd5, ListStates, KnownInv, Inv, ClientInv, NamesType
<1>2. \A i \in 1 .. Len(Lines) : (Sent(i)' => Sent(i) /\ i <= lst.i) /\ Lines[i] \in Files
  <2> SUFFICES ASSUME NEW i \in 1 .. Len(Lines) PROVE (Sent(i)' => Sent(i) /\ i <= lst.i) /\ Lines[i] \in Files
    OBVIOUS
  <2>1. Lines[i] \in Files
    BY SceneFacts DEF KnownInv, Inv, ClientInv
  <2>2. Handled' = (lst.i + 1) - 1 /\ Handled = lst.i /\ lst.i \in Nat
    BY <1>1, ThreadTyped DEF Handled
  <2>3. Handled' = Handled
    BY <2>2
  <2> QED BY <1>1, <2>1, <2>2, <2>3 DEF Sent
<1>3. \A i : (WillBe(i)' <=> WillBe(i)) /\ (InPlace(i)' <=> InPlace(i))
  BY <1>1, SameGroup
<1>4. Modes' = Modes
  BY <1>1, SceneStays
<1> SUFFICES ASSUME Modes[lst.g] = "ALL", NEW i \in 1 .. Len(Lines), Sent(i)' PROVE SentSure(i)' /\ Verifies(i)'
  BY <1>1, <1>4 DEF SentInv
<1>5. SentSure(i) /\ Verifies(i) /\ i <= lst.i /\ i \in Nat /\ lst.i \in Nat
  BY <1>2, ThreadTyped DEF SentInv
<1>6. Verifies(i)'
  <2>1. i < lst.i => Built(i)
    BY <1>1 DEF Built
  <2>2. i < lst.i \/ i = lst.i
    BY <1>5
  <2>3. md5s'[Lines[i]] = list
    BY <1>1, <1>2, <1>5, <2>1, <2>2 DEF Verifies
  <2>4. ~AtHand(i)' /\ ~Checked(i)'
    BY <1>1 DEF AtHand, Checked
  <2> QED BY <2>3, <2>4 DEF Verifies
<1> QED BY <1>1, <1>3, <1>5, <1>6 DEF SentSure

(* The end of the files, and the drained queue. *)
LEMMA SentDrains ==
  ASSUME KnownInv, SentInv, Clean, FilesEnd \/ Drain, UNCHANGED <<list, missing>>
  PROVE  SentInv'
<1>1. /\ lst'.i = lst.i /\ lst'.g = lst.g /\ lst'.skip = lst.skip
      /\ lst'.verify = lst.verify /\ scene' = scene /\ UNCHANGED <<que, snd, srv, md5s>>
      /\ \/ lst.at = "file" /\ lst.i > Len(Lines) /\ lst'.at = IF lst.verify THEN "drain" ELSE "end"
         \/ lst.at = "drain" /\ lst'.at = "verify" /\ lst'.todo = {f \in Files : md5s[f] # 0}
  <2>1. CASE FilesEnd
    BY <2>1, ThreadTyped DEF FilesEnd, ListStates, disk, client
  <2>2. CASE Drain
    BY <2>2, ThreadTyped DEF Drain, ListStates, disk, client
  <2> QED BY <2>1, <2>2
<1>2. \A i \in 1 .. Len(Lines) : (Sent(i)' => Sent(i)) /\ Lines[i] \in Files /\ i < lst.i
  <2> SUFFICES ASSUME NEW i \in 1 .. Len(Lines) PROVE (Sent(i)' => Sent(i)) /\ Lines[i] \in Files /\ i < lst.i
    OBVIOUS
  <2>1. Lines[i] \in Files
    BY SceneFacts DEF KnownInv, Inv, ClientInv
  <2>2. Handled' = Handled
    BY <1>1 DEF Handled
  <2>3. lst.i > Len(Lines)
    <3>1. lst.at = "drain" => lst.i = Len(Lines) + 1
      BY DEF KnownInv, ThreadInv, StageInv
    <3> QED BY <1>1, <3>1, ThreadTyped
  <2> QED BY <1>1, <2>1, <2>2, <2>3, ThreadTyped DEF Sent
<1>3. \A i : (WillBe(i)' <=> WillBe(i)) /\ (InPlace(i)' <=> InPlace(i))
  BY <1>1, SameGroup
<1>4. Modes' = Modes
  BY <1>1, SceneStays
<1> SUFFICES ASSUME Modes[lst.g] = "ALL", NEW i \in 1 .. Len(Lines), Sent(i)' PROVE SentSure(i)' /\ Verifies(i)'
  BY <1>1, <1>4 DEF SentInv
<1>5. SentSure(i) /\ Verifies(i) /\ i < lst.i /\ lst.verify /\ Lines[i] \in Files
  BY <1>2 DEF SentInv, SentSure
<1>6. Verifies(i)'
  <2>1. Built(i)
    BY <1>1, <1>5 DEF Built
  <2>2. md5s'[Lines[i]] = list /\ md5s[Lines[i]] # 0
    <3>1. list # 0
      <4>1. lst.at # "wait" /\ list \in Nat
        BY <1>1, SceneFacts DEF KnownInv, Inv, ClientInv
      <4>2. list > 0
        BY <4>1 DEF KnownInv, Inv, ClientInv, ListType, NamesType
      <4> QED BY <4>1, <4>2
    <3> QED BY <1>1, <1>5, <2>1, <3>1 DEF Verifies
  <2>3. ~AtHand(i)' /\ ~Checked(i)'
    BY <1>1, <1>5, <2>2 DEF AtHand, Checked
  <2> QED BY <1>1, <2>2, <2>3 DEF Verifies
<1> QED BY <1>1, <1>3, <1>5, <1>6 DEF SentSure

LEMMA SentTakes ==
  ASSUME KnownInv, SentInv, Clean, TakeMd5, UNCHANGED <<list, missing>>
  PROVE  SentInv'
<1>1. lst.at = "verify" /\ scene' = scene /\ UNCHANGED <<que, snd, srv>>
  BY DEF TakeMd5
<1>2. /\ lst'.i = lst.i /\ lst'.g = lst.g /\ lst'.skip = lst.skip /\ lst'.verify = lst.verify
      /\ \/ lst'.at = "end" /\ lst.todo = {} /\ md5s' = md5s
         \/ /\ lst'.at = "check" /\ lst'.f \in lst.todo /\ lst'.todo = lst.todo \ {lst'.f} /\ lst'.hash = md5s[lst'.f]
            /\ \A f \in Files : f # lst'.f => md5s'[f] = md5s[f]
  <2>1. CASE lst.todo = {} /\ lst' = [lst EXCEPT !.at = "end"] /\ UNCHANGED md5s
    BY <2>1, ThreadTyped DEF ListStates
  <2>2. ASSUME NEW f \in lst.todo, lst' = [lst EXCEPT !.at = "check", !.todo = @ \ {f}, !.f = f, !.hash = md5s[f]],
               md5s' = [md5s EXCEPT ![f] = 0]
        PROVE  /\ lst'.i = lst.i /\ lst'.g = lst.g /\ lst'.skip = lst.skip /\ lst'.verify = lst.verify
               /\ lst'.at = "check" /\ lst'.f = f /\ lst'.todo = lst.todo \ {f} /\ lst'.hash = md5s[f]
               /\ \A k \in Files : k # f => md5s'[k] = md5s[k]
    BY <2>2, ThreadTyped DEF ListStates, KnownInv, Inv, ClientInv, NamesType
  <2> QED BY <2>1, <2>2 DEF TakeMd5
<1>3. \A i \in 1 .. Len(Lines) : (Sent(i)' => Sent(i)) /\ Lines[i] \in Files
  <2>1. Handled' = Handled
    BY <1>1, <1>2 DEF Handled
  <2> QED BY <1>2, <2>1, SceneFacts DEF Sent, KnownInv, Inv, ClientInv
<1>4. \A i : (WillBe(i)' <=> WillBe(i)) /\ (InPlace(i)' <=> InPlace(i))
  BY <1>1, <1>2, SameGroup
<1>5. Modes' = Modes
  BY <1>1, SceneStays
<1> SUFFICES ASSUME Modes[lst.g] = "ALL", NEW i \in 1 .. Len(Lines), Sent(i)' PROVE SentSure(i)' /\ Verifies(i)'
  BY <1>2, <1>5 DEF SentInv
<1>6. SentSure(i) /\ Verifies(i) /\ Lines[i] \in Files
  BY <1>3 DEF SentInv
<1>7. Lines[i] \in lst.todo => md5s[Lines[i]] = list
  BY <1>1, <1>6 DEF Verifies, Built
<1>8. Lines[i] \notin lst.todo => InPlace(i)
  BY <1>1, <1>6 DEF Verifies, Checked, AtHand
<1>9. Verifies(i)'
  <2>1. CASE lst'.at = "end" /\ lst.todo = {}
    <3>1. ~Built(i)' /\ ~AtHand(i)'
      BY <2>1 DEF Built, AtHand
    <3> QED BY <1>4, <1>8, <2>1, <3>1 DEF Verifies
  <2>2. CASE /\ lst'.at = "check" /\ lst'.f \in lst.todo /\ lst'.todo = lst.todo \ {lst'.f} /\ lst'.hash = md5s[lst'.f]
             /\ \A f \in Files : f # lst'.f => md5s'[f] = md5s[f]
    <3>1. Built(i)' => md5s'[Lines[i]] = list
      BY <1>6, <1>7, <2>2 DEF Built
    <3>2. AtHand(i)' => lst'.hash = list
      BY <1>7, <2>2 DEF AtHand
    <3>3. Checked(i)' => InPlace(i)'
      BY <1>4, <1>8, <2>2 DEF Checked, AtHand
    <3> QED BY <3>1, <3>2, <3>3 DEF Verifies
  <2> QED BY <1>2, <2>1, <2>2
<1> QED BY <1>2, <1>4, <1>6, <1>9 DEF SentSure

(* The commands of a file. *)
LEMMA FileFills ==
  ASSUME NEW f, NEW v, NEW all
  PROVE  /\ ToFill(FileCommands(f, v, all), f, v)
         /\ FilledAt(FileCommands(f, v, all), f, v, 2) /\ 2 \in 1 .. Len(FileCommands(f, v, all))
         /\ \A k : k # f => Unfilled(FileCommands(f, v, all), k)
<1>1. PICK r, o, w, c : /\ r = FileCommands(f, v, all) /\ r = <<o, w, c>>
                        /\ o = [op |-> "OPEN_FILE", l |-> GroupList, f |-> f]
                        /\ w = [op |-> "WRITE_FILE", f |-> f, data |-> v]
                        /\ c = [op |-> "CLOSE_FILE", f |-> f, all |-> all]
  BY DEF FileCommands
<1>2. Len(r) = 3 /\ r[1] = o /\ r[2] = w /\ r[3] = c /\ 1 .. 3 = {1, 2, 3}
  BY <1>1
<1>3. ~Fills(c, f) /\ \A k : k # f => ~Fills(o, k) /\ ~Fills(w, k) /\ ~Fills(c, k)
  BY <1>1 DEF Fills
<1>4. FilledAt(r, f, v, 2)
  <2>1. \A k \in {1, 2, 3} : k > 2 => k = 3
    OBVIOUS
  <2> QED BY <1>1, <1>2, <1>3, <2>1 DEF FilledAt
<1>5. ToFill(r, f, v)
  BY <1>2, <1>4 DEF ToFill
<1>6. \A k : k # f => Unfilled(r, k)
  BY <1>2, <1>3 DEF Unfilled
<1>7. 2 \in 1 .. Len(r)
  BY <1>2
<1> QED BY <1>1, <1>4, <1>5, <1>6, <1>7

LEMMA SentSends ==
  ASSUME KnownInv, SentInv, Clean, SendFile, UNCHANGED <<list, missing>>
  PROVE  SentInv'
<1>1. /\ lst.at = "file" /\ lst'.g = lst.g /\ lst'.skip = lst.skip /\ scene' = scene /\ md5s' = md5s /\ srv' = srv
      /\ \/ Modes[lst.g] = "ALL" /\ lst'.at = "md5" /\ lst'.i = lst.i /\ lst'.verify
         \/ Modes[lst.g] # "ALL"
  BY ThreadTyped DEF SendFile, ListStates, disk
<1>2. Modes' = Modes
  BY <1>1, SceneStays
<1> SUFFICES ASSUME Modes[lst.g] = "ALL", NEW i \in 1 .. Len(Lines), Sent(i)' PROVE SentSure(i)' /\ Verifies(i)'
  BY <1>1, <1>2 DEF SentInv
<1>3. lst'.at = "md5" /\ lst'.i = lst.i /\ lst'.verify
  BY <1>1
<1>4. i = lst.i \/ (Sent(i) /\ i < lst.i)
  <2>1. lst.skip < i /\ i <= lst.i /\ Lines[i] \notin missing
    BY <1>1, <1>3 DEF Sent, Handled
  <2>2. i <= lst.i /\ lst.i \in Nat /\ i \in Nat
    BY <2>1, ThreadTyped
  <2>3. i = lst.i \/ (i < lst.i /\ i <= lst.i - 1)
    BY <2>2
  <2> QED BY <1>1, <2>1, <2>3 DEF Sent, Handled
<1>5. PICK g, v, q, s, r : g = lst.g /\ v = Now /\ q = Pending(g) /\ s = srv[g] /\ r = FileCommands(Lines[lst.i], v, TRUE)
  OBVIOUS
<1>6. g \in Groups /\ q \in Seq(Commands) /\ Lines[i] \in Files /\ r \in Seq(Commands)
  <2>1. r \in Seq(Commands)
    BY <1>5, PendsSend, CommandsTyped DEF KnownInv, Inv, ClientInv, Now
  <2> QED BY <1>5, <2>1, ThreadTyped, ServerTyped, SceneFacts DEF KnownInv, Inv, ClientInv
<1>7. Pending(g)' = q \o r
  BY <1>5, <1>6, PendsSend DEF KnownInv, Inv, Now
<1>8. Sure(q \o r, s, Lines[i], v)
  <2>1. CASE Lines[i] = Lines[lst.i]
    <3>1. ToFill(r, Lines[i], v)
      BY <1>5, <2>1, FileFills
    <3> QED BY <1>6, <3>1, FillsJoin DEF Sure
  <2>2. CASE Lines[i] # Lines[lst.i]
    <3>1. Unfilled(r, Lines[i])
      BY <1>5, <2>2, FileFills
    <3>2. WillBe(i)
      BY <1>4, <2>2 DEF SentInv, SentSure
    <3>3. Sure(q, s, Lines[i], v)
      BY <1>5, <3>2 DEF WillBe
    <3>4. ToFill(q, Lines[i], v) => ToFill(q \o r, Lines[i], v)
      BY <1>6, <3>1, FillsJoin
    <3>5. Unfilled(q, Lines[i]) => Unfilled(q \o r, Lines[i])
      BY <1>6, <3>1, FillsJoin
    <3> QED BY <3>3, <3>4, <3>5 DEF Sure
  <2> QED BY <2>1, <2>2
<1>9. WillBe(i)'
  <2>1. Pending(lst.g)' = Pending(g)' /\ Now' = v /\ srv'[lst'.g] = s
    BY <1>1, <1>5 DEF Pending, Now
  <2> QED BY <1>7, <1>8, <2>1 DEF WillBe
<1>10. Verifies(i)'
  <2>1. Built(i)' => Built(i) /\ Sent(i)
    BY <1>1, <1>3, <1>4, ThreadTyped DEF Built
  <2>2. ~AtHand(i)' /\ ~Checked(i)'
    BY <1>3 DEF AtHand, Checked
  <2> QED BY <1>1, <2>1, <2>2 DEF SentInv, Verifies
<1> QED BY <1>3, <1>9, <1>10 DEF SentSure

(* A check that succeeds puts its file in its place. *)
LEMMA CheckSucceeds ==
  ASSUME KnownInv, Check, ~alarmed', "empty" \notin dirty', "rename" \notin dirty', lst' # lst
  PROVE  /\ lst' = [lst EXCEPT !.at = "verify", !.f = NoFile, !.hash = 0]
         /\ \A v : Staged(srv[lst.g], lst.f, v) /\ v = Version(lst.hash) => Held(srv'[lst.g], lst.f, v)
<1>1. PICK o \in CheckMD5(srv[lst.g], lst.f, Version(lst.hash)) :
        /\ srv' = [srv EXCEPT ![lst.g] = o.srv]
        /\ CheckAnswered(o.ret) \/ UNCHANGED lst
        /\ (IF srv[lst.g].disk[Md5(lst.f)] = Empty THEN {"empty"} ELSE {}) \subseteq dirty'
        /\ Unrenamed(o) \subseteq dirty'
  BY DEF Check
<1>2. o.ret = 0 /\ lst' = [lst EXCEPT !.at = "verify", !.f = NoFile, !.hash = 0]
  BY <1>1 DEF CheckAnswered, CheckFailed
<1>3. srv[lst.g].disk[Md5(lst.f)] # Empty
  BY <1>1
<1>4. lst.g \in Groups /\ lst.f \in Files
  BY ThreadTyped DEF Check, KnownInv, Inv, ClientInv, ListType
<1>5. MachineType(srv[lst.g], Versions) /\ OwnHandles(srv[lst.g]) /\ srv'[lst.g] = o.srv
  BY <1>1, <1>4, ServerTyped DEF KnownInv, HandlesInv, Inv, ServersType
<1>6. Checks(Versions, srv[lst.g], o, lst.f, Version(lst.hash))
  BY <1>4, <1>5, CheckEffect
<1>7. o.bad = 0
  BY <1>1, <1>2, <1>6 DEF Checks, Unrenamed
<1> QED BY <1>1, <1>2, <1>3, <1>4, <1>5, <1>7, CheckStages

(* While files are checked nothing is pending but a CLOSE. *)
LEMMA CheckAlone ==
  ASSUME KnownInv, lst.at \in {"verify", "check"}, NEW f, NEW v
  PROVE  \A g \in Groups : g = lst.g => Unfilled(Pending(g), f) /\ ~ToFill(Pending(g), f, v)
<1> SUFFICES ASSUME NEW g \in Groups, g = lst.g PROVE Unfilled(Pending(g), f) /\ ~ToFill(Pending(g), f, v)
  OBVIOUS
<1>1. PICK q : q = Pending(g)
  OBVIOUS
<1>2. q \in Seq(Commands) /\ Shaped(q, Modes[g] = "ALL")
  BY <1>1, ServerTyped DEF KnownInv, ShapeInv
<1>3. que[g] = <<>>
  BY DEF KnownInv, ThreadInv, StageInv
<1>4. Len(q) <= 1 /\ Len(q) \in Nat
  BY <1>1, <1>2, <1>3, PendingNone DEF KnownInv, Inv, ClientInv
<1>5. \A p \in 1 .. Len(q) : p = Len(q) /\ q # <<>>
  BY <1>2, <1>4
<1>6. \A p \in 1 .. Len(q) : q[p].op \notin {"OPEN_FILE", "WRITE_FILE"}
  BY <1>2, <1>5 DEF Shaped
<1> QED BY <1>1, <1>6 DEF Unfilled, ToFill, FilledAt, Fills

LEMMA SentChecks ==
  ASSUME KnownInv, FreshInv, SentInv, Clean, Check, [Next]_vars, ~alarmed', "empty" \notin dirty',
         "rename" \notin dirty', lst' # lst, UNCHANGED <<list, missing>>
  PROVE  SentInv'
<1>1. /\ lst.at = "check" /\ lst'.at = "verify" /\ lst'.i = lst.i /\ lst'.g = lst.g /\ lst'.skip = lst.skip
      /\ lst'.verify = lst.verify /\ lst'.todo = lst.todo /\ scene' = scene /\ md5s' = md5s
      /\ \A g \in Groups : Pending(g)' = Pending(g)
  BY ThreadTyped, CheckSucceeds, PendingStays DEF Check, ListStates
<1>2. \A i \in 1 .. Len(Lines) : (Sent(i)' => Sent(i)) /\ Lines[i] \in Files
  <2>1. Handled' = Handled
    BY <1>1 DEF Handled
  <2> QED BY <1>1, <2>1, SceneFacts DEF Sent, KnownInv, Inv, ClientInv
<1>3. Modes' = Modes
  BY <1>1, SceneStays
<1> SUFFICES ASSUME Modes[lst.g] = "ALL", NEW i \in 1 .. Len(Lines), Sent(i)' PROVE SentSure(i)' /\ Verifies(i)'
  BY <1>1, <1>3 DEF SentInv
<1>4. SentSure(i) /\ Verifies(i) /\ Lines[i] \in Files
  BY <1>2 DEF SentInv
<1>5. PICK g, v, f, old : g = lst.g /\ v = Now /\ f = Lines[i] /\ old = ("early" \in dirty)
  OBVIOUS
<1>6. Moves(g) /\ g \in Groups /\ Pending(g)' = Pending(g)
  BY <1>1, <1>5, ThreadTyped, AnyMoves DEF KnownInv
<1>7. Tidy(g, f, v)
  <2>1. ~SendFile
    BY <1>1 DEF SendFile
  <2>2. ~ClientCrash
    BY <1>1 DEF ClientCrash, Waiting, ThreadAt
  <2>3. lst.f = f => Version(lst.hash) = v
    BY <1>1, <1>4, <1>5 DEF Verifies, AtHand, Now
  <2> QED BY <1>5, <2>1, <2>2, <2>3 DEF Tidy
<1>8. FirstFresh(Pending(g), srv[g], old, v) /\ Sure(Pending(g), srv[g], f, v)
  BY <1>4, <1>5, <1>6 DEF FreshInv, SentSure, WillBe
<1>9. Sure(Pending(g)', srv'[g], f, v)
  BY <1>4, <1>5, <1>6, <1>7, <1>8, SureMoves
<1>10. Pending(lst.g)' = Pending(g) /\ Pending(lst.g) = Pending(g) /\ Now' = v /\ srv'[lst'.g] = srv'[g]
  BY <1>1, <1>5, <1>6 DEF Pending, Now
<1>11. SentSure(i)'
  BY <1>1, <1>4, <1>5, <1>6, <1>9, <1>10 DEF SentSure, WillBe
<1>12. Settled(Pending(g), srv[g], f, v) => Settled(Pending(g)', srv'[g], f, v)
  BY <1>4, <1>5, <1>6, <1>7, SettledMoves
<1>13. AtHand(i) => Settled(Pending(g), srv'[g], f, v)
  <2> SUFFICES ASSUME AtHand(i) PROVE Settled(Pending(g), srv'[g], f, v)
    OBVIOUS
  <2>1. lst.hash = list /\ lst.f = f /\ v = Version(lst.hash)
    BY <1>4, <1>5 DEF Verifies, AtHand, Now
  <2>2. Unfilled(Pending(g), f) /\ ~ToFill(Pending(g), f, v)
    BY <1>1, <1>4, <1>5, <1>6, CheckAlone
  <2>3. Staged(srv[g], f, v)
    BY <1>8, <2>2 DEF Sure
  <2>4. Held(srv'[g], f, v)
    BY <1>5, <2>1, <2>3, CheckSucceeds
  <2> QED BY <2>2, <2>4 DEF Settled
<1>14. Verifies(i)'
  <2>1. Built(i)' => Built(i)
    BY <1>1 DEF Built
  <2>2. ~AtHand(i)'
    BY <1>1 DEF AtHand
  <2>3. Checked(i)' => InPlace(i)'
    <3> SUFFICES ASSUME Checked(i)' PROVE InPlace(i)'
      OBVIOUS
    <3>1. AtHand(i) \/ Checked(i)
      BY <1>1 DEF Checked
    <3>2. Checked(i) => Settled(Pending(g), srv[g], f, v)
      BY <1>4, <1>5, <1>10 DEF Verifies, InPlace
    <3>3. Settled(Pending(g), srv'[g], f, v)
      BY <1>6, <1>12, <1>13, <3>1, <3>2
    <3> QED BY <1>5, <1>10, <3>3 DEF InPlace
  <2> QED BY <1>1, <1>4, <2>1, <2>2, <2>3 DEF Verifies
<1> QED BY <1>11, <1>14

LEMMA SentNext == ASSUME KnownInv, FreshInv, SentInv, [Next]_vars PROVE SentInv'
<1> SUFFICES ASSUME Clean' PROVE SentInv'
  BY DEF SentInv
<1>0. /\ list' = list /\ missing' = missing /\ ~alarmed' /\ "empty" \notin dirty' /\ "rename" \notin dirty'
      /\ scene' = scene /\ Modes' = Modes
      /\ ListBegins \/ (Clean /\ ~(MonitorList /\ Begins))
  BY CleanNext, AnyMoves, SceneStays DEF KnownInv
<1>1. CASE lst'.at # "md5" /\ lst'.i = 1
  <2>1. Handled' = 0
    BY <1>1 DEF Handled
  <2>2. \A i \in 1 .. Len(Lines) : ~(i <= 0)
    BY ThreadTyped
  <2> QED BY <2>1, <2>2 DEF SentInv, Sent
<1>2. CASE Clean /\ UNCHANGED <<lst, md5s>> /\ ~ClientCrash /\ ~SendFile
  <2> SUFFICES ASSUME Modes[lst.g] = "ALL", NEW i \in 1 .. Len(Lines), Sent(i)' PROVE SentSure(i)' /\ Verifies(i)'
    BY <1>0, <1>2 DEF SentInv
  <2>1. Sent(i)
    BY <1>0, <1>2 DEF Sent, Handled
  <2>2. SentSure(i) /\ Verifies(i)
    BY <1>2, <2>1 DEF SentInv
  <2> QED BY <1>0, <1>2, <2>2, LineStays
<1>3. CASE ListBegins \/ MonitorList \/ Finish \/ ClientCrash \/ Work_CloseList \/ Work_StartList
  <2>1. CASE ListBegins \/ MonitorList \/ Finish \/ ClientCrash
    BY <1>1, <2>1 DEF ListBegins, MonitorList, Finish, ClientCrash, Waiting, ThreadAt
  <2>2. CASE Work_CloseList
    BY <1>1, <2>2, NextGroupIs DEF Work_CloseList, KnownInv, Inv
  <2>3. CASE Work_StartList
    BY <1>1, <2>3, ThreadTyped DEF Work_StartList, ListStates
  <2> QED BY <1>3, <2>1, <2>2, <2>3
<1>4. CASE Clean /\ (SkipFile \/ BuildLocalMd5 \/ FilesEnd \/ Drain \/ TakeMd5 \/ SendFile)
  BY <1>0, <1>4, SentSkips, SentBuilds, SentDrains, SentTakes, SentSends
<1>5. CASE Clean /\ Check
  <2>1. CASE lst' # lst
    BY <1>0, <1>5, <2>1, SentChecks
  <2>2. CASE lst' = lst
    <3>1. md5s' = md5s /\ ~SendFile
      BY <1>5 DEF Check, SendFile
    <3>2. ~ClientCrash
      BY <1>5, <2>2 DEF Check, ClientCrash, Waiting, ThreadAt
    <3> QED BY <1>2, <1>5, <2>2, <3>1, <3>2
  <2> QED BY <2>1, <2>2
<1>6. CASE /\ Clean /\ ~ClientCrash /\ ~SendFile
           /\ \/ ListArrives \/ UNCHANGED vars
              \/ \E g \in Groups : ServerThread(g) \/ SendLost(g) \/ Md5Thread(g) \/ ServerCrash(g)
  <2>1. UNCHANGED <<lst, md5s>>
    BY <1>6 DEF ListArrives, ServerThread, PopCommand, Send, SendLost, Md5Thread, ServerCrash, vars, disk, client
  <2> QED BY <1>2, <1>6, <2>1
<1> QED BY <1>0, <1>3, <1>4, <1>5, <1>6 DEF Next, ListThread

(* The groups the thread is done with; after the last one, if nothing was skipped, every file. *)
PassedInv ==
  Clean => \A g \in Groups : Modes[g] = "ALL" =>
    /\ g < lst.g => \A i \in 1 .. Len(Lines) :
         lst.skip < i /\ Lines[i] \notin missing => Settled(Pending(g), srv[g], Lines[i], Now)
    /\ lst.at = "finish" /\ "crash" \notin dirty => \A f \in Readable : Settled(Pending(g), srv[g], f, Now)

LEMMA ThreadMoves ==
  ASSUME KnownInv, [Next]_vars, ~alarmed'
  PROVE  \/ lst'.g = lst.g /\ lst'.skip = lst.skip /\ (lst'.at = "finish" => lst.at = "finish") /\ ~ClientCrash
         \/ lst'.g = 1 /\ lst'.at # "finish"
         \/ Work_CloseList
<1>0. lst \in ListStates
  BY ThreadTyped
<1>1. CASE MonitorList \/ Finish \/ ClientCrash
  BY <1>1 DEF MonitorList, Finish, ClientCrash, Waiting, ThreadAt
<1>2. CASE (Work_StartList \/ SkipFile \/ BuildLocalMd5) /\ ~ClientCrash
  BY <1>0, <1>2 DEF Work_StartList, SkipFile, BuildLocalMd5, ListStates
<1>3. CASE SendFile /\ ~ClientCrash
  BY <1>0, <1>3 DEF SendFile, ListStates
<1>4. CASE (FilesEnd \/ Drain) /\ ~ClientCrash
  BY <1>0, <1>4 DEF FilesEnd, Drain, ListStates
<1>5. CASE TakeMd5 /\ ~ClientCrash
  <2>1. \/ lst' = [lst EXCEPT !.at = "end"]
        \/ \E f \in lst.todo :
             lst' = [lst EXCEPT !.at = "check", !.todo = @ \ {f}, !.f = f, !.hash = md5s[f]]
    BY <1>5 DEF TakeMd5
  <2> QED BY <1>0, <1>5, <2>1 DEF ListStates
<1>6. CASE Check /\ ~ClientCrash
  <2>1. lst' = lst \/ lst' = [lst EXCEPT !.at = "verify", !.f = NoFile, !.hash = 0]
    BY <1>6 DEF Check, CheckAnswered, CheckFailed
  <2> QED BY <1>0, <1>6, <2>1 DEF ListStates
<1>7. CASE lst' = lst /\ ~ClientCrash
  BY <1>7
<1>8. CASE /\ ~ClientCrash
           /\ \/ ListArrives \/ UNCHANGED vars
              \/ \E g \in Groups : ServerThread(g) \/ SendLost(g) \/ Md5Thread(g) \/ ServerCrash(g)
  BY <1>7, <1>8 DEF ListArrives, ServerThread, PopCommand, Send, SendLost, Md5Thread, ServerCrash, vars, client
<1> QED BY <1>1, <1>2, <1>3, <1>4, <1>5, <1>6, <1>7, <1>8 DEF Next, ListThread

(* What is in its place stays there. *)
LEMMA PassedStays ==
  ASSUME KnownInv, [Next]_vars, ~alarmed', ~ClientCrash, list' = list, NEW g \in Groups, Modes[g] = "ALL",
         g # lst.g \/ lst.at \notin {"file", "check"}, NEW f \in Files, Settled(Pending(g), srv[g], f, Now)
  PROVE  Settled(Pending(g)', srv'[g], f, Now')
<1>1. PICK v : v = Now /\ v = Now'
  BY DEF Now
<1>2. Tidy(g, f, v)
  BY DEF Tidy, SendFile
<1>3. Moves(g)
  BY AnyMoves DEF KnownInv
<1> QED BY <1>1, <1>2, <1>3, SettledMoves

(* At the end of a group its files are in their place as well. *)
LEMMA GroupPassed ==
  ASSUME KnownInv, SentInv, PassedInv, Clean, lst.at = "end", NEW g \in Groups, Modes[g] = "ALL", g <= lst.g,
         NEW i \in 1 .. Len(Lines), lst.skip < i, Lines[i] \notin missing
  PROVE  Settled(Pending(g), srv[g], Lines[i], Now)
<1>1. CASE g = lst.g
  <2>1. Handled = Len(Lines)
    <3>1. lst.i = Len(Lines) + 1 /\ Len(Lines) \in Nat
      BY ThreadTyped DEF KnownInv, ThreadInv, StageInv
    <3>2. Handled = (Len(Lines) + 1) - 1
      BY <3>1 DEF Handled
    <3> QED BY <3>1, <3>2
  <2>2. Sent(i)
    BY <2>1, ThreadTyped DEF Sent
  <2>3. InPlace(i)
    BY <1>1, <2>2 DEF SentInv, Verifies, Checked
  <2> QED BY <1>1, <2>3 DEF InPlace, Pending
<1>2. CASE g # lst.g
  <2>1. g < lst.g
    <3>1. g \in Int /\ lst.g \in Int
      BY ThreadTyped, SceneFacts DEF KnownInv, Inv, ClientInv
    <3> QED BY <1>2, <3>1
  <2> QED BY <2>1 DEF PassedInv
<1> QED BY <1>1, <1>2

LEMMA PassedNext == ASSUME KnownInv, SentInv, PassedInv, [Next]_vars PROVE PassedInv'
<1>0. /\ KnownInv' /\ scene' = scene /\ Modes' = Modes /\ Groups' = Groups /\ Groups = 1 .. Len(Modes) /\ Len(Modes) \in Nat
      /\ lst.g \in Groups /\ lst.skip \in Nat /\ Len(Lines) \in Nat
  BY KnownNext, AnyMoves, SceneStays, SceneFacts, ThreadTyped DEF KnownInv, Inv, ClientInv
<1>1. CASE lst'.g = 1 /\ lst'.at # "finish"
  BY <1>0, <1>1 DEF PassedInv
<1> SUFFICES ASSUME Clean', ~(lst'.g = 1 /\ lst'.at # "finish") PROVE PassedInv'
  BY <1>1 DEF PassedInv
<1>2. /\ list' = list /\ missing' = missing /\ ~alarmed' /\ Clean /\ ("crash" \notin dirty' => "crash" \notin dirty)
  <2>1. ~ListBegins
    BY DEF ListBegins, ThreadAt
  <2> QED BY <2>1, CleanNext
<1>3. CASE lst'.g = lst.g /\ lst'.skip = lst.skip /\ (lst'.at = "finish" => lst.at = "finish") /\ ~ClientCrash
  <2> SUFFICES ASSUME NEW g \in Groups, Modes[g] = "ALL"
      PROVE  /\ g < lst.g => \A i \in 1 .. Len(Lines) :
                  lst.skip < i /\ Lines[i] \notin missing => Settled(Pending(g)', srv'[g], Lines[i], Now')
             /\ lst'.at = "finish" /\ "crash" \notin dirty' => \A f \in Readable : Settled(Pending(g)', srv'[g], f, Now')
    BY <1>0, <1>2, <1>3 DEF PassedInv, Readable
  <2>1. ASSUME g < lst.g, NEW i \in 1 .. Len(Lines), lst.skip < i, Lines[i] \notin missing
        PROVE  Settled(Pending(g)', srv'[g], Lines[i], Now')
    <3>1. g # lst.g /\ Lines[i] \in Files
      BY <1>0, <2>1, SceneFacts DEF KnownInv, Inv, ClientInv
    <3>2. Settled(Pending(g), srv[g], Lines[i], Now)
      BY <1>2, <2>1 DEF PassedInv
    <3> QED BY <1>2, <1>3, <3>1, <3>2, PassedStays
  <2>2. ASSUME lst'.at = "finish", "crash" \notin dirty', NEW f \in Readable
        PROVE  Settled(Pending(g)', srv'[g], f, Now')
    <3>1. lst.at = "finish" /\ f \in Files
      BY <1>3, <2>2 DEF Readable
    <3>2. Settled(Pending(g), srv[g], f, Now)
      BY <1>2, <2>2, <3>1 DEF PassedInv
    <3> QED BY <1>2, <1>3, <3>1, <3>2, PassedStays
  <2> QED BY <2>1, <2>2
<1>4. CASE Work_CloseList
  <2>0. lst.at = "end" /\ lst' = NextGroup(lst) /\ ~ClientCrash
    <3>1. lst.at = "end" /\ lst' = NextGroup(lst)
      BY <1>4 DEF Work_CloseList
    <3>2. NextGroup(lst).at # "wait"
      BY NextGroupIs DEF KnownInv, Inv
    <3> QED BY <3>1, <3>2 DEF ClientCrash, Waiting, ThreadAt
  <2>1. ASSUME NEW g \in Groups, Modes[g] = "ALL", g <= lst.g,
               NEW i \in 1 .. Len(Lines), lst.skip < i, Lines[i] \notin missing
        PROVE  Settled(Pending(g)', srv'[g], Lines[i], Now')
    <3>1. Settled(Pending(g), srv[g], Lines[i], Now) /\ Lines[i] \in Files
      BY <1>2, <2>0, <2>1, GroupPassed, SceneFacts DEF KnownInv, Inv, ClientInv
    <3> QED BY <1>2, <2>0, <2>1, <3>1, PassedStays
  <2>2. CASE lst.g < Len(Modes)
    <3>1. lst'.g = lst.g + 1 /\ lst'.skip = lst.skip /\ lst'.at = "start"
      BY <2>0, <2>2 DEF NextGroup, ThreadAt
    <3>2. \A g \in Groups : g < lst.g + 1 => g <= lst.g
      BY <1>0
    <3> QED BY <1>0, <1>2, <2>1, <3>1, <3>2 DEF PassedInv
  <2>3. CASE ~(lst.g < Len(Modes))
    <3>1. lst'.g = 1 /\ \A g \in Groups : g <= lst.g /\ ~(g < 1)
      BY <1>0, <2>0, <2>3 DEF NextGroup, ThreadAt
    <3>2. ASSUME NEW g \in Groups, Modes[g] = "ALL", "crash" \notin dirty', NEW f \in Readable
          PROVE  Settled(Pending(g)', srv'[g], f, Now')
      <4>1. PICK i \in 1 .. Len(Lines) : f = Lines[i]
        BY ListTransferAssumption DEF Readable, ToSet
      <4>2. lst.skip = 0
        BY <1>2, <3>2 DEF KnownInv, ThreadInv, RestartInv
      <4>3. lst.skip < i
        BY <1>0, <4>2
      <4> QED BY <2>1, <3>1, <3>2, <4>1, <4>3 DEF Readable
    <3> QED BY <1>0, <1>2, <3>1, <3>2 DEF PassedInv, Readable
  <2> QED BY <2>2, <2>3
<1> QED BY <1>2, <1>3, <1>4, ThreadMoves

LEMMA InstallsInit == Init => FreshInv /\ SentInv /\ PassedInv
<1> SUFFICES ASSUME Init PROVE ~Clean
  BY DEF FreshInv, SentInv, PassedInv
<1> QED BY DEF Init, Clean

(* However requests and answers are lost and servers killed: a list of which nothing was given up, and
   whose client was not killed, is whole at every server that verifies it when the thread renames it to
   .Finish; unless a rename of a server failed (CHECK_MD5 answers that with 0), a check met an empty .md5, or
   an md5 thread still had the file of an earlier list to do when it was opened. *)
THEOREM FinishedListIsInstalled == Spec => []FinishedIsInstalled
<1> DEFINE Arrives == KnownInv /\ FreshInv /\ SentInv /\ PassedInv
<1>1. Init => Arrives
  BY KnownInit, InstallsInit
<1>2. Arrives /\ [Next]_vars => Arrives'
  BY KnownNext, FreshNext, SentNext, PassedNext
<1>3. Arrives => FinishedIsInstalled
  <2> SUFFICES ASSUME KnownInv, PassedInv, lst.at = "finish", ~alarmed, dirty \subseteq {"early"},
                      NEW g \in Groups, Modes[g] = "ALL", NEW f \in Readable
               PROVE  InstalledAt(g, f)
    BY DEF FinishedIsInstalled, Installed
  <2>1. "Ready" \in names
    BY DEF KnownInv, Inv, ClientInv, ListType
  <2>2. Clean /\ "crash" \notin dirty
    BY <2>1 DEF Clean
  <2>3. Settled(Pending(g), srv[g], f, Now)
    BY <2>2 DEF PassedInv
  <2> QED BY <2>3 DEF Settled, Held, InstalledAt, Now
<1> HIDE DEF Arrives
<1> QED BY <1>1, <1>2, <1>3, PTL DEF Spec

-----------------------------------------------------------------------------
(* The files of a MOD group: they are never checked, and CLOSE puts them in their place. *)
Has(s, m, n) == Exists(s, m) /\ Contains(s.disk[m], n)
Opened(s, f) == s.m_mapNameFile[f] = Df(f) /\ Exists(s, Df(f))

(* The .df has the data of list n, or, when the answer of the CLOSE was lost, the file has. *)
Closing(s, f, n) == Has(s, Df(f), n) \/ (~Exists(s, Df(f)) /\ Has(s, Final(f), n))

(* The data of list n is to be written to a file that is, or will be, open, or it is there. *)
FirstCloses(q, f) == q # <<>> /\ q[1].op = "CLOSE_FILE" /\ q[1].f = f
Coming(q, s, f, n) ==
  \E p \in 1 .. Len(q) : FilledAt(q, f, Version(n), p) /\ (p = 1 => Opened(s, f))
Landed(q, s, f, n) ==
  Unfilled(q, f) /\ IF FirstCloses(q, f) THEN Closing(s, f, n) ELSE Has(s, Final(f), n)
Arriving(q, s, f, n) == Coming(q, s, f, n) \/ Landed(q, s, f, n)

LEMMA LastContained ==
  ASSUME NEW S, NEW a \in Seq(S), NEW b \in Seq(S)
  PROVE  a \o b \in Seq(S) /\ (Len(b) = 1 => Contains(a \o b, b[1]))
<1>1. /\ a \o b \in Seq(S) /\ Len(a) \in Nat /\ Len(a \o b) = Len(a) + Len(b)
      /\ \A p \in 1 .. Len(b) : (a \o b)[Len(a) + p] = b[p]
  BY JoinFacts
<1>2. PICK q, k, m : q = a \o b /\ k = Len(a) /\ m = Len(b)
  OBVIOUS
<1>3. Len(q) = k + m /\ k \in Nat /\ \A p \in 1 .. m : q[k + p] = b[p]
  BY <1>1, <1>2
<1>4. m = 1 => k + 1 \in 1 .. Len(q) /\ q[k + 1] = b[1]
  BY <1>3
<1>5. m = 1 => Contains(q, b[1])
  BY <1>4 DEF Contains
<1> QED BY <1>1, <1>2, <1>5

LEMMA WriteHas ==
  ASSUME NEW s, MachineType(s, Versions), NEW cmd \in Commands, cmd.op = "WRITE_FILE", NEW o \in Work(s, cmd),
         Opened(s, cmd.f), NEW n, cmd.data = Version(n)
  PROVE  Opened(o.srv, cmd.f) /\ (o.ret >= 0 => Has(o.srv, Df(cmd.f), n))
<1> DEFINE f == cmd.f
<1>1. f \in Files /\ Writes(Versions, s, o, f, Version(n)) /\ MachineType(o.srv, Versions) /\ Version(n) \in Seq(Versions)
  BY WorkCarries DEF Carries, Commands, Versions
<1>0. Opened(s, f)
  OBVIOUS
<1> HIDE DEF f
<1>2. s.disk \in [Names -> AnyContents(Versions)] /\ Df(f) \in Names /\ Df(f) # Closed /\ Df(f) # Gone
  BY <1>1, NameFacts DEF MachineType, Machines
<1>3. /\ o.srv.m_mapNameFile = s.m_mapNameFile /\ s.m_mapNameFile[f] = Df(f)
      /\ \/ o.srv.disk = s.disk /\ o.ret # 0
         \/ o.srv.disk = [s.disk EXCEPT ![Df(f)] = Appended(s.disk[Df(f)], Version(n))]
      /\ o.ret = 0 \/ o.ret = -2
  BY <1>0, <1>1, <1>2 DEF Opened, Writes
<1>4. CASE o.srv.disk = s.disk /\ o.ret # 0
  <2>1. ~(o.ret >= 0)
    BY <1>3, <1>4
  <2> QED BY <1>0, <1>3, <1>4, <2>1 DEF Opened, Exists, f
<1>5. CASE o.srv.disk = [s.disk EXCEPT ![Df(f)] = Appended(s.disk[Df(f)], Version(n))]
  <2>1. s.disk[Df(f)] # NoFile /\ s.disk[Df(f)] \in Seq(Versions)
    BY <1>0, <1>1, MarksApart DEF Opened, Exists
  <2>2. PICK a, b : a = s.disk[Df(f)] /\ b = Version(n)
    OBVIOUS
  <2>3. o.srv.disk[Df(f)] = a \o b /\ a \in Seq(Versions) /\ b \in Seq(Versions) /\ Len(b) = 1 /\ b[1] = n
    BY <1>1, <1>2, <1>5, <2>1, <2>2 DEF Appended, Version
  <2>4. a \o b \in Seq(Versions) /\ Contains(a \o b, b[1])
    BY <2>3, LastContained
  <2>5. Contains(a \o b, n)
    BY <2>3, <2>4
  <2>6. a \o b # NoFile
    BY <1>1, <2>4, MarksApart
  <2> QED BY <1>3, <2>3, <2>5, <2>6 DEF Has, Opened, Exists, f
<1> QED BY <1>3, <1>4, <1>5

LEMMA CloseHas ==
  ASSUME NEW s, MachineType(s, Versions), NEW cmd \in Commands, cmd.op = "CLOSE_FILE", cmd.all = FALSE,
         NEW o \in Work(s, cmd), NEW n, Closing(s, cmd.f, n)
  PROVE  Closing(o.srv, cmd.f, n) /\ (o.bad = 0 => Has(o.srv, Final(cmd.f), n))
<1>1. Closes(Versions, s, o, cmd.f, FALSE)
  BY WorkCarries DEF Carries
<1>2. CASE s.disk[Df(cmd.f)] = NoFile
  <2>1. o.srv.disk[Df(cmd.f)] = s.disk[Df(cmd.f)] /\ o.srv.disk[Final(cmd.f)] = s.disk[Final(cmd.f)]
    BY <1>1, <1>2 DEF Closes
  <2> QED BY <1>2, <2>1 DEF Closing, Has, Exists
<1>3. CASE s.disk[Df(cmd.f)] # NoFile /\ o.bad = 1
  BY <1>1, <1>3 DEF Closes, Closing, Has, Exists
<1>4. CASE s.disk[Df(cmd.f)] # NoFile /\ o.bad = 0
  <2>1. o.srv.disk[Df(cmd.f)] = NoFile /\ o.srv.disk[Final(cmd.f)] = s.disk[Df(cmd.f)]
    BY <1>1, <1>4 DEF Closes
  <2> QED BY <1>4, <2>1 DEF Closing, Has, Exists
<1> QED BY <1>1, <1>2, <1>3, <1>4 DEF Closes

(* What the md5 threads do leaves data and handles alone. *)
LEMMA HashesHas ==
  ASSUME NEW s, MachineType(s, Versions), OwnHandles(s), NEW t, Hashes(s, t), NEW f \in Files
  PROVE  /\ t.disk[Df(f)] = s.disk[Df(f)] /\ t.disk[Final(f)] = s.disk[Final(f)]
         /\ t.m_mapNameFile = s.m_mapNameFile
<1>1. t.disk[Df(f)] = s.disk[Df(f)] /\ t.disk[Final(f)] = s.disk[Final(f)]
  BY AloneStages DEF Alone
<1>2. CASE s.jobs # <<>> /\ t = Md5Reads(s)
  BY <1>1, <1>2, ReadsEffect DEF Reads
<1>3. CASE \E j \in s.hashing : t = Md5Writes(s, j)
  <2>1. PICK j \in s.hashing : t = Md5Writes(s, j)
    BY <1>3
  <2> QED BY <1>1, <2>1, WritesEffect DEF TextWritten
<1> QED BY <1>2, <1>3 DEF Hashes

LEMMA ArrivesAlike ==
  ASSUME NEW q, NEW s, NEW t, NEW f, NEW n,
         t.disk[Df(f)] = s.disk[Df(f)], t.disk[Final(f)] = s.disk[Final(f)], t.m_mapNameFile[f] = s.m_mapNameFile[f],
         Arriving(q, s, f, n)
  PROVE  Arriving(q, t, f, n)
BY DEF Arriving, Coming, Landed, Closing, Has, Opened, Exists

(* The first command is gone. *)
LEMMA ComesNext ==
  ASSUME NEW S, NEW q \in Seq(S), q # <<>>, NEW all, Shaped(q, all), NEW f, NEW v
  PROVE  /\ \A p \in 1 .. Len(q) : p # 1 /\ FilledAt(q, f, v, p) =>
              /\ p - 1 \in 1 .. Len(Tail(q)) /\ FilledAt(Tail(q), f, v, p - 1)
              /\ p - 1 = 1 => q[1].op = "OPEN_FILE" /\ q[1].f = f
         /\ FilledAt(q, f, v, 1) => Unfilled(Tail(q), f) /\ FirstCloses(Tail(q), f)
         /\ Unfilled(q, f) => Unfilled(Tail(q), f) /\ ~FirstCloses(Tail(q), f)
<1>1. /\ Tail(q) \in Seq(S) /\ Len(q) \in Nat \ {0} /\ Len(Tail(q)) = Len(q) - 1
      /\ \A p \in 1 .. Len(q) - 1 : Tail(q)[p] = q[p + 1]
      /\ Tail(q) # <<>> => Len(q) > 1
  BY TailFacts
<1>2. PICK t, m : t = Tail(q) /\ m = Len(q)
  OBVIOUS
<1>3. t \in Seq(S) /\ m \in Nat \ {0} /\ Len(t) = m - 1 /\ (\A p \in 1 .. m - 1 : t[p] = q[p + 1]) /\ (t # <<>> => m > 1)
  BY <1>1, <1>2
<1>4. \A p \in 1 .. m - 1 : Follows(q[p], q[p + 1])
  BY <1>2 DEF Shaped
<1>5. \A p \in 1 .. m - 1 : p + 1 \in 1 .. m
  BY <1>3
<1>6. ASSUME NEW p \in 1 .. m, p # 1, FilledAt(q, f, v, p)
      PROVE  p - 1 \in 1 .. Len(t) /\ FilledAt(t, f, v, p - 1) /\ (p - 1 = 1 => q[1].op = "OPEN_FILE" /\ q[1].f = f)
  <2>1. p - 1 \in 1 .. m - 1 /\ (p - 1) + 1 = p
    BY <1>3, <1>6
  <2>2. t[p - 1] = q[p]
    BY <1>3, <2>1
  <2>3. \A k \in 1 .. Len(t) : k > p - 1 => ~Fills(t[k], f)
    <3> SUFFICES ASSUME NEW k \in 1 .. m - 1, k > p - 1 PROVE ~Fills(t[k], f)
      BY <1>3
    <3>1. k + 1 \in 1 .. m /\ k + 1 > p /\ t[k] = q[k + 1]
      BY <1>3, <1>5, <1>6
    <3> QED BY <1>2, <1>6, <3>1 DEF FilledAt
  <2>4. FilledAt(t, f, v, p - 1)
    BY <1>6, <2>2, <2>3 DEF FilledAt
  <2>5. Follows(q[p - 1], q[p])
    BY <1>4, <2>1
  <2>6. p - 1 = 1 => q[1].op = "OPEN_FILE" /\ q[1].f = f
    BY <1>6, <2>5 DEF Follows, FilledAt
  <2> QED BY <1>3, <2>1, <2>4, <2>6
<1>7. Unfilled(q, f) => Unfilled(t, f)
  BY <1>2, FillsTail
<1>8. FilledAt(q, f, v, 1) => Unfilled(t, f)
  <2> SUFFICES ASSUME FilledAt(q, f, v, 1), NEW k \in 1 .. m - 1 PROVE ~Fills(t[k], f)
    BY <1>3 DEF Unfilled
  <2>1. k + 1 \in 1 .. m /\ k + 1 > 1 /\ t[k] = q[k + 1]
    BY <1>3, <1>5
  <2> QED BY <1>2, <2>1 DEF FilledAt
<1>9. FilledAt(q, f, v, 1) => FirstCloses(t, f)
  <2> SUFFICES ASSUME FilledAt(q, f, v, 1) PROVE FirstCloses(t, f)
    OBVIOUS
  <2>1. q[1].op = "WRITE_FILE" /\ q[1].f = f
    BY DEF FilledAt
  <2>2. m # 1
    BY <1>2, <2>1 DEF Shaped
  <2>3. 1 \in 1 .. m - 1
    BY <1>3, <2>2
  <2>4. t[1] = q[2] /\ Follows(q[1], q[2]) /\ t # <<>>
    <3>1. t[1] = q[1 + 1] /\ Follows(q[1], q[1 + 1])
      BY <1>3, <1>4, <2>3
    <3>2. t # <<>>
      BY <1>3, <2>3
    <3> QED BY <3>1, <3>2
  <2> QED BY <2>1, <2>4 DEF Follows, FirstCloses
<1>10. Unfilled(q, f) => ~FirstCloses(t, f)
  <2> SUFFICES ASSUME Unfilled(q, f), FirstCloses(t, f) PROVE FALSE
    OBVIOUS
  <2>1. t # <<>> /\ t[1].op = "CLOSE_FILE" /\ t[1].f = f
    BY DEF FirstCloses
  <2>2. 1 \in 1 .. m - 1 /\ 1 \in 1 .. m
    BY <1>3, <2>1
  <2>3. t[1] = q[1 + 1] /\ Follows(q[1], q[1 + 1])
    BY <1>3, <1>4, <2>2
  <2>4. q[1].op = "WRITE_FILE" /\ q[1].f = f
    BY <2>1, <2>3 DEF Follows
  <2> QED BY <1>2, <2>2, <2>4 DEF Unfilled, Fills
<1> QED BY <1>2, <1>6, <1>7, <1>8, <1>9, <1>10

LEMMA FillsLast ==
  ASSUME NEW S, NEW q \in Seq(S), NEW r \in Seq(S), NEW f, NEW v, NEW p \in 1 .. Len(r), FilledAt(r, f, v, p)
  PROVE  Len(q) + p \in 1 .. Len(q \o r) /\ FilledAt(q \o r, f, v, Len(q) + p)
<1>1. /\ q \o r \in Seq(S) /\ Len(q) \in Nat /\ Len(r) \in Nat /\ Len(q \o r) = Len(q) + Len(r)
      /\ \A k \in 1 .. Len(r) : (q \o r)[Len(q) + k] = r[k]
      /\ \A k \in 1 .. Len(q) + Len(r) : k \in 1 .. Len(q) \/ (k - Len(q) \in 1 .. Len(r) /\ (q \o r)[k] = r[k - Len(q)])
  BY JoinFacts
<1>2. Len(q) + p \in 1 .. Len(q \o r) /\ (q \o r)[Len(q) + p] = r[p]
  BY <1>1
<1>3. ASSUME NEW k \in 1 .. Len(q \o r), k > Len(q) + p PROVE ~Fills((q \o r)[k], f)
  <2>1. k - Len(q) \in 1 .. Len(r) /\ (q \o r)[k] = r[k - Len(q)] /\ k - Len(q) > p
    BY <1>1, <1>3
  <2> QED BY <2>1 DEF FilledAt
<1> QED BY <1>2, <1>3 DEF FilledAt

LEMMA FillsStay ==
  ASSUME NEW S, NEW q \in Seq(S), NEW r \in Seq(S), NEW f, NEW v, NEW p \in 1 .. Len(q), FilledAt(q, f, v, p),
         Unfilled(r, f)
  PROVE  p \in 1 .. Len(q \o r) /\ FilledAt(q \o r, f, v, p)
<1>1. /\ q \o r \in Seq(S) /\ Len(q) \in Nat /\ Len(r) \in Nat /\ Len(q \o r) = Len(q) + Len(r)
      /\ \A k \in 1 .. Len(q) : (q \o r)[k] = q[k]
      /\ \A k \in 1 .. Len(q) + Len(r) : k \in 1 .. Len(q) \/ (k - Len(q) \in 1 .. Len(r) /\ (q \o r)[k] = r[k - Len(q)])
  BY JoinFacts
<1>2. p \in 1 .. Len(q \o r) /\ (q \o r)[p] = q[p]
  BY <1>1
<1>3. \A k \in 1 .. Len(q \o r) : k > p => ~Fills((q \o r)[k], f)
  BY <1>1 DEF FilledAt, Unfilled
<1> QED BY <1>2, <1>3 DEF FilledAt

(* A command is sent: it stays, or is the first no more. *)
LEMMA ArriveSends ==
  ASSUME KnownInv, NEW g \in Groups, Modes[g] = "MOD", snd[g].cmd # NoCommand, Sends(g), ~alarmed',
         "rename" \notin dirty', NEW f \in Files, NEW n, Arriving(Pending(g), srv[g], f, n)
  PROVE  Arriving(Pending(g)', srv'[g], f, n)
<1>0. PICK c : c = snd[g].cmd
  OBVIOUS
<1>1. PICK q, s, r, t : q = Pending(g) /\ s = srv[g] /\ r = Pending(g)' /\ t = srv'[g]
  OBVIOUS
<1>2. /\ c \in Commands /\ q \in Seq(Commands) /\ q # <<>> /\ q[1] = c /\ 1 \in 1 .. Len(q)
      /\ MachineType(s, Versions) /\ OwnHandles(s) /\ Shaped(q, FALSE) /\ Arriving(q, s, f, n)
  BY <1>0, <1>1, HeadIs
<1>3. t = s \/ \E o \in Work(s, c) : t = o.srv
  BY <1>0, <1>1 DEF Sends, Answered
<1>4. r = q \/ (r = Tail(q) /\ \E o \in Work(s, c) : t = o.srv /\ o.ret >= 0 /\ o.bad = 0)
  BY <1>0, <1>1 DEF Sends, CarriedOut
<1> SUFFICES Arriving(r, t, f, n)
  BY <1>1
<1>5. ~About(c, f) => t.disk[Final(f)] = s.disk[Final(f)]
  <2> SUFFICES ASSUME ~About(c, f), NEW o \in Work(s, c), t = o.srv PROVE t.disk[Final(f)] = s.disk[Final(f)]
    BY <1>3
  <2>1. FileKept(s, o.srv, f)
    BY <1>2, WorkSpares
  <2> QED BY <2>1 DEF FileKept
<1>6. FirstCloses(q, f) => c.op = "CLOSE_FILE" /\ c.f = f /\ c.all = FALSE
  BY <1>2 DEF FirstCloses, Shaped
<1>7. FirstCloses(q, f) /\ Closing(s, f, n) => Closing(t, f, n)
  BY <1>2, <1>3, <1>6, CloseHas
<1>8. Unfilled(q, f) /\ ~FirstCloses(q, f) => ~About(c, f)
  BY <1>2 DEF Unfilled, Fills, FirstCloses, About
<1>9. CASE r = q
  <2>1. CASE Coming(q, s, f, n)
    <3>1. PICK p \in 1 .. Len(q) : FilledAt(q, f, Version(n), p) /\ (p = 1 => Opened(s, f))
      BY <2>1 DEF Coming
    <3>2. p = 1 => Opened(t, f)
      <4> SUFFICES ASSUME p = 1, NEW o \in Work(s, c), t = o.srv PROVE Opened(t, f)
        BY <1>3, <3>1
      <4>1. c.op = "WRITE_FILE" /\ c.f = f /\ c.data = Version(n)
        BY <1>2, <3>1 DEF FilledAt
      <4> QED BY <1>2, <3>1, <4>1, WriteHas
    <3> QED BY <1>9, <3>1, <3>2 DEF Arriving, Coming
  <2>2. CASE Landed(q, s, f, n)
    <3>1. CASE FirstCloses(q, f)
      BY <1>7, <1>9, <2>2, <3>1 DEF Landed, Arriving
    <3>2. CASE ~FirstCloses(q, f)
      BY <1>5, <1>8, <1>9, <2>2, <3>2 DEF Landed, Arriving, Has, Exists
    <3> QED BY <3>1, <3>2
  <2> QED BY <1>2, <2>1, <2>2 DEF Arriving
<1>10. ASSUME r = Tail(q), NEW o \in Work(s, c), t = o.srv, o.ret >= 0, o.bad = 0
       PROVE  Arriving(r, t, f, n)
  <2>1. CASE Coming(q, s, f, n)
    <3>1. PICK p \in 1 .. Len(q) : FilledAt(q, f, Version(n), p) /\ (p = 1 => Opened(s, f))
      BY <2>1 DEF Coming
    <3>2. CASE p = 1
      <4>1. c.op = "WRITE_FILE" /\ c.f = f /\ c.data = Version(n) /\ Opened(s, f)
        BY <1>2, <3>1, <3>2 DEF FilledAt
      <4>2. Has(t, Df(f), n)
        BY <1>2, <1>10, <4>1, WriteHas
      <4>3. Unfilled(r, f) /\ FirstCloses(r, f)
        BY <1>2, <1>10, <3>1, <3>2, ComesNext
      <4> QED BY <4>2, <4>3 DEF Arriving, Landed, Closing
    <3>3. CASE p # 1
      <4>0. PICK v : v = Version(n)
        OBVIOUS
      <4>1. /\ p - 1 \in 1 .. Len(r) /\ FilledAt(r, f, v, p - 1)
            /\ p - 1 = 1 => q[1].op = "OPEN_FILE" /\ q[1].f = f
        <5>1. p \in 1 .. Len(q) /\ p # 1 /\ FilledAt(q, f, v, p)
          BY <3>1, <3>3, <4>0
        <5>2. q \in Seq(Commands) /\ q # <<>> /\ Shaped(q, FALSE)
          BY <1>2
        <5>3. \A k \in 1 .. Len(q) : k # 1 /\ FilledAt(q, f, v, k) =>
                /\ k - 1 \in 1 .. Len(Tail(q)) /\ FilledAt(Tail(q), f, v, k - 1)
                /\ k - 1 = 1 => q[1].op = "OPEN_FILE" /\ q[1].f = f
          BY <5>2, ComesNext
        <5> QED BY <1>10, <5>1, <5>3
      <4>2. p - 1 = 1 => Opened(t, f)
        BY <1>2, <1>10, <4>1, OpenStages DEF Opened
      <4> QED BY <4>0, <4>1, <4>2 DEF Arriving, Coming
    <3> QED BY <3>2, <3>3
  <2>2. CASE Landed(q, s, f, n)
    <3>1. Unfilled(r, f) /\ ~FirstCloses(r, f)
      BY <1>2, <1>10, <2>2, ComesNext DEF Landed
    <3>2. CASE FirstCloses(q, f)
      <4>1. Has(t, Final(f), n)
        BY <1>2, <1>6, <1>10, <2>2, <3>2, CloseHas DEF Landed
      <4> QED BY <3>1, <4>1 DEF Arriving, Landed
    <3>3. CASE ~FirstCloses(q, f)
      BY <1>5, <1>8, <2>2, <3>1, <3>3 DEF Landed, Arriving, Has, Exists
    <3> QED BY <3>2, <3>3
  <2> QED BY <1>2, <2>1, <2>2 DEF Arriving
<1> QED BY <1>4, <1>9, <1>10

(* One step, for one file of a MOD group. *)
LEMMA ArriveMoves ==
  ASSUME KnownInv, NEW g \in Groups, Modes[g] = "MOD", Moves(g), ~alarmed', "rename" \notin dirty',
         crashes' = crashes, ~ClientCrash, NEW f \in Files, NEW n, list = n, Arriving(Pending(g), srv[g], f, n)
  PROVE  Arriving(Pending(g)', srv'[g], f, n)
<1>1. /\ Pending(g) \in Seq(Commands) /\ MachineType(srv[g], Versions) /\ OwnHandles(srv[g])
      /\ Shaped(Pending(g), FALSE)
  BY ServerTyped DEF KnownInv, HandlesInv, ShapeInv
<1>2. PICK q, s, r, t : q = Pending(g) /\ s = srv[g] /\ r = Pending(g)' /\ t = srv'[g]
  OBVIOUS
<1>3. /\ q \in Seq(Commands) /\ MachineType(s, Versions) /\ OwnHandles(s) /\ Shaped(q, FALSE)
      /\ Arriving(q, s, f, n)
  BY <1>1, <1>2
<1> SUFFICES Arriving(r, t, f, n)
  BY <1>2
<1>4. CASE Quiet(g)
  BY <1>2, <1>3, <1>4 DEF Quiet
<1>5. ASSUME NEW cmds \in Seq(Commands), Pushes(g, cmds)
      PROVE  Arriving(r, t, f, n)
  <2>1. r = q \o cmds /\ t = s
    BY <1>2, <1>5 DEF Pushes
  <2>2. cmds # <<>> /\ cmds[1].op # "CLOSE_FILE"
    <3>1. CASE cmds = StartCommands \/ cmds = EndCommands
      BY <3>1 DEF StartCommands, EndCommands
    <3>2. ASSUME NEW k \in Files, cmds = FileCommands(k, Version(list), Modes[g] = "ALL")
          PROVE  cmds # <<>> /\ cmds[1].op # "CLOSE_FILE"
      BY <3>2 DEF FileCommands
    <3> QED BY <1>5, <3>1, <3>2 DEF Pushes
  <2>3. Unfilled(cmds, f) \/ (FilledAt(cmds, f, Version(n), 2) /\ 2 \in 1 .. Len(cmds))
    <3>1. CASE cmds = StartCommands \/ cmds = EndCommands
      BY <3>1 DEF Unfilled, Fills, StartCommands, EndCommands
    <3>2. ASSUME NEW k \in Files, cmds = FileCommands(k, Version(list), Modes[g] = "ALL")
          PROVE  Unfilled(cmds, f) \/ (FilledAt(cmds, f, Version(n), 2) /\ 2 \in 1 .. Len(cmds))
      BY <3>2, FileFills
    <3> QED BY <1>5, <3>1, <3>2 DEF Pushes
  <2>4. CASE FilledAt(cmds, f, Version(n), 2) /\ 2 \in 1 .. Len(cmds)
    <3>1. Len(q) + 2 \in 1 .. Len(r) /\ FilledAt(r, f, Version(n), Len(q) + 2)
      BY <1>3, <2>1, <2>4, FillsLast
    <3>2. Len(q) + 2 # 1
      BY <1>3, JoinFacts
    <3> QED BY <3>1, <3>2 DEF Arriving, Coming
  <2>5. CASE Unfilled(cmds, f)
    <3>1. CASE Coming(q, s, f, n)
      <4>1. PICK p \in 1 .. Len(q) : FilledAt(q, f, Version(n), p) /\ (p = 1 => Opened(s, f))
        BY <3>1 DEF Coming
      <4>2. p \in 1 .. Len(r) /\ FilledAt(r, f, Version(n), p)
        BY <1>3, <2>1, <2>5, <4>1, FillsStay
      <4> QED BY <2>1, <4>1, <4>2 DEF Arriving, Coming
    <3>2. CASE Landed(q, s, f, n)
      <4>1. Unfilled(r, f)
        BY <1>3, <2>1, <2>5, <3>2, FillsJoin DEF Landed
      <4>2. FirstCloses(r, f) <=> FirstCloses(q, f)
        <5>1. CASE q = <<>>
          BY <1>5, <2>1, <2>2, <5>1, EmptyConcat DEF FirstCloses
        <5>2. CASE q # <<>>
          <6>1. 1 \in 1 .. Len(q) /\ Len(r) = Len(q) + Len(cmds) /\ Len(cmds) \in Nat /\ Len(q) \in Nat \ {0}
            BY <1>3, <1>5, <2>1, <5>2, EmptySeq, JoinFacts
          <6>2. r[1] = q[1]
            BY <1>3, <2>1, <6>1, JoinFacts
          <6>3. r # <<>>
            BY <6>1
          <6> QED BY <5>2, <6>2, <6>3 DEF FirstCloses
        <5> QED BY <5>1, <5>2
      <4> QED BY <2>1, <3>2, <4>1, <4>2 DEF Landed, Arriving
    <3> QED BY <1>3, <3>1, <3>2 DEF Arriving
  <2> QED BY <2>3, <2>4, <2>5
<1>6. CASE snd[g].cmd # NoCommand /\ Sends(g)
  BY <1>1, <1>2, <1>3, <1>6, ArriveSends
<1>7. CASE IsChecked(g)
  BY <1>7 DEF IsChecked, Check, KnownInv, ThreadInv, StageInv
<1>8. CASE WorksAlone(g)
  <2>1. r = q /\ Hashes(s, t)
    BY <1>2, <1>8 DEF WorksAlone
  <2>2. /\ t.disk[Df(f)] = s.disk[Df(f)] /\ t.disk[Final(f)] = s.disk[Final(f)]
        /\ t.m_mapNameFile = s.m_mapNameFile
    BY <1>3, <2>1, HashesHas
  <2> QED BY <1>3, <2>1, <2>2, ArrivesAlike
<1> QED BY <1>4, <1>5, <1>6, <1>7, <1>8 DEF Moves, Forgets

(* A list was taken; the files that were sent for a group, or left out. *)
Taken == list > 0 /\ "list" \notin names
ModSent(g, i) == lst.at \in {"wait", "finish"} \/ g < lst.g \/ (g = lst.g /\ i <= Handled)

ModInv ==
  crashes = 0 /\ ~alarmed /\ "rename" \notin dirty /\ Taken =>
    \A g \in Groups : Modes[g] = "MOD" =>
      \A i \in 1 .. Len(Lines) :
        ModSent(g, i) /\ Lines[i] \notin missing => Arriving(Pending(g), srv[g], Lines[i], list)

Undisturbed ==
  /\ crashes = 0 /\ ~alarmed /\ "rename" \notin dirty /\ Taken /\ UNCHANGED <<list, missing, crashes>>
  /\ ~ClientCrash /\ ~MonitorList

LEMMA ModBefore ==
  ASSUME KnownInv, [Next]_vars, crashes' = 0, ~alarmed', "rename" \notin dirty', Taken'
  PROVE  ListBegins \/ Undisturbed
<1>0. crashes \in Nat /\ \A n \in Nat : n + 1 # 0
  <2>1. \A n \in 0 .. scene.crashes : n \in Nat
    OBVIOUS
  <2> QED BY <2>1 DEF KnownInv, Inv, RestType
<1>1. ~ClientCrash
  BY <1>0 DEF ClientCrash
<1>2. CASE /\ UNCHANGED <<list, missing, crashes, names>>
           /\ dirty \subseteq dirty' /\ (alarmed => alarmed') /\ ~MonitorList
  BY <1>1, <1>2 DEF Undisturbed, Taken
<1>3. CASE ListArrives
  BY <1>3 DEF ListArrives, Taken
<1>4. CASE Finish
  <2>1. UNCHANGED <<list, missing, crashes, alarmed, dirty>> /\ ("list" \in names => "list" \in names') /\ ~MonitorList
    BY <1>4 DEF Finish, MonitorList, bounds, history
  <2> QED BY <1>1, <2>1 DEF Undisturbed, Taken
<1>5. CASE MonitorList
  <2>1. crashes' = crashes /\ lst.at = "wait"
    BY <1>5 DEF MonitorList, bounds
  <2>2. ~Resumes
    BY <2>1 DEF Resumes, KnownInv, ThreadInv, RestartInv
  <2> QED BY <1>5, <2>2 DEF MonitorList, ListBegins
<1>6. CASE Check
  <2>1. alarmed => alarmed'
    BY <1>6 DEF Check, CheckAnswered, CheckFailed
  <2> QED BY <1>2, <1>6, <2>1 DEF Check, MonitorList
<1>7. CASE Work_StartList \/ SkipFile \/ SendFile \/ BuildLocalMd5 \/ FilesEnd \/ Drain \/ TakeMd5 \/ Work_CloseList
  <2>1. UNCHANGED <<list, missing, crashes, names, alarmed, dirty>> /\ lst.at # "wait"
    BY <1>7 DEF Work_StartList, SkipFile, SendFile, BuildLocalMd5, FilesEnd, Drain, TakeMd5, Work_CloseList,
                disk, bounds, history
  <2> QED BY <1>2, <2>1 DEF MonitorList
<1>8. ASSUME NEW g \in Groups, ServerThread(g) \/ SendLost(g) \/ Md5Thread(g) \/ ServerCrash(g)
      PROVE  ListBegins \/ Undisturbed
  <2>1. CASE PopCommand(g) \/ Md5Thread(g)
    BY <1>2, <1>5, <2>1 DEF PopCommand, Md5Thread, disk, bounds, history
  <2>2. CASE Send(g) \/ SendLost(g)
    <3>1. Sends(g)
      BY <2>2, SendsOn DEF KnownInv
    <3> QED BY <1>2, <1>5, <3>1 DEF Sends
  <2>3. CASE ServerCrash(g)
    BY <1>0, <2>3 DEF ServerCrash
  <2> QED BY <1>8, <2>1, <2>2, <2>3 DEF ServerThread
<1>9. CASE UNCHANGED vars
  BY <1>2, <1>5, <1>9 DEF vars, disk, bounds, history
<1> QED BY <1>1, <1>3, <1>4, <1>5, <1>6, <1>7, <1>8, <1>9 DEF Next, ListThread

LEMMA ModGrows ==
  ASSUME KnownInv, [Next]_vars, Undisturbed, ~alarmed', NEW g \in Groups, Modes[g] = "MOD",
         NEW i \in 1 .. Len(Lines), Lines[i] \notin missing, ModSent(g, i)'
  PROVE  ModSent(g, i) \/ (SendFile /\ lst.g = g /\ lst.i = i)
<1>0. /\ lst \in ListStates /\ lst.i \in Nat \ {0} /\ lst.g \in Int /\ g \in Int /\ i \in Nat \ {0} /\ Len(Lines) \in Nat
      /\ i <= Len(Lines) /\ lst.skip = 0 /\ Groups = 1 .. Len(Modes) /\ Len(Modes) \in Nat /\ g <= Len(Modes)
  <2>1. lst.skip = 0
    BY DEF Undisturbed, KnownInv, ThreadInv, RestartInv
  <2>2. Groups = 1 .. Len(Modes) /\ Len(Modes) \in Nat
    BY SceneFacts DEF KnownInv, Inv, ClientInv
  <2> QED BY <2>1, <2>2, ThreadTyped
<1>1. CASE lst'.g = lst.g /\ Handled' = Handled /\ (lst'.at \in {"wait", "finish"} => lst.at \in {"wait", "finish"})
  BY <1>1 DEF ModSent
<1>2. CASE lst' = lst
  BY <1>1, <1>2 DEF Handled
<1>3. CASE Work_StartList
  <2>1. lst.at = "start" /\ lst'.at = "file" /\ lst'.g = lst.g /\ lst.i = 1 /\ lst'.i = 1
    BY <1>0, <1>3 DEF Work_StartList, ListStates, KnownInv, ThreadInv, StageInv
  <2> QED BY <1>1, <2>1 DEF Handled
<1>4. CASE SkipFile
  <2>1. lst.at = "file" /\ lst'.at = "file" /\ lst'.g = lst.g /\ lst'.i = lst.i + 1 /\ Skipped(lst.i)
    BY <1>0, <1>4 DEF SkipFile, ListStates
  <2>2. Handled = lst.i - 1 /\ Handled' = (lst.i + 1) - 1
    BY <2>1 DEF Handled
  <2>3. Lines[lst.i] \in missing
    BY <1>0, <2>1 DEF Skipped
  <2>4. i <= (lst.i + 1) - 1 => i <= lst.i - 1
    BY <1>0, <2>3
  <2> QED BY <2>1, <2>2, <2>4 DEF ModSent
<1>5. CASE SendFile
  <2>1. /\ lst.at = "file" /\ lst'.g = lst.g
        /\ \/ Modes[lst.g] = "ALL" /\ lst'.at = "md5"
           \/ lst'.at = "file" /\ lst'.i = lst.i + 1
    BY <1>0, <1>5 DEF SendFile, ListStates
  <2>2. CASE g # lst.g
    BY <2>1, <2>2 DEF ModSent
  <2>3. CASE g = lst.g
    <3>1. lst'.at = "file" /\ lst'.i = lst.i + 1
      BY <2>1, <2>3
    <3>2. Handled = lst.i - 1 /\ Handled' = (lst.i + 1) - 1
      BY <2>1, <3>1 DEF Handled
    <3>3. i <= (lst.i + 1) - 1 => i <= lst.i - 1 \/ lst.i = i
      BY <1>0
    <3>4. ~(g < lst'.g)
      BY <1>0, <2>1, <2>3
    <3> QED BY <1>5, <2>1, <2>3, <3>1, <3>2, <3>3, <3>4 DEF ModSent
  <2> QED BY <2>2, <2>3
<1>6. CASE BuildLocalMd5
  <2>1. lst.at = "md5" /\ lst'.at = "file" /\ lst'.g = lst.g
    BY <1>0, <1>6 DEF BuildLocalMd5, ListStates
  <2>2. g # lst.g
    BY <2>1 DEF KnownInv, ThreadInv, StageInv
  <2> QED BY <2>1, <2>2 DEF ModSent
<1>7. CASE FilesEnd \/ Drain
  <2>1. lst'.g = lst.g /\ lst'.i = lst.i /\ lst.at # "md5" /\ lst'.at \in {"drain", "end", "verify"}
    <3>1. CASE FilesEnd
      BY <1>0, <3>1 DEF FilesEnd, ListStates
    <3>2. CASE Drain
      BY <1>0, <3>2 DEF Drain, ListStates
    <3> QED BY <1>7, <3>1, <3>2
  <2> QED BY <1>1, <2>1 DEF Handled
<1>8. CASE TakeMd5
  <2>1. lst'.g = lst.g /\ lst'.i = lst.i /\ lst.at # "md5" /\ lst'.at \in {"check", "end"}
    <3>1. \/ lst' = [lst EXCEPT !.at = "end"]
          \/ \E f \in lst.todo :
               lst' = [lst EXCEPT !.at = "check", !.todo = @ \ {f}, !.f = f, !.hash = md5s[f]]
      BY <1>8 DEF TakeMd5
    <3> QED BY <1>0, <1>8, <3>1 DEF TakeMd5, ListStates
  <2> QED BY <1>1, <2>1 DEF Handled
<1>9. CASE Check
  <2>1. lst' = lst \/ lst' = [lst EXCEPT !.at = "verify", !.f = NoFile, !.hash = 0]
    BY <1>9 DEF Check, CheckAnswered, CheckFailed
  <2>2. CASE lst' = [lst EXCEPT !.at = "verify", !.f = NoFile, !.hash = 0]
    <3>1. lst'.g = lst.g /\ lst'.i = lst.i /\ lst.at # "md5" /\ lst'.at = "verify"
      BY <1>0, <1>9, <2>2 DEF Check, ListStates
    <3> QED BY <1>1, <3>1 DEF Handled
  <2> QED BY <1>2, <2>1, <2>2
<1>10. CASE Work_CloseList
  <2>1. lst.at = "end" /\ lst' = NextGroup(lst)
    BY <1>10 DEF Work_CloseList
  <2>2. Handled = Len(Lines)
    <3>1. Handled = (Len(Lines) + 1) - 1
      BY <2>1 DEF Handled, KnownInv, ThreadInv, StageInv
    <3> QED BY <1>0, <3>1
  <2>3. g <= lst.g => ModSent(g, i)
    <3>1. g <= lst.g => g < lst.g \/ g = lst.g
      BY <1>0
    <3> QED BY <1>0, <2>2, <3>1 DEF ModSent
  <2>4. CASE lst.g < Len(Modes)
    <3>1. lst'.g = lst.g + 1 /\ lst'.at = "start" /\ lst'.i = 1
      BY <2>1, <2>4 DEF NextGroup, ThreadAt
    <3>2. Handled' = 0
      BY <3>1 DEF Handled
    <3>3. g < lst.g + 1 \/ i <= 0
      BY <3>1, <3>2 DEF ModSent
    <3>4. g <= lst.g
      BY <1>0, <3>3
    <3> QED BY <2>3, <3>4
  <2>5. CASE ~(lst.g < Len(Modes))
    <3>1. g <= lst.g
      BY <1>0, <2>5
    <3> QED BY <2>3, <3>1
  <2> QED BY <2>4, <2>5
<1>11. CASE Finish
  BY <1>11 DEF Finish, ModSent
<1>12. CASE ListArrives \/ UNCHANGED vars \/ \E h \in Groups : ServerThread(h) \/ SendLost(h) \/ Md5Thread(h) \/ ServerCrash(h)
  BY <1>2, <1>12 DEF ListArrives, ServerThread, PopCommand, Send, SendLost, Md5Thread, ServerCrash, vars, client
<1> QED BY <1>3, <1>4, <1>5, <1>6, <1>7, <1>8, <1>9, <1>10, <1>11, <1>12 DEF Next, ListThread, Undisturbed

LEMMA ModNext == ASSUME KnownInv, ModInv, [Next]_vars PROVE ModInv'
<1>0. scene' = scene /\ Modes' = Modes /\ Groups' = Groups
  BY AnyMoves, SceneStays DEF KnownInv
<1> SUFFICES ASSUME crashes' = 0, ~alarmed', "rename" \notin dirty', Taken', NEW g \in Groups, Modes[g] = "MOD",
                    NEW i \in 1 .. Len(Lines), ModSent(g, i)', Lines[i] \notin missing'
             PROVE  Arriving(Pending(g)', srv'[g], Lines[i], list')
  BY <1>0 DEF ModInv
<1>1. CASE ListBegins
  <2>1. lst'.at = "start" /\ lst'.g = 1 /\ lst'.i = 1
    BY <1>1 DEF ListBegins, ThreadAt
  <2>2. Handled' = 0
    BY <2>1 DEF Handled
  <2>3. ~(g < 1) /\ ~(i <= 0)
    BY SceneFacts, ThreadTyped DEF KnownInv, Inv, ClientInv
  <2> QED BY <2>1, <2>2, <2>3 DEF ModSent
<1>2. CASE Undisturbed
  <2>1. /\ list' = list /\ missing' = missing /\ crashes' = crashes /\ ~ClientCrash
        /\ crashes = 0 /\ ~alarmed /\ "rename" \notin dirty /\ Taken /\ Lines[i] \in Files /\ Moves(g)
    BY <1>2, AnyMoves, SceneFacts DEF Undisturbed, KnownInv, Inv, ClientInv
  <2>2. CASE ModSent(g, i)
    <3>1. Arriving(Pending(g), srv[g], Lines[i], list)
      BY <2>1, <2>2 DEF ModInv
    <3>2. PICK n, f : n = list /\ f = Lines[i]
      OBVIOUS
    <3>3. Arriving(Pending(g)', srv'[g], f, n)
      BY <2>1, <3>1, <3>2, ArriveMoves
    <3> QED BY <2>1, <3>2, <3>3
  <2>3. CASE SendFile /\ lst.g = g /\ lst.i = i
    <3>1. PICK cmds, v, f : cmds = FileCommands(f, v, Modes[lst.g] = "ALL") /\ v = Version(list) /\ f = Lines[i]
      OBVIOUS
    <3>2. PICK q, r : q = Pending(g) /\ r = Pending(g)'
      OBVIOUS
    <3>3. r = q \o cmds /\ v \in Seq(1 .. scene.lists) /\ f \in Files
      BY <2>3, <3>1, <3>2, PendsSend DEF KnownInv, Inv
    <3>4. cmds \in Seq(Commands) /\ q \in Seq(Commands)
      <4>1. (Modes[lst.g] = "ALL") \in BOOLEAN
        OBVIOUS
      <4> QED BY <3>1, <3>2, <3>3, <4>1, CommandsTyped, ServerTyped DEF KnownInv
    <3>5. FilledAt(cmds, f, v, 2) /\ 2 \in 1 .. Len(cmds)
      BY <3>1, FileFills
    <3>6. Len(q) + 2 \in 1 .. Len(r) /\ FilledAt(r, f, v, Len(q) + 2)
      BY <3>3, <3>4, <3>5, FillsLast
    <3>7. Len(q) + 2 # 1
      BY <3>4, JoinFacts
    <3>8. Coming(r, srv'[g], f, list)
      BY <3>1, <3>6, <3>7 DEF Coming
    <3> QED BY <2>1, <3>1, <3>2, <3>8 DEF Arriving
  <2> QED BY <1>2, <2>1, <2>2, <2>3, ModGrows
<1> QED BY <1>1, <1>2, ModBefore

(* The files of a MOD group arrive: at rest, when nobody was killed, nothing was given up and no rename failed
   (a CLOSE answers that with 0, so that nobody hears of it), the data of the last list is under the name of
   every file that could be read, however many requests and answers were lost. *)
THEOREM ModFilesArrive == Spec => []ModArrives
<1> DEFINE Arrives == KnownInv /\ ModInv
<1>1. Init => Arrives
  <2>1. Init => ModInv
    <3> SUFFICES ASSUME Init PROVE ~Taken
      BY DEF ModInv
    <3> QED BY DEF Init, Taken
  <2> QED BY <2>1, KnownInit
<1>2. Arrives /\ [Next]_vars => Arrives'
  BY KnownNext, ModNext
<1>3. Arrives => ModArrives
  <2> SUFFICES ASSUME KnownInv, ModInv, Rest, list > 0, ~alarmed, crashes = 0, "rename" \notin dirty,
                      NEW g \in Groups, Modes[g] = "MOD", NEW f \in Readable
               PROVE  Has(srv[g], Final(f), list)
    BY DEF ModArrives, Has
  <2>1. Taken
    BY DEF Rest, Taken
  <2>2. PICK i \in 1 .. Len(Lines) : f = Lines[i]
    BY ListTransferAssumption DEF Readable, ToSet
  <2>3. Arriving(Pending(g), srv[g], f, list)
    BY <2>1, <2>2 DEF ModInv, ModSent, Rest, Readable
  <2>4. Pending(g) = <<>>
    BY PendingNone DEF Rest, KnownInv, Inv, ClientInv
  <2> QED BY <2>3, <2>4 DEF Arriving, Coming, Landed, FirstCloses
<1> HIDE DEF Arrives
<1> QED BY <1>1, <1>2, <1>3, PTL DEF Spec

-----------------------------------------------------------------------------
(* The local .md5 files: those to be checked are there, and as long as no check failed they are of the files
   of this list. *)
NoMd5s == \A f \in Files : md5s[f] = 0
TodoInv == lst.at \in {"verify", "check"} => \A f \in lst.todo : md5s[f] # 0
TrueMd5s ==
  /\ \A f \in Files : md5s[f] \in {0, list}
  /\ lst.at = "check" => lst.hash = list
  /\ lst.at = "finish" \/ "Ready" \notin names => NoMd5s
Md5Inv == TodoInv /\ (sound => TrueMd5s)

LEMMA SoundBefore == ASSUME [Next]_vars, sound' PROVE sound
<1>1. CASE ListThread
  BY <1>1 DEF ListThread, MonitorList, Work_StartList, SkipFile, SendFile, BuildLocalMd5, FilesEnd, Drain, TakeMd5,
              Check, CheckAnswered, CheckFailed, Work_CloseList, Finish, history
<1>2. CASE ListArrives \/ ClientCrash \/ UNCHANGED vars
  BY <1>2 DEF ListArrives, ClientCrash, history, vars
<1>3. CASE \E g \in Groups : ServerThread(g) \/ SendLost(g) \/ Md5Thread(g) \/ ServerCrash(g)
  BY <1>3 DEF ServerThread, PopCommand, Send, SendLost, Md5Thread, ServerCrash, history
<1> QED BY <1>1, <1>2, <1>3 DEF Next

LEMMA Md5Next == ASSUME KnownInv, Md5Inv, [Next]_vars PROVE Md5Inv'
<1>0. /\ lst \in ListStates /\ md5s \in [Files -> 0 .. scene.lists] /\ lst.i \in Nat /\ list \in Nat /\ list \in 0 .. scene.lists
      /\ lst.at # "wait" => "Ready" \in names
  BY ThreadTyped, SceneFacts DEF KnownInv, Inv, ClientInv, NamesType, SceneType, ListType
<1>1. CASE UNCHANGED <<lst, md5s, list>> /\ ("Ready" \in names => "Ready" \in names')
  BY <1>1, SoundBefore DEF Md5Inv, TodoInv, TrueMd5s, NoMd5s
<1>2. CASE ListArrives
  <2>1. /\ UNCHANGED <<lst, md5s, sound>> /\ "Ready" \notin names
        /\ lst.at = "wait"
    BY <1>0, <1>2 DEF ListArrives, client, history
  <2>2. sound => NoMd5s
    BY <2>1 DEF Md5Inv, TrueMd5s
  <2> QED BY <2>1, <2>2 DEF Md5Inv, TodoInv, TrueMd5s, NoMd5s
<1>3. CASE MonitorList \/ ClientCrash
  <2>1. /\ UNCHANGED <<md5s, list>> /\ lst'.at \in {"start", "wait"} /\ ("Ready" \in names => "Ready" \in names')
    BY <1>3 DEF MonitorList, ClientCrash, Waiting, ThreadAt, disk, bounds
  <2> QED BY <2>1, SoundBefore DEF Md5Inv, TodoInv, TrueMd5s, NoMd5s
<1>4. CASE Work_StartList \/ SkipFile \/ SendFile \/ FilesEnd
  <2>1. UNCHANGED <<md5s, list, names, sound>> /\ lst'.at \in {"file", "md5", "drain", "end"}
    <3>1. CASE Work_StartList \/ SkipFile
      BY <1>0, <3>1 DEF Work_StartList, SkipFile, ListStates, disk, bounds, history
    <3>2. CASE SendFile \/ FilesEnd
      BY <1>0, <3>2 DEF SendFile, FilesEnd, ListStates, disk, bounds, history
    <3> QED BY <1>4, <3>1, <3>2
  <2>2. "Ready" \in names
    BY <1>0, <1>4 DEF Work_StartList, SkipFile, SendFile, FilesEnd
  <2> QED BY <2>1, <2>2 DEF Md5Inv, TodoInv, TrueMd5s
<1>5. CASE BuildLocalMd5
  <2>1. /\ UNCHANGED <<list, names, sound>> /\ lst'.at = "file" /\ md5s' = [md5s EXCEPT ![Lines[lst.i]] = list]
        /\ "Ready" \in names
    BY <1>0, <1>5 DEF BuildLocalMd5, ListStates, bounds, history
  <2>2. \A f \in Files : md5s'[f] = md5s[f] \/ md5s'[f] = list
    BY <1>0, <2>1
  <2> QED BY <2>1, <2>2 DEF Md5Inv, TodoInv, TrueMd5s
<1>6. CASE Drain
  <2>1. /\ UNCHANGED <<md5s, list, names, sound>> /\ lst'.at = "verify" /\ lst'.todo = {f \in Files : md5s[f] # 0}
        /\ "Ready" \in names
    BY <1>0, <1>6 DEF Drain, ListStates, disk, bounds, history
  <2> QED BY <2>1 DEF Md5Inv, TodoInv, TrueMd5s
<1>7. CASE TakeMd5
  <2>0. UNCHANGED <<list, names, sound>> /\ "Ready" \in names /\ lst.at = "verify" /\ lst.todo \subseteq Files
    BY <1>0, <1>7 DEF TakeMd5, ListStates, bounds, history
  <2>1. CASE lst' = [lst EXCEPT !.at = "end"] /\ UNCHANGED md5s
    <3>1. lst'.at = "end"
      BY <1>0, <2>1 DEF ListStates
    <3> QED BY <2>0, <2>1, <3>1 DEF Md5Inv, TodoInv, TrueMd5s
  <2>2. ASSUME NEW f \in lst.todo, md5s' = [md5s EXCEPT ![f] = 0],
               lst' = [lst EXCEPT !.at = "check", !.todo = @ \ {f}, !.f = f, !.hash = md5s[f]]
        PROVE  Md5Inv'
    <3>1. lst'.at = "check" /\ lst'.todo = lst.todo \ {f} /\ lst'.hash = md5s[f]
      BY <1>0, <2>2 DEF ListStates
    <3>2. md5s[f] # 0 /\ f \in Files
      BY <2>0 DEF Md5Inv, TodoInv
    <3>3. md5s'[f] = 0 /\ \A k \in Files : k # f => md5s'[k] = md5s[k]
      BY <1>0, <2>2, <3>2
    <3>4. TodoInv'
      BY <2>0, <3>1, <3>3 DEF Md5Inv, TodoInv
    <3>5. sound => TrueMd5s'
      BY <2>0, <3>1, <3>2, <3>3 DEF Md5Inv, TrueMd5s
    <3> QED BY <2>0, <3>4, <3>5 DEF Md5Inv
  <2> QED BY <1>7, <2>1, <2>2 DEF TakeMd5
<1>8. CASE Check
  <2>1. UNCHANGED <<md5s, list, names>> /\ "Ready" \in names
    BY <1>0, <1>8 DEF Check
  <2>2. CASE lst' = lst
    BY <1>1, <2>1, <2>2
  <2>3. CASE lst' = [lst EXCEPT !.at = "verify", !.f = NoFile, !.hash = 0]
    <3>1. lst'.at = "verify" /\ lst'.todo = lst.todo /\ lst.at = "check"
      BY <1>0, <1>8, <2>3 DEF Check, ListStates
    <3> QED BY <2>1, <3>1, SoundBefore DEF Md5Inv, TodoInv, TrueMd5s
  <2>4. CASE CheckFailed
    <3>1. ~sound' /\ lst'.at \in {"start", "finish"}
      BY <2>4, NextGroupIs DEF CheckFailed, KnownInv, Inv
    <3> QED BY <3>1 DEF Md5Inv, TodoInv
  <2> QED BY <1>8, <2>2, <2>3, <2>4 DEF Check, CheckAnswered
<1>9. CASE Work_CloseList
  <2>1. /\ UNCHANGED <<list, names, sound>> /\ lst'.at \in {"start", "finish"} /\ md5s' = [f \in Files |-> 0]
    BY <1>9, NextGroupIs DEF Work_CloseList, Work_MoveMD5File, KnownInv, Inv, bounds, history
  <2> QED BY <2>1 DEF Md5Inv, TodoInv, TrueMd5s, NoMd5s
<1>10. CASE Finish
  <2>1. UNCHANGED <<list, md5s, sound>> /\ lst'.at = "wait" /\ lst.at = "finish"
    BY <1>10 DEF Finish, Waiting, ThreadAt, bounds, history
  <2> QED BY <2>1 DEF Md5Inv, TodoInv, TrueMd5s, NoMd5s
<1>11. CASE UNCHANGED vars \/ \E h \in Groups : ServerThread(h) \/ SendLost(h) \/ Md5Thread(h) \/ ServerCrash(h)
  BY <1>1, <1>11 DEF ServerThread, PopCommand, Send, SendLost, Md5Thread, ServerCrash, vars, client, disk, bounds
<1> QED BY <1>2, <1>3, <1>4, <1>5, <1>6, <1>7, <1>8, <1>9, <1>10, <1>11 DEF Next, ListThread

LEMMA Md5Init == Init => Md5Inv
BY DEF Init, Waiting, ThreadAt, Md5Inv, TodoInv, TrueMd5s, NoMd5s

(* What is held stays, in a list that was begun when the last one was carried out. *)
LEMMA HeldStays ==
  ASSUME KnownInv, FreshInv, Md5Inv, [Next]_vars, Clean, "early" \notin dirty, sound, ~alarmed', list' = list,
         NEW g \in Groups, Modes[g] = "ALL", NEW f \in Files, Held(srv[g], f, Now)
  PROVE  Held(srv'[g], f, Now')
<1>0. PICK v : v = Now /\ v = Now'
  BY DEF Now
<1>1. /\ Pending(g) \in Seq(Commands) /\ MachineType(srv[g], Versions) /\ OwnHandles(srv[g]) /\ Moves(g)
      /\ Held(srv[g], f, v)
  BY <1>0, ServerTyped, AnyMoves DEF KnownInv, HandlesInv
<1>2. CASE srv'[g] = srv[g]
  BY <1>0, <1>1, <1>2
<1>3. CASE snd[g].cmd # NoCommand /\ Answered(g)
  <2>1. PICK o \in Work(srv[g], snd[g].cmd) : srv'[g] = o.srv
    BY <1>3 DEF Answered
  <2>2. PICK c : c = snd[g].cmd
    OBVIOUS
  <2>3. /\ c \in Commands /\ (c.op = "CLOSE_FILE" => c.all = TRUE)
        /\ c.op = "WRITE_FILE" => Fresh(srv[g], c.f)
    <3>1. /\ c \in Commands /\ Pending(g) # <<>> /\ Pending(g)[1] = c /\ 1 \in 1 .. Len(Pending(g))
          /\ Shaped(Pending(g), Modes[g] = "ALL")
      BY <1>3, <2>2, HeadIs
    <3>2. FirstFresh(Pending(g), srv[g], "early" \in dirty, Now)
      BY DEF FreshInv
    <3> QED BY <3>1, <3>2 DEF Shaped, FirstFresh
  <2>4. CASE About(c, f)
    <3>0. PICK s : s = srv[g]
      OBVIOUS
    <3>1. c.f = f /\ o \in Work(s, c) /\ MachineType(s, Versions) /\ c \in Commands /\ Held(s, c.f, v)
      BY <1>1, <2>1, <2>2, <2>3, <2>4, <3>0 DEF About
    <3>2. CASE c.op = "OPEN_FILE"
      <4>1. Held(o.srv, c.f, v)
        BY <3>1, <3>2, OpenStages
      <4> QED BY <1>0, <2>1, <3>1, <4>1
    <3>3. CASE c.op = "WRITE_FILE"
      <4>1. Fresh(s, c.f)
        BY <2>3, <3>0, <3>3
      <4>2. Held(o.srv, c.f, v)
        BY <3>1, <3>3, <4>1, WriteStages
      <4> QED BY <1>0, <2>1, <3>1, <4>2
    <3>4. CASE c.op = "CLOSE_FILE"
      <4>1. c.all = TRUE
        BY <2>3, <3>4
      <4>2. Held(o.srv, c.f, v)
        BY <3>1, <3>4, <4>1, CloseStages
      <4> QED BY <1>0, <2>1, <3>1, <4>2
    <3> QED BY <2>4, <3>2, <3>3, <3>4 DEF About
  <2>5. CASE ~About(c, f)
    <3>1. FileKept(srv[g], o.srv, f)
      BY <1>1, <2>1, <2>2, <2>3, <2>5, WorkSpares
    <3>2. Held(o.srv, f, v)
      BY <1>1, <3>1, KeptStages
    <3> QED BY <1>0, <2>1, <3>2
  <2> QED BY <2>4, <2>5
<1>4. CASE IsChecked(g)
  <2>1. Version(lst.hash) = v
    BY <1>0, <1>4 DEF IsChecked, Check, Md5Inv, TrueMd5s, Now
  <2> QED BY <1>0, <1>1, <1>4, <2>1, CheckKeeps
<1>5. CASE WorksAlone(g)
  BY <1>0, <1>1, <1>5, AloneStages DEF WorksAlone
<1> QED BY <1>1, <1>2, <1>3, <1>4, <1>5 DEF Moves, Quiet, Pushes, Sends, Forgets

-----------------------------------------------------------------------------
(* The files of a group are closed, and counted, in the order of the list: when m are counted and the thread
   is done with the first h lines, each of these is in K or its CLOSE is pending. *)
IsClose(c) == c.op = "CLOSE_FILE"
Numbered(q, line, m, h, K) ==
  /\ \A p \in 1 .. Len(q) : IsClose(q[p]) => line[p] \in 1 .. h /\ Lines[line[p]] = q[p].f /\ m < line[p]
  /\ \A p, k \in 1 .. Len(q) : p < k /\ IsClose(q[p]) /\ IsClose(q[k]) => line[p] < line[k]
  /\ \A i \in 1 .. h : i \in K \/ \E p \in 1 .. Len(q) : IsClose(q[p]) /\ line[p] = i
Ordered(q, m, h, K) == \E line \in [1 .. Len(q) -> Nat] : Numbered(q, line, m, h, K)

LEMMA OrderedMore ==
  ASSUME NEW q, NEW h \in Nat, NEW m \in Nat, NEW n \in Nat, n <= m, NEW K, NEW L, K \cap 1 .. h \subseteq L,
         Ordered(q, m, h, K)
  PROVE  Ordered(q, n, h, L)
<1>1. PICK line \in [1 .. Len(q) -> Nat] : Numbered(q, line, m, h, K)
  BY DEF Ordered
<1>2. \A p \in 1 .. Len(q) : line[p] \in Nat /\ (m < line[p] => n < line[p])
  BY <1>1
<1>3. Numbered(q, line, n, h, L)
  BY <1>1, <1>2 DEF Numbered
<1> QED BY <1>3 DEF Ordered

LEMMA OrderedNone == ASSUME NEW m, NEW K PROVE Ordered(<<>>, m, 0, K)
<1>1. Numbered(<<>>, [p \in 1 .. Len(<<>>) |-> 0], m, 0, K)
  BY DEF Numbered
<1> QED BY <1>1 DEF Ordered

(* A line that is left out. *)
LEMMA OrderedSkips ==
  ASSUME NEW q, NEW m \in Nat, NEW h \in Nat, NEW K, h + 1 \in K, Ordered(q, m, h, K)
  PROVE  Ordered(q, m, h + 1, K)
<1>1. PICK line \in [1 .. Len(q) -> Nat] : Numbered(q, line, m, h, K)
  BY DEF Ordered
<1>2. \A i \in 1 .. h + 1 : i \in 1 .. h \/ i = h + 1
  OBVIOUS
<1>3. \A i \in 1 .. h : i \in 1 .. h + 1
  OBVIOUS
<1>4. Numbered(q, line, m, h + 1, K)
  BY <1>1, <1>2, <1>3 DEF Numbered
<1> QED BY <1>4 DEF Ordered

(* Commands without a CLOSE behind the others. *)
LEMMA OrderedJoin ==
  ASSUME NEW S, NEW q \in Seq(S), NEW r \in Seq(S), NEW m \in Nat, NEW h \in Nat, NEW K, Ordered(q, m, h, K),
         \A p \in 1 .. Len(r) : ~IsClose(r[p])
  PROVE  Ordered(q \o r, m, h, K)
<1>1. PICK line \in [1 .. Len(q) -> Nat] : Numbered(q, line, m, h, K)
  BY DEF Ordered
<1> DEFINE n == Len(q) + Len(r)
           more == [p \in 1 .. n |-> IF p \in 1 .. Len(q) THEN line[p] ELSE 0]
<1>2. /\ Len(q) \in Nat /\ Len(r) \in Nat /\ Len(q \o r) = n
      /\ \A p \in 1 .. Len(q) : (q \o r)[p] = q[p]
      /\ \A p \in 1 .. n : p \in 1 .. Len(q) \/ (p - Len(q) \in 1 .. Len(r) /\ (q \o r)[p] = r[p - Len(q)])
  BY JoinFacts
<1>3. PICK t : t = q \o r
  OBVIOUS
<1>4. /\ \A p \in 1 .. n : IsClose(t[p]) => p \in 1 .. Len(q) /\ t[p] = q[p]
      /\ \A p \in 1 .. Len(q) : p \in 1 .. n /\ t[p] = q[p]
  <2>1. \A p \in 1 .. Len(q) : p \in 1 .. n
    BY <1>2
  <2> QED BY <1>2, <1>3, <2>1
<1>5. /\ more \in [1 .. n -> Nat]
      /\ \A p \in 1 .. Len(q) : more[p] = line[p]
  BY <1>1, <1>4
<1> HIDE DEF more
<1>6. Numbered(t, more, m, h, K)
  <2> HIDE DEF n
  <2>1. Len(t) = n
    BY <1>2, <1>3
  <2>2. ASSUME NEW p \in 1 .. Len(t), IsClose(t[p])
        PROVE  more[p] \in 1 .. h /\ Lines[more[p]] = t[p].f /\ m < more[p]
    BY <1>1, <1>4, <1>5, <2>1, <2>2 DEF Numbered
  <2>3. ASSUME NEW p \in 1 .. Len(t), NEW k \in 1 .. Len(t), p < k, IsClose(t[p]), IsClose(t[k])
        PROVE  more[p] < more[k]
    BY <1>1, <1>4, <1>5, <2>1, <2>3 DEF Numbered
  <2>4. ASSUME NEW i \in 1 .. h, i \notin K
        PROVE  \E p \in 1 .. Len(t) : IsClose(t[p]) /\ more[p] = i
    <3>1. PICK p \in 1 .. Len(q) : IsClose(q[p]) /\ line[p] = i
      BY <1>1, <2>4 DEF Numbered
    <3> QED BY <1>4, <1>5, <2>1, <3>1
  <2> QED BY <2>2, <2>3, <2>4 DEF Numbered
<1>7. Len(t) = n
  BY <1>2, <1>3
<1> QED BY <1>3, <1>5, <1>6, <1>7 DEF Ordered

(* The commands of the file of the next line. *)
LEMMA OrderedSends ==
  ASSUME NEW S, NEW q \in Seq(S), NEW m \in Nat, NEW h \in Nat, m < h + 1, NEW K, Ordered(q, m, h, K), NEW v, NEW all,
         FileCommands(Lines[h + 1], v, all) \in Seq(S)
  PROVE  Ordered(q \o FileCommands(Lines[h + 1], v, all), m, h + 1, K)
<1>1. PICK line \in [1 .. Len(q) -> Nat] : Numbered(q, line, m, h, K)
  BY DEF Ordered
<1>2. PICK r : r = FileCommands(Lines[h + 1], v, all)
  OBVIOUS
<1>0. r \in Seq(S)
  BY <1>2
<1>9. /\ Len(q) \in Nat /\ Len(q \o r) = Len(q) + Len(r)
      /\ \A p \in 1 .. Len(q) : (q \o r)[p] = q[p]
      /\ \A p \in 1 .. Len(r) : (q \o r)[Len(q) + p] = r[p]
  BY <1>0, JoinFacts
<1>3. Len(r) = 3 /\ ~IsClose(r[1]) /\ ~IsClose(r[2]) /\ IsClose(r[3]) /\ r[3].f = Lines[h + 1]
  BY <1>2 DEF FileCommands, IsClose
<1> DEFINE n == Len(q) + 3
           more == [p \in 1 .. n |-> IF p \in 1 .. Len(q) THEN line[p] ELSE h + 1]
<1>4. /\ Len(q) \in Nat /\ Len(q \o r) = n
      /\ \A p \in 1 .. Len(q) : (q \o r)[p] = q[p]
      /\ \A p \in 1 .. 3 : (q \o r)[Len(q) + p] = r[p]
  BY <1>3, <1>9
<1>5. PICK t : t = q \o r
  OBVIOUS
<1>6. /\ Len(t) = n /\ n \in Nat /\ n \in 1 .. n /\ n \notin 1 .. Len(q) /\ IsClose(t[n]) /\ t[n].f = Lines[h + 1]
      /\ \A p \in 1 .. n : IsClose(t[p]) => (p \in 1 .. Len(q) /\ t[p] = q[p]) \/ p = n
      /\ \A p \in 1 .. Len(q) : p \in 1 .. n /\ t[p] = q[p] /\ p < n /\ ~(n < p)
  <2>1. ~IsClose(t[Len(q) + 1]) /\ ~IsClose(t[Len(q) + 2]) /\ IsClose(t[Len(q) + 3]) /\ t[Len(q) + 3].f = Lines[h + 1]
    BY <1>3, <1>4, <1>5
  <2>2. \A p \in 1 .. n : p \in 1 .. Len(q) \/ p = Len(q) + 1 \/ p = Len(q) + 2 \/ p = Len(q) + 3
    BY <1>4
  <2>3. \A p \in 1 .. Len(q) : t[p] = q[p]
    BY <1>4, <1>5
  <2>4. /\ n \in Nat /\ n \in 1 .. n /\ n \notin 1 .. Len(q)
        /\ \A p \in 1 .. Len(q) : p \in 1 .. n /\ p < n /\ ~(n < p)
    BY <1>4
  <2> QED BY <1>4, <1>5, <2>1, <2>2, <2>3, <2>4
<1>7. /\ more \in [1 .. n -> Nat] /\ more[n] = h + 1
      /\ \A p \in 1 .. Len(q) : more[p] = line[p]
  BY <1>1, <1>6
<1> HIDE DEF more, n
<1>8. Numbered(t, more, m, h + 1, K)
  <2>1. \A i \in 1 .. h : i \in 1 .. h + 1 /\ i < h + 1
    OBVIOUS
  <2>2. h + 1 \in 1 .. h + 1 /\ \A i \in 1 .. h + 1 : i \in 1 .. h \/ i = h + 1
    OBVIOUS
  <2>3. ASSUME NEW p \in 1 .. Len(t), IsClose(t[p])
        PROVE  more[p] \in 1 .. h + 1 /\ Lines[more[p]] = t[p].f /\ m < more[p]
    <3>1. CASE p \in 1 .. Len(q)
      <4>1. IsClose(q[p]) /\ t[p] = q[p] /\ more[p] = line[p]
        BY <1>6, <1>7, <2>3, <3>1
      <4>2. line[p] \in 1 .. h /\ Lines[line[p]] = q[p].f /\ m < line[p]
        BY <1>1, <3>1, <4>1 DEF Numbered
      <4> QED BY <2>1, <4>1, <4>2
    <3>2. CASE p = n
      BY <1>6, <1>7, <2>2, <3>2
    <3>3. p \in 1 .. n
      BY <1>6
    <3>4. p \in 1 .. Len(q) \/ p = n
      BY <1>6, <2>3, <3>3
    <3> QED BY <3>1, <3>2, <3>4
  <2>4. ASSUME NEW p \in 1 .. Len(t), NEW k \in 1 .. Len(t), p < k, IsClose(t[p]), IsClose(t[k])
        PROVE  more[p] < more[k]
    <3>1. p \in 1 .. Len(q)
      <4>1. CASE p = n
        <5>1. k \notin 1 .. Len(q)
          BY <1>6, <2>4, <4>1
        <5>2. k = n
          BY <1>6, <2>4, <5>1
        <5> QED BY <1>6, <2>4, <4>1, <5>2
      <4> QED BY <1>6, <2>4, <4>1
    <3>2. IsClose(q[p]) /\ more[p] = line[p] /\ line[p] \in 1 .. h
      BY <1>1, <1>6, <1>7, <2>4, <3>1 DEF Numbered
    <3>3. CASE k = n
      BY <1>7, <2>1, <3>2, <3>3
    <3>4. CASE k \in 1 .. Len(q)
      BY <1>1, <1>6, <1>7, <2>4, <3>1, <3>2, <3>4 DEF Numbered
    <3>5. k \in 1 .. Len(q) \/ k = n
      BY <1>6, <2>4
    <3> QED BY <3>3, <3>4, <3>5
  <2>5. ASSUME NEW i \in 1 .. h + 1, i \notin K
        PROVE  \E p \in 1 .. Len(t) : IsClose(t[p]) /\ more[p] = i
    <3>1. CASE i \in 1 .. h
      <4>1. PICK p \in 1 .. Len(q) : IsClose(q[p]) /\ line[p] = i
        BY <1>1, <2>5, <3>1 DEF Numbered
      <4> QED BY <1>6, <1>7, <4>1
    <3>2. CASE i = h + 1
      BY <1>6, <1>7, <3>2
    <3> QED BY <2>2, <3>1, <3>2
  <2> QED BY <2>3, <2>4, <2>5 DEF Numbered
<1> QED BY <1>2, <1>5, <1>6, <1>7, <1>8 DEF Ordered

(* The first command is released.  A CLOSE is that of the next line that is not in K. *)
LEMMA OrderedTail ==
  ASSUME NEW S, NEW q \in Seq(S), q # <<>>, NEW m \in Nat, NEW h \in Nat, NEW K, Ordered(q, m, h, K)
  PROVE  /\ ~IsClose(q[1]) => Ordered(Tail(q), m, h, K)
         /\ IsClose(q[1]) =>
              \E i \in 1 .. h :
                /\ Lines[i] = q[1].f /\ m + 1 <= i /\ (m + 1 \in K \/ m + 1 = i)
                /\ Ordered(Tail(q), m + 1, h, K \cup {i})
<1>1. PICK line \in [1 .. Len(q) -> Nat] : Numbered(q, line, m, h, K)
  BY DEF Ordered
<1>2. PICK t : t = Tail(q)
  OBVIOUS
<1>3. /\ Len(q) \in Nat \ {0} /\ Len(t) = Len(q) - 1
      /\ \A p \in 1 .. Len(q) - 1 : t[p] = q[p + 1]
  BY <1>2, TailFacts
<1> DEFINE less == [p \in 1 .. Len(t) |-> line[p + 1]]
<1>4. /\ \A p \in 1 .. Len(t) : p + 1 \in 1 .. Len(q) /\ t[p] = q[p + 1] /\ 1 < p + 1
      /\ \A p \in 1 .. Len(q) : p # 1 => p - 1 \in 1 .. Len(t) /\ (p - 1) + 1 = p
      /\ 1 \in 1 .. Len(q)
  BY <1>3
<1>5. less \in [1 .. Len(t) -> Nat] /\ \A p \in 1 .. Len(t) : less[p] = line[p + 1]
  BY <1>1, <1>4
<1> HIDE DEF less
<1>6. ASSUME NEW n \in Nat, NEW L, K \subseteq L,
             \A p \in 1 .. Len(q) : p # 1 /\ IsClose(q[p]) => n < line[p],
             IsClose(q[1]) => line[1] \in L
      PROVE  Ordered(t, n, h, L)
  <2>1. ASSUME NEW p \in 1 .. Len(t), IsClose(t[p])
        PROVE  less[p] \in 1 .. h /\ Lines[less[p]] = t[p].f /\ n < less[p]
    <3>1. p + 1 \in 1 .. Len(q) /\ p + 1 # 1 /\ IsClose(q[p + 1]) /\ t[p] = q[p + 1] /\ less[p] = line[p + 1]
      BY <1>4, <1>5, <2>1
    <3> QED BY <1>1, <1>6, <3>1 DEF Numbered
  <2>2. ASSUME NEW p \in 1 .. Len(t), NEW k \in 1 .. Len(t), p < k, IsClose(t[p]), IsClose(t[k])
        PROVE  less[p] < less[k]
    <3>1. p + 1 < k + 1
      BY <1>3, <2>2
    <3> QED BY <1>1, <1>4, <1>5, <2>2, <3>1 DEF Numbered
  <2>3. ASSUME NEW i \in 1 .. h, i \notin L
        PROVE  \E p \in 1 .. Len(t) : IsClose(t[p]) /\ less[p] = i
    <3>1. PICK p \in 1 .. Len(q) : IsClose(q[p]) /\ line[p] = i
      BY <1>1, <1>6, <2>3 DEF Numbered
    <3>2. p # 1
      BY <1>6, <2>3, <3>1
    <3>3. p - 1 \in 1 .. Len(t) /\ (p - 1) + 1 = p
      BY <1>4, <3>2
    <3>4. t[p - 1] = q[p] /\ less[p - 1] = line[p]
      BY <1>4, <1>5, <3>3
    <3> QED BY <3>1, <3>3, <3>4
  <2>4. Numbered(t, less, n, h, L)
    BY <2>1, <2>2, <2>3 DEF Numbered
  <2> QED BY <1>5, <2>4 DEF Ordered
<1>7. ASSUME ~IsClose(q[1]) PROVE Ordered(t, m, h, K)
  <2>1. \A p \in 1 .. Len(q) : p # 1 /\ IsClose(q[p]) => m < line[p]
    BY <1>1 DEF Numbered
  <2> QED BY <1>6, <1>7, <2>1
<1>8. ASSUME IsClose(q[1])
      PROVE  \E i \in 1 .. h :
               /\ Lines[i] = q[1].f /\ m + 1 <= i /\ (m + 1 \in K \/ m + 1 = i)
               /\ Ordered(t, m + 1, h, K \cup {i})
  <2>1. PICK i : i = line[1]
    OBVIOUS
  <2>2. i \in 1 .. h /\ Lines[i] = q[1].f /\ m < i /\ i \in Nat
    BY <1>1, <1>4, <1>8, <2>1 DEF Numbered
  <2>3. m + 1 <= i /\ m + 1 \in 1 .. h
    BY <2>2
  <2>4. \A p \in 1 .. Len(q) : p # 1 /\ IsClose(q[p]) => i < line[p] /\ line[p] \in Nat
    <3>1. \A p \in 1 .. Len(q) : p # 1 => 1 < p
      BY <1>3
    <3> QED BY <1>1, <1>4, <1>8, <2>1, <3>1 DEF Numbered
  <2>5. \A p \in 1 .. Len(q) : p # 1 /\ IsClose(q[p]) => m + 1 < line[p]
    BY <2>2, <2>3, <2>4
  <2>6. m + 1 \in K \/ m + 1 = i
    <3> SUFFICES ASSUME m + 1 \notin K PROVE m + 1 = i
      OBVIOUS
    <3>1. PICK p \in 1 .. Len(q) : IsClose(q[p]) /\ line[p] = m + 1
      BY <1>1, <2>3 DEF Numbered
    <3>2. p = 1
      BY <2>5, <3>1
    <3> QED BY <2>1, <3>1, <3>2
  <2>7. Ordered(t, m + 1, h, K \cup {i})
    BY <1>6, <2>1, <2>5
  <2> QED BY <2>2, <2>3, <2>6, <2>7
<1> QED BY <1>2, <1>7, <1>8

(* The lines of which nothing is left to do for the first group: unreadable, closed, or held. *)
KeptLines ==
  {i \in 1 .. Len(Lines) : Lines[i] \in missing \/ Lines[i] \in done[1] \/ Held(srv[1], Lines[i], Now)}
AllKept == 1 .. Len(Lines) \subseteq KeptLines

(* The count never passes a line that is not kept. *)
InOrder ==
  /\ \A i \in 1 .. Len(Lines) : i <= lst.skip => i \in KeptLines
  /\ m_FileNum <= lst.skip \/ m_FileNum <= Handled
  /\ Ordered(Pending(1), m_FileNum, Handled, KeptLines)

Orderly == Clean /\ sound /\ "early" \notin dirty /\ Modes[1] = "ALL"
Keeps ==
  /\ \A i \in 1 .. Len(Lines) : i <= m_FileNum => i \in KeptLines
  /\ lst.g > 1 \/ lst.at = "finish" => AllKept
  /\ \A g \in Groups \ {1} : Pending(g) # <<>> => AllKept
  /\ lst.g = 1 /\ lst.at \notin {"wait", "finish"} => AllKept \/ InOrder
KeptInv == Orderly => Keeps

SkipInv == KnownInv /\ CountInv /\ FreshInv /\ SentInv /\ Md5Inv

LEMMA CountFacts ==
  ASSUME KnownInv
  PROVE  /\ m_FileNum \in Nat /\ saved = m_FileNum /\ 1 \in Groups /\ Len(Lines) \in Nat /\ Handled \in 0 .. Len(Lines)
         /\ lst \in ListStates /\ lst.skip \in Nat /\ lst.g \in Groups /\ lst.i \in 1 .. Len(Lines) + 1
         /\ \A g \in Groups : g \in Nat /\ (g > 1 <=> g # 1)
         /\ Pending(1) \in Seq(Commands)
<1>1. SceneType /\ CountType
  BY DEF KnownInv, Inv, ClientInv
<1>2. 1 \in Groups /\ Groups = 1 .. Len(Modes) /\ Len(Modes) \in Nat
  BY <1>1, SceneFacts
<1>3. \A g \in Groups : g \in Nat /\ (g > 1 <=> g # 1)
  BY <1>2
<1> QED BY <1>1, <1>2, <1>3, ThreadTyped, ServerTyped DEF CountType, KnownInv

(* What is kept stays kept, until another list begins. *)
LEMMA KeptGrows ==
  ASSUME SkipInv, [Next]_vars, Orderly, Orderly', ~ListBegins
  PROVE  KeptLines \subseteq KeptLines' /\ (AllKept => AllKept')
<1>1. /\ list' = list /\ missing' = missing /\ ~alarmed' /\ ~(MonitorList /\ Begins)
  BY CleanNext DEF Orderly, SkipInv
<1>2. 1 \in Groups /\ done \in [Groups -> SUBSET Files]
  BY CountFacts DEF SkipInv, KnownInv, Inv, RestType
<1>3. done[1] \subseteq done'[1]
  <2>1. CASE ListThread
    BY <1>1, <2>1 DEF ListThread, MonitorList, Work_StartList, SkipFile, SendFile, BuildLocalMd5, FilesEnd, Drain, TakeMd5,
                Check, Work_CloseList, Finish, history
  <2>2. CASE ListArrives \/ ClientCrash \/ UNCHANGED vars
    BY <2>2 DEF ListArrives, ClientCrash, history, vars
  <2>3. CASE \E g \in Groups : PopCommand(g) \/ Md5Thread(g) \/ ServerCrash(g)
    BY <2>3 DEF PopCommand, Md5Thread, ServerCrash, history
  <2>4. ASSUME NEW g \in Groups, Send(g) \/ SendLost(g) PROVE done[1] \subseteq done'[1]
    <3>1. Sends(g)
      BY <2>4, SendsOn DEF SkipInv, KnownInv
    <3>2. done' = done \/ done' = [done EXCEPT ![g] = @ \cup {snd[g].cmd.f}]
      BY <3>1 DEF Sends
    <3> QED BY <1>2, <3>2
  <2> QED BY <2>1, <2>2, <2>3, <2>4 DEF Next, ServerThread
<1>4. ASSUME NEW i \in 1 .. Len(Lines), Held(srv[1], Lines[i], Now) PROVE Held(srv'[1], Lines[i], Now')
  <2>1. Lines[i] \in Files
    BY SceneFacts DEF SkipInv, KnownInv, Inv, ClientInv
  <2> QED BY <1>1, <1>2, <1>4, <2>1, HeldStays DEF SkipInv, Orderly
<1>5. KeptLines \subseteq KeptLines'
  BY <1>1, <1>3, <1>4 DEF KeptLines
<1> QED BY <1>5 DEF AllKept

(* At the end of the group every line is kept. *)
LEMMA EndKeeps ==
  ASSUME SkipInv, Orderly, Keeps, lst.at = "end", lst.g = 1
  PROVE  AllKept
<1> SUFFICES ASSUME InOrder, NEW i \in 1 .. Len(Lines) PROVE i \in KeptLines
  BY DEF Keeps, AllKept
<1>1. CASE i <= lst.skip
  BY <1>1 DEF InOrder
<1>2. CASE lst.skip < i /\ Lines[i] \notin missing
  <2>1. Handled = Len(Lines)
    <3>1. lst.i = Len(Lines) + 1 /\ Len(Lines) \in Nat
      BY CountFacts DEF SkipInv, KnownInv, ThreadInv, StageInv
    <3>2. Handled = (Len(Lines) + 1) - 1
      BY <3>1 DEF Handled
    <3> QED BY <3>1, <3>2
  <2>2. Sent(i)
    BY <1>2, <2>1, CountFacts DEF Sent
  <2>3. InPlace(i)
    BY <2>2 DEF SkipInv, Orderly, SentInv, Verifies, Checked
  <2>4. Held(srv[1], Lines[i], Now)
    BY <2>3 DEF InPlace, Settled
  <2> QED BY <2>4 DEF KeptLines
<1>3. CASE Lines[i] \in missing
  BY <1>3 DEF KeptLines
<1>4. lst.skip \in Nat /\ i \in Nat
  BY CountFacts DEF SkipInv
<1> QED BY <1>1, <1>2, <1>3, <1>4

LEMMA KeepsBegins == ASSUME SkipInv, ListBegins, Orderly' PROVE Keeps'
<1>1. /\ \A g \in Groups : Idle(g)
      /\ lst' = ThreadAt("start", 1, 0) /\ UNCHANGED <<scene, m_FileNum, que, snd, sound>> /\ "Ready" \notin names
  BY DEF ListBegins, MonitorList, Begins, Orderly, history
<1>2. m_FileNum = 0
  BY <1>1 DEF SkipInv, CountInv, CountPending, Orderly
<1>3. \A g \in Groups : Pending(g)' = <<>>
  <2>1. \A g \in Groups : Pending(g) = <<>>
    BY <1>1, PendingNone DEF SkipInv, KnownInv, Inv, ClientInv
  <2> QED BY <1>1, <2>1, PendingStays
<1>4. lst'.at = "start" /\ lst'.i = 1 /\ lst'.g = 1 /\ lst'.skip = 0 /\ m_FileNum' = 0 /\ 1 \in Groups /\ Groups' = Groups
  BY <1>1, <1>2, CountFacts, SceneStays DEF ThreadAt, SkipInv
<1>5. \A i \in 1 .. Len(Lines) : ~(i <= 0)
  BY CountFacts DEF SkipInv
<1>6. InOrder'
  <2>1. Handled' = 0
    BY <1>4 DEF Handled
  <2>2. PICK q, m, K : q = Pending(1)' /\ m = m_FileNum' /\ K = KeptLines'
    OBVIOUS
  <2>3. Ordered(q, m, 0, K)
    BY <1>3, <1>4, <2>2, OrderedNone
  <2> QED BY <1>4, <1>5, <2>1, <2>2, <2>3 DEF InOrder
<1> QED BY <1>3, <1>4, <1>5, <1>6 DEF Keeps

LEMMA KeepsResumes ==
  ASSUME SkipInv, [Next]_vars, Orderly, Keeps, Orderly', MonitorList, ~ListBegins
  PROVE  Keeps'
<1>1. /\ lst.at = "wait" /\ "Ready" \in names /\ lst' = ThreadAt("start", 1, m_FileNum)
      /\ UNCHANGED <<scene, m_FileNum, que, snd>> /\ KeptLines \subseteq KeptLines'
  BY KeptGrows DEF MonitorList, Resumes, Orderly, Clean, Begins, ListBegins, SkipInv, KnownInv, ThreadInv, OnlyOne
<1>2. \A g \in Groups : Idle(g)
  BY <1>1 DEF SkipInv, KnownInv, ThreadInv, RestartInv
<1>3. \A g \in Groups : Pending(g)' = <<>>
  <2>1. \A g \in Groups : Pending(g) = <<>>
    BY <1>2, PendingNone DEF SkipInv, KnownInv, Inv, ClientInv
  <2> QED BY <1>1, <2>1, PendingStays
<1>4. /\ lst'.at = "start" /\ lst'.i = 1 /\ lst'.g = 1 /\ lst'.skip = m_FileNum' /\ 1 \in Groups /\ Groups' = Groups
      /\ m_FileNum' \in Nat
  BY <1>1, CountFacts, SceneStays DEF ThreadAt, SkipInv
<1>5. \A i \in 1 .. Len(Lines) : i <= m_FileNum' => i \in KeptLines'
  BY <1>1 DEF Keeps
<1>6. InOrder'
  <2>1. Handled' = 0
    BY <1>4 DEF Handled
  <2>2. PICK q, m, K : q = Pending(1)' /\ m = m_FileNum' /\ K = KeptLines'
    OBVIOUS
  <2>3. Ordered(q, m, 0, K)
    BY <1>3, <1>4, <2>2, OrderedNone
  <2> QED BY <1>4, <1>5, <2>1, <2>2, <2>3 DEF InOrder
<1> QED BY <1>3, <1>4, <1>5, <1>6 DEF Keeps

LEMMA KeepsCrash ==
  ASSUME SkipInv, [Next]_vars, Orderly, Keeps, Orderly', ClientCrash
  PROVE  Keeps'
<1>1. /\ m_FileNum' = m_FileNum /\ lst'.at = "wait" /\ lst'.g = 1 /\ Groups' = Groups
  BY CountFacts, SceneStays DEF ClientCrash, Waiting, ThreadAt, SkipInv
<1>2. \A g \in Groups : Pending(g)' = <<>>
  BY PendsCrash
<1>3. KeptLines \subseteq KeptLines'
  BY <1>1, KeptGrows DEF ListBegins, ThreadAt
<1> QED BY <1>1, <1>2, <1>3 DEF Keeps

(* Where something is not kept yet, the thread is at the first group, and nothing is pending for the others. *)
LEMMA NotYet ==
  ASSUME SkipInv, Keeps, ~AllKept
  PROVE  /\ lst.g = 1 /\ lst.at # "finish" /\ (lst.at # "wait" => InOrder)
         /\ \A g \in Groups : g # 1 => Pending(g) = <<>>
BY CountFacts DEF Keeps, SkipInv

(* The thread works on at the first group, the count and what was sent stay. *)
LEMMA KeepsWorks ==
  ASSUME SkipInv, Keeps, ~AllKept, KeptLines \subseteq KeptLines', Groups' = Groups,
         m_FileNum' = m_FileNum, lst'.g = 1, lst'.at # "finish", lst'.skip = lst.skip,
         lst.at # "wait" /\ lst'.at # "wait", Handled' \in Nat, Handled <= Handled',
         \A g \in Groups : g # 1 => Pending(g)' = Pending(g),
         Ordered(Pending(1)', m_FileNum, Handled', KeptLines)
  PROVE  Keeps'
<1>1. /\ m_FileNum \in Nat /\ Handled \in Nat /\ Handled' \in Nat /\ lst.skip \in Nat
  BY CountFacts DEF SkipInv
<1>2. PICK q, m, h, K, L : q = Pending(1)' /\ m = m_FileNum /\ h = Handled' /\ K = KeptLines /\ L = KeptLines'
  OBVIOUS
<1>3. Ordered(q, m, h, L)
  <2>1. m \in Nat /\ h \in Nat /\ K \cap 1 .. h \subseteq L /\ Ordered(q, m, h, K) /\ m <= m
    BY <1>1, <1>2
  <2> QED BY <2>1, OrderedMore
<1>4. m_FileNum <= lst.skip \/ m_FileNum <= Handled'
  BY <1>1, NotYet DEF InOrder
<1>5. InOrder'
  BY <1>2, <1>3, <1>4, NotYet DEF InOrder
<1>6. \A i \in 1 .. Len(Lines) : i <= m_FileNum' => i \in KeptLines'
  BY DEF Keeps
<1>7. \A g \in Groups : g # 1 => Pending(g)' = <<>>
  BY NotYet
<1> QED BY <1>5, <1>6, <1>7 DEF Keeps

(* One action of the thread after the other, where something is not kept yet. *)
LEMMA KeepsSkips ==
  ASSUME SkipInv, Keeps, ~AllKept, KeptLines \subseteq KeptLines', SkipFile
  PROVE  Keeps'
<1>1. /\ UNCHANGED <<scene, missing, m_FileNum, que, snd>>
      /\ lst' = [lst EXCEPT !.i = @ + 1] /\ lst.at = "file" /\ lst.i <= Len(Lines) /\ Skipped(lst.i)
  BY DEF SkipFile, disk
<1>2. /\ lst'.at = "file" /\ lst'.i = lst.i + 1 /\ lst'.g = lst.g /\ lst'.skip = lst.skip /\ Groups' = Groups
      /\ lst.i \in Nat \ {0} /\ m_FileNum \in Nat
  BY <1>1, CountFacts, SceneStays DEF ListStates, SkipInv
<1>3. Handled = lst.i - 1 /\ Handled' = (lst.i + 1) - 1
  BY <1>1, <1>2 DEF Handled
<1>4. /\ Handled \in Nat /\ Handled' = Handled + 1 /\ Handled + 1 = lst.i
      /\ Handled' \in Nat /\ Handled <= Handled' /\ lst.i \in 1 .. Len(Lines)
  BY <1>1, <1>2, <1>3, CountFacts DEF SkipInv
<1>5. Handled + 1 \in KeptLines
  BY <1>1, <1>4, NotYet DEF Skipped, InOrder, KeptLines
<1>6. \A g \in Groups : Pending(g)' = Pending(g)
  BY <1>1, PendingStays
<1>7. PICK q, m, h, K : q = Pending(1) /\ m = m_FileNum /\ h = Handled /\ K = KeptLines
  OBVIOUS
<1>8. Ordered(q, m, h + 1, K)
  <2>1. Ordered(q, m, h, K) /\ m \in Nat /\ h \in Nat /\ h + 1 \in K
    BY <1>1, <1>2, <1>4, <1>5, <1>7, NotYet DEF InOrder
  <2> QED BY <2>1, OrderedSkips
<1>9. Ordered(Pending(1)', m_FileNum, Handled', KeptLines)
  BY <1>4, <1>6, <1>7, <1>8, CountFacts DEF SkipInv
<1> QED BY <1>1, <1>2, <1>4, <1>6, <1>9, NotYet, KeepsWorks

LEMMA KeepsSends ==
  ASSUME SkipInv, Keeps, Modes[1] = "ALL", ~AllKept, KeptLines \subseteq KeptLines', SendFile
  PROVE  Keeps'
<1>0. lst.g = 1 /\ lst.at = "file" /\ InOrder /\ lst \in ListStates
  BY NotYet, CountFacts DEF SendFile, SkipInv
<1>1. /\ UNCHANGED <<scene, m_FileNum>> /\ lst' = [lst EXCEPT !.at = "md5", !.verify = TRUE]
      /\ lst.i <= Len(Lines) /\ ~Skipped(lst.i)
  BY <1>0 DEF SendFile
<1>2. /\ lst'.at = "md5" /\ lst'.i = lst.i /\ lst'.g = lst.g /\ lst'.skip = lst.skip /\ Groups' = Groups
      /\ lst.i \in Nat \ {0} /\ m_FileNum \in Nat /\ lst.skip \in Nat
  BY <1>0, <1>1, CountFacts, SceneStays DEF ListStates, SkipInv
<1>3. Handled = lst.i - 1 /\ Handled' = lst.i
  BY <1>0, <1>2 DEF Handled
<1>4. /\ Handled \in Nat /\ Handled' = Handled + 1 /\ Handled + 1 = lst.i
      /\ Handled' \in Nat /\ Handled <= Handled'
  BY <1>2, <1>3
<1>5. m_FileNum < Handled + 1
  <2>1. lst.skip < lst.i
    BY <1>1, <1>2 DEF Skipped
  <2> QED BY <1>0, <1>2, <1>4, <2>1 DEF InOrder
<1>6. PICK f, v, all : f = Lines[lst.i] /\ v = Version(list) /\ all = (Modes[lst.g] = "ALL")
  OBVIOUS
<1>7. /\ \A g \in Groups : Pending(g)' = IF g = 1 THEN Pending(g) \o FileCommands(f, v, all) ELSE Pending(g)
      /\ FileCommands(f, v, all) \in Seq(Commands)
  <2>1. (Modes[lst.g] = "ALL") \in BOOLEAN
    OBVIOUS
  <2> QED BY <1>0, <1>6, <2>1, PendsSend, CommandsTyped DEF SkipInv, KnownInv, Inv
<1>8. PICK q, m, h, K : q = Pending(1) /\ m = m_FileNum /\ h = Handled /\ K = KeptLines
  OBVIOUS
<1>9. Ordered(q \o FileCommands(f, v, all), m, h + 1, K)
  <2>1. /\ q \in Seq(Commands) /\ m \in Nat /\ h \in Nat /\ m < h + 1 /\ Ordered(q, m, h, K)
        /\ f = Lines[h + 1]
    BY <1>0, <1>2, <1>4, <1>5, <1>6, <1>8, CountFacts DEF InOrder, SkipInv
  <2> QED BY <1>7, <2>1, OrderedSends
<1>10. 1 \in Groups
  BY CountFacts DEF SkipInv
<1>11. Ordered(Pending(1)', m_FileNum, Handled', KeptLines)
  BY <1>4, <1>7, <1>8, <1>9, <1>10
<1> QED BY <1>0, <1>1, <1>2, <1>4, <1>7, <1>11, KeepsWorks

LEMMA KeepsStarts ==
  ASSUME SkipInv, Keeps, ~AllKept, KeptLines \subseteq KeptLines', Work_StartList
  PROVE  Keeps'
<1>1. /\ UNCHANGED <<scene, m_FileNum>> /\ lst' = [lst EXCEPT !.at = "file", !.i = 1, !.verify = FALSE]
      /\ lst.at = "start" /\ lst.i = 1 /\ lst.g = 1 /\ InOrder
  BY NotYet DEF Work_StartList, SkipInv, KnownInv, ThreadInv, StageInv
<1>2. /\ lst'.at = "file" /\ lst'.i = 1 /\ lst'.g = lst.g /\ lst'.skip = lst.skip /\ Groups' = Groups
      /\ m_FileNum \in Nat /\ 1 \in Groups /\ Pending(1) \in Seq(Commands)
  BY <1>1, CountFacts, SceneStays DEF ListStates, SkipInv
<1>3. Handled = 0 /\ Handled' = 0
  BY <1>1, <1>2 DEF Handled
<1>4. \A g \in Groups : Pending(g)' = IF g = 1 /\ lst.skip = 0 THEN Pending(g) \o StartCommands ELSE Pending(g)
  BY <1>1, PendsStart DEF SkipInv, KnownInv, Inv
<1>5. PICK q, r, m, K : q = Pending(1) /\ r = StartCommands /\ m = m_FileNum /\ K = KeptLines
  OBVIOUS
<1>6. Ordered(q, m, 0, K) /\ Ordered(q \o r, m, 0, K)
  <2>1. q \in Seq(Commands) /\ r \in Seq(Commands) /\ m \in Nat /\ 0 \in Nat /\ Ordered(q, m, 0, K)
    BY <1>1, <1>2, <1>3, <1>5, CommandsTyped DEF InOrder
  <2>2. \A p \in 1 .. Len(r) : ~IsClose(r[p])
    BY <1>5 DEF StartCommands, IsClose
  <2> QED BY <2>1, <2>2, OrderedJoin
<1>7. Ordered(Pending(1)', m_FileNum, Handled', KeptLines)
  BY <1>2, <1>3, <1>4, <1>5, <1>6
<1> QED BY <1>1, <1>2, <1>3, <1>4, <1>7, KeepsWorks

(* Nothing is sent and no line is passed. *)
LEMMA KeepsRuns ==
  ASSUME SkipInv, Keeps, ~AllKept, KeptLines \subseteq KeptLines', scene' = scene, m_FileNum' = m_FileNum,
         lst'.g = lst.g, lst'.skip = lst.skip, lst.at # "wait", lst'.at \notin {"wait", "finish"}, Handled' = Handled,
         \A g \in Groups : Pending(g)' = Pending(g)
  PROVE  Keeps'
<1>1. Groups' = Groups /\ 1 \in Groups /\ Handled \in Nat /\ Handled' \in Nat /\ Handled <= Handled'
  BY CountFacts, SceneStays DEF SkipInv
<1>2. Ordered(Pending(1)', m_FileNum, Handled', KeptLines)
  BY <1>1, NotYet DEF InOrder
<1> QED BY <1>1, <1>2, NotYet, KeepsWorks

LEMMA KeepsThread ==
  ASSUME SkipInv, Keeps, ~AllKept, KeptLines \subseteq KeptLines', sound',
         BuildLocalMd5 \/ FilesEnd \/ Drain \/ TakeMd5 \/ Check
  PROVE  Keeps'
<1>0. lst \in ListStates /\ lst.i \in Nat
  BY CountFacts DEF SkipInv
<1>1. /\ UNCHANGED <<scene, que, snd>> /\ lst.at # "wait" /\ m_FileNum' = m_FileNum
      /\ \/ lst' = lst
         \/ lst.at = "md5" /\ lst' = [lst EXCEPT !.at = "file", !.i = @ + 1]
         \/ lst.at # "md5" /\ lst' = [lst EXCEPT !.at = IF lst.verify THEN "drain" ELSE "end"]
         \/ lst.at # "md5" /\ lst' = [lst EXCEPT !.at = "verify", !.todo = {f \in Files : md5s[f] # 0}]
         \/ lst.at # "md5" /\ lst' = [lst EXCEPT !.at = "end"]
         \/ /\ lst.at # "md5"
            /\ \E f \in lst.todo :
                 lst' = [lst EXCEPT !.at = "check", !.todo = @ \ {f}, !.f = f, !.hash = md5s[f]]
         \/ lst.at # "md5" /\ lst' = [lst EXCEPT !.at = "verify", !.f = NoFile, !.hash = 0]
  <2>1. CASE BuildLocalMd5 \/ FilesEnd \/ Drain \/ TakeMd5
    BY <2>1 DEF BuildLocalMd5, FilesEnd, Drain, TakeMd5, disk
  <2>2. CASE Check
    BY <2>2 DEF Check, CheckAnswered, CheckFailed
  <2> QED BY <2>1, <2>2
<1>2. \A g \in Groups : Pending(g)' = Pending(g)
  BY <1>1, PendingStays
<1>3. /\ lst'.g = lst.g /\ lst'.skip = lst.skip /\ lst'.at \notin {"wait", "finish"}
      /\ \/ lst'.at # "md5" /\ lst.at # "md5" /\ lst'.i = lst.i
         \/ lst.at = "md5" /\ lst'.at = "file" /\ lst'.i = lst.i + 1
         \/ lst' = lst
  <2>1. CASE lst' = lst
    BY <1>1, <2>1, NotYet
  <2>2. CASE lst.at = "md5" /\ lst' = [lst EXCEPT !.at = "file", !.i = @ + 1]
    BY <1>0, <2>2 DEF ListStates
  <2>3. CASE lst.at # "md5" /\ lst' = [lst EXCEPT !.at = IF lst.verify THEN "drain" ELSE "end"]
    BY <1>0, <2>3 DEF ListStates
  <2>4. CASE /\ lst.at # "md5"
             /\ \/ lst' = [lst EXCEPT !.at = "verify", !.todo = {f \in Files : md5s[f] # 0}]
                \/ lst' = [lst EXCEPT !.at = "end"]
                \/ lst' = [lst EXCEPT !.at = "verify", !.f = NoFile, !.hash = 0]
    BY <1>0, <2>4 DEF ListStates
  <2>5. CASE /\ lst.at # "md5"
             /\ \E f \in lst.todo :
                  lst' = [lst EXCEPT !.at = "check", !.todo = @ \ {f}, !.f = f, !.hash = md5s[f]]
    BY <1>0, <2>5 DEF ListStates
  <2> QED BY <1>1, <2>1, <2>2, <2>3, <2>4, <2>5
<1>4. Handled' = Handled
  <2>1. CASE lst.at = "md5" /\ lst'.at = "file" /\ lst'.i = lst.i + 1
    <3>1. Handled = lst.i /\ Handled' = (lst.i + 1) - 1
      BY <2>1 DEF Handled
    <3> QED BY <1>0, <3>1
  <2>2. CASE lst'.at # "md5" /\ lst.at # "md5" /\ lst'.i = lst.i
    BY <2>2 DEF Handled
  <2>3. CASE lst' = lst
    BY <2>3 DEF Handled
  <2> QED BY <1>3, <2>1, <2>2, <2>3
<1> QED BY <1>1, <1>2, <1>3, <1>4, KeepsRuns

(* The thread rests, nothing is released. *)
LEMMA KeepsRests ==
  ASSUME SkipInv, Keeps, ~AllKept, KeptLines \subseteq KeptLines', UNCHANGED <<scene, lst, m_FileNum>>,
         \A g \in Groups : Pending(g)' = Pending(g)
  PROVE  Keeps'
<1>1. CASE lst.at = "wait"
  <2>1. Groups' = Groups /\ lst'.g = 1 /\ lst'.at = "wait"
    BY <1>1, NotYet, SceneStays
  <2>2. \A i \in 1 .. Len(Lines) : i <= m_FileNum' => i \in KeptLines'
    BY DEF Keeps
  <2> QED BY <2>1, <2>2, NotYet DEF Keeps
<1>2. CASE lst.at # "wait"
  <2>1. Handled' = Handled
    BY DEF Handled
  <2> QED BY <1>2, <2>1, NotYet, KeepsRuns
<1> QED BY <1>1, <1>2

(* A command of the first group is released: only a CLOSE counts, and it is that of the next line that is not
   kept yet; an END counts from the start. *)
LEMMA KeepsReleases ==
  ASSUME SkipInv, Orderly, Orderly', Keeps, ~AllKept, KeptLines \subseteq KeptLines', NEW g \in Groups,
         snd[g].cmd # NoCommand, Sends(g), missing' = missing
  PROVE  Keeps'
<1>0. /\ UNCHANGED <<scene, lst>> /\ Groups' = Groups /\ lst.g = 1 /\ lst'.g = 1 /\ lst.at # "finish" /\ lst'.at # "finish"
  BY NotYet, SceneStays DEF Sends
<1>1. g = 1 /\ 1 \in Groups
  BY HeadIs, NotYet, CountFacts DEF SkipInv
<1>2. lst.at # "wait" /\ InOrder
  <2>1. Pending(1) # <<>>
    BY <1>1, HeadIs DEF SkipInv
  <2>2. ~Idle(1)
    BY <1>1, <2>1, PendingNone DEF SkipInv, KnownInv, Inv, ClientInv
  <2>3. "Ready" \in names
    BY DEF Orderly, Clean
  <2>4. lst.at # "wait"
    BY <1>1, <2>2, <2>3 DEF SkipInv, KnownInv, ThreadInv, RestartInv
  <2> QED BY <2>4, NotYet
<1>3. CASE Pending(g)' = Pending(g) /\ UNCHANGED <<m_FileNum, done>>
  <2>1. \A k \in Groups : Pending(k)' = Pending(k)
    BY <1>3 DEF Sends
  <2> QED BY <1>0, <1>3, <2>1, KeepsRests
<1>4. CASE /\ Pending(g)' = Tail(Pending(g))
           /\ m_FileNum' = Counted(snd[g].cmd, m_FileNum)
           /\ done' = IF snd[g].cmd.op = "CLOSE_FILE" THEN [done EXCEPT ![g] = @ \cup {snd[g].cmd.f}] ELSE done
  <2>1. PICK q, m, h, K, L, c : /\ q = Pending(1) /\ m = m_FileNum /\ h = Handled /\ K = KeptLines /\ L = KeptLines'
                                /\ c = snd[g].cmd
    OBVIOUS
  <2>2. /\ q \in Seq(Commands) /\ q # <<>> /\ q[1] = c /\ m \in Nat /\ h \in Nat /\ K \subseteq L /\ Ordered(q, m, h, K)
        /\ Handled' = h /\ Pending(1)' = Tail(q) /\ m_FileNum' = Counted(c, m)
        /\ \A i \in 1 .. Len(Lines) : i <= m => i \in K
        /\ \A i \in 1 .. Len(Lines) : i <= lst.skip => i \in K
        /\ m <= lst.skip \/ m <= h
        /\ lst.skip \in Nat /\ h <= Len(Lines) /\ Len(Lines) \in Nat
    <3>1. q \in Seq(Commands) /\ q # <<>> /\ q[1] = c
      BY <1>1, <2>1, HeadIs DEF SkipInv
    <3>2. Handled' = h
      BY <1>0, <2>1 DEF Handled
    <3> QED BY <1>1, <1>2, <1>4, <2>1, <3>1, <3>2, CountFacts DEF InOrder, SkipInv, Keeps
  <2>3. \A k \in Groups : k # 1 => Pending(k)' = <<>>
    <3>1. \A k \in Groups : k # 1 => Pending(k)' = Pending(k)
      BY <1>1 DEF Sends
    <3> QED BY <3>1, NotYet
  <2>4. ASSUME NEW n \in Nat, m_FileNum' = n, n <= lst.skip \/ n <= h, Ordered(Tail(q), n, h, L),
               \A i \in 1 .. Len(Lines) : i <= n => i \in L
        PROVE  Keeps'
    <3>1. \A i \in 1 .. Len(Lines) : i <= lst'.skip => i \in KeptLines'
      BY <1>0, <2>1, <2>2
    <3>2. InOrder'
      BY <1>0, <2>1, <2>2, <2>4, <3>1 DEF InOrder
    <3>3. \A i \in 1 .. Len(Lines) : i <= m_FileNum' => i \in KeptLines'
      BY <2>1, <2>4
    <3> QED BY <1>0, <2>3, <3>2, <3>3 DEF Keeps
  <2>5. CASE IsClose(c)
    <3>1. m_FileNum' = m + 1
      BY <2>2, <2>5 DEF Counted, IsClose
    <3>2. PICK i \in 1 .. h : /\ Lines[i] = c.f /\ m + 1 <= i /\ (m + 1 \in K \/ m + 1 = i)
                              /\ Ordered(Tail(q), m + 1, h, K \cup {i})
      BY <2>2, <2>5, OrderedTail
    <3>3. i \in L
      <4>1. i \in 1 .. Len(Lines)
        BY <2>2
      <4>2. c.f \in done'[1]
        <5>1. done \in [Groups -> SUBSET Files] /\ done' = [done EXCEPT ![1] = @ \cup {c.f}]
          BY <1>1, <1>4, <2>1, <2>5 DEF SkipInv, KnownInv, Inv, RestType, IsClose
        <5> QED BY <1>1, <5>1
      <4> QED BY <2>1, <3>2, <4>1, <4>2 DEF KeptLines
    <3>4. /\ m + 1 \in Nat /\ m + 1 <= h
          /\ \A k \in 1 .. Len(Lines) : k <= m + 1 => k <= m \/ k = m + 1
      BY <2>2, <3>2
    <3>5. \A k \in 1 .. Len(Lines) : k <= m + 1 => k \in L
      BY <2>2, <3>2, <3>3, <3>4
    <3>6. Ordered(Tail(q), m + 1, h, L)
      <4>1. PICK t, n, M : t = Tail(q) /\ n = m + 1 /\ M = K \cup {i}
        OBVIOUS
      <4>2. Ordered(t, n, h, M) /\ n \in Nat /\ h \in Nat /\ n <= n /\ M \cap 1 .. h \subseteq L
        BY <2>2, <3>2, <3>3, <3>4, <4>1
      <4>3. Ordered(t, n, h, L)
        BY <4>2, OrderedMore
      <4> QED BY <4>1, <4>3
    <3> QED BY <2>4, <3>1, <3>4, <3>5, <3>6
  <2>6. CASE ~IsClose(c)
    <3>1. PICK t : t = Tail(q)
      OBVIOUS
    <3>2. Ordered(t, m, h, K)
      BY <2>2, <2>6, <3>1, OrderedTail
    <3>3. PICK n : n = m_FileNum'
      OBVIOUS
    <3>4. n \in Nat /\ n <= m /\ (n <= lst.skip \/ n <= h) /\ \A i \in 1 .. Len(Lines) : i <= n => i \in L
      <4>1. n = m \/ n = 0
        BY <2>2, <2>6, <3>3 DEF Counted, IsClose
      <4>2. CASE n = m
        BY <2>2, <4>2
      <4>3. CASE n = 0
        <5>1. \A i \in 1 .. Len(Lines) : ~(i <= 0)
          BY <2>2
        <5> QED BY <2>2, <4>3, <5>1
      <4> QED BY <4>1, <4>2, <4>3
    <3>5. Ordered(t, n, h, L)
      <4>1. K \cap 1 .. h \subseteq L /\ m \in Nat /\ h \in Nat
        BY <2>2
      <4> QED BY <3>2, <3>4, <4>1, OrderedMore
    <3> QED BY <2>4, <3>1, <3>3, <3>4, <3>5
  <2> QED BY <2>5, <2>6
<1> QED BY <1>3, <1>4 DEF Sends

(* Where every line is kept, nothing is left to be broken. *)
LEMMA AllKeptKeeps == ASSUME AllKept' PROVE Keeps'
BY DEF Keeps, AllKept

LEMMA KeptNext == ASSUME SkipInv, KeptInv, [Next]_vars PROVE KeptInv'
<1> SUFFICES ASSUME Orderly' PROVE Keeps'
  BY DEF KeptInv
<1>0. scene' = scene /\ Modes' = Modes
  BY AnyMoves, SceneStays DEF SkipInv, KnownInv
<1>1. ListBegins \/ Orderly
  <2>1. sound
    BY SoundBefore DEF Orderly
  <2> QED BY <1>0, <2>1, CleanNext DEF Orderly, SkipInv
<1>2. CASE ListBegins
  BY <1>2, KeepsBegins
<1>3. CASE Orderly /\ ~ListBegins
  <2>0. /\ KeptLines \subseteq KeptLines' /\ (AllKept => AllKept') /\ Keeps /\ missing' = missing
        /\ ~alarmed' /\ ~(MonitorList /\ Begins) /\ list' = list
    BY <1>3, KeptGrows, CleanNext DEF KeptInv, Orderly, SkipInv
  <2> SUFFICES ASSUME ~AllKept PROVE Keeps'
    BY <2>0, AllKeptKeeps
  <2>1. CASE MonitorList
    BY <1>3, <2>0, <2>1, KeepsResumes
  <2>2. CASE ClientCrash
    BY <1>3, <2>0, <2>2, KeepsCrash
  <2>3. CASE SkipFile \/ SendFile \/ Work_StartList
    BY <1>3, <2>0, <2>3, KeepsSkips, KeepsSends, KeepsStarts DEF Orderly
  <2>4. CASE BuildLocalMd5 \/ FilesEnd \/ Drain \/ TakeMd5 \/ Check
    BY <1>3, <2>0, <2>4, KeepsThread DEF Orderly
  <2>5. ~Work_CloseList /\ ~Finish
    BY <1>3, <2>0, EndKeeps, NotYet DEF Work_CloseList, Finish
  <2>6. ASSUME NEW g \in Groups, Send(g) \/ SendLost(g) PROVE Keeps'
    BY <1>3, <2>0, <2>6, SendsOn, KeepsReleases DEF SkipInv, KnownInv
  <2>7. CASE /\ \A g \in Groups : Pending(g)' = Pending(g)
             /\ UNCHANGED <<scene, lst, m_FileNum>>
    BY <2>0, <2>7, KeepsRests
  <2>8. ASSUME NEW g \in Groups, PopCommand(g) PROVE Keeps'
    BY <2>7, <2>8, PendingPop DEF PopCommand, SkipInv, KnownInv, Inv
  <2>9. CASE ListArrives \/ UNCHANGED vars \/ \E g \in Groups : Md5Thread(g) \/ ServerCrash(g)
    <3>1. UNCHANGED <<scene, lst, m_FileNum, que, snd>>
      BY <2>9 DEF ListArrives, Md5Thread, ServerCrash, vars, client
    <3> QED BY <2>7, <3>1, PendingStays
  <2> QED BY <2>1, <2>2, <2>3, <2>4, <2>5, <2>6, <2>8, <2>9 DEF Next, ListThread, ServerThread
<1> QED BY <1>1, <1>2, <1>3

(* A restarted client skips no file of the first group that is neither closed nor in its place: however often
   client and servers are killed, in a list of which nothing was given up and that began when the last one had
   been carried out. *)
THEOREM SkippedFilesWereSent == Spec => []SkipsOnlySent
<1> DEFINE Skips == SkipInv /\ KeptInv
<1>1. Init => Skips
  <2>1. Init => FreshInv /\ SentInv /\ KeptInv
    <3> SUFFICES ASSUME Init PROVE ~Clean
      BY DEF FreshInv, SentInv, KeptInv, Orderly
    <3> QED BY DEF Init, Clean
  <2> QED BY <2>1, KnownInit, CountInit, Md5Init DEF SkipInv
<1>2. Skips /\ [Next]_vars => Skips'
  BY KnownNext, CountNext, FreshNext, SentNext, Md5Next, KeptNext DEF SkipInv, KnownInv, Inv
<1>3. Skips => SkipsOnlySent
  <2> SUFFICES ASSUME KnownInv, KeptInv, lst.at = "file", lst.g = 1, Modes[1] = "ALL", sound, ~alarmed, dirty \subseteq {"crash"},
                      NEW i \in 1 .. Len(Lines), i <= lst.skip, Lines[i] \notin missing
               PROVE  Lines[i] \in done[1] \/ InstalledAt(1, Lines[i])
    BY DEF SkipsOnlySent, SkipInv
  <2>1. "Ready" \in names
    BY DEF KnownInv, Inv, ClientInv, ListType
  <2>2. Keeps
    BY <2>1 DEF KeptInv, Orderly, Clean
  <2>3. i \in KeptLines
    BY <2>2 DEF Keeps, InOrder, AllKept
  <2> QED BY <2>3 DEF KeptLines, Held, InstalledAt, Now
<1> HIDE DEF Skips
<1> QED BY <1>1, <1>2, <1>3, PTL DEF Spec
=============================================================================
