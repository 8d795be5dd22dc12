----------------------------- MODULE UpdateCycle -----------------------------
(***************************************************************************)
(* The two programs that tell the machines of a search cluster when to     *)
(* take new data, by creating and removing symbol files on them:           *)
(* SymbolMonitor::run (symbol_monitor.cpp), started by a BrokerStart       *)
(* symbol, and ThreadUpdate::run (thread_update.cpp), started by the hour  *)
(* or by an AllUpdate symbol.  Their requests are served by data servers   *)
(* on the bases and by index servers on the index machines and brokers     *)
(* (ServerRequests, IsBrokerWork), and both use the same symbols.          *)
(*                                                                         *)
(* What reads the symbols is not part of the repository: a base takes      *)
(* AllUpdate away, a broker TransmitEnd; lists arrive at index machines    *)
(* and brokers, and ExportEnd symbols beside ThreadUpdate, at any time.    *)
(***************************************************************************)
EXTENDS ServerRequests

CONSTANTS
  Bases,       \* the bases, in order
  Collected,   \* the machines whose list a round takes, in order: of each group the index machines, then the brokers
  Brokers,     \* the brokers of all groups, in order
  List,        \* the list every group waits for
  AllUpdate, UpdateService, TransmitEnd, \* the symbols
  Exporters,   \* m_dwbrokerCnt
  MaxRounds,   \* bound: rounds of SymbolMonitor, and of ThreadUpdate
  MaxLost      \* bound: requests and answers lost, errors of the machines

Monitored == ToSet(Collected)
Machines == ToSet(Bases) \cup Monitored

ASSUME UpdateCycleAssumption ==
  /\ Bases \in Seq(Machines) /\ Bases # <<>> /\ \A i, j \in DOMAIN Bases : Bases[i] = Bases[j] => i = j
  /\ Collected \in Seq(Machines) /\ Brokers \in Seq(Monitored)
  /\ ToSet(Bases) \cap Monitored = {}
  /\ {AllUpdate, UpdateService, TransmitEnd} \subseteq Files /\ List \in Lists \ Files
  /\ AllUpdate # UpdateService
  /\ NoFile \notin Seq({Garbage})
  /\ Exporters \in 1 .. 4 /\ MaxRounds \in Nat /\ MaxLost \in Nat

VARIABLES
  mach,          \* the machines
  start,         \* BrokerStart is there
  mon,           \* SymbolMonitor: the request of its round it makes, 0 before it is started
  allUpdate,     \* the local AllUpdate is there
  exportEnd,     \* the ExportEndOnN symbols that are there
  upd,           \* ThreadUpdate: what it does, and with which machine or exporter
  alarmed,       \* the bases SendSmsNotify told of
  rounds,        \* history: rounds begun, of each program
  lost,          \* spent of MaxLost
  unanswered,    \* history: requests that were served without an answer
  overlap,       \* history: the programs were in a round at the same time
  renamed,       \* history: machines whose list was renamed in this round
  taken          \* history: how often a base took AllUpdate away

monitor == <<start, mon, renamed>>
updater == <<allUpdate, exportEnd, upd, alarmed>>
history == <<rounds, overlap>>
vars == <<mach, monitor, updater, history, lost, unanswered, taken>>

IS == INSTANCE IsBrokerWork

Serve(m, req) == IF m \in Monitored THEN IS!Work(mach[m], req) ELSE Work(mach[m], req)

Create(m, symbol, data) == [m |-> m, req |-> [op |-> "CREATE_FILE", n |-> Final(symbol), data |-> data]]
TakeList(m) == [m |-> m, req |-> [op |-> "RENAME_FILE", n |-> Final(List), to |-> <<List, "smtmp">>]]
Drop(m, symbol) == [m |-> m, req |-> [op |-> "DEL_FILE", n |-> Final(symbol)]]

(* AllUpdate, then UpdateService, on one base after the other. *)
BothSymbols(data) ==
  [k \in 1 .. 2 * Len(Bases) |->
     Create(Bases[(k + 1) \div 2], IF k % 2 = 1 THEN AllUpdate ELSE UpdateService, data)]

(* A round of SymbolMonitor: every request, in its order. *)
Announce == BothSymbols(<<>>)
Collect == [k \in 1 .. Len(Collected) |-> TakeList(Collected[k])]
Conclude == [k \in 1 .. Len(Brokers) |-> Create(Brokers[k], TransmitEnd, <<>>)]
Release == [k \in 1 .. Len(Bases) |-> Drop(Bases[k], UpdateService)]

Round_ReleasesEarly == Announce \o Collect \o Release \o Conclude
Round_ConcludesEarly == Announce \o Conclude \o Collect \o Release
Round_AnnouncesTwice == Announce \o Announce \o Collect \o Conclude \o Release
Round_ReleasesTwice == Announce \o Collect \o Conclude \o Release \o Release

Round == Announce \o Collect \o Conclude \o Release

(* What ThreadUpdate creates, with the date as data. *)
Date == <<Garbage>>
Creates == BothSymbols(Date)
Removes == [k \in 1 .. Len(Bases) |-> Drop(Bases[k], UpdateService)]

UpdaterAt(at, i) == [at |-> at, i |-> i]

Init ==
  /\ mach = [m \in Machines |-> NewMachine]
  /\ start = FALSE /\ mon = 0
  /\ allUpdate = FALSE /\ exportEnd = {} /\ upd = UpdaterAt("wait", 0) /\ alarmed = {}
  /\ rounds = [monitor |-> 0, updater |-> 0]
  /\ lost = 0 /\ unanswered = 0 /\ overlap = FALSE
  /\ renamed = {} /\ taken = [b \in ToSet(Bases) |-> 0]

-----------------------------------------------------------------------------
(* A request to machine r.m, for which WorkClient::send returns ret: it is lost, or served and answered,
   or its answer is lost. *)
Ask(r, ret) ==
  \/ /\ ret = -1
     /\ lost < MaxLost /\ lost' = lost + 1
     /\ UNCHANGED <<mach, unanswered>>
  \/ \E o \in Serve(r.m, r.req) :
       /\ mach' = [mach EXCEPT ![r.m] = o.srv]
       /\ \/ /\ ret = IF o.ret < 0 THEN o.ret ELSE 0
             /\ lost + o.bad <= MaxLost /\ lost' = lost + o.bad
             /\ UNCHANGED unanswered
          \/ /\ ret = -1
             /\ lost + o.bad < MaxLost /\ lost' = lost + o.bad + 1
             /\ unanswered' = unanswered + 1

Returns == {-2, -1, 0}

(* Steps 1 and 2: BrokerStart is renamed. *)
MonitorBegins ==
  /\ mon = 0 /\ start
  /\ start' = FALSE
  /\ mon' = 1 /\ renamed' = {}
  /\ rounds' = [rounds EXCEPT !.monitor = @ + 1]
  /\ overlap' = (overlap \/ upd.at # "wait")
  /\ UNCHANGED <<mach, updater, lost, unanswered, taken>>

(* Steps 3 to 6: each request is repeated until it succeeds. *)
AfterRequest_NeverWaits(ret) == IF ret # 0 THEN mon ELSE mon + 1

AfterRequest(ret) == IF ret # 0 THEN mon ELSE IF mon < Len(Round) THEN mon + 1 ELSE 0

MonitorAsks ==
  /\ mon # 0
  /\ \E ret \in Returns : Ask(Round[mon], ret) /\ mon' = AfterRequest(ret)
  /\ renamed' = IF Round[mon].req.op = "RENAME_FILE" /\ mach' # mach THEN renamed \cup {Round[mon].m} ELSE renamed
  /\ UNCHANGED <<start, updater, history, taken>>

-----------------------------------------------------------------------------
(* ThreadUpdate begins at its hour, which may be any time, or with a local AllUpdate, and renames the
   ExportEnds 0 and 1 that are still there, to .Delay. *)
UpdaterBegins ==
  /\ upd.at = "wait" /\ rounds.updater < MaxRounds
  /\ upd' = UpdaterAt("create", 1)
  /\ exportEnd' = exportEnd \ {1, 2}
  /\ rounds' = [rounds EXCEPT !.updater = @ + 1]
  /\ overlap' = (overlap \/ mon # 0)
  /\ UNCHANGED <<mach, monitor, allUpdate, alarmed, lost, unanswered, taken>>

(* AllUpdate and UpdateService on every base, repeated until it is answered. *)
UpdaterCreates ==
  /\ upd.at = "create"
  /\ \E ret \in Returns :
       /\ Ask(Creates[upd.i], ret)
       /\ upd' = IF ret < 0 THEN upd
                 ELSE IF upd.i < Len(Creates) THEN UpdaterAt("create", upd.i + 1)
                 ELSE UpdaterAt("local", 0)
  /\ UNCHANGED <<monitor, allUpdate, exportEnd, alarmed, history, taken>>

(* The local AllUpdate is renamed with the time. *)
UpdaterRenames ==
  /\ upd.at = "local"
  /\ allUpdate' = FALSE
  /\ upd' = UpdaterAt("export", 1)
  /\ UNCHANGED <<mach, monitor, exportEnd, alarmed, history, lost, unanswered, taken>>

ExportAfter_OneMore(i) == IF i <= Exporters THEN UpdaterAt("export", i + 1) ELSE UpdaterAt("remove", 1)

(* The ExportEnd of every exporter, in turn. *)
ExportAfter(i) == IF i < Exporters THEN UpdaterAt("export", i + 1) ELSE UpdaterAt("remove", 1)

UpdaterWaits ==
  /\ upd.at = "export"
  /\ upd.i \in exportEnd
  /\ upd' = ExportAfter(upd.i)
  /\ UNCHANGED <<mach, monitor, allUpdate, exportEnd, alarmed, history, lost, unanswered, taken>>

(* UpdateService is removed once from every base; what fails is told, never repeated. *)
AlarmFor_Never(m, ret) == alarmed
AlarmFor(m, ret) == IF ret # 0 THEN alarmed \cup {m} ELSE alarmed

UpdaterRemoves ==
  /\ upd.at = "remove"
  /\ \E ret \in Returns :
       Ask(Removes[upd.i], ret) /\ alarmed' = AlarmFor(Removes[upd.i].m, ret)
  /\ upd' = IF upd.i < Len(Removes) THEN UpdaterAt("remove", upd.i + 1) ELSE UpdaterAt("finish", 0)
  /\ UNCHANGED <<monitor, allUpdate, exportEnd, history, taken>>

(* Every ExportEnd that is there is renamed to .updated. *)
UpdaterFinishes ==
  /\ upd.at = "finish"
  /\ exportEnd' = {}
  /\ upd' = UpdaterAt("wait", 0)
  /\ UNCHANGED <<mach, monitor, allUpdate, alarmed, history, lost, unanswered, taken>>

-----------------------------------------------------------------------------
(* External. *)

BrokerStarts ==
  /\ ~start /\ rounds.monitor < MaxRounds
  /\ start' = TRUE
  /\ UNCHANGED <<mach, mon, renamed, updater, history, lost, unanswered, taken>>

AllUpdateArrives ==
  /\ ~allUpdate
  /\ allUpdate' = TRUE
  /\ UNCHANGED <<mach, monitor, exportEnd, upd, alarmed, history, lost, unanswered, taken>>

ExportEnds(i) ==
  /\ i \notin exportEnd
  /\ exportEnd' = exportEnd \cup {i}
  /\ UNCHANGED <<mach, monitor, allUpdate, upd, alarmed, history, lost, unanswered, taken>>

ListArrives(m) ==
  /\ ~Exists(mach[m], Final(List))
  /\ mach' = [mach EXCEPT ![m] = Write(@, Final(List), <<>>)]
  /\ UNCHANGED <<monitor, updater, history, lost, unanswered, taken>>

BaseUpdates(b) ==
  /\ Exists(mach[b], Final(AllUpdate))
  /\ mach' = [mach EXCEPT ![b] = Unlink(@, Final(AllUpdate))]
  /\ taken' = [taken EXCEPT ![b] = @ + 1]
  /\ UNCHANGED <<monitor, updater, history, lost, unanswered>>

BrokerTakes(m) ==
  /\ Exists(mach[m], Final(TransmitEnd))
  /\ mach' = [mach EXCEPT ![m] = Unlink(@, Final(TransmitEnd))]
  /\ UNCHANGED <<monitor, updater, history, lost, unanswered, taken>>

External ==
  \/ BrokerStarts \/ AllUpdateArrives
  \/ \E i \in 1 .. Exporters : ExportEnds(i)
  \/ \E m \in Monitored : ListArrives(m) \/ BrokerTakes(m)
  \/ \E b \in ToSet(Bases) : BaseUpdates(b)

Monitor == MonitorBegins \/ MonitorAsks
Updater ==
  \/ UpdaterBegins \/ UpdaterCreates \/ UpdaterRenames \/ UpdaterWaits
  \/ UpdaterRemoves \/ UpdaterFinishes

Next == Monitor \/ Updater \/ External

Spec == Init /\ [][Next]_vars

(* Both programs run on, lists and ExportEnds keep coming. *)
FairSpec ==
  /\ Spec
  /\ WF_vars(Monitor)
  /\ WF_vars(UpdaterCreates \/ UpdaterRenames \/ UpdaterWaits \/ UpdaterRemoves \/ UpdaterFinishes)
  /\ \A m \in Monitored : WF_vars(ListArrives(m))
  /\ \A i \in 1 .. Exporters : WF_vars(ExportEnds(i))

-----------------------------------------------------------------------------
Items == {Garbage}
Contents == Seq(Items) \cup {NoFile, Empty}

TypeOK ==
  /\ \A m \in Machines : mach[m].disk \in [Names -> Contents]
  /\ start \in BOOLEAN /\ allUpdate \in BOOLEAN /\ overlap \in BOOLEAN
  /\ mon \in 0 .. Len(Round)
  /\ exportEnd \subseteq 1 .. Exporters
  /\ upd \in [at : {"wait", "create", "local", "export", "remove", "finish"}, i : Nat]
  /\ upd.at = "create" => upd.i \in DOMAIN Creates
  /\ upd.at = "remove" => upd.i \in DOMAIN Removes
  /\ upd.at = "export" => upd.i \in 1 .. Exporters
  /\ alarmed \subseteq ToSet(Bases)
  /\ rounds \in [monitor : Nat, updater : 0 .. MaxRounds]
  /\ lost \in 0 .. MaxLost /\ unanswered \in 0 .. lost
  /\ renamed \subseteq Monitored /\ taken \in [ToSet(Bases) -> Nat]

InService(b) == Exists(mach[b], Final(UpdateService))

(* A base must not merge while data is collected or exported: UpdateService stays on every base from the
   last create of SymbolMonitor to its first remove, and while ThreadUpdate waits for the exporters;
   whatever is lost or repeated, as long as only one of the two programs has ever been in a round. *)
ServiceHeld ==
  ~overlap /\ (\/ mon > Len(Announce) /\ mon <= Len(Round) - Len(Release)
              \/ upd.at \in {"local", "export"}) =>
    \A b \in ToSet(Bases) : InService(b)

(* A broker is told TransmitEnd only when the list of every machine of every group was taken in this
   round, also of those whose answer was lost. *)
EndAfterAll ==
  [][\A m \in Monitored :
       ~Exists(mach[m], Final(TransmitEnd)) /\ Exists(mach'[m], Final(TransmitEnd)) =>
         renamed = Monitored]_vars

(* A base takes AllUpdate at most once for each round of a program; only a request that was served
   without an answer, and so was repeated, can make it once more. *)
TakenOnce ==
  \A b \in ToSet(Bases) : taken[b] <= rounds.monitor + rounds.updater + unanswered

(* When both programs are at rest, a base that still has UpdateService, and so will not merge, is one
   that a text message was sent about. *)
ServiceLeftAlarmed ==
  mon = 0 /\ upd.at = "wait" => \A b \in ToSet(Bases) : InService(b) => b \in alarmed

(* Every round of ThreadUpdate ends, whatever is lost: what it repeats may be repeated after it was served,
   and what may not be repeated it makes once. *)
UpdaterEnds == upd.at # "wait" ~> upd.at = "wait"

(* Every round of SymbolMonitor ends, when no answer was lost to a request that was served and the other
   program did not remove its symbols: a repeated remove of a symbol that is gone fails for ever. *)
MonitorEnds == [](unanswered = 0 /\ ~overlap) => (mon # 0 ~> mon = 0)
=============================================================================
