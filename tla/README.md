# Verification of the DFSystem file distribution

DFSystem copies lists of files from one sending machine to groups of receiving
machines, and tells the machines of a search cluster when to take them. This
directory holds TLA+ models of its parts, the TLC runs that check them on small
instances, and proofs that TLAPS checks for all instances. Paths are relative to
`src/src/`; in this text CS, SW, MC, SM, TU and WC stand for `QSEPSDF_CS.cpp`,
`QSEPSDF_SSWork.cpp`, `QSEPSDF_MainControl.cpp`, `symbol_monitor.cpp`,
`thread_update.cpp` and `work_client.cpp`.

## 1. The system

A *list* is a text file with the names of data files. A sending client
(`DFS_DataClient`, `DFSystem -c`) waits for a list, and sends every file of it to
every *group* of the list's configuration; a group has one or more servers and a
type. `ALL` groups get whole files at every server. `MOD` groups get the lines of
the files, each line at the one server its key selects. Servers
(`DFS_DataServer`, `DFSystem -s`) store a file as `name.df`; once its md5 has been
checked it is renamed to `name`. Index servers (`DFS_IndexServer`) run a copy of
that server. Two more programs coordinate the cluster with symbol files that they
create and remove on its machines, and `xtool_dfscp` is a client for the command line.

| Part | State | Operations | Talks to |
|---|---|---|---|
| `QueEvent` (Global.h) | ring `lpQue`, `lBegin`, `lEnd`, `lNum`, lock | Push, Push_W, Pop, Pop_W, PopAll, PopEvent, PushEvent | every pool and queue of indices is one |
| `CMemManger` (MemManger.cpp) | unit labels, counter of used units, lock; one array for large (BIG) and one for small (SUITE) units | Reqmem, Freemem | called by MainControl |
| `CQSEPSDF_MainControl` | the data fields (commands in flight), the ring of free ones, per list the count of finished files, in memory and in a file | GetAFreeField, FreeAField, UpdateLstNO, ResetLstNO, ReadLstNO | list threads take fields, server threads free them |
| `CQSEPSDF_CS` | one thread per list (`MainWork`), one per list, group and server (`Main_Command`), a queue of field indices between them; the list files `.Ready`, `.Finish`, the local `.md5` files | Work_StartList, Work_OpenFile, Work_ALLData, Work_ModData, Work_CloseFile, Work_CloseList, Work_Verify; CreateALst, OpenAFile, WriteADataToFile, CloseAFile, EndALst | sends requests to servers over TCP |
| `QSEPSDF_SSWork`, `CQSEPSDF_SS` | maps of open `FILE*`, the files on disk, rings of md5 jobs, the map of started processes | one handler per request (16) | answers clients, hands closed files to md5 threads |
| `ThreadMd5` | its current job | run, buildMd5 | slots `g_FilePos`, `g_WorkPos`, `g_QueFile` |
| `IsBrokerWork` | as SSWork | a copy of SSWork that has drifted | clients |
| `WorkClient`, `xtool_dfscp` | a connection | one method per request, sendFile, sendList, checkMD5 | servers |
| `SymbolMonitor` | `BrokerStart`, where it is in a round | run | data servers on the bases, index servers on index machines and brokers |
| `ThreadUpdate` | `AllUpdate`, the `ExportEnd` files, where it is in a round | run | data servers on the bases |
| `SmsNotify`, `TimedQueue` | delayed messages, counters per day | push, pop, alarms | called by the loops of the client |
| eagle headers | thread queue, locks, counted pointers; the epoll server and TCPClient are in a binary archive | | everything |

What is hard in this code:

* **Sharing of fields.** A field carries one command for several servers. The list
  thread pushes its index to one queue after the other, the server threads work
  and let go in any order, and the last frees it, possibly before the list thread
  is done pushing.
* **Retry.** A failed WRITE is repeated for ever, everything else five times, and is
  then given up with a text message. A lost answer makes the server execute a request twice,
  which is harmless for some requests and not for others (a second rename or remove fails).
* **The check at the end.** It starts when queues are empty, over connections of its own,
  while the md5 of the files is computed by other threads of the server.
* **Restart.** A restarted server has lost its `FILE*`s, their buffers and its md5 jobs
  and keeps the files. A restarted client has a count of files, a `.Ready` file and some
  local `.md5` files, saved at different moments, and nothing else.
* **Several clients of one server.** The maps of `FILE*`s, the `.md5` files and the md5 jobs are
  shared by whoever sends the same name.
* **Symbols shared by two programs.** Both create and remove `UpdateService` on the same bases.
* **Bounded resources.** Fields, memory units, slots: whoever needs one waits, and
  what one thread forgets to return is missed by all.

## 2. The modules

| Module | Models | Extends / uses |
|---|---|---|
| `BoundedFifo` | what `QueEvent` promises (abstract) | |
| `QueEvent` | the ring as coded | refines `BoundedFifo` |
| `Allocator` | what `CMemManger` promises: first fit (abstract) | |
| `MemManger` | labels, counter and the scan of `Reqmem` | refines `Allocator` |
| `MainControl` | the pool of fields, each operator one call | |
| `Dispatch` | list threads and server threads of the client | extends `MainControl` |
| `ServerFiles` | the server's files, slots and md5 threads | |
| `ServerWork` | the server thread during a transfer, its clients, restarts | extends `ServerFiles` |
| `ServerRequests` | every request of a data server, as an operator from a machine to its outcomes | |
| `IsBrokerWork` | every request of an index server | instantiates `ServerRequests` |
| `WorkClient` | several clients of one machine, with every command of `WorkClient` and `xtool_dfscp` | extends `ServerRequests`, instantiates `IsBrokerWork` |
| `UpdateCycle` | `SymbolMonitor` and `ThreadUpdate` with the machines of a cluster | as `WorkClient` |
| `ListTransfer` | whole lists: the list thread, its groups in turn, the servers, restarts of both | extends `ServerRequests` |
| `QueEventProofs`, `MemMangerProofs`, `DispatchProofs`, `UpdateCycleProofs`, `ListTransferProofs` | proofs | the module they are named after |
| `ServerProofs` | proofs about `ServerWork` | |
| `WorkClientProofs` | proofs about `WorkClient` | extends `ServerRequestsProofs` |
| `ServerRequestsProofs` | lemmas: what each request does to a machine | used by `ListTransferProofs` and `WorkClientProofs` |
| `MC*` | constants for TLC | |

The client and the server are modelled twice, at two grains. `Dispatch` has the fields, queues
and threads of the client and reduces a server to the last command it carried out, the set of open
files and the number of stored blocks. `ServerWork` has the buffers, slots and threads of the server and
reduces the client to a sender whose next request is the one the order checked of `Dispatch` (`InOrder`) allows in an ALL group.
`ServerRequests` gives up these interleavings inside one request, a request being one step, and
gains whole sequences of all sixteen requests by several clients; `WorkClient`, `UpdateCycle` and
`ListTransfer` are its three compositions with clients. The rings of indices are plain sequences everywhere,
as `QueEvent` is shown to be a FIFO; memory is counted per field in `MainControl`,
because the one caller asks for equal blocks, and the block structure is the
matter of `MemManger`.

### QueEvent

`ring` is lpQue with lBegin, lEnd, lNum. A call is two steps: `Call` chooses the
operation, and the action with the operation's name is its critical section.
`Push_W` and `PushEvent` wait for room by polling, which is the guard of `Push`.
`PopEvent` waits in the loop of its lock, so it has an entry step of its own.
`PopAll` returns all there is. `GetFreeNum` is an unguarded read.

### MemManger

One pool; BIG and SUITE run the same code on their own arrays under one lock, so
two pools only exclude each other in time. A pointer is the number of a unit.
`Reqmem` is a call step, `EnterRefused` (the counter says no) or `EnterScan` (lock
taken), and a round of the loop at a time: `ScanEnds` (the run would leave the pool),
`ScanTakes` (the run is free: labels written, counter raised, lock returned),
`ScanHits` (both ends free, something in use between), `ScanSkips` (an end in
use: one unit on, or past the run when both are). `Freemem` is one step, since
it holds the lock throughout. `held` stands for the `m_PData` and `m_DataSize` of
the data fields: a block that was returned and not yet freed.

### MainControl and Dispatch

`m_Que`, `m_DataF`, `m_FileNum` and `m_pDataQue` are the variables of these names.
A data field keeps what the code branches on; the name, list and data it carries
are the number of the command in its list (`cmd`). `lst[l]` is where `MainWork` of
list l is: it fetches a field and fills it (`Work`, or `WorkNoMem` when there is no
memory), pushes it to one server after the other (`Push`), waits for the queues
to be empty (`Drain`), checks (`Verify`) and goes to the next group.
`srv[c]` is the thread `Main_Command` of server c = (list, group, server): `PopCommand`,
the batching loop of a MOD group (`PopMore`, `CheckMore`), `Send` and its failures
(`SendLost`: connection, `SendRefused`: the server reports an error), the test of the
shared result (`Test`), `FreeCommand`, and the CLOSE that ended a batch (`AfterBatch`).
A step is a stretch of code between two points at which another thread can see or
disturb it; in particular the write of `m_Result` (CS 560) and its test (CS 563) are two steps, and so
are the free of a batched field (CS 1682, 1708) and the reads of its type after it (CS 1711, 1721).
`srv[c].freed` and `reread` are history: the thread still has the number of a field it has freed itself, and some thread
took the CLOSE that such a field had become for its own.
`FreeAField` of a field that has been freed before would lock the mutex at index -1;
that is undefined, and the model takes the thread not to return.

### ServerFiles and ServerWork

`df`, `md5` and `final` are the files `name.df`, `name.md5` and `name`; a content is the
sequence of blocks, and a content stands for its own md5. A `FILE*` has a name it
writes to and a buffer that reaches the file at any write, or at the close:
`WriteToFile` chooses. After a rename it writes to the new name. A .md5 that was opened
for writing is `Empty` until `WriteMd5`. `CloseAFile` is three steps, since md5 threads
work in between; `CheckMD5` without a .md5 is two (`CheckMD5Builds`,
`CheckMD5Compares`). `Restart` empties all memory and may come between any two steps.
`AnswerSender` and `AnswerVerify` are the answers, which may be lost; `RequestLost`
loses a request. The machine may fail wherever the code looks at the result: `OpenAFileFails` (the `FILE*` of the last
transfer is closed, there is no new one, -1 is answered), `WriteToFileFails` (nothing, or a part of the buffer and of the block
is in the file; the part of a block has the place 0), `CheckMD5Fails` (-3: there is a .md5 and it cannot be opened; -4: there is none and it
cannot be built), and `InstallFails`, the rename behind a check, which is only logged: the .md5 goes and the answer is 0.
The bound `MaxLost` counts these failures with the losses. `CheckMD5NoFile` is the case in which `stat` fails and the code reads
the buffer it did not fill: either answer is possible.
`owed`, `early`, `leftover` and `unread` (a check failed with -3 or -4) are history variables, used by properties only.

### ServerRequests and IsBrokerWork

A machine is a record: `disk` from names to contents, `m_mapNameFile` and `m_mapList` (a `FILE*` is the
name its file has now, `Gone` when it has lost it), the jobs of the md5 threads, the entries of
`m_mapProcPid` (their order is that of the programs' names, which are numbers here), and the processes with their state: a child of the server process that runs or
is a zombie, or foreign, that is started by somebody else or by an earlier server process. All three `main`s install a handler of SIGCHLD that waits for
one child per signal: a child that ends is gone at once, or stays a zombie when two signals come together (`Exits`), and its pid is
free for anybody (`ForeignStarts`) while its entry stays in `m_mapProcPid`. Each request is an operator that yields the set of its outcomes: the machine afterwards, the
answer, and `bad`, 1 when an operation of the machine failed (fopen, fwrite, rename, fork, ...), so that the
modules above can bound such errors. A rename that fails in CHECK_MD5 (`TriesInstall`) or in a MOD CLOSE (`HandOver`) has `bad` 1 and the answer 0. Reads of memory that was never written (the stat buffer of a name that is
not there, data behind a request that carried none) are choices. `Work` is the switch of `work`.
`IsBrokerWork` names every operation of its class; those that are the same code refer to
`ServerRequests`, and the three that have drifted are written out.

### WorkClient

`cl[c]` is a client at one request of its command: the one-request commands, `sendFile`, `sendList` and
`checkMD5` with its endless retry. `Served` is a request that was served, with or without an answer,
`NotServed` one that was not. `Md5Thread`, `ProcessExits`, `ProcessStarts`, `Restart` and `TakeList` (somebody reads a list
and takes it away) go on meanwhile. `broke` and `clean` describe a client's transfer, `unrenamed` the clients whose check was answered with 0
though its rename failed, and `owed`, `unended`, `crossed` the lists; all are history, used by the properties.

### UpdateCycle

`Round` is the sequence of requests of a round of `SymbolMonitor::run`, in its order, as a function of the position; `mon` is the
position it is at, and `MonitorAsks` repeats that request until it succeeds. The loops over groups, and over the machines of a group, are
one sequence (`Collected`, `Brokers`), since nothing happens between two groups. `upd` is where `ThreadUpdate::run` is: creates, the local `AllUpdate`,
the wait for each exporter, the removes that are never repeated, the end. What the bases, the brokers, the exporters and
the senders of lists do is external: they may take a symbol, bring a list or an ExportEnd at any time.

### ListTransfer

`names`, `saved` and `md5s` are what is on the client's disk: the list file and what it is renamed to, the count
file and the local `.md5` files. `lst` is the thread of the list, a step per file operation or group of pushes;
`snd[g]` the thread of the one server of group g. `Work_Verify` asks for the files in the order of its map, which is any order here. `ClientCrash` and `ServerCrash` may come between any two
steps. A `Scene` fixes the types of the groups, the number of lists, of md5 threads and of crashes.

## 3. What the runs show

| Run | Question | Instance |
|---|---|---|
| `MCQueEvent` | Is the ring a bounded FIFO? | 3 threads, 2 slots, 2 values |
| `MCMemManger` | Are blocks disjoint, is the scan first-fit and finite? | 2 threads, 6 units, blocks of 1 to 3 |
| `MCDispatchLists` | Do two lists that share everything finish; is a shared field freed once, by the last; is the order kept; do the checks come after the data? | 2 lists, one for 1 server and one for a group of 2, 2 fields, memory for 1, 1 failure |
| `MCDispatchMod` | Does the batching of a MOD group keep fields and order, whatever is given up, when fields are used again at once? | 1 list, MOD group of 2 servers, up to 3 lines, 3 fields for 7 commands, 2 failures |
| `MCServerWork` | Is every closed file hashed under its own name, and does nobody wait for ever? | 2 files, 2 threads, 1 slot, 2 losses, 1 restart |
| `MCServerRuns` | Is what gets its final name whole, over losses, duplicates, restarts and a second transfer? | 1 file, 2 transfers, 2 slots, 2 losses or errors of the machine, 1 restart |
| `MCWorkClient` | What may two clients that use one server conclude from its answers? | 2 clients, either kind of server, 6 sessions of 1 to 3 commands, 2 losses, errors or restarts |
| `MCUpdateCycle` | What do the symbols promise to a base and a broker, and do rounds end? | 1 base, 1 index machine, 1 broker, 2 exporters, a round of each program, 1 loss or error |
| `MCListTransfer` | What does a finished list mean at the servers, what may a restarted client skip, is every list finished? | 2 files, one of them perhaps unreadable, 4 scenes, 1 loss or error, 1 crash |

The properties, with the condition each needs; where a condition is named by a history variable,
TLC finds a counterexample without it, which section 4 or 5 describes:

* `RingShape`, `FifoSpec`: the ring holds what was pushed and not yet taken, in order.
* `LabelsMatch`, `FirstFit`, `ScanReturns`: labels and blocks coincide; `Reqmem` gives the first run
  that fits and refuses only when none does.
* `FreeFieldsUnused`: a free field is in nobody's queue or hands. `RefCountExact`:
  `m_FreeSymbole` is the number of threads that have not let go, those not yet pushed to
  included. `NothingLeaks`: a field that is not free has a thread that will free it, and the
  memory in use is that of such fields, also after commands that were given up.
* `InOrder`: a server of an ALL group never executes a command after a later one. `OrderedUnlessReread`: nor does one of a MOD
  group, however few fields there are, unless a thread took a field it had freed for its CLOSE, which does happen (section 5).
  `FieldsKeptUnlessReread`: nor are the three properties above broken by a MOD group in any other way. For ALL groups
  `NothingLeaks` has no run of its own: it is proved, and a leak would break `ListsFinish`.
* `VerifyAfterData`: the check begins when the queues of the group are empty and at most the CLOSE of the last file is in flight.
* `ListsFinish` of `Dispatch`: all lists finish and all fields return.
* `OneOwner`, `JobsMatch`: a slot is in exactly one place; a closed file is hashed exactly as often as it was handed over.
* `InstalledIsWhole`: a file under its final name is a whole version, in every order of the threads as long as nothing
  was lost or failed, and whatever was lost or failed when the check began with all files closed and each transfer began with
  the md5 threads at rest (`Orderly`). `RejectsOnlyDamaged`: in the orderly case a check fails only for damage, for a file
  that is installed already when the answer that said so was lost, or because the server says that it could not open or build the .md5 (`unread`).
* `CloseReturns`, `BacklogDrains`: a CLOSE does not wait for a slot for ever; the md5 threads work everything off.
* `SentIsInstalled`: when `sendFile` or `sendList` reports success the files are whole and under their names; for
  clients that were alone with the file and met nothing an earlier transfer left (`clean`), unless the rename failed (`unrenamed`).
* `NamesKept`: a name in an ended list stays, while further clients continue or begin the list, unless a START comes where the
  last one has had no END (`crossed`).
* `KillReaches`: a kill that is served leaves no process of that name that is a child of this server process.
* `CommandsReturn`: every command of a client returns.
* `ServiceHeld`: UpdateService stays on every base while data is collected or exported, as long as the rounds of the two
  programs have not overlapped (`overlap`).
* `TakenOnce`, `EndAfterAll`: a base sees AllUpdate once per round, plus once per unanswered request; brokers are told
  TransmitEnd only after the lists of all machines of all groups were taken in this round.
* `ServiceLeftAlarmed`: a base that is left with UpdateService at rest has been reported by text message.
* `UpdaterEnds`, `MonitorEnds`: rounds end; the monitor's when no answer to a served request was lost (`unanswered`).
* `FinishedIsInstalled`: when all groups of a list were gone through without a text message, every server of a verified group
  has every readable file, whole. `ModArrives`: at rest, an unverified group has the data of every file, unless something crashed.
  `dirty` names what the first excludes: a crash of the client, a check that met an empty .md5, a file opened while an md5
  thread still had work of its last version, a rename that failed and was answered with 0; the second excludes such a rename, too.
* `SkipsOnlySent`: what a restarted client skips in the first group was sent and released, or installed, in this list.
  `CountRests`: at rest the count is 0, so that the next list skips nothing. Both when no check failed and no
  crash lost the END behind a finished list (`sound`); the first also when no text message was sent (`alarmed`),
  no check met an empty .md5, no rename failed, no file was opened under an md5 thread's hands, and the list began when the last one had been
  carried out (`dirty`).
* `ListsFinish` of `ListTransfer`: every list that was begun is finished, crashes included.

### Bounds and why they suffice

Two lists, two servers of a group and two fields make every sharing happen: a
field used by one list and then by the other, by both servers in both orders, lists waiting for fields and
for memory. The ring of two slots is full, empty and wrapped with two values. The three fields of `MCDispatchMod` are
used again while the thread that freed one of them still has its number. Six
units give a run with free ends and a block of one unit between, adjacent blocks,
and a skip past a run with both ends in use. `MaxFail`, `MaxLost`, `MaxFaults`, `MaxRestarts` and the `crashes`
of a scene bound failures per behaviour: one or two are enough for a retry, a retry that fails again, a duplicate and a loss;
a loss and a crash can meet in one behaviour of `MCListTransfer`. `MaxTry` is 2 where
the code has 5: a command is given up after two failures in `MCDispatchMod`, and in `MCListTransfer` when a server that was restarted refuses it (an END without a START)
or a loss and a refusal meet. `BatchMax`, 666 in the code,
is small enough to be reached. `MaxFileNum` is 1 or 2 where the code has 2000, so
that a CLOSE does wait. `MaxRuns` bounds the transfers of a list, `MaxRounds` the rounds of a program. The sessions of `MCWorkClient` put together
what can disturb each other: transfers of the same file, a longer list, requests about one name, processes.
The scenes of `MCListTransfer` are two lists in a row, a verified and a MOD group, two verified groups, and an md5 thread that lags behind.

`CHECK_DEADLOCK FALSE` is used where the system may really stop: in `MCQueEvent` all threads may pop from an
empty ring; in `MCDispatchMod` a thread may free a field that is free already and not return; in `MCWorkClient`, `MCUpdateCycle` and `MCListTransfer` (and `MCListResumed`) nothing is left to do when nobody gives another command,
symbol or list.

### Fairness

`Dispatch` assumes weak fairness of every thread: threads are scheduled, and the loops
poll. No fairness makes a send fail, and failures are bounded; with unbounded
failures of a WRITE the list never ends, which is what the code intends.
`ServerWork` assumes weak fairness of the server thread, of each md5 thread and of the
clients' decision to go on. `MemManger` assumes it of a thread inside the loop only: nothing
in the code says who gets a lock, so it is not shown that each request returns, only that each scan does.
`WorkClient` assumes that a client with a request is served (losses are bounded), `ListTransfer` that the list thread and the
server threads of the client run. Both are written as `[]<>(the thread has nothing to do) \/ []<><<its step>>_vars`, which is weak fairness
with the enabling condition written out: the step is possible exactly when the thread has something to do, and it always changes something.
`UpdateCycle` assumes weak fairness of the two programs and, of the environment, that lists and ExportEnd files go on coming, which is
what both loops wait for.

## 4. Where code and stated intent differ

Each of the following runs is expected to find its property violated.

* `MCDispatchSharedResult`: `NothingLost`. `SendAData` writes the answer of its server to `m_Result` of the shared field (CS 560) and
  tests it (CS 563); another server's thread may write between the two, and the success of one hides the refusal of the other. The callers
  only look at what `SendAData` returns.
* `MCServerEmptyMd5`: `CheckedIsInstalled`. An empty .md5, just opened by an md5 thread, is answered with success, and nothing is renamed.
* `MCListResumed`: `ResumedIsInstalled`. A client killed after the last CLOSE was counted and before the verification
  skips the files and the verification with them; the list is reported as finished and its files keep their temporary names.

## 5. Also seen

Behaviours met while modelling, that no run is about; each is in the model, named by a history variable, or left out as said.

* SW 1013, 1055 and 586: a rename that fails is logged, and 0 is answered; after a check the .md5 is removed, too. The client reports a file as sent
  that keeps its `.df` (`unrenamed`, `dirty`).
* CS 1711 and 1721 read the operate type of a field that was freed at 1682 or 1708. The list thread may have filled it again, as the CLOSE of the
  file: the thread of a MOD group takes that for its own, sends it before WRITEs queued earlier, and frees the field, while it has still to be pushed to the
  second server. `FreeFieldsUnused` and `InOrder` fail for a MOD group as soon as there are fewer fields than commands; `MCDispatchMod` shows
  that nothing else makes them fail.
* CS 931: `Work_CloseFile` leaves `m_OPNO` as it was, so a CLOSE is counted for the list that used the field before. `MainControl` keeps the stale number.
* MC 292: `ResetLstNO` writes list number 0 into the counter file of any list. `ListTransfer` has one list, whose number is 0.
* MC 248: the count of a list is incremented under the lock of a field, so that two fields of a list may lose an increment. The modules count in one step;
  a lost increment makes a restart send a file again.
* CS 1485: the files a restarted client skips are counted over all groups and skipped in each, so that a second group may skip files it never got
  (`SkipsOnlySent` is about the first).
* CS 1485 with SW 988: a file whose OPEN was given up leaves no `.df`, so that its check is answered with success while its CLOSE, and
  those of the next groups, still count. A restart then skips a file that was never sent (`SkipsOnlySent` excludes it: a text message was sent).
* SW 378: a START where the last one had no END truncates `.dftmp` and loses its names (`crossed`).
* SW 905: `RecvSingleFile` keeps the `.md5` of an earlier transfer, so that the check of the next one compares with it (`clean`).
* SW 1661: when the pids cannot be written to a file, `fclose` of a null pointer ends the server process (`ExecProcess`).
* SW 1317: a kill walks the map of processes to its end, and so kills the processes of every name that sorts behind the one it was given. SW 1323: it does not ask whose
  the pid is now. The entry of a program that has ended and was waited for by the handler of SIGCHLD stays in the map, and a process of any name that has got the pid
  is killed for it. `KillReaches` is about the processes that ought to be killed; both happen in its run.
* SM 406-468: a rename or remove whose answer was lost has been done, is repeated, and fails for ever (`unanswered`).
* SM 365: `BrokerStart` is renamed before the round. A monitor killed during a round has lost it; the bases keep `UpdateService`.
* The monitor and the base update remove each other's `UpdateService` when their rounds overlap (`overlap`).
* TU 382 puts the ExportEnd files 0 and 1 of an earlier day aside, while 477 waits for those of all exporters, so that a stale third or fourth one ends its wait early.
* WC 320: `checkMD5` removes the local `.md5` file when it has read it. A client killed during the verification does not check that file again when it resumes
  the list, and a check that fails has no local md5 left for a second look.
* WC 695: `sendList` goes on to the END after a file failed, and returns the result of the END (`broke`).
* `data_verify.cpp` 258-310 looks for `.Ready` and renames it to `.Verify`, while its comment speaks of `.Finish`.

## 6. What is proved

The theorems hold for every value of the constants that satisfies the named
assumptions (`PoolAssumption`, `NullAssumption`, `LayoutAssumption`, `BoundsAssumption`, ...),
which only say that counts are natural numbers and that null values are distinct from real ones.

* `QueEventProofs`: `TypeCorrect`, `RingShapeCorrect`, `Refinement` (the ring implements `BoundedFifo`). The
  inductive invariant `IInv` adds to the types that `lEnd` is `lBegin + lNum` modulo the
  size; without it a push could overwrite the oldest value. The refinement maps `items` to the
  `lNum` slots from `lBegin` on; the lemmas compute what `Append` and `Tail` do to that sequence.
* `MemMangerProofs`: `TypeCorrect`, `LabelsCorrect`, `UsedCorrect`, `Refinement` (the scan implements
  `Allocator`). The inductive invariant `Inv` joins the three invariants with `ScanInv`: the
  thread in the loop holds the lock, and no start before `i` would have done. Each branch of the loop
  keeps that (`ScanGoesOn`): a start that is passed has a unit in use in its run. `RoomForRun` shows that the
  counter never refuses what fits, by comparing the units in use with the units outside the run; it rests on
  `UsedExact`, that the counter is the number of units in use, which no run checks on its own because a wrong counter breaks `FirstFit`.
* `DispatchProofs`: `TypeCorrect`. `TypeOK` alone is not inductive: where a list thread and a server
  thread are bounds what they do next, so `TypeInv` adds, per list, that group and server are within its
  layout whenever it pushes, and per server thread that it has a field whenever its place says so.
  The second part of the module is about the data fields: `FreeFieldsAreUnused`, `RefCountIsExact`, `FieldsDoNotLeak`,
  `VerifiesAfterData`, `CarriedOutInOrder`, each with the hypothesis `AllGroups`, which says that every group of the layout is an ALL group;
  the configurations of `MCDispatchLists` and `MCDispatchSharedResult` have such layouts. It is needed: the thread of a MOD
  group reads fields it has freed, and with few fields these theorems are false of it (section 5). The inductive
  invariant `FieldInv` counts for every field its `Users`: the server threads that have it on their queue or in hand and those
  it is still to be pushed to. A field is free and has none, or `m_FreeSymbole` is their number, so that `FreeAField` by
  anyone but the last leaves it, and by the last returns its memory (`MemInv`). Order and the check at the end follow
  from a second invariant, over the numbers of the commands: what a queue holds is increasing and ahead of what its server carried out.
* `ServerProofs`: `TypeCorrect`, `OneOwnerCorrect`. The two need each other: an md5 thread finds a name in
  its slot because nobody else writes that slot, and owners are counted in well-typed rings. `Inv` adds
  `NamesGiven` (a slot on its way to a thread has a name), `RequestPending` (a CLOSE or CHECK_MD5 in progress
  is still the request its client waits for) and `OpenFilesExist` (what a FILE* writes to exists, under the name
  it has since a rename). `SlotsKept` disposes of the many steps that move no slot; the four that
  move one each have a lemma, over `AppendHas` and `TailHas`, which say what the rings then hold.
  `EveryCloseIsHashed` and the two theorems about files are in the same module, over `SentInv` (nothing holds a block of a version
  that is still to come) and `JobsInv` (`JobsMatch`, and a thread works under the name that was handed over).
  A request the machine fails is one step with the same few effects as the one it replaces: `FileWritten` says what any write leaves of a `.df`, `InstallFailsStep` and
  `OrderlyNotInstalled` what a check whose rename failed does. `RejectsAreRight` needs `OrderlyInv`: in the orderly case a job or a file that is being hashed is closed and
  passed by the sender, so that a `.md5` is the one of the `.df` beside it or both are of an earlier transfer.
  `InstalledFilesAreWhole` is the conjunction of that with `LossfreeInv`, where checks and jobs come in any order but nothing is
  lost or fails: an open file has exactly the blocks that were sent, and whoever has the md5 of the whole file has it of a `.df` that is whole.
* `UpdateCycleProofs`: `TypeCorrect`, `ServiceStays`, `UpdatesAreCounted`, `NobodyIsForgotten`, `EndIsLast`, for any number of
  machines, brokers, rounds and losses; of the configuration only that the bases are different machines, none of
  which is monitored. `Inv` says what each position of a program implies: the bases behind it have `UpdateService` (`HeldBehind`), the
  lists behind it were taken (`TakenBehind`), each `AllUpdate` that is there or still to be created is paid for by a round or an unanswered
  request (`Charged`), and whoever still has `UpdateService` will be asked to remove it, or was reported (`Watched`).
* `ServerRequestsProofs`: no theorem of its own; for each request of a data server what it does to files, `FILE*`s and md5 jobs
  (`Opens`, `Writes`, `Closes`, `Installs`, ...), for any kind of blocks, and that the machine stays well-formed:
  data under the names of files, names under those of lists, and each `FILE*` on a file of its kind.
  `NamesAssumption` says that files and lists have different names; with a list named like a file the program mixes their `.df` and
  list contents, and so would the model.
* `WorkClientProofs`: `TypeCorrect`, `KillReachesAll`, `NamesStay`, `InstalledWhenSent`, for either kind of server, with any number of
  clients, lists, files, processes and faults. The assumptions are about what clients are asked to do (`SessionsAssumption`): a request
  that names a single file names the final name of one, because with `removeFile` on a list, or on what the server keeps beside a
  file, these properties are false of the program; a list that is sent names a file; and `NoFile` and `Empty` are not contents.
  One lemma per request (`OpenServed`, `CheckServed`, ...) says for every outcome of it what became of the file it is about,
  and that it is `Spared` if the request is not about it; one about `After` (`AfterEffect`) says what the client does next. `NamesKept` needs `ListsInv`, that a client past
  its START is alone with its list, which has no name until its END; the names are then in the list or in its `.dftmp`. `SentIsInstalled` needs `CleanInv`:
  what a clean client is sending has a `.df` and no leftovers until the CLOSE (`Fresh`), then its md5, or jobs that will
  write it, are of that very `.df` (`Waiting`), or it is `Installed`, because the answer to the check was lost; and the files of a list that
  are behind it are `Installed`, with no `FILE*` left that could write to them (`Unbound`). No other client, md5 thread or restart changes that. A client whose check
  was answered although the rename failed is `unrenamed`, and nothing is claimed for it until its next command. `KillReaches` rests on `m_mapProcPid` having an entry for every child
  there is (`Registered`), which ends, reaped pids and foreign processes under such pids leave true: entries are only ever too many.
* `ListTransferProofs`: `TypeCorrect`, `CountComesToRest`, `FinishedListIsInstalled`, `ModFilesArrive` and `SkippedFilesWereSent`, for every
  list, any sequence of ALL and MOD groups, and any number of lists, losses and crashes.
  The client is typed without looking at the servers (`ClientInv`), the
  servers then with the commands the client can queue (`Inv`). That the count rests at 0 is about the END of each group:
  `LeftBehindEnds` says that a group the list thread has left behind has the END as the last thing on its way, and
  `CountPending` that a count that is not 0 after the last group still has somebody on their way to reset it.
  The other three are about files. What is still to be carried out for a group is one sequence, `Pending`: the command at hand, then the queue.
  `KnownInv` adds to `Inv` that this sequence is made of whole OPEN, WRITE, CLOSE runs but for the part of the first one that is done, with data of
  lists that were begun (`ShapeInv`), that the `FILE*` of a file is of its `.df` or of what that was renamed to (`HandlesInv`), and what each
  stage of the list thread implies (`ThreadInv`). Every step is one of the few `Moves` a group sees: commands are pushed at the end of `Pending`,
  the first is carried out, repeated or given up, a check is answered, an md5 thread or a restart of the server changes the machine alone, or a crash
  of the client forgets what is pending. The invariants over `Pending` have one lemma per move.
  `FinishedIsInstalled` needs `FreshInv`, that the file of a WRITE that comes next was opened and has no `.md5` nor a job for one;
  `SentInv`, that a file sent to an ALL group is still to be filled, or whole and hashed or installed unless a rename failed, and that its local md5 is of this
  list; and `PassedInv`, that the groups the thread has left are settled. `ModArrives` needs no check: a file the thread is past is pending or there, unless a rename failed (`ModInv`).
  `SkipsOnlySent` needs more than the state of each file, because the count is one number for all: `Ordered` numbers the
  CLOSEs on their way by the line of the list they are for, in increasing order and all above the count, so that the count passes no file
  that is neither closed nor held (`KeptInv`), even where a crash makes the thread begin again behind the count; and `Md5Inv`, that the local md5s are of this
  list, so that a file is only left to a check it would pass. Beside `NamesAssumption` there is one assumption that is not
  about the bounds: `ContentsAssumption`, that no content equals a missing file or an empty `.md5`.

Model-checked only:

* liveness under fairness, which is beyond the prover: `ScanReturns`, `ListsFinish`, `CloseReturns`, `BacklogDrains`,
  `CommandsReturn`, `UpdaterEnds`, `MonitorEnds`;
* `FieldsKeptUnlessReread` and `OrderedUnlessReread`, the properties of `Dispatch` where there are MOD groups.

Every other invariant and action property of a passing run is the subject of a theorem, those of `Dispatch` about fields, order and
verification for layouts without MOD groups.

## 7. What is not modelled

`PROJECT.json` lists every part with the reason. In short: parsing of lists, XML and arguments,
logging and formats (no interesting state); tinyxml and the binary network library
(third party, modelled by what callers see); the delayed text messages, which no program starts; the stand-alone verifier, a loop
around one request; md5 of files above 6 MB, which covers only the first part and
the size, so that a block lost and another duplicated would pass the check.

Errors of the machine that no module takes: an md5 thread that cannot open the `.df` leaves no `.md5`, which is as if its job were lost at a
restart; `fclose` that fails to write what was buffered, which the code does not look at; a `remove` that fails; a list file that cannot be
renamed at the client or at the end of a list; the write of the 32 characters of a `.md5`; a `kill` that is refused (-2, no permission) and `getMD5` of a `.md5` that cannot be read (-3).
`ServerRequests` takes a WRITE to reach the file whole or not at all; only `ServerWork` has the parts of a block. In `ListTransfer` a lost answer and
an error of the machine do not meet in one request of the server threads, while they do in a check and, one after the other, everywhere.
A process that is not a child of the server vanishes as soon as it is killed or ends.

## 8. Plan

1. Done: `QueEvent`, `MemManger`, `MainControl` with `Dispatch`, `ServerFiles` with `ServerWork`; `ServerRequests` and `IsBrokerWork`
   with `WorkClient`, `UpdateCycle` and `ListTransfer`.
2. Done: proofs of every invariant and action property of the passing runs.
3. `ListTransfer` as an implementation of an abstract transfer of a list, and several servers in a group there.
4. The stand-alone verifier beside a running transfer.
