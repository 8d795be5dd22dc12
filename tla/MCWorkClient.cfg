SPECIFICATION FairSpec
CONSTANTS
  f1 = f1
  f2 = f2
  l1 = l1
  Files = {f1, f2}
  Lists <- OneList
  Programs = {1, 2}
  Pids = {1, 2}
  Threads = {t1, t2}
  NoFile = NoFile
  Empty = Empty
  Garbage = Garbage
  Closed = Closed
  Gone = Gone
  NoProcess = NoProcess
  Clients = {c1, c2}
  MaxChunks = 1
  Sessions <- SixSessions
  MaxFaults = 2
INVARIANTS
  TypeOK
  NamesKept
PROPERTIES
  SentIsInstalled
  KillReaches
  CommandsReturn
CHECK_DEADLOCK FALSE
