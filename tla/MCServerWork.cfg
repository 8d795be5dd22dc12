SPECIFICATION FairSpec
CONSTANTS
  Files <- TwoFiles
  NFiles = 2
  MaxChunks = 2
  Threads = {t1, t2}
  MaxFileNum = 1
  MaxTry = 2
  MaxRuns = 1
  MaxLost = 2
  MaxRestarts = 1
  NoFile = NoFile
  Empty = Empty
  Closed = Closed
INVARIANTS
  TypeOK
  JobsMatch
PROPERTIES
  CloseReturns
  BacklogDrains
